----------------------------- MODULE JsdocToken -----------------------------
(***************************************************************************)
(* tscc::lex::tokens::jsdoc_token: the lines of a comment are taken apart  *)
(* into strings, tags and types, and printed again by to_string.  What was *)
(* printed is then scanned, and taken apart, like any other comment.       *)
(***************************************************************************)
EXTENDS CodePoints, Integers, SequencesExt

CONSTANTS
  Comments,   \* the comments, as sequences of lines
  BlockTags,  \* the names of block_tags(), as sequences of letters
  InlineTags  \* those of inline_tags()

---------------------------------------------------------------------------
(* tscc::json_string_size and tscc::to_json_string, for one character at a *)
(* time: what is counted for it, and what is written.  A byte of UTF-8 is  *)
(* one character of the result.                                            *)

NoQuote == "none"  \* quote_char = 0

(* Half a surrogate pair is moved to the start of Unicode.                 *)
Unsurrogate(ch) == IF ch \in 55296..57343 THEN ch - 55296 ELSE ch

ControlLetter == [c \in {8, 9, 10, 12, 13} |->
                    CASE c = 8 -> "b" [] c = 9 -> "t" [] c = 10 -> "n" [] c = 12 -> "f" [] c = 13 -> "r"]

Counted(c, quote) ==
  LET ch == Unsurrogate(Code[c])
  IN  CASE c = quote -> 2
        [] c # quote /\ ch \in DOMAIN ControlLetter -> 2
        [] c # quote /\ ch <= 127 /\ ch \notin DOMAIN ControlLetter -> 1
        [] c # quote /\ ch \in 128..255 -> 2
        [] c # quote /\ ch \in 256..65535 -> 6
        [] OTHER -> 12

HexChars == <<"0", "1", "2", "3", "4", "5", "6", "7", "8", "9", "a", "b", "c", "d", "e", "f">>
UnicodeEscape(n) ==
  <<"\\", "u", HexChars[1 + (n \div 4096)], HexChars[1 + ((n \div 256) % 16)],
               HexChars[1 + ((n \div 16) % 16)], HexChars[1 + (n % 16)]>>

(* Behind a \uXXXX the loop goes on to write a pair, from what is left of  *)
(* the code point less 0x10000.                                            *)
Pair(ch) ==
  UnicodeEscape(55296 + (((ch - 65536) \div 1024) % 1024)) \o UnicodeEscape(56320 + ((ch - 65536) % 1024))

Written(c, quote) ==
  LET ch == Unsurrogate(Code[c])
  IN  CASE c = quote -> <<"\\", c>>
        [] c # quote /\ ch \in DOMAIN ControlLetter -> <<"\\", ControlLetter[ch]>>
        [] c # quote /\ ch <= 127 /\ ch \notin DOMAIN ControlLetter -> <<CharOf(ch)>>
        [] c # quote /\ ch \in 128..255 -> <<"lead byte", "trail byte">>
        [] c # quote /\ ch \in 256..65535 -> UnicodeEscape(ch) \o Pair(ch)
        [] OTHER -> Pair(ch)

Quotes(quote) == IF quote = NoQuote THEN <<>> ELSE <<quote>>

JsonStringSize(str, quote) ==
  FoldLeft(LAMBDA n, c : n + Counted(c, quote), 2 * Len(Quotes(quote)), str)

ToJsonString(str, quote) ==
  Quotes(quote) \o FlattenSeq([i \in DOMAIN str |-> Written(str[i], quote)]) \o Quotes(quote)

(* assert(wr + (quote_char ? 1 : 0) == size), at the end of to_json_string *)
AssertHolds(str, quote) == Len(ToJsonString(str, quote)) = JsonStringSize(str, quote)

---------------------------------------------------------------------------
VARIABLES
  comment_lines, \* the lines to be taken apart
  lines,         \* lines_, each a sequence of parts
  line,          \* the parts of the line in progress
  current,       \* what is left of it, a string_view
  at,            \* an offset into current
  escape,        \* whether a backslash came before
  current_value, \* the string in progress
  step,          \* where the constructor is
  printed        \* the first token, once it was printed

jsdocVars == <<comment_lines, lines, line, current, at, escape, current_value, step, printed>>

Blank == {" ", "TAB", "LF", "VT", "FF", "CR"}
Letter == {c \in Character : Code[c] \in (65..90) \cup (97..122)}

StringPart(s) == [type |-> "string_value", text |-> s]
TagPart(s)    == [type |-> "tag", text |-> ToJsonString(s, NoQuote)]
TypePart(s)   == [type |-> "type_parameter", text |-> s]

JsdocIdle ==
  /\ comment_lines = <<>> /\ lines = <<>> /\ line = <<>> /\ current = <<>> /\ at = 0
  /\ escape = FALSE /\ current_value = <<>> /\ step = "idle" /\ printed = <<>>

JsdocInit ==
  /\ comment_lines \in Comments
  /\ lines = <<>> /\ line = <<>> /\ current = <<>> /\ at = 0 /\ escape = FALSE
  /\ current_value = <<>> /\ step = "lines" /\ printed = <<>>

From(s, i) == SubSeq(s, i + 1, Len(s))

(* The first offset from i on whose character is not in S.                 *)
Past(s, i, S) == CHOOSE j \in i..Len(s) :
                   /\ j < Len(s) => s[j + 1] \notin S
                   /\ \A k \in i + 1..j : s[k] \in S

(* trim_right looks at the low byte of a character only.                   *)
TrimRight(s) ==
  LET kept == {i \in DOMAIN s : Code[s[i]] % 256 \notin {9, 10, 11, 12, 13, 32}}
  IN  SubSeq(s, 1, IF kept = {} THEN 0 ELSE CHOOSE i \in kept : \A k \in kept : k <= i)

(* The string in progress becomes a part, if there is one.                 *)
Flushed == IF current_value = <<>> THEN line ELSE Append(line, StringPart(TrimRight(current_value)))

CommentLine == comment_lines[Len(lines) + 1]

BeginLine ==
  /\ step = "lines" /\ Len(lines) < Len(comment_lines)
  /\ LET l == CommentLine
     IN  current' = From(l, Past(l, Past(l, 0, Blank), {"*"}))
  /\ line' = <<>> /\ escape' = FALSE /\ current_value' = <<>> /\ step' = "parts"
  /\ UNCHANGED <<comment_lines, lines, at, printed>>

BeginPart ==
  /\ step = "parts" /\ current # <<>>
  /\ current' = From(current, Past(current, 0, Blank))
  /\ at' = 0 /\ step' = "scan"
  /\ UNCHANGED <<comment_lines, lines, line, escape, current_value, printed>>

EndLine ==
  /\ step = "parts" /\ current = <<>>
  /\ lines' = Append(lines, Flushed)
  /\ line' = <<>> /\ current_value' = <<>> /\ step' = "lines"
  /\ UNCHANGED <<comment_lines, current, at, escape, printed>>

(* Mutant: at the end of the line there is nothing left, and no exception. *)
LeaveClipped(end) ==
  /\ step' = "parts" /\ at' = end
  /\ current' = IF end > Len(current) THEN <<>> ELSE From(current, end)

(* current.substr(at), behind the loop: it throws when at is past the end. *)
Leave(end) ==
  IF end > Len(current)
  THEN step' = "out_of_range" /\ UNCHANGED <<current, at>>
  ELSE step' = "parts" /\ current' = From(current, end) /\ at' = end

EndPart ==
  /\ step = "scan" /\ at >= Len(current)
  /\ Leave(at)
  /\ UNCHANGED <<comment_lines, lines, line, escape, current_value, printed>>

AtCharacter == step = "scan" /\ at < Len(current)

(* An escaped character is kept, and then read once more.                  *)
Escaped ==
  /\ AtCharacter /\ escape
  /\ escape' = FALSE /\ current_value' = Append(current_value, current[at + 1])
  /\ UNCHANGED <<comment_lines, lines, line, current, at, step, printed>>

(* std::isalpha of a character beyond a byte may be anything.              *)
TagEnds == {Past(current, at + 1, Letter), Past(current, at + 1, Letter \cup {"wide", "astral"})}
TagName(end) == SubSeq(current, at + 2, end)
IsBlockTag(end) == line = <<>> /\ current_value = <<>> /\ TagName(end) \in BlockTags
IsInlineTag(end) == TagName(end) \in InlineTags

Tag ==
  /\ AtCharacter /\ ~ escape /\ current[at + 1] = "@"
  /\ \E end \in TagEnds :
       /\ IsBlockTag(end) \/ IsInlineTag(end)
       /\ line' = Append(IF IsBlockTag(end) THEN line ELSE Flushed, TagPart(TagName(end)))
       /\ Leave(end)
  /\ current_value' = <<>>
  /\ UNCHANGED <<comment_lines, lines, escape, printed>>

TypeEnd == Past(current, at + 1, Character \ {"}"})
TypeName == SubSeq(current, at + 2, TypeEnd)

Type ==
  /\ AtCharacter /\ ~ escape /\ current[at + 1] = "{" /\ TypeName # <<>>
  /\ line' = Append(Flushed, TypePart(TypeName))
  /\ current_value' = <<>>
  /\ Leave(TypeEnd + 1)
  /\ UNCHANGED <<comment_lines, lines, escape, printed>>

(* Braces without a type: the closing one is kept.  At the end of a line   *)
(* it is the character behind the line.                                    *)
EmptyType ==
  /\ AtCharacter /\ ~ escape /\ current[at + 1] = "{" /\ TypeName = <<>>
  /\ current_value' = Append(current_value, IF TypeEnd < Len(current) THEN "}" ELSE "NUL")
  /\ at' = TypeEnd + 1
  /\ UNCHANGED <<comment_lines, lines, line, current, escape, step, printed>>

Plain ==
  /\ AtCharacter /\ ~ escape /\ current[at + 1] # "{"
  /\ current[at + 1] = "@" => \E end \in TagEnds : ~ IsBlockTag(end) /\ ~ IsInlineTag(end)
  /\ escape' = (current[at + 1] = "\\")
  /\ current_value' = Append(current_value, current[at + 1]) /\ at' = at + 1
  /\ UNCHANGED <<comment_lines, lines, line, current, step, printed>>

---------------------------------------------------------------------------
(* to_string.                                                              *)

Write(part) ==
  CASE part.type = "string_value" -> ToJsonString(part.text, NoQuote)
    [] part.type = "tag" -> <<"@">> \o part.text
    [] part.type = "type_parameter" -> <<"{">> \o ToJsonString(part.text, NoQuote) \o <<"}">>

WriteLine(parts) ==
  FlattenSeq([i \in DOMAIN parts |-> (IF i > 1 THEN <<" ">> ELSE <<>>) \o Write(parts[i])])

(* Mutant: parts are written one behind the other.                         *)
PrintLineTight(i) ==
  (IF i > 1 THEN <<"LF", " ", "*">> ELSE <<>>) \o (IF lines[i] # <<>> THEN <<" ">> ELSE <<>>)
    \o FlattenSeq([k \in DOMAIN lines[i] |-> Write(lines[i][k])])

PrintLine(i) ==
  (IF i > 1 THEN <<"LF", " ", "*">> ELSE <<>>) \o (IF lines[i] # <<>> THEN <<" ">> ELSE <<>>)
    \o WriteLine(lines[i])

(* The asterisk of an empty last line is the one that ends the comment, and*)
(* of an only line that is empty the second one that begins it.            *)
to_string ==
  IF lines = <<>> THEN <<>>
  ELSE <<"/", "*", "*">> \o FlattenSeq([i \in DOMAIN lines |-> PrintLine(i)])
         \o (IF Last(lines) # <<>> THEN <<" ", "*">> ELSE <<>>) \o <<"/">>

(* The bytes of a code point are one character to the lexer.               *)
FromUtf8(s) ==
  LET kept == SelectSeq(s, LAMBDA c : c # "trail byte")
  IN  [i \in DOMAIN kept |-> IF kept[i] = "lead byte" THEN "latin" ELSE kept[i]]

(* The lexer takes a comment for a jsdoc comment by its first three        *)
(* characters, and by a fourth one that is no asterisk.  What stands before*)
(* the first closing of it are the lines.                                  *)
BeginsJsdoc(s) == Len(s) > 3 /\ SubSeq(s, 1, 3) = <<"/", "*", "*">> /\ s[4] # "*"
Closings(s) == {i \in 4..Len(s) - 1 : s[i] = "*" /\ s[i + 1] = "/"}
Closed(s) == BeginsJsdoc(s) /\ Closings(s) # {}

(* A line loses the blanks at its end, but for the last one.               *)
TrimEnd(l) ==
  LET kept == {i \in DOMAIN l : l[i] \notin Blank}
  IN  SubSeq(l, 1, IF kept = {} THEN 0 ELSE CHOOSE i \in kept : \A k \in kept : k <= i)

LinesOf(s) ==
  LET body == SubSeq(s, 4, (CHOOSE i \in Closings(s) : \A k \in Closings(s) : i <= k) - 1)
      after(ls, c) == IF c = "LF" THEN Append(Front(ls) \o <<TrimEnd(Last(ls))>>, <<>>)
                      ELSE Front(ls) \o <<Append(Last(ls), c)>>
  IN  IF body = <<>> THEN <<>> ELSE FoldLeft(after, <<<<>>>>, body)

PrintToken ==
  /\ step = "lines" /\ Len(lines) = Len(comment_lines) /\ printed = <<>>
  /\ printed' = <<lines>> /\ lines' = <<>>
  /\ LET text == FromUtf8(to_string)
     IN  IF Closed(text)
         THEN comment_lines' = LinesOf(text) /\ UNCHANGED step
         ELSE comment_lines' = <<>> /\ step' = "unterminated"
  /\ UNCHANGED <<line, current, at, escape, current_value>>

JsdocNext ==
  \/ BeginLine \/ BeginPart \/ EndLine \/ EndPart
  \/ Escaped \/ Tag \/ Type \/ EmptyType \/ Plain \/ PrintToken

JsdocDone ==
  \/ step \in {"out_of_range", "unterminated"}
  \/ step = "lines" /\ Len(lines) = Len(comment_lines) /\ printed # <<>>

---------------------------------------------------------------------------

Indented(l) == From(l, Past(l, Past(l, 0, Blank), {"*"}))

Unclosed(l) == \E i \in DOMAIN l : l[i] = "{" /\ \A k \in i..Len(l) : l[k] # "}"

(* The text of a line, read with braces and backslashes in mind only: the  *)
(* brace that opens {} is dropped, and what a backslash escapes is doubled.*)
Reading(l) ==
  LET after(r, i) ==
        LET c == l[i]
            doubled == IF r.escaped THEN <<c>> ELSE <<>>
        IN  CASE r.inType -> [r EXCEPT !.text = Append(@, c), !.inType = (c # "}")]
              [] ~ r.inType /\ c = "{" /\ i < Len(l) /\ l[i + 1] = "}" ->
                   [r EXCEPT !.text = @ \o doubled, !.escaped = FALSE]
              [] OTHER -> [text |-> r.text \o doubled \o <<c>>, inType |-> c = "{",
                           escaped |-> c = "\\"]
  IN  FoldLeftDomain(after, [text |-> <<>>, inType |-> FALSE, escaped |-> FALSE], l).text

RawText(part) ==
  CASE part.type = "string_value" -> part.text
    [] part.type = "tag" -> <<"@">> \o part.text
    [] part.type = "type_parameter" -> <<"{">> \o part.text \o <<"}">>

Visible(s) == SelectSeq(s, LAMBDA c : c \notin Blank \cup {"wide"})

(* The parts of a line hold its text in order: no tag or type swallows     *)
(* what stands before or behind it, and only blanks are lost.  Where a     *)
(* brace is opened and not closed there are none: there, and only there,   *)
(* the constructor throws std::out_of_range, which is none of the lexer's  *)
(* errors.                                                                 *)
TextKept ==
  /\ step = "lines" => \A i \in DOMAIN lines :
       Visible(FlattenSeq([k \in DOMAIN lines[i] |-> RawText(lines[i][k])]))
         = Visible(Reading(Indented(comment_lines[i])))
  /\ step = "lines" => \A i \in DOMAIN lines : ~ Unclosed(Indented(comment_lines[i]))
  /\ step = "out_of_range" => Unclosed(Indented(CommentLine))

(* A string is read back as it is if JSON escapes none of it, and neither  *)
(* a backslash nor a tag is in it: trim_right may uncover one.             *)
Plainly(text) ==
  /\ ToSet(text) \subseteq (ToSet(Printable) \ {"\\"}) \cup {"latin"}
  /\ \A i \in DOMAIN text :
       text[i] = "@" => SubSeq(text, i + 1, Past(text, i, Letter))
                          \notin InlineTags \cup (IF i = 1 THEN BlockTags ELSE {})

Simple(parts) ==
  /\ \A k \in DOMAIN parts : parts[k].text # <<>> /\ Plainly(parts[k].text)
  /\ parts # <<>> => Head(Write(parts[1])) # "*"

(* A token that is printed is again a comment that ends, and read again the*)
(* same token, unless one of its parts was left empty, is not read back as *)
(* it is, or is an asterisk at the start of a line.  Of a single line that *)
(* is empty nothing is said: what is printed of it does not end.           *)
JsdocReadsBack ==
  (printed # <<>> /\ \A i \in DOMAIN printed[1] : Simple(printed[1][i]))
    => /\ step # "out_of_range"
       /\ step = "unterminated" => printed[1] = <<<<>>>>
       /\ (step = "lines" /\ Len(lines) = Len(comment_lines)) => lines = printed[1]

(* The assertion at the end of to_json_string, on every part that a token  *)
(* prints.                                                                 *)
JsonAssertion ==
  \A i \in DOMAIN lines : \A k \in DOMAIN lines[i] : AssertHolds(lines[i][k].text, NoQuote)
=============================================================================
