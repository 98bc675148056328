---------------------------- MODULE RegexScanner ----------------------------
(***************************************************************************)
(* tsccore::regex::scan: the recursive descent that turns the body of a    *)
(* regular expression into a tree of disjunctions.  The calls in progress  *)
(* are frames on a stack, one for each disjunction that is being read.     *)
(* Positions count from 1; the offset of the code is one less.             *)
(***************************************************************************)
EXTENDS CodePoints, SequencesExt

CONSTANT SizeMax  \* std::numeric_limits<std::size_t>::max()

ASSUME SizeMaxAssumption == SizeMax \in Nat \ {0}

VARIABLES
  input,    \* the text that is scanned
  pos,      \* the next character of it
  frames,   \* the disjunctions being read, the innermost last
  class,    \* the character class being read, or none
  outcome   \* what the scan ended with

scannerVars == <<input, pos, frames, class, outcome>>

(* A disjunction holds no alternative, one in place, or a vector of them.  *)
EmptyDisjunction == [index |-> 0]

AddAlternative(d, a) ==
  CASE d.index = 0 -> [index |-> 1, one |-> a]
    [] d.index = 1 -> [index |-> 2, many |-> <<d.one, a>>]
    [] d.index = 2 -> [d EXCEPT !.many = Append(@, a)]

GetAlternatives(d) ==
  CASE d.index = 0 -> <<>>
    [] d.index = 1 -> <<d.one>>
    [] d.index = 2 -> d.many

(* A disjunction being read: the group around it, the alternatives that    *)
(* are complete and the terms of the one that is not.                      *)
Frame(type, name) ==
  [type |-> type, name |-> name, disjunction |-> EmptyDisjunction, terms |-> <<>>]
---------------------------------------------------------------------------
(* The tree: terms are assertions, or atoms with a quantifier.             *)

BuiltinClass  == {".", "w", "W", "d", "D", "s", "S"}
AssertionType == {"^", "$", "b", "B"}
Prefix        == {"*", "+", "?"}

CharacterAtom(c) == [kind |-> "character", char |-> c]
BuiltinAtom(b)   == [kind |-> "builtin", builtin |-> b]
ClassAtom(c) ==
  [kind |-> "class", negated |-> c.negated, characters |-> c.characters, ranges |-> c.ranges]
GroupAtom(type, name, d) == [kind |-> "group", type |-> type, name |-> name, disjunction |-> d]

Assertion(type)     == [kind |-> "assertion", type |-> type]
Term(atom, q)       == [kind |-> "atom", atom |-> atom, quantifier |-> q]
NoQuantifier        == [kind |-> "none"]
PrefixQuantifier(p) == [kind |-> "prefix", prefix |-> p]
MinMax(low, high)   == [kind |-> "range", min |-> low, max |-> high]

(* Of the exceptions of error.hpp these are thrown.                        *)
ErrorCode ==
  {"invalid_regular_expression", "unterminated_regular_expression_literal",
   "unterminated_character_class", "invalid_escape_sequence", "invalid_character_class_range"}

---------------------------------------------------------------------------
NoClass    == [reading |-> FALSE, negated |-> FALSE, characters |-> {}, ranges |-> <<>>]
Reading    == [kind |-> "reading"]
Accepted(d) == [kind |-> "accepted", disjunction |-> d]
Rejected(code, at) == [kind |-> code, offset |-> at - 1]

At(i) == IF i \in 1..Len(input) THEN input[i] ELSE Eof

(* The first position from i on whose character is not in S.               *)
RunEnd(i, S) == CHOOSE j \in i..i + Len(input) :
                  /\ At(j) \notin S
                  /\ \A k \in i..j - 1 : At(k) \in S

StartScan(text) ==
  /\ input' = text /\ pos' = 1 /\ class' = NoClass
  /\ frames' = <<Frame("pattern", <<>>)>>
  /\ outcome' = Reading

---------------------------------------------------------------------------
(* What is read without recursion: escapes, quantifiers, groups' heads.    *)

Number(digits) ==
  FoldLeft(LAMBDA value, d : (10 * value + DigitValue(d)) % (SizeMax + 1), 0, digits)

(* \xHH and \uHHHH are exactly two and four digits.                        *)
HexEscape(i, size) ==
  LET end == RunEnd(i, HexDigit)
  IN  IF end >= i + size
      THEN [char |-> CharOf(FoldLeft(LAMBDA v, d : 16 * v + DigitValue(d), 0,
                                     SubSeq(input, i, i + size - 1))),
            next |-> i + size]
      ELSE [error |-> "invalid_escape_sequence", at |-> end]

Escape(i) ==
  LET c == At(i)
  IN  CASE c = "x" -> HexEscape(i + 1, 2)
        [] c = "u" -> HexEscape(i + 1, 4)
        [] OTHER -> [char |-> CASE c = "n" -> "LF" [] c = "r" -> "CR" [] c = "t" -> "TAB"
                                [] c = "f" -> "FF" [] c = "v" -> "VT" [] c = "0" -> "NUL"
                                [] OTHER -> c,
                     next |-> i + 1]

IsError(read) == "error" \in DOMAIN read

Quantifier(i) ==
  LET c     == At(i)
      e1    == RunEnd(i + 1, DecimalDigit)
      low   == Number(SubSeq(input, i + 1, e1 - 1))
      e2    == RunEnd(e1 + 1, DecimalDigit)
      open  == At(e1) = "," /\ At(e1 + 1) = "}"
      high  == CASE At(e1) # "," -> low
                 [] open -> SizeMax
                 [] OTHER -> Number(SubSeq(input, e1 + 1, e2 - 1))
      close == IF At(e1) # "," THEN e1 ELSE IF open THEN e1 + 1 ELSE e2
  IN  CASE c \in Prefix -> [quantifier |-> PrefixQuantifier(c), next |-> i + 1]
        [] c = "{" /\ At(close) = "}" ->
             [quantifier |-> MinMax(low, high), next |-> close + 1]
        [] c = "{" /\ At(close) # "}" ->
             [error |-> "invalid_regular_expression", at |-> close]
        [] OTHER -> [quantifier |-> NoQuantifier, next |-> i]

(* A group's type and name.  A name without a > is forgotten.              *)
GroupHead(i) ==
  LET c == At(i + 1)
      close == RunEnd(i + 3, Character \ {">", Eof})
  IN  CASE c # "?" -> [type |-> "capturing", name |-> <<>>, next |-> i + 1]
        [] c = "?" /\ At(i + 2) = ":" -> [type |-> "non_capturing", name |-> <<>>, next |-> i + 3]
        [] c = "?" /\ At(i + 2) = "=" ->
             [type |-> "positive_lookahead", name |-> <<>>, next |-> i + 3]
        [] c = "?" /\ At(i + 2) = "!" ->
             [type |-> "negative_lookahead", name |-> <<>>, next |-> i + 3]
        [] c = "?" /\ At(i + 2) = "<" /\ At(i + 3) = "=" ->
             [type |-> "positive_lookbehind", name |-> <<>>, next |-> i + 4]
        [] c = "?" /\ At(i + 2) = "<" /\ At(i + 3) = "!" ->
             [type |-> "negative_lookbehind", name |-> <<>>, next |-> i + 4]
        [] c = "?" /\ At(i + 2) = "<" /\ At(i + 3) \notin {"=", "!"} ->
             IF At(close) = ">"
             THEN [type |-> "capturing", name |-> <<SubSeq(input, i + 3, close - 1)>>,
                   next |-> close + 1]
             ELSE [type |-> "capturing", name |-> <<>>, next |-> close]
        [] OTHER -> [error |-> "invalid_regular_expression", at |-> i + 2]

---------------------------------------------------------------------------
(* The steps of the descent.                                               *)

Scanning == outcome.kind = "reading"
Fail(code, at) ==
  outcome' = Rejected(code, at) /\ UNCHANGED <<input, pos, frames, class>>

Top == Last(frames)
WithTop(f) == [frames EXCEPT ![Len(frames)] = f]

AddTerm(stack, term) ==
  [stack EXCEPT ![Len(stack)].terms = Append(@, term)]

(* scan_term: an atom takes the quantifier that follows it.                *)
AddAtom(stack, atom, i) ==
  LET q == Quantifier(i)
  IN  IF IsError(q) THEN Fail(q.error, q.at)
      ELSE /\ frames' = AddTerm(stack, Term(atom, q.quantifier))
           /\ pos' = q.next /\ class' = NoClass
           /\ UNCHANGED <<input, outcome>>

AtTerm == Scanning /\ ~ class.reading /\ At(pos) \notin {"|", ")", Eof}
AtBoundary == At(pos) = "\\" /\ At(pos + 1) \in {"b", "B"}

ScanAssertion ==
  /\ AtTerm
  /\ \/ /\ At(pos) \in AssertionType \ {"b", "B"}
        /\ frames' = AddTerm(frames, Assertion(At(pos)))
        /\ pos' = pos + 1
     \/ /\ AtBoundary
        /\ frames' = AddTerm(frames, Assertion(At(pos + 1)))
        /\ pos' = pos + 2
  /\ UNCHANGED <<input, class, outcome>>

(* scan_atom of a character or a builtin class.                            *)
ScanCharacter ==
  /\ AtTerm /\ At(pos) \notin {"^", "$", "[", "(", "\\"}
  /\ IF At(pos) \in {"*", "+", "?", "{", "}"}
     THEN Fail("invalid_regular_expression", pos)
     ELSE AddAtom(frames, IF At(pos) = "." THEN BuiltinAtom(".") ELSE CharacterAtom(At(pos)), pos + 1)

ScanEscape ==
  /\ AtTerm /\ At(pos) = "\\" /\ ~ AtBoundary
  /\ IF At(pos + 1) \in BuiltinClass \ {"."}
     THEN AddAtom(frames, BuiltinAtom(At(pos + 1)), pos + 2)
     ELSE LET e == Escape(pos + 1)
          IN  IF IsError(e) THEN Fail(e.error, e.at)
              ELSE AddAtom(frames, CharacterAtom(e.char), e.next)

OpenGroup ==
  /\ AtTerm /\ At(pos) = "("
  /\ LET head == GroupHead(pos)
     IN  IF IsError(head) THEN Fail(head.error, head.at)
         ELSE /\ frames' = Append(frames, Frame(head.type, head.name))
              /\ pos' = head.next
              /\ UNCHANGED <<input, class, outcome>>

(* scan_disjunction: the alternative is complete, another one begins.      *)
EndAlternative(f) == AddAlternative(f.disjunction, f.terms)

NextAlternative ==
  /\ Scanning /\ ~ class.reading /\ At(pos) = "|"
  /\ frames' = WithTop([Top EXCEPT !.disjunction = EndAlternative(Top), !.terms = <<>>])
  /\ pos' = pos + 1
  /\ UNCHANGED <<input, class, outcome>>

(* The end of scan_group, at the parenthesis or at the end of the input.   *)
CloseGroup ==
  /\ Scanning /\ ~ class.reading /\ Len(frames) > 1 /\ At(pos) \in {")", Eof}
  /\ IF At(pos) = Eof THEN Fail("unterminated_regular_expression_literal", pos + 1)
     ELSE AddAtom(Front(frames), GroupAtom(Top.type, Top.name, EndAlternative(Top)), pos + 1)

(* The end of the outermost disjunction; what follows it is not looked at. *)
EndPattern ==
  /\ Scanning /\ ~ class.reading /\ Len(frames) = 1 /\ At(pos) \in {")", Eof}
  /\ outcome' = Accepted(EndAlternative(Top))
  /\ UNCHANGED <<input, pos, frames, class>>

OpenClass ==
  /\ AtTerm /\ At(pos) = "["
  /\ LET negated == At(pos + 1) = "^"
     IN  /\ class' = [NoClass EXCEPT !.reading = TRUE, !.negated = negated]
         /\ pos' = IF negated THEN pos + 2 ELSE pos + 1
  /\ UNCHANGED <<input, frames, outcome>>

(* Mutant: a backslash in a class stands for itself.                       *)
ClassCharacterPlain(i) == [char |-> At(i), next |-> i + 1]

(* One character of a class, which may be an escape.                       *)
ClassCharacter(i) ==
  IF At(i) = "\\" THEN Escape(i + 1) ELSE [char |-> At(i), next |-> i + 1]

(* Mutant: a range that is the wrong way round is passed over, and looked  *)
(* at again.                                                               *)
AddRangeAgain(start, i) ==
  LET end == ClassCharacter(i)
  IN  CASE IsError(end) -> Fail(end.error, end.at)
        [] ~ IsError(end) /\ Code[start] > Code[end.char] -> UNCHANGED scannerVars
        [] OTHER -> /\ class' = [class EXCEPT !.ranges = Append(@, <<start, end.char>>)]
                    /\ pos' = end.next
                    /\ UNCHANGED <<input, frames, outcome>>

AddRange(start, i) ==
  LET end == ClassCharacter(i)
  IN  CASE IsError(end) -> Fail(end.error, end.at)
        [] ~ IsError(end) /\ Code[start] > Code[end.char] ->
             Fail("invalid_character_class_range", end.next)
        [] OTHER -> /\ class' = [class EXCEPT !.ranges = Append(@, <<start, end.char>>)]
                    /\ pos' = end.next
                    /\ UNCHANGED <<input, frames, outcome>>

(* One iteration of scan_character_class.                                  *)
ClassItem ==
  /\ Scanning /\ class.reading /\ At(pos) \notin {"]", Eof}
  /\ LET start == ClassCharacter(pos)
         dash  == At(start.next) = "-"
     IN  CASE IsError(start) -> Fail(start.error, start.at)
           [] ~ IsError(start) /\ dash /\ At(start.next + 1) # "]" ->
                AddRange(start.char, start.next + 1)
           [] OTHER ->
                /\ class' = [class EXCEPT !.characters =
                               @ \cup {start.char} \cup (IF dash THEN {"-"} ELSE {})]
                /\ pos' = IF dash THEN start.next + 1 ELSE start.next
                /\ UNCHANGED <<input, frames, outcome>>

CloseClass ==
  /\ Scanning /\ class.reading /\ At(pos) \in {"]", Eof}
  /\ IF At(pos) = Eof THEN Fail("unterminated_character_class", pos)
     ELSE AddAtom(frames, ClassAtom(class), pos + 1)

ScanStep ==
  \/ ScanAssertion \/ ScanCharacter \/ ScanEscape
  \/ OpenGroup \/ NextAlternative \/ CloseGroup \/ EndPattern
  \/ OpenClass \/ ClassItem \/ CloseClass
=============================================================================
