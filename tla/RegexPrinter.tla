---------------------------- MODULE RegexPrinter ----------------------------
(***************************************************************************)
(* to_string and string_size of a regular expression's tree, and what else *)
(* is asked of a tree.  Only for model checking: trees are walked by       *)
(* recursive operators.                                                    *)
(***************************************************************************)
EXTENDS RegexScanner

Terms(d) == FlattenSeq(GetAlternatives(d))

SumOf(s, f(_)) == FoldLeft(LAMBDA n, x : n + f(x), 0, s)
Printed(s, f(_)) == FlattenSeq([i \in DOMAIN s |-> f(s[i])])

Escaped == [c \in {"LF", "CR", "TAB", "FF", "VT", "NUL"} |->
              CASE c = "LF" -> "n" [] c = "CR" -> "r" [] c = "TAB" -> "t"
                [] c = "FF" -> "f" [] c = "VT" -> "v" [] c = "NUL" -> "0"]

(* A character with the backslash it needs among those of plain.           *)
PrintChar(c, special) ==
  CASE c \in special -> <<"\\", c>>
    [] c \in DOMAIN Escaped -> <<"\\", Escaped[c]>>
    [] OTHER -> <<c>>

AtomSpecial == {".", "*", "+", "?", "^", "$", "|", "(", ")", "[", "]", "{", "}", "\\", "/"}
ClassSpecial == {"]", "\\", "-"}

(* Mutant: the dash of a class is written as it is.                        *)
PrintClassCharBare(c) == PrintChar(c, {"]", "\\"})

PrintClassChar(c) == PrintChar(c, ClassSpecial)

CharacterClassToString(class_) ==
  LET chars == SetToSortSeq(class_.characters, LAMBDA a, b : Code[a] < Code[b])
  IN  <<"[">> \o (IF class_.negated THEN <<"^">> ELSE <<>>)
        \o Printed(chars, PrintClassChar)
        \o Printed(class_.ranges, LAMBDA r : PrintClassChar(r[1]) \o <<"-">> \o PrintClassChar(r[2]))
        \o <<"]">>

CharacterClassStringSize(class_) ==
  LET size(c) == IF c \in ClassSpecial \cup DOMAIN Escaped THEN 2 ELSE 1
  IN  2 + (IF class_.negated THEN 1 ELSE 0)
        + SumOf(SetToSeq(class_.characters), size)
        + SumOf(class_.ranges, LAMBDA r : size(r[1]) + 1 + size(r[2]))

RECURSIVE Decimal(_)
Decimal(n) ==
  (IF n < 10 THEN <<>> ELSE Decimal(n \div 10))
    \o <<CHOOSE d \in DecimalDigit : DigitValue(d) = n % 10>>

(* count_digits: the powers of ten up to the value, from threshold on; the *)
(* loop breaks off before it would multiply past SizeMax.                  *)
RECURSIVE DigitsFrom(_, _)
DigitsFrom(value, threshold) ==
  CASE value < threshold -> 0
    [] value >= threshold /\ threshold > SizeMax \div 10 -> 1
    [] OTHER -> 1 + DigitsFrom(value, 10 * threshold)

CountDigits(value) == IF value = 0 THEN 1 ELSE DigitsFrom(value, 1)

QuantifierToString(q) ==
  CASE q.kind = "none" -> <<>>
    [] q.kind = "prefix" -> <<q.prefix>>
    [] q.kind = "range" ->
         <<"{">> \o Decimal(q.min)
           \o (CASE q.max = SizeMax -> <<",">>
                 [] q.max # SizeMax /\ q.min # q.max -> <<",">> \o Decimal(q.max)
                 [] OTHER -> <<>>)
           \o <<"}">>

(* Mutant: the comma of {min,} is not counted.                             *)
QuantifierStringSizeShort(q) ==
  CASE q.kind = "none" -> 0
    [] q.kind = "prefix" -> 1
    [] q.kind = "range" /\ q.max \in {SizeMax, q.min} -> 2 + CountDigits(q.min)
    [] OTHER -> 3 + CountDigits(q.min) + CountDigits(q.max)

QuantifierStringSize(q) ==
  CASE q.kind = "none" -> 0
    [] q.kind = "prefix" -> 1
    [] q.kind = "range" /\ q.max = SizeMax -> 3 + CountDigits(q.min)
    [] q.kind = "range" /\ q.max # SizeMax /\ q.min = q.max -> 2 + CountDigits(q.min)
    [] OTHER -> 3 + CountDigits(q.min) + CountDigits(q.max)

(* group::to_string writes the two kinds of lookbehind as each other.      *)
GroupPrefix(g) ==
  CASE g.name # <<>> -> <<"?", "<">> \o g.name[1] \o <<">">>
    [] g.name = <<>> /\ g.type = "non_capturing" -> <<"?", ":">>
    [] g.name = <<>> /\ g.type = "positive_lookahead" -> <<"?", "=">>
    [] g.name = <<>> /\ g.type = "negative_lookahead" -> <<"?", "!">>
    [] g.name = <<>> /\ g.type = "negative_lookbehind" -> <<"?", "<", "=">>
    [] g.name = <<>> /\ g.type = "positive_lookbehind" -> <<"?", "<", "!">>
    [] OTHER -> <<>>

(* What group::string_size counts before the disjunction.                  *)
GroupBaseline(g) ==
  CASE g.name # <<>> -> 5 + Len(g.name[1])
    [] g.name = <<>> /\ g.type \in {"non_capturing", "positive_lookahead", "negative_lookahead"} -> 4
    [] g.name = <<>> /\ g.type \in {"negative_lookbehind", "positive_lookbehind"} -> 5
    [] OTHER -> 12

AssertionToString(a) == IF a.type \in {"b", "B"} THEN <<"\\", a.type>> ELSE <<a.type>>

RECURSIVE DisjunctionToString(_), DisjunctionStringSize(_)

AtomToString(a) ==
  CASE a.kind = "character" -> PrintChar(a.char, AtomSpecial)
    [] a.kind = "builtin" -> IF a.builtin = "." THEN <<".">> ELSE <<"\\", a.builtin>>
    [] a.kind = "class" -> CharacterClassToString(a)
    [] a.kind = "group" -> <<"(">> \o GroupPrefix(a) \o DisjunctionToString(a.disjunction) \o <<")">>

AtomStringSize(a) ==
  CASE a.kind = "character" -> IF a.char \in AtomSpecial \cup DOMAIN Escaped THEN 2 ELSE 1
    [] a.kind = "builtin" -> 2
    [] a.kind = "class" -> CharacterClassStringSize(a)
    [] a.kind = "group" -> GroupBaseline(a) + DisjunctionStringSize(a.disjunction)

TermToString(t) ==
  IF t.kind = "assertion" THEN AssertionToString(t)
  ELSE AtomToString(t.atom) \o QuantifierToString(t.quantifier)

TermStringSize(t) ==
  IF t.kind = "assertion" THEN Len(AssertionToString(t))
  ELSE AtomStringSize(t.atom) + QuantifierStringSize(t.quantifier)

DisjunctionToString(d) ==
  LET s == GetAlternatives(d)
  IN  FlattenSeq([i \in DOMAIN s |-> (IF i > 1 THEN <<"|">> ELSE <<>>)
                                       \o Printed(s[i], TermToString)])

DisjunctionStringSize(d) ==
  LET sum == SumOf(GetAlternatives(d), LAMBDA terms : SumOf(terms, TermStringSize) + 1)
  IN  IF sum = 0 THEN 0 ELSE sum - 1

---------------------------------------------------------------------------
(* Questions about a tree.                                                 *)

(* The atoms of the tree, at any depth.                                    *)
RECURSIVE Atoms(_)
Atoms(d) ==
  Printed(Terms(d), LAMBDA t :
    CASE t.kind = "assertion" -> <<>>
      [] t.kind = "atom" /\ t.atom.kind = "group" -> <<t.atom>> \o Atoms(t.atom.disjunction)
      [] OTHER -> <<t.atom>>)

(* The tree without the difference between the two kinds of lookbehind.    *)
RECURSIVE Unsided(_)
Unsided(d) ==
  LET type(g) == IF g.type \in {"negative_lookbehind", "positive_lookbehind"} THEN "lookbehind" ELSE g.type
      term(t) ==
        IF t.kind = "atom" /\ t.atom.kind = "group"
        THEN [t EXCEPT !.atom.type = type(t.atom), !.atom.disjunction = Unsided(@)]
        ELSE t
      terms(s) == [i \in DOMAIN s |-> term(s[i])]
  IN  CASE d.index = 0 -> d
        [] d.index = 1 -> [d EXCEPT !.one = terms(@)]
        [] d.index = 2 -> [d EXCEPT !.many = [i \in DOMAIN @ |-> terms(@[i])]]
=============================================================================
