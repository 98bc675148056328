--------------------------- MODULE NumberLiteral ---------------------------
(***************************************************************************)
(* A number on its way through the lexer, a character at a time: the       *)
(* prefix chooses a scanner, that one collects digits and separators, the  *)
(* constant_value_token takes the value, and what an integer token prints  *)
(* is scanned again.  Of a decimal number the integers are modelled from   *)
(* which its value is calculated.                                          *)
(***************************************************************************)
EXTENDS CodePoints, Integers, FiniteSets, SequencesExt

CONSTANTS
  Numbers, \* the texts, each with a digit first
  HexWrap  \* 2^32: scan_hex_number collects its value in a char32_t

ASSUME HexWrapAssumption == HexWrap \in Nat \ {0}

VARIABLES
  number,   \* the text
  taken,       \* the offset that was advanced to
  reading,  \* the scanner, and the part it is at; or what came of it
  separator,\* last_was_separator, prior_was_separator
  digits,   \* how many digits the scanner has
  parts,    \* the integers of the token
  token     \* the tokens that were scanned

numberVars == <<number, taken, reading, separator, digits, parts, token>>

Zero == [value |-> 0, base |-> 10, numerator |-> 0, numerator_e |-> 0,
         fraction |-> FALSE, exponent |-> 0, sign |-> 1, scientific |-> FALSE, big_int |-> FALSE]

NumberIdle ==
  /\ number = <<>> /\ taken = 0 /\ reading = "idle" /\ separator = FALSE /\ digits = 0
  /\ parts = Zero /\ token = <<>>

NumberInit ==
  /\ number \in Numbers
  /\ taken = 0 /\ reading = "prefix" /\ separator = FALSE /\ digits = 0 /\ parts = Zero /\ token = <<>>

At(i) == IF i < Len(number) THEN number[i + 1] ELSE Eof
Here == At(taken)
Octal == DecimalDigit \ {"8", "9"}

(* is_hex_digit compares with U'8': a 9 is no digit.                       *)
DigitOf(base) ==
  CASE base = 2 -> {"0", "1"} [] base = 8 -> Octal [] base = 10 -> DecimalDigit
    [] base = 16 -> HexDigit \ {"9"}

Go(part, n) == reading' = part /\ taken' = taken + n
Refuse == reading' = "refused" /\ UNCHANGED <<number, taken, separator, digits, parts, token>>

Prefixed == Here = "0" /\ At(taken + 1) \in {"x", "b", "o"} \cup Octal
BaseOf(c) == CASE c = "x" -> 16 [] c = "b" -> 2 [] OTHER -> 8

(* The case of a digit in scan().                                          *)
Prefix ==
  /\ reading = "prefix"
  /\ LET second == At(taken + 1)
     IN  \/ ~ Prefixed /\ Go("decimal", 0) /\ UNCHANGED parts
         \/ /\ Prefixed
            /\ IF second \in Octal THEN Go("legacy", 1) ELSE Go("based", 2)
            /\ parts' = [parts EXCEPT !.base = BaseOf(second)]
  /\ UNCHANGED <<number, separator, digits, token>>

Collecting == reading \in {"decimal", "based", "legacy"}

Separator ==
  /\ Collecting /\ Here = "_"
  /\ IF separator \/ digits = 0 THEN Refuse
     ELSE /\ Go(reading, 1) /\ separator' = TRUE
          /\ UNCHANGED <<number, digits, parts, token>>

(* Beyond the width of a long long the result is undefined.                *)
Collected(p, d) ==
  [p EXCEPT !.value = IF p.base = 16 THEN (@ * 16 + d) % HexWrap ELSE @ * p.base + d]

CollectDigit ==
  /\ Collecting /\ Here \in DigitOf(parts.base)
  /\ parts' = Collected(parts, DigitValue(Here))
  /\ Go(reading, 1) /\ separator' = FALSE /\ digits' = digits + 1
  /\ UNCHANGED <<number, token>>

(* scan_octal_number bails out on an 8 or a 9: behind a prefix that is an  *)
(* error, behind a 0 the number is decimal from here.                      *)
BailOnDecimal ==
  /\ Collecting /\ parts.base = 8 /\ Here \in DecimalDigit \ Octal
  /\ IF reading = "based" THEN Refuse
     ELSE /\ reading' = "decimal" /\ taken' = 1 /\ parts' = Zero /\ digits' = 0 /\ separator' = FALSE
          /\ UNCHANGED <<number, token>>

AtEndOfDigits == Here # "_" /\ Here \notin DigitOf(parts.base)

(* Only the scanners to base 10 and 8 notice a separator before a          *)
(* character that is no digit; a legacy octal counts its first digit twice,*)
(* and at the end of the text it is advanced over by one more.             *)
EndBased ==
  /\ reading \in {"based", "legacy"} /\ AtEndOfDigits
  /\ ~ (parts.base = 8 /\ Here \in DecimalDigit)
  /\ IF (separator /\ (parts.base = 8 \/ Here = Eof)) \/ digits = 0
     THEN Refuse
     ELSE /\ Go("suffix", IF reading = "legacy" THEN 1 ELSE 0)
          /\ UNCHANGED <<number, separator, digits, parts, token>>

EndInteger ==
  /\ reading = "decimal" /\ AtEndOfDigits
  /\ CASE separator -> Refuse
       [] ~ separator /\ Here = "." ->
            /\ Go("fraction", 1) /\ parts' = [parts EXCEPT !.fraction = TRUE]
            /\ UNCHANGED <<number, separator, digits, token>>
       [] ~ separator /\ Here = "e" ->
            Go("sign", 1) /\ UNCHANGED <<number, separator, digits, parts, token>>
       [] OTHER -> Go("suffix", 0) /\ UNCHANGED <<number, separator, digits, parts, token>>

Fraction ==
  /\ reading = "fraction"
  /\ CASE Here \in DecimalDigit ->
            /\ Go("fraction", 1)
            /\ parts' = [parts EXCEPT !.numerator = @ * 10 + DigitValue(Here), !.numerator_e = @ - 1]
            /\ UNCHANGED <<number, separator, digits, token>>
       [] Here \in {".", "_"} -> Refuse
       [] Here = "e" -> Go("sign", 1) /\ UNCHANGED <<number, separator, digits, parts, token>>
       [] OTHER -> Go("end", 0) /\ UNCHANGED <<number, separator, digits, parts, token>>

(* The sign goes into the first digit of the exponent.                     *)
Sign ==
  LET signed == Here \in {"+", "-"}
      sign == IF Here = "-" THEN -1 ELSE 1
      first == At(IF signed THEN taken + 1 ELSE taken)
  IN  /\ reading = "sign"
      /\ IF first \notin DecimalDigit THEN Refuse
         ELSE /\ Go("exponent", IF signed THEN 2 ELSE 1)
              /\ parts' = [parts EXCEPT !.scientific = TRUE, !.sign = sign,
                                        !.exponent = sign * DigitValue(first)]
              /\ UNCHANGED <<number, separator, digits, token>>

(* Mutant: the sign is that of the first digit only, fraction or not.      *)
NextExponentUnsigned(p, d) == p.exponent * 10 + d

(* Behind a fraction the sign is left out of the further digits.           *)
NextExponent(p, d) == p.exponent * 10 + (IF p.fraction THEN d ELSE p.sign * d)

Exponent ==
  /\ reading = "exponent"
  /\ CASE Here \in DecimalDigit ->
            /\ Go("exponent", 1)
            /\ parts' = [parts EXCEPT !.exponent = NextExponent(parts, DigitValue(Here))]
            /\ UNCHANGED <<number, separator, digits, token>>
       [] Here = "_" -> Refuse
       [] OTHER -> Go("end", 0) /\ UNCHANGED <<number, separator, digits, parts, token>>

Suffix ==
  /\ reading = "suffix" /\ taken <= Len(number)
  /\ Go("end", IF Here = "n" THEN 1 ELSE 0)
  /\ parts' = [parts EXCEPT !.big_int = (Here = "n")]
  /\ UNCHANGED <<number, separator, digits, token>>

(* The suffix is looked for behind the end: next_code_point then computes  *)
(* a size that is an underflow, and does not return.                       *)
SuffixBehind ==
  /\ reading = "suffix" /\ taken > Len(number)
  /\ Go("crashed", 0)
  /\ UNCHANGED <<number, separator, digits, parts, token>>

---------------------------------------------------------------------------
(* constant_value_token::to_string, for integers.                          *)

DigitChar == <<"0", "1", "2", "3", "4", "5", "6", "7", "8", "9", "a", "b", "c", "d", "e", "f">>
InBase(n, base) ==
  LET size == CHOOSE k \in 1..31 : (k = 1 \/ base ^ (k - 1) <= n) /\ n < base ^ k
  IN  [i \in 1..size |-> DigitChar[1 + ((n \div base ^ (size - i)) % base)]]

PrefixOf(base) ==
  CASE base = 2 -> <<"0", "b">> [] base = 8 -> <<"0", "o">> [] base = 16 -> <<"0", "x">> [] base = 10 -> <<>>

(* Mutant: the n of a bigint is left out.                                  *)
PrintedSmall(p) == PrefixOf(p.base) \o InBase(p.value, p.base)

Printed(p) == PrefixOf(p.base) \o InBase(p.value, p.base) \o (IF p.big_int THEN <<"n">> ELSE <<>>)

IsInteger(p) == ~ p.fraction /\ ~ p.scientific

PrintNumber ==
  /\ reading = "end" /\ token = <<>> /\ IsInteger(parts)
  /\ token' = <<parts>> /\ number' = Printed(parts)
  /\ reading' = "prefix" /\ taken' = 0 /\ separator' = FALSE /\ digits' = 0 /\ parts' = Zero

NumberNext ==
  \/ Prefix \/ Separator \/ CollectDigit \/ BailOnDecimal \/ EndBased \/ EndInteger
  \/ Fraction \/ Sign \/ Exponent \/ Suffix \/ SuffixBehind \/ PrintNumber

NumberDone ==
  \/ reading \in {"refused", "crashed"}
  \/ reading = "end" /\ (token # <<>> \/ ~ IsInteger(parts))

---------------------------------------------------------------------------

(* Offsets of a text in which only "_" is not a digit, and what they mean. *)
Value(i, j, base) ==
  LET places == {k \in i..j - 1 : At(k) # "_"}
      behind(k) == Cardinality({o \in places : o > k})
  IN  MapThenSumSet(LAMBDA k : DigitValue(At(k)) * base ^ behind(k), places)

(* Where the run of digits behind the prefix begins and ends.  A 0 before  *)
(* an 8 or a 9 is left out, which does not change what is meant.           *)
FirstPlace == CASE number[1] = "0" /\ At(1) \in {"x", "b", "o"} -> 2
          [] OTHER -> 0
EndPlace == CHOOSE j \in FirstPlace..Len(number) :
           /\ At(j) \notin (DigitOf(parts.base) \cup {"_"})
           /\ \A k \in FirstPlace..j - 1 : At(k) \in (DigitOf(parts.base) \cup {"_"})

(* The exponent that the text has, in front of taken.                      *)
FirstOfExponent ==
  taken - CHOOSE n \in 1..taken : /\ At(taken - n - 1) \notin DecimalDigit
                                  /\ \A k \in (taken - n)..(taken - 1) : At(k) \in DecimalDigit
WrittenExponent ==
  LET first == FirstOfExponent
  IN  (IF At(first - 1) = "-" THEN -1 ELSE 1) * Value(first, taken, 10)

(* An integer token, and the integral part of a decimal one, mean what the *)
(* digits of the text mean in the base that the prefix names, however they *)
(* are separated; a hexadecimal number is cut off at 32 bits.  The exponent*)
(* is the one that the text has, with its sign, but for a negative one of  *)
(* several digits behind a fraction.                                       *)
NumberMeaning ==
  reading = "end" =>
    /\ parts.value = IF parts.base = 16 THEN Value(FirstPlace, EndPlace, 16) % HexWrap
                                        ELSE Value(FirstPlace, EndPlace, parts.base)
    /\ parts.scientific =>
         \/ parts.exponent = WrittenExponent
         \/ parts.fraction /\ parts.sign = -1 /\ taken - FirstOfExponent > 1

(* Characters says where the lexer takes a number to end.  It knows one    *)
(* character of a kind.                                                    *)
Ahead == INSTANCE Characters
Kind == [c \in Character |->
           CASE c \in Octal \ {"0", "1"} -> "7"
             [] c \in {"a", "c", "d", "f"} -> "b"
             [] c \in {"0", "1", "8", "9", "b", "e", "x", "o", "n", "_", ".", "+", "-"} -> c
             [] OTHER -> "other"]
LexerEnd == Ahead!NumberEnd([k \in DOMAIN number |-> Kind[number[k]]], 0)

(* A number is refused, or ends, where the model of the lexer has it that  *)
(* knows no values: in the text, but for a legacy octal at its end, behind *)
(* which the suffix is read.  What an integer token prints is a number as  *)
(* a whole, and the same one.                                              *)
NumberReadsBack ==
  /\ reading = "refused" => LexerEnd = Ahead!Refused /\ token = <<>>
  /\ reading = "end" => LexerEnd = taken /\ taken <= Len(number)
  /\ reading = "crashed" => LexerEnd = taken /\ taken = Len(number) + 1 /\ token = <<>>
  /\ (reading = "end" /\ token # <<>>) => parts = token[1] /\ taken = Len(number)
=============================================================================
