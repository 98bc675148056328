----------------------------- MODULE CodePoints -----------------------------
(***************************************************************************)
(* Characters and their code points: those of ASCII that some scanner      *)
(* looks at, and three others that stand for the rest of Unicode: "latin"  *)
(* for U+0080 to U+00FF, "wide" for the code points of up to 16 bits, the  *)
(* low byte of which may be a blank, and "astral" for those beyond.        *)
(***************************************************************************)
EXTENDS Naturals, Sequences

Eof == "end of input"  \* EOF_CHAR, the largest char32_t

(* The printable characters of ASCII; the first is U+0020.                 *)
Printable ==
  <<" ", "!", "\"", "#", "$", "%", "&", "'", "(", ")", "*", "+", ",", "-", ".", "/",
    "0", "1", "2", "3", "4", "5", "6", "7", "8", "9", ":", ";", "<", "=", ">", "?",
    "@", "A", "B", "C", "D", "E", "F", "G", "H", "I", "J", "K", "L", "M", "N", "O",
    "P", "Q", "R", "S", "T", "U", "V", "W", "X", "Y", "Z", "[", "\\", "]", "^", "_",
    "backtick", "a", "b", "c", "d", "e", "f", "g", "h", "i", "j", "k", "l", "m", "n", "o",
    "p", "q", "r", "s", "t", "u", "v", "w", "x", "y", "z", "{", "|", "}", "~">>

Others == [c \in {"NUL", "TAB", "LF", "VT", "FF", "CR", "latin", "wide", "astral", Eof} |->
             CASE c = "NUL" -> 0 [] c = "TAB" -> 9 [] c = "LF" -> 10
               [] c = "VT" -> 11 [] c = "FF" -> 12 [] c = "CR" -> 13
               [] c = "latin" -> 233 [] c = "wide" -> 288 [] c = "astral" -> 128512
               [] c = Eof -> 2147483647]

Character == {Printable[i] : i \in DOMAIN Printable} \cup DOMAIN Others

Code == [c \in Character |->
           IF c \in DOMAIN Others THEN Others[c]
           ELSE 31 + CHOOSE i \in DOMAIN Printable : Printable[i] = c]

(* The character of a code point, or the one that stands for it.           *)
CharOf(code) ==
  CASE \E c \in Character : Code[c] = code -> CHOOSE c \in Character : Code[c] = code
    [] (\A c \in Character : Code[c] # code) /\ code <= 255 -> "latin"
    [] (\A c \in Character : Code[c] # code) /\ code \in 256..65535 -> "wide"
    [] OTHER -> "astral"

DecimalDigit == {"0", "1", "2", "3", "4", "5", "6", "7", "8", "9"}
HexDigit == DecimalDigit \cup {"a", "b", "c", "d", "e", "f", "A", "B", "C", "D", "E", "F"}

DigitValue(d) ==
  IF d \in DecimalDigit THEN Code[d] - Code["0"]
  ELSE 10 + (IF Code[d] >= Code["a"] THEN Code[d] - Code["a"] ELSE Code[d] - Code["A"])
=============================================================================
