----------------------------- MODULE MCContents -----------------------------
(***************************************************************************)
(* Lines, texts and numbers that are put together from pieces.             *)
(***************************************************************************)
EXTENDS TokenContents

Pieces(pieces, n) == {FlattenSeq(s) : s \in BoundedSeq(pieces, n)}

LinePieces ==
  {<<"a">>, <<" ">>, <<"@">>, <<"{">>, <<"}">>, <<"\\">>, <<"*">>, <<"/">>, <<"wide">>,
   <<"@", "t">>, <<"@", "l">>}
SmallPieces == {<<"a">>, <<"@", "t">>, <<"@", "l", " ">>, <<"{", "a", "}">>, <<" ">>}

(* The lines that the lexer hands over: an only line is not empty, the     *)
(* first one does not begin with an asterisk, those before the last one do *)
(* not end in a blank, and none holds what ends the comment.               *)
FromTheLexer(ls) ==
  /\ ls # <<<<>>>>
  /\ ls[1] # <<>> => ls[1][1] # "*"
  /\ \A i \in 1..Len(ls) - 1 : ls[i] # <<>> => Last(ls[i]) # " "
  /\ \A i \in DOMAIN ls : \A k \in 1..Len(ls[i]) - 1 : SubSeq(ls[i], k, k + 1) # <<"*", "/">>

MCComments ==
  {ls \in
     {<<l>> : l \in Pieces(LinePieces, 3) \cup Pieces({<<"a">>, <<"{">>, <<"}">>, <<"\\">>, <<"@", "l">>}, 4)}
       \cup {<<k, l>> : k \in Pieces(SmallPieces, 2), l \in Pieces(SmallPieces, 3)}
       \cup {<<<<"a">>, <<>>, l>> : l \in Pieces({<<"a">>, <<"*">>, <<" ">>}, 3)}
       \cup {<<<<"TAB", c, "a">>>> : c \in {"astral", "latin", "TAB"}}
       \cup {<<<<c, "TAB", "a">>>> : c \in {"astral", "latin", "NUL"}} :
   FromTheLexer(ls)}
MCBlockTags == {<<"t">>}
MCInlineTags == {<<"l">>}

TextPieces ==
  {<<"a">>, <<"&">>, <<";">>, <<"l", "t">>, <<"#">>, <<"x">>, <<"3", "8">>, <<"&", "a", "m", "p">>,
   <<"NUL">>, <<"2", "0", "9", "7", "2", "1", "7">>}
MCTexts == Pieces(TextPieces, 3) \cup Pieces({<<"a">>, <<"&">>, <<";">>, <<"l", "t">>, <<"#", "3", "8">>}, 5)
             \cup {<<"&", "#">> \o n \o <<";", "l", "t", ";">> :
                      n \in {<<"x">>, <<"x", "2", "6">>, <<"0">>, <<"2", "0", "9", "7", "2", "1", "7">>,
                            <<"x", "D", "8", "0", "0">>, <<"x", "1", "F", "6", "0", "0">>}}
MCWrap == 2097152

NumberPieces == {"0", "1", "9", "_", ".", "e", "-", "n", "x", "b", "o"}
MCNumbers ==
  {s \in BoundedSeq(NumberPieces, 4) : s # <<>> /\ s[1] \in DecimalDigit}
    \cup {<<d, "e">> \o s : d \in {"1", "9"}, s \in BoundedSeq({"1", "9", "-", "+"}, 4)}
    \cup {<<d, ".", "9", "e">> \o s : d \in {"1", "9"}, s \in BoundedSeq({"1", "9", "-", "+"}, 4)}
    \cup {<<"0", "x">> \o s : s \in BoundedSeq({"b", "f", "0", "n"}, 4)}
MCHexWrap == 256

(* Punctuation in families that share characters, and words behind `@`.    *)
(* `<` stands before no name and no `>`.                                   *)
MCScripts ==
  {s \in BoundedSeq({"<", "=", ">"}, 4) \cup BoundedSeq({"&", "|", "=", "^"}, 3)
           \cup BoundedSeq({"*", "+", "-", "%", "!", "="}, 3)
           \cup BoundedSeq({"?", ".", "=", "name", "["}, 3)
           \cup BoundedSeq({"(", ")", ",", ":", ";", "{", "}", "]", "~", "#"}, 2)
           \cup BoundedSeq({"@", " ", "newline", "async"}, 5)
           \cup {p \o <<w>> : w \in ScriptWord, p \in {<<>>, <<"@">>, <<"#">>, <<"@", " ">>}} :
     \A k \in 1..Len(s) - 1 :
       /\ s[k] = "<" => s[k + 1] # ">"
       /\ ~ {s[k], s[k + 1]} \subseteq ScriptWord}
MCVersions == {es3, es5, es2015, es2022}

(* Code points of one to six bytes, the smallest and the largest of their  *)
(* size among them, and stray bytes; the buffer has 7 in place of 4096.    *)
Points == {65, 181, 12449, 128512}
Boundaries == {0, 127, 128, 2047, 2048, 65535, 65536, 2097151, 2097152, 67108863, 67108864, 2147483647}
Stray == {-128, -195, -226, -255}

MCSources ==
  BoundedSeq(Points, 3) \cup {<<b>> : b \in Boundaries}
    \cup {<<b, c>> : b \in Boundaries, c \in {65, 12449}}
    \cup {<<65, b>> : b \in Boundaries}
    \cup {<<b, c>> : b \in Stray, c \in Points} \cup {<<65, b, c>> : b \in Stray, c \in Points \cup Stray}
=============================================================================
