------------------------------ MODULE MCRegex ------------------------------
(***************************************************************************)
(* Literals put together from pieces: groups and alternatives, classes,    *)
(* escapes and quantifiers, and flags.                                     *)
(***************************************************************************)
EXTENDS RegexLiteral

(* Up to n pieces one behind the other, the closing slash, and an end.     *)
Bodies(pieces, n) == {FlattenSeq(s) : s \in BoundedSeq(pieces, n)}
Closed(bodies, ends) == {b \o <<"/">> \o e : b \in bodies, e \in ends}

GroupPieces ==
  {<<"a">>, <<"(">>, <<")">>, <<"|">>, <<"*">>, <<"(", "?", "<", "!">>, <<"(", "?", "<", "=">>,
   <<"(", "?", "<", "b", ">">>}
ClassPieces == {<<"[">>, <<"*">>, <<"]">>, <<"^">>, <<"-">>, <<"\\">>, <<"/">>, <<"a">>}
AtomPieces ==
  {<<"\\">>, <<"x">>, <<"6">>, <<"1">>, <<"{">>, <<"}">>, <<",">>, <<"=">>, <<"b">>}
OtherPieces ==
  {<<"(", "?", ":">>, <<"(", "?", "=">>, <<"(", "?", "!">>, <<"(", "?", "+">>,
   <<"(", "?", "<">>, <<")">>, <<".">>, <<"\\", "n">>, <<"\\", "d">>, <<"$">>, <<"LF">>}

FlagEnds == {<<>>} \cup BoundedSeq({"g", "s", "u", "v", "y"}, 3)
              \cup {<<"q">>, <<"i", "m">>, <<"g", "1">>, <<"g", " ">>, <<"1">>}

(* The lexer looks for a literal only where no //, /* or /= stands.        *)
MCLiterals ==
  {t \in Closed(Bodies(GroupPieces, 4) \cup {<<"[">> \o b : b \in Bodies(ClassPieces, 4)}
                  \cup Bodies(AtomPieces, 4) \cup Bodies(OtherPieces, 2), {<<>>})
           \cup Closed({<<"a">>}, FlagEnds) \cup {<<"a">>, <<"a", "\\">>} :
     t[1] \notin {"/", "*", "="}}
MCVersions == {1, 99}
=============================================================================
