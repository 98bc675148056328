------------------------------ MODULE MCLexer ------------------------------
(***************************************************************************)
(* Every text of a few fragments, in three families: constructs that nest, *)
(* literals and names, and what is counted in lines.                       *)
(***************************************************************************)
EXTENDS LexerSafety

Longer(texts, fragments) == texts \cup {t \o f : t \in texts, f \in fragments}
OfTwo(fragments) == Longer(Longer({<<>>}, fragments), fragments)
OfThree(fragments) == Longer(OfTwo(fragments), fragments)
OfFour(fragments) == Longer(OfThree(fragments), fragments)

Constructs ==
  {<<"backtick">>, <<"$", "{">>, <<"{">>, <<"}">>, <<"<", "a">>, <<">">>,
   <<"<", "/", "a", ">">>, <<" ", "b">>, <<"=">>, <<"\"">>, <<"\n">>, <<"\r">>, <<"/">>}
Templates == {<<"backtick">> \o t : t \in OfFour({<<"backtick">>, <<"$", "{">>, <<"{">>, <<"}">>})}
Tags == {<<"<", "a", " ">> \o t : t \in OfThree(Constructs)}
Elements ==
  {<<"<", "a">> \o a \o <<">">> \o b \o <<"<", "/", "a", ">">> :
     a \in OfThree({<<" ", "b", "=">>, <<"{">>, <<"}">>, <<"\"">>, <<" ", "/", ">">>}),
     b \in OfTwo({<<"{">>, <<"}">>, <<"backtick">>, <<"<", "a", " ", "/", ">">>})}

Literals ==
  {<<"'">>, <<"\\">>, <<"u">>, <<"1", "b">>, <<"0">>, <<"x">>, <<"_">>, <<"n">>,
   <<".">>, <<"8", "e">>, <<"/">>, <<"@">>, <<"#">>, <<"other">>}
(* Backslashes at the end of a template.                                   *)
Unfinished == {<<"backtick">> \o t \o <<"\\">> : t \in OfTwo({<<"a">>, <<"\\">>, <<"$">>})}
Escapes ==
  {q \o <<"\\">> \o e \o q :
     q \in {<<"'">>, <<>>}, e \in OfThree({<<"u">>, <<"x">>, <<"{">>, <<"}">>, <<"b", "1">>, <<"0", "1">>})}

Lines ==
  {<<"a">>, <<" ">>, <<"\n">>, <<"\r">>, <<"/", "*">>, <<"*", "/">>, <<"/", "/">>, <<"*">>,
   <<"\\">>, <<"#", "!">>, <<"=", "=", "=", "=", "=", "=", "=">>,
   <<"<", "<", "<", "<", "<", "<", "<">>, <<"'">>}

Jsdocs ==
  {<<"/", "*", "*">> \o t \o <<"*", "/">> : t \in OfThree({<<"{">>, <<"}">>, <<"a">>, <<"\n">>})}

Texts ==
  {[text |-> t, language_variant |-> "jsx"] : t \in OfThree(Constructs) \cup Tags \cup Templates \cup Elements}
  \cup {[text |-> t, language_variant |-> "ts"] :
          t \in OfThree(Literals) \cup Escapes \cup Unfinished \cup OfThree(Lines) \cup Jsdocs}

(* Comments behind other tokens.                                           *)
Comments ==
  {[text |-> t \o <<"/", "*", " ", "a", "*", "/">>, language_variant |-> "ts"] :
     t \in OfTwo({<<" ">>, <<"a", "b">>, <<"'", "a", "'">>, <<",">>})}
===========================================================================
