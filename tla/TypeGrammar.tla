---------------------------- MODULE TypeGrammar -----------------------------
(***************************************************************************)
(* The language of type aliases that the type states are to recognise, and *)
(* the agreement of the parser with it on texts without line breaks.       *)
(***************************************************************************)
EXTENDS Transcript

(* A type longer than this does not fit behind `type A =`.                 *)
LOCAL MaxType == MaxTokens - 3

LOCAL Seq_(parts) == All(parts, MaxType)
LOCAL Separated_(item, separator) == List(item, Word(separator), MaxType)

(* The types whose parentheses and type arguments hold types of `inner`:   *)
(* [|] intersection (| intersection)*, of [&] postfix (& postfix)*, of a   *)
(* primary type followed by [] any number of times.                        *)
LOCAL TypeName ==
  Seq_(<<AnyOf({"identifier"}), Star(Seq_(<<Word("dot"), AnyOf(Identifier)>>), MaxType)>>)
LOCAL Arguments(inner) ==
  Seq_(<<Word("less"), Separated_(inner, "comma"), Word("greater")>>)
LOCAL Primary(inner) ==
  AnyOf(Constant \cup {"keyword_type", "boolean_literal", "this"})
  \cup Seq_(<<Word("minus"), AnyOf(Constant)>>)
  \cup Seq_(<<TypeName, Optional(Arguments(inner))>>)
  \cup Seq_(<<Word("open_paren"), inner, Word("close_paren")>>)
LOCAL Postfix(inner) ==
  Seq_(<<Primary(inner), Star(Seq_(<<Word("open_bracket"), Word("close_bracket")>>), MaxType)>>)
LOCAL Intersection(inner) ==
  Seq_(<<Optional(Word("ampersand")), Separated_(Postfix(inner), "ampersand")>>)
LOCAL TypesOver(inner) ==
  Seq_(<<Optional(Word("bar")), Separated_(Intersection(inner), "bar")>>)

TypeSentences ==
  LET Nested[depth \in 0 .. MaxType] ==
        IF depth = 0 THEN {} ELSE UNION {TypesOver(inner) : inner \in {Nested[depth - 1]}}
  IN  Nested[(MaxType + 1) \div 2]

(* < parameter (, parameter)* >, each with its variance, constraint and    *)
(* default; the code takes the last two in either order.                   *)
LOCAL Bounds(types) ==
  LET constraint == Seq_(<<Word("extends"), types>>)
      default    == Seq_(<<Word("eq"), types>>)
  IN  Seq_(<<Optional(constraint), Optional(default)>>) \cup Seq_(<<default, constraint>>)
LOCAL Parameter(types) ==
  Seq_(<<Optional(Word("in")), Optional(Word("out")), AnyOf(Identifier), Bounds(types)>>)
LOCAL Parameters(types) ==
  Seq_(<<Word("less"), Separated_(Parameter(types), "comma"), Word("greater")>>)

LOCAL AliasesOf(types) ==
  All(<<Word("type"), AnyOf(Identifier), Optional(Parameters(types)), Word("eq"), types>>,
      MaxTokens)
Aliases == UNION {AliasesOf(types) : types \in {TypeSentences}}

(* A text of aliases, each with its semicolon; the last one may end with   *)
(* the text instead.                                                       *)
LOCAL Terminated_(aliases) == Star(All(<<aliases, Word("semicolon")>>, MaxTokens), MaxTokens)
LOCAL TextsOf(aliases) ==
  All(<<Terminated_(aliases), Optional(aliases)>>, MaxTokens)

AliasTexts == UNION {TextsOf(aliases) : aliases \in {Aliases}}
AliasPrefixes == PrefixesOf(AliasTexts)

(* type_reference_state has no on_eof, and waits for more of the name or   *)
(* for type arguments: nothing is said of an alias that ends with the text *)
(* and with a name, and is refused.                                        *)
LOCAL RefusedBehindName ==
  pc = "thrown" /\ token_iter = EndOfText /\ consumed # <<>> /\ Last(consumed) \in Identifier

(* A file of type aliases parses exactly when it is in the language: every *)
(* sentence is accepted, with every nesting of unions, intersections,      *)
(* arrays, parentheses and type arguments, and nothing else is.            *)
AliasGrammar == RefusedBehindName \/ Agrees(AliasTexts, AliasPrefixes)
===========================================================================
