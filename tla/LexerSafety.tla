---------------------------- MODULE LexerSafety ----------------------------
(***************************************************************************)
(* What the lexer promises: properties of tscc::lex::lexer.                *)
(***************************************************************************)
EXTENDS Lexer

Location == {"call", "scan", "string", "template_start", "template", "identifier",
             "private_identifier", "jsx_element", "jsx_name", "jsx_name_ended",
             "jsx_attribute", "jsx_attribute_space", "jsx_value", "jsx_text_start",
             "jsx_text", "suffix", "end", "thrown", "crashed"}

(* Every variable of the lexer keeps its type: the contexts are those of   *)
(* lexer_context, and offsets and line numbers are unsigned.               *)
LexerTypeOK ==
  /\ source \in [text : Seq(Char), language_variant : {"ts", "jsx"}]
  /\ offset \in Nat /\ line \in [current_line_number : Nat, line_start_offset : Nat]
  /\ pnewline \in BOOLEAN /\ force_identifier \in BOOLEAN /\ resets \in BOOLEAN
  /\ context_stack \in Seq([context : Context, name : Seq(Char)])
  /\ wbuffer \subseteq Int
  /\ pc \in Location

---------------------------------------------------------------------------
(* The context stack.                                                      *)

ContextAt(k) == context_stack[k].context

MayStandIn(outer) ==
  CASE outer \in Code                -> {"in_nested_brace", "in_template_literal", "in_jsx_element"}
    [] outer = "in_template_literal" -> {"in_template_expression"}
    [] outer = "in_jsx_element"      -> {"in_jsx_attribute", "in_jsx_text"}
    [] outer = "in_jsx_attribute"    -> {"in_jsx_expression"}
    [] OTHER                         -> {"in_jsx_expression", "in_jsx_element"}

(* The context stack nests as the constructs do: an attribute and a text   *)
(* stand in an element, a template's expression in a template, and what    *)
(* scan() opens in code.  Hence the assertions of scan_jsx_text_part hold  *)
(* when a closing tag takes two contexts off.                              *)
ContextsNest ==
  /\ Depth > 0 => ContextAt(1) \in {"in_template_literal", "in_jsx_element"}
  /\ \A k \in 1..Depth - 1 : ContextAt(k + 1) \in MayStandIn(ContextAt(k))
  /\ error # "assertion"

(* Each scanner runs on the context that it was written for, from its      *)
(* first character to its last.                                            *)
ScannerContext ==
  /\ pc \in {"template_start", "template"} => InContext({"in_template_literal"})
  /\ pc \in {"jsx_element", "jsx_name", "jsx_name_ended"} => InContext({"in_jsx_element"})
  /\ pc \in {"jsx_attribute", "jsx_attribute_space", "jsx_value"} =>
       InContext({"in_jsx_attribute"})
  /\ pc \in {"jsx_text_start", "jsx_text"} => InContext({"in_jsx_text"})
  /\ pc \in {"scan", "string", "identifier", "private_identifier"} =>
       Depth = 0 \/ InContext(Code)

---------------------------------------------------------------------------
(* The tokens that are returned.                                           *)

Returned == Len(tokens)
Latest == tokens[Returned]
Previous == tokens[Returned - 1]

(* The kinds of the tokens that close what a token of some kind opens.     *)
Closers(kind) ==
  CASE kind = "interpolated_string_start" -> {"interpolated_string_end"}
    [] kind = "template_start"            -> {"template_end"}
    [] kind = "jsx_element_start"         -> {"jsx_self_closing", "jsx_element_close"}
    [] kind = "jsx_attribute_value_start" -> {"jsx_attribute_value_end"}
    [] OTHER                              -> {}
Openers == {"interpolated_string_start", "template_start", "jsx_element_start",
            "jsx_attribute_value_start"}

OpeningIn(ts) == {i \in 1..Len(ts) : ts[i].kind \in Openers}
ClosingIn(ts) == {i \in 1..Len(ts) : ts[i].kind \in UNION {Closers(o) : o \in Openers}}

(* close gives the closing token of every opening token in its domain, and *)
(* leaves no closing token over; pairs are nested or apart.                *)
Pairs(ts, close) ==
  /\ ClosingIn(ts) = {close[i] : i \in DOMAIN close}
  /\ \A i \in DOMAIN close : i < close[i] /\ ts[close[i]].kind \in Closers(ts[i].kind)
  /\ \A i, j \in DOMAIN close : i < j /\ j < close[i] => close[j] < close[i]

(* A text that is scanned to its end without an exception has given a      *)
(* closing token of the right kind for every opening one, in nested order. *)
(* The parser that builds trees of templates and elements relies on it.    *)
TokensNest ==
  pc = "end" => \E close \in [OpeningIn(tokens) -> ClosingIn(tokens)] : Pairs(tokens, close)

(* A call that returns a token has moved the offset, except at the end of  *)
(* the text: nothing is returned twice.                                    *)
TokensConsume ==
  \A k \in {Returned} \ {0} :
    LET before == IF k = 1 THEN 0 ELSE Previous.end
    IN  Latest.end > before \/ (Latest.end = before /\ before = Len(text))

(* advance() checks nothing, and next_code_point has undefined behaviour   *)
(* from an offset behind the end.  Four scanners are known to go there:    *)
(* that of strings behind a backslash and \r, that of templates behind a   *)
(* backslash, that of legacy octals, and that of names behind an escape,   *)
(* each at the end of the text.  No other offset, and none at which a call *)
(* begins or ends, is behind the end.                                      *)
EndsIn(with) == \E k \in 0..Len(text) : SubSeq(text, k + 1, Len(text)) = with
StaysInText ==
  /\ \A k \in 1..Returned : tokens[k].end <= Len(text)
  /\ offset > Len(text) =>
       \/ pc = "string" /\ EndsIn(<<"\\", "\r">>)
       \/ pc = "template" /\ EndsIn(<<"\\">>)
       \/ pc = "suffix" /\ \E digit \in Octal : EndsIn(<<digit>>)
       \/ InIdentifier /\ \E k \in wbuffer : At(text, k) = "\\" /\ At(text, k + 1) = "u"
       \/ pc = "crashed"

(* Lexicographic order of locations, as filtered_token_index compares      *)
(* them.                                                                   *)
Before(a, b) == a.line < b.line \/ (a.line = b.line /\ a.column < b.column)

(* The locations of the tokens ascend in lines and columns: what the       *)
(* parser relies on when it files comments in a trivia index.  A chunk     *)
(* before ${ has no location.                                              *)
LocationsAscend ==
  (Returned >= 2 /\ NoLocation \notin {Latest.at, Previous.at}) => ~Before(Latest.at, Previous.at)

(* No line starts behind the offset, so that a column is no underflow of   *)
(* size_t; and no more lines are counted than line breaks were passed.     *)
LineBreaksPassed ==
  {k \in 0..offset - 1 : \/ At(text, k) = "\n"
                         \/ At(text, k) = "\r" /\ At(text, k + 1) # "\n"}
Spins ==
  \/ pc = "template" /\ C = "\r" /\ Peek(1) # "\n"
  \/ pc = "jsx_element" /\ C = "/" /\ Peek(1) \notin {">", Eof}
  \/ pc \in {"jsx_attribute", "jsx_attribute_space"} /\ C = "\n"
  \/ pc = "jsx_attribute_space" /\ offset = Len(text)

LinesPassed ==
  /\ line.line_start_offset <= offset
  /\ line.current_line_number <= Cardinality(LineBreaksPassed) \/ Spins

(* Every text is scanned to its end or to an exception, except where the   *)
(* lexer is known to read behind the end (StaysInText), or to look at the  *)
(* same character for ever: \r in a template, a lone / in a tag, a line    *)
(* break or the end of the text before an attribute's value.               *)
EndsOrSpins == <>(pc \in {"end", "thrown", "crashed"} \/ Spins)

---------------------------------------------------------------------------
(* What the code does not keep.                                            *)

(* The text of a comment is what stands in it.                             *)
CommentIsItsOwn ==
  Returned > 0 => \A i \in Latest.content : Latest.at.offset <= i /\ i < Latest.end
===========================================================================
