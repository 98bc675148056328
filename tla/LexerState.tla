----------------------------- MODULE LexerState -----------------------------
(***************************************************************************)
(* The members of tscc::lex::lexer, and the steps that its scanners are    *)
(* made of: reading at the offset, advancing it, opening and closing a     *)
(* context, and the ways in which a call of scan() goes on or ends.        *)
(***************************************************************************)
EXTENDS Characters

CONSTANT Sources  \* the texts to be scanned, with their language variants

ASSUME SourcesAssumption ==
  Sources \subseteq [text : Seq(Char), language_variant : {"ts", "jsx"}]

VARIABLES
  source,            \* the text in the stream, and its language variant
  offset,            \* gpos_.offset
  line,              \* gpos_.line: current_line_number and line_start_offset
  pnewline,          \* whether the last thing read was a line break
  force_identifier,  \* whether the next name is no keyword
  resets,            \* whether this call of scan() will write force_identifier
  context_stack,     \* the nested constructs, with the name of an element
  wbuffer,           \* the positions whose characters the output buffer holds
  pc,                \* the loop that scan() is in
  start,             \* the location at which the function under way began
  quote,             \* the quote that ends the string under way
  tokens,            \* what the calls have returned, with the offset after each
  error              \* the exception that left scan(), or "none"

text == source.text
position == <<offset, line>>
outcome == <<pc, force_identifier, tokens, error>>
vars == <<source, position, pnewline, resets, context_stack, wbuffer, start,
          quote, outcome>>

Context == {"in_template_literal", "in_template_expression", "in_nested_brace",
            "in_jsx_element", "in_jsx_attribute", "in_jsx_text", "in_jsx_expression"}

---------------------------------------------------------------------------
(* Reading and locations.  Nothing is read from an offset behind the end   *)
(* of the text: there next_code_point does not return (ReadBehind).        *)

C == At(text, offset)
Peek(n) == At(text, offset + n)

location == [line |-> line.current_line_number,
             column |-> offset - line.line_start_offset, offset |-> offset]
LocationAt(i) == [location EXCEPT !.column = location.column + i - offset, !.offset = i]
NoLocation == [line |-> -1, column |-> -1, offset |-> -1]

(* Mutant: the column starts again, the line is not counted.               *)
LineBegunAtSame(i) == [line EXCEPT !.line_start_offset = i]

(* advance() and position_t::advance_line().  Lines are counted up to one  *)
(* more than a text can have, so that a scan that hangs has finitely many  *)
(* states.                                                                 *)
LineBegunAt(i) ==
  [current_line_number |-> IF line.current_line_number > Len(text)
                           THEN line.current_line_number ELSE line.current_line_number + 1,
   line_start_offset |-> i]

Advance(n) == offset' = offset + n /\ UNCHANGED line
AdvanceThenLine(n) == offset' = offset + n /\ line' = LineBegunAt(offset + n)
LineThenAdvance(n) == offset' = offset + n /\ line' = LineBegunAt(offset)

(* scan_line_into_wbuffer from i on: a blank line is not counted.          *)
AdvanceOverLine(i) ==
  /\ offset' = AfterLine(text, i)
  /\ IF LineText(text, i) # {} /\ At(text, LineEnd(text, i)) = "\n"
     THEN line' = LineBegunAt(AfterLine(text, i))
     ELSE UNCHANGED line

---------------------------------------------------------------------------
(* How an action ends: scan() goes on, returns a token, or throws.  An     *)
(* action that returns has moved the offset before.                        *)

GoOn(l) == pc' = l /\ UNCHANGED <<force_identifier, tokens, error>>

ReturnToken(kind, at, content, forced) ==
  /\ pc' = "call"
  /\ tokens' = Append(tokens, [kind |-> kind, at |-> at, content |-> content,
                               end |-> offset'])
  /\ force_identifier' = IF resets THEN forced ELSE force_identifier
  /\ UNCHANGED error

Return(kind, at) == ReturnToken(kind, at, {}, FALSE)

Throw(e) == pc' = "thrown" /\ error' = e /\ UNCHANGED <<force_identifier, tokens>>

(* What an exception leaves behind in the other members is not modelled:   *)
(* the scan is over.                                                       *)
Fail(e) ==
  /\ Throw(e)
  /\ UNCHANGED <<position, pnewline, resets, context_stack, wbuffer, start, quote>>

Depth == Len(context_stack)
Top == context_stack[Depth].context
InContext(set) == Depth > 0 /\ Top \in set
Below == SubSeq(context_stack, 1, Depth - 1)

Push(c, name) == context_stack' = Append(context_stack, [context |-> c, name |-> name])
Pop == context_stack' = Below
===========================================================================
