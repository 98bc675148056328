------------------------------- MODULE Lexer -------------------------------
(***************************************************************************)
(* tscc::lex::lexer: scan() and its iterator.                              *)
(*                                                                         *)
(* Each action is one iteration of one of the loops of scan() and of the   *)
(* scan_ functions it calls; pc says which.  What a function only looks at *)
(* before it decides is an operator of Characters.  Between two calls pc   *)
(* is "call": the iterator is then at the token.                           *)
(***************************************************************************)
EXTENDS LiteralScanners, JsxScanners

Init ==
  /\ source \in Sources
  /\ offset = 0 /\ line = [current_line_number |-> 0, line_start_offset |-> 0]
  /\ pnewline = FALSE /\ force_identifier = FALSE /\ resets = TRUE
  /\ context_stack = <<>> /\ wbuffer = {}
  /\ pc = "call" /\ start = NoLocation /\ quote = "'"
  /\ tokens = <<>> /\ error = "none"

(* Contexts whose content scan() itself scans.                             *)
Code == {"in_template_expression", "in_nested_brace", "in_jsx_expression"}

(* Mutant: the outermost context says which scanner goes on.               *)
CallOutermost ==
  LET outermost(set) == Depth > 0 /\ context_stack[1].context \in set
  IN  /\ pc = "call"
      /\ resets' = TRUE
      /\ GoOn(CASE outermost({"in_template_literal"}) -> "template_start"
                [] outermost({"in_jsx_element"})      -> "jsx_element"
                [] OTHER                              -> "scan")
      /\ UNCHANGED <<position, pnewline, context_stack, wbuffer, start, quote>>

(* The iterator moves: the context on top says which scanner goes on.      *)
Call ==
  /\ pc = "call"
  /\ resets' = TRUE
  /\ GoOn(CASE InContext({"in_template_literal"}) -> "template_start"
            [] InContext({"in_jsx_element"})      -> "jsx_element"
            [] InContext({"in_jsx_attribute"})    -> "jsx_attribute"
            [] InContext({"in_jsx_text"})         -> "jsx_text_start"
            [] OTHER                              -> "scan")
  /\ UNCHANGED <<position, pnewline, context_stack, wbuffer, start, quote>>

EndOfText ==
  /\ pc = "scan" /\ C = Eof
  /\ IF Depth = 0
     THEN GoOn("end")
     ELSE Throw("end_of_text")
  /\ UNCHANGED <<position, pnewline, resets, context_stack, wbuffer, start, quote>>

AtShebang == offset = 0 /\ C = "#" /\ Peek(1) = "!"

Shebang ==
  /\ pc = "scan" /\ AtShebang
  /\ \/ LineText(text, 2) = {} /\ Fail("expected_command")
     \/ /\ LineText(text, 2) # {}
        /\ AdvanceOverLine(2) /\ wbuffer' = LineText(text, 2)
        /\ Return("shebang", location)
        /\ UNCHANGED <<pnewline, resets, context_stack, start, quote>>

(* Mutant: \r is taken for the first half of \r\n without a look.           *)
LineBreakPair ==
  /\ pc = "scan" /\ C \in {"\r", "\n"}
  /\ AdvanceThenLine(IF C = "\r" THEN 2 ELSE 1)
  /\ pnewline' = TRUE
  /\ IF pnewline THEN GoOn("scan") ELSE Return("newline", location)
  /\ UNCHANGED <<resets, context_stack, wbuffer, start, quote>>

(* Mutant: \r and \n are line breaks of their own, also in \r\n.            *)
LineBreakTwice ==
  /\ pc = "scan" /\ C \in {"\r", "\n"}
  /\ AdvanceThenLine(1)
  /\ pnewline' = TRUE
  /\ IF pnewline THEN GoOn("scan") ELSE Return("newline", location)
  /\ UNCHANGED <<resets, context_stack, wbuffer, start, quote>>

LineBreak ==
  /\ pc = "scan" /\ C \in {"\r", "\n"}
  /\ AdvanceThenLine(IF C = "\r" /\ Peek(1) = "\n" THEN 2 ELSE 1)
  /\ pnewline' = TRUE
  /\ IF pnewline THEN GoOn("scan") ELSE Return("newline", location)
  /\ UNCHANGED <<resets, context_stack, wbuffer, start, quote>>

Blank ==
  /\ pc = "scan" /\ C = " "
  /\ Advance(1) /\ GoOn("scan")
  /\ pnewline' = FALSE /\ resets' = FALSE
  /\ UNCHANGED <<context_stack, wbuffer, start, quote>>

OpenTemplate ==
  /\ pc = "scan" /\ C = "backtick"
  /\ Push("in_template_literal", <<>>)
  /\ Advance(1) /\ Return("interpolated_string_start", location)
  /\ pnewline' = FALSE
  /\ UNCHANGED <<resets, wbuffer, start, quote>>

LineComment ==
  /\ pc = "scan" /\ C = "/" /\ Peek(1) = "/"
  /\ AdvanceOverLine(offset + 2)
  /\ ReturnToken("comment", location, LineText(text, offset + 2), FALSE)
  /\ wbuffer' = {} /\ pnewline' = FALSE
  /\ UNCHANGED <<resets, context_stack, start, quote>>

(* The comment is appended to what the buffer still holds.  What a jsdoc   *)
(* makes of it may be refused by the constructor of its token.             *)
MultilineComment ==
  LET from == CommentStart(text, offset)
      end == CommentEnd(text, offset)
      breaks == LineBreaks(text, from, end)
      content == wbuffer \cup ((from..end - 1) \ breaks)
  IN  /\ pc = "scan" /\ C = "/" /\ Peek(1) = "*"
      /\ \/ end = Refused /\ Fail("unterminated_multiline_comment")
         \/ /\ end # Refused /\ IsJsdoc(text, offset) /\ MayLeaveTypeOpen(text, content)
            /\ Fail("out_of_range")
         \/ /\ end # Refused
            /\ offset' = end + 2
            /\ IF breaks = {} THEN UNCHANGED line
               ELSE \E last \in breaks :
                      /\ \A k \in breaks : k <= last
                      /\ line' = [current_line_number |-> line.current_line_number
                                                           + Cardinality(breaks),
                                  line_start_offset |-> last + 1]
            /\ ReturnToken(IF IsJsdoc(text, offset) THEN "jsdoc" ELSE "multiline_comment",
                           LocationAt(from), content, FALSE)
            /\ wbuffer' = {} /\ pnewline' = FALSE
            /\ UNCHANGED <<resets, context_stack, start, quote>>

ScanConflictMarker ==
  /\ pc = "scan" /\ ConflictMarker(text, offset)
  /\ AdvanceOverLine(LabelStart(text, offset))
  /\ Return("conflict_marker_trivia", location)
  /\ wbuffer' = {} /\ pnewline' = FALSE
  /\ UNCHANGED <<resets, context_stack, start, quote>>

MayBeElement == C = "<" /\ Peek(1) \in IdentifierStart \cup {">"}

ScanElement ==
  /\ pc = "scan" /\ MayBeElement /\ AtElement
  /\ StartElement /\ pnewline' = FALSE
  /\ UNCHANGED <<resets, start, quote>>

(* An element that turns out to be none leaves its name in the buffer.     *)
ScanOperator ==
  /\ pc = "scan" /\ C \in OperatorStart
  /\ ~AtNumber /\ ~AtRegex /\ ~ConflictMarker(text, offset) /\ ~(MayBeElement /\ AtElement)
  /\ ~(C = "/" /\ Peek(1) \in {"/", "*"})
  /\ Advance(OperatorLength(text, offset)) /\ Return("operator", location)
  /\ wbuffer' = IF MayBeElement /\ source.language_variant = "jsx" THEN ElementText ELSE wbuffer
  /\ pnewline' = FALSE
  /\ UNCHANGED <<resets, context_stack, start, quote>>

(* Mutant: every brace is counted, in code that stands in nothing as well. *)
OpenBraceCounted ==
  /\ pc = "scan" /\ C = "{"
  /\ Push("in_nested_brace", <<>>)
  /\ Advance(1) /\ Return("open_brace", location)
  /\ pnewline' = FALSE
  /\ UNCHANGED <<resets, wbuffer, start, quote>>

OpenBrace ==
  /\ pc = "scan" /\ C = "{"
  /\ IF InContext(Code) THEN Push("in_nested_brace", <<>>) ELSE UNCHANGED context_stack
  /\ Advance(1) /\ Return("open_brace", location)
  /\ pnewline' = FALSE
  /\ UNCHANGED <<resets, wbuffer, start, quote>>

(* A brace that closes an attribute's expression closes the attribute.     *)
EndsAttribute ==
  /\ InContext({"in_template_expression", "in_jsx_expression"})
  /\ Depth >= 2 /\ context_stack[Depth - 1].context = "in_jsx_attribute"

CloseBrace ==
  /\ pc = "scan" /\ C = "}" /\ Advance(1)
  /\ \/ /\ EndsAttribute
        /\ context_stack' = SubSeq(context_stack, 1, Depth - 2)
        /\ Return("jsx_attribute_value_end", location)
     \/ /\ InContext({"in_template_expression", "in_jsx_expression"}) /\ ~EndsAttribute
        /\ Pop /\ Return("template_end", location)
     \/ InContext({"in_nested_brace"}) /\ Pop /\ Return("close_brace", location)
     \/ ~InContext(Code) /\ UNCHANGED context_stack /\ Return("close_brace", location)
  /\ pnewline' = FALSE
  /\ UNCHANGED <<resets, wbuffer, start, quote>>

AtSign ==
  /\ pc = "scan" /\ C = "@"
  /\ Advance(1) /\ ReturnToken("at", location, {}, TRUE)
  /\ pnewline' = FALSE
  /\ UNCHANGED <<resets, context_stack, wbuffer, start, quote>>

Hash ==
  /\ pc = "scan" /\ C = "#" /\ ~AtShebang
  /\ IF Peek(1) \in IdentifierStart
     THEN OpenIdentifier("private_identifier", offset + 1)
     ELSE Fail("invalid_character")

(* The default of scan(): a name, an escape, or what begins no token.      *)
ScanIdentifier ==
  /\ pc = "scan" /\ C \in IdentifierStart \cup {"\\", "other"}
  /\ OpenIdentifier("identifier", offset)

Ended == pc \in {"end", "thrown", "crashed"} /\ UNCHANGED vars

(* next_code_point from an offset behind the buffer's end, which advance() *)
(* allows: the number of bytes to be preserved is an underflow, and memmove*)
(* is told to move them.  That is undefined behaviour, and the end.        *)
ReadBehind ==
  /\ offset > Len(text) /\ pc # "crashed"
  /\ pc' = "crashed"
  /\ UNCHANGED <<position, pnewline, resets, context_stack, wbuffer, start, quote,
                 force_identifier, tokens, error>>

---------------------------------------------------------------------------

ScanLiteral ==
  \/ OpenString \/ StringCharacter \/ StringContinuation \/ StringEscape \/ EndString
  \/ EndTemplate \/ OpenTemplateExpression \/ OpenTemplateChunk
  \/ TemplateCharacter \/ TemplateSpin \/ EndTemplateChunk \/ UnterminatedTemplate
  \/ IdentifierCharacter \/ IdentifierEscape \/ InvalidIdentifier \/ EndIdentifier
  \/ ScanNumber \/ ScanRegex

ScanJsx ==
  \/ ElementSpace \/ ElementSpin \/ EndElementPart \/ InvalidElement
  \/ OpenAttributeName \/ AttributeNameCharacter \/ AttributeNameSpace
  \/ EndAttributeName \/ InvalidAttributeName
  \/ AttributeSpace \/ AttributeSpin \/ OpenAttributeValue \/ OpenAttributeExpression
  \/ AttributeValueCharacter \/ EndAttributeValue
  \/ OpenTextExpression \/ CloseElement \/ InvalidClosingTag \/ NestedElement
  \/ OpenText \/ TextCharacter \/ EndText

Scan ==
  \/ Call \/ EndOfText \/ Shebang \/ LineBreak \/ Blank \/ OpenTemplate
  \/ LineComment \/ MultilineComment \/ ScanConflictMarker \/ ScanElement
  \/ ScanOperator \/ OpenBrace \/ CloseBrace \/ AtSign \/ Hash \/ ScanIdentifier

Next ==
  /\ \/ offset <= Len(text) /\ (Scan \/ ScanLiteral \/ ScanJsx)
     \/ ReadBehind
     \/ Ended
  /\ UNCHANGED source

Spec == Init /\ [][Next]_vars

(* The text is scanned by a loop that runs until the end or an exception.  *)
FairSpec == Spec /\ WF_vars(Next)
===========================================================================
