---------------------------- MODULE JsxScanners ----------------------------
(***************************************************************************)
(* The JSX part of tscc::lex::lexer: elements, their attributes and their  *)
(* text.  Each is a context of its own, entered by scan() when it is on    *)
(* top of the context stack.                                               *)
(***************************************************************************)
EXTENDS LexerState

---------------------------------------------------------------------------
(* scan_jsx_token: an element begins.  Its > is left for the element.      *)

AtElement == source.language_variant = "jsx" /\ IsElement(text, offset)

ElementText == offset + 1..ElementNameEnd(text, offset) - 1

StartElement ==
  LET end == ElementNameEnd(text, offset)
  IN  /\ offset' = end /\ UNCHANGED line
      /\ Push("in_jsx_element", Word(text, offset + 1, end))
      /\ wbuffer' = {}
      /\ Return("jsx_element_start",
                IF At(text, end) = ">" THEN LocationAt(end) ELSE location)

---------------------------------------------------------------------------
(* scan_jsx_element_part: up to an attribute's name, /> or >.              *)

ElementSpace ==
  /\ pc = "jsx_element" /\ C \in Space
  /\ IF C = "\n" THEN LineThenAdvance(1) ELSE Advance(1)
  /\ GoOn("jsx_element")
  /\ UNCHANGED <<pnewline, resets, context_stack, wbuffer, start, quote>>

(* A slash without > is looked at for ever.                                *)
ElementSpin ==
  /\ pc = "jsx_element" /\ C = "/" /\ Peek(1) \notin {">", Eof}
  /\ UNCHANGED vars

(* Mutant: /> leaves its element open.                                     *)
EndElementPartOpen ==
  /\ pc = "jsx_element"
  /\ \/ /\ C = "/" /\ Peek(1) = ">" /\ Advance(2)
        /\ UNCHANGED context_stack /\ Return("jsx_self_closing", location)
     \/ C = ">" /\ Advance(1) /\ Push("in_jsx_text", <<>>) /\ Return("jsx_element_end", location)
  /\ UNCHANGED <<pnewline, resets, wbuffer, start, quote>>

EndElementPart ==
  /\ pc = "jsx_element"
  /\ \/ C = "/" /\ Peek(1) = ">" /\ Advance(2) /\ Pop /\ Return("jsx_self_closing", location)
     \/ C = ">" /\ Advance(1) /\ Push("in_jsx_text", <<>>) /\ Return("jsx_element_end", location)
  /\ UNCHANGED <<pnewline, resets, wbuffer, start, quote>>

InvalidElement ==
  /\ pc = "jsx_element"
  /\ \/ C \notin Space \cup IdentifierStart \cup {"/", ">"}
     \/ C = "/" /\ Peek(1) = Eof
  /\ Fail("jsx_element")

OpenAttributeName ==
  /\ pc = "jsx_element" /\ C \in IdentifierStart
  /\ start' = location /\ wbuffer' = {}
  /\ GoOn("jsx_name")
  /\ UNCHANGED <<position, pnewline, resets, context_stack, quote>>

(* The attribute's name: once a blank was read, the name has ended.        *)
InAttributeName == pc \in {"jsx_name", "jsx_name_ended"}

AttributeNameCharacter ==
  /\ pc = "jsx_name" /\ C \in JsxPart
  /\ wbuffer' = wbuffer \cup {offset}
  /\ Advance(1) /\ GoOn("jsx_name")
  /\ UNCHANGED <<pnewline, resets, context_stack, start, quote>>

AttributeNameSpace ==
  /\ InAttributeName /\ C \in Space
  /\ IF C = "\n" THEN AdvanceThenLine(1) ELSE Advance(1)
  /\ GoOn("jsx_name_ended")
  /\ UNCHANGED <<pnewline, resets, context_stack, wbuffer, start, quote>>

EndAttributeName ==
  /\ InAttributeName
  /\ \/ C = "=" /\ Advance(1) /\ Push("in_jsx_attribute", <<>>)
     \/ pc = "jsx_name_ended" /\ C \in JsxPart /\ UNCHANGED <<position, context_stack>>
  /\ Return("jsx_attribute_name", start)
  /\ wbuffer' = {}
  /\ UNCHANGED <<pnewline, resets, start, quote>>

InvalidAttributeName ==
  InAttributeName /\ C \notin JsxPart \cup Space \cup {"="} /\ Fail("jsx_attribute_name")

---------------------------------------------------------------------------
(* scan_jsx_attribute_part: the value, quoted or an expression.            *)

(* Mutant: a blank is looked at and not advanced over.                     *)
AttributeSpaceStays ==
  /\ pc \in {"jsx_attribute", "jsx_attribute_space"} /\ C \in Space \ {"\n"}
  /\ Advance(0) /\ GoOn("jsx_attribute_space")
  /\ UNCHANGED <<pnewline, resets, context_stack, wbuffer, start, quote>>

AttributeSpace ==
  /\ pc \in {"jsx_attribute", "jsx_attribute_space"} /\ C \in Space \ {"\n"}
  /\ Advance(1) /\ GoOn("jsx_attribute_space")
  /\ UNCHANGED <<pnewline, resets, context_stack, wbuffer, start, quote>>

(* A line break is counted and not advanced over; at the end of the text   *)
(* the blank that was read last is looked at for ever.                     *)
AttributeSpin ==
  \/ /\ pc \in {"jsx_attribute", "jsx_attribute_space"} /\ C = "\n"
     /\ LineThenAdvance(0) /\ GoOn(pc)
     /\ UNCHANGED <<pnewline, resets, context_stack, wbuffer, start, quote>>
  \/ pc = "jsx_attribute_space" /\ C = Eof /\ UNCHANGED vars

OpenAttributeValue ==
  /\ pc \in {"jsx_attribute", "jsx_attribute_space"} /\ C \in Quote
  /\ quote' = C /\ wbuffer' = {}
  /\ Advance(1) /\ GoOn("jsx_value")
  /\ UNCHANGED <<pnewline, resets, context_stack, start>>

(* Any other character opens an expression as { does.                      *)
OpenAttributeExpression ==
  /\ \/ pc = "jsx_attribute_space" /\ C \notin Space \cup Quote \cup {Eof}
     \/ pc = "jsx_attribute" /\ C \notin Space \cup Quote
  /\ Advance(IF C = Eof THEN 0 ELSE 1)
  /\ Push("in_jsx_expression", <<>>)
  /\ Return("jsx_attribute_value_start", IF C = "{" THEN LocationAt(offset + 1) ELSE location)
  /\ UNCHANGED <<pnewline, resets, wbuffer, start, quote>>

AttributeValueCharacter ==
  /\ pc = "jsx_value" /\ C \notin {quote, Eof}
  /\ wbuffer' = wbuffer \cup {offset}
  /\ Advance(1) /\ GoOn("jsx_value")
  /\ UNCHANGED <<pnewline, resets, context_stack, start, quote>>

EndAttributeValue ==
  /\ pc = "jsx_value"
  /\ \/ C \in {quote, Eof} /\ Fail("jsx_attribute_value")
     \/ /\ C = quote
        /\ Advance(1) /\ Pop
        /\ Return("jsx_attribute_value", LocationAt(offset + 1))
        /\ UNCHANGED <<pnewline, resets, wbuffer, start, quote>>

---------------------------------------------------------------------------
(* scan_jsx_text_part: an expression, a tag, or the text up to the next.   *)

OpenTextExpression ==
  /\ pc = "jsx_text_start" /\ C = "{"
  /\ Advance(1) /\ Push("in_jsx_expression", <<>>)
  /\ Return("template_start", location)
  /\ UNCHANGED <<pnewline, resets, wbuffer, start, quote>>

AtClosingTag == pc = "jsx_text_start" /\ C = "<" /\ Peek(1) = "/"
TagEnd == RunEnd(text, offset + 2, JsxPart)

(* The text is popped, then the element, which must have the tag's name.   *)
CloseElement ==
  /\ AtClosingTag /\ At(text, TagEnd) = ">"
  /\ Depth >= 2 /\ context_stack[Depth - 1].context = "in_jsx_element"
  /\ context_stack[Depth - 1].name = Word(text, offset + 2, TagEnd)
  /\ context_stack' = SubSeq(context_stack, 1, Depth - 2)
  /\ offset' = TagEnd + 1 /\ UNCHANGED line
  /\ Return("jsx_element_close", LocationAt(TagEnd))
  /\ wbuffer' = offset + 2..TagEnd - 1
  /\ UNCHANGED <<pnewline, resets, start, quote>>

InvalidClosingTag ==
  /\ AtClosingTag
  /\ \/ At(text, TagEnd) # ">" /\ Fail("jsx_closing_tag")
     \/ /\ At(text, TagEnd) = ">"
        /\ IF Depth >= 2 /\ context_stack[Depth - 1].context = "in_jsx_element"
           THEN /\ context_stack[Depth - 1].name # Word(text, offset + 2, TagEnd)
                /\ Fail("no_jsx_closing_tag")
           ELSE Fail("assertion")

NestedElement ==
  /\ pc = "jsx_text_start" /\ C = "<" /\ Peek(1) # "/"
  /\ \/ ~AtElement /\ Fail("invalid_identifier")
     \/ AtElement /\ StartElement /\ UNCHANGED <<pnewline, resets, start, quote>>

OpenText ==
  /\ pc = "jsx_text_start" /\ C \notin {"{", "<"}
  /\ wbuffer' = {} /\ GoOn("jsx_text")
  /\ UNCHANGED <<position, pnewline, resets, context_stack, start, quote>>

TextCharacter ==
  /\ pc = "jsx_text" /\ C \notin {"{", "<", Eof}
  /\ wbuffer' = wbuffer \cup {offset}
  /\ IF C = "\n" THEN LineThenAdvance(1) ELSE Advance(1)
  /\ GoOn("jsx_text")
  /\ UNCHANGED <<pnewline, resets, context_stack, start, quote>>

(* A character reference in the text may be refused.                       *)
EndText ==
  /\ pc = "jsx_text"
  /\ \/ C \in {"{", "<", Eof} /\ Fail("jsx_text")
     \/ /\ C \in {"{", "<"} /\ UNCHANGED position
        /\ Return("jsx_text", location)
        /\ wbuffer' = {}
        /\ UNCHANGED <<pnewline, resets, context_stack, start, quote>>
===========================================================================
