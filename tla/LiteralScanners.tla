-------------------------- MODULE LiteralScanners --------------------------
(***************************************************************************)
(* Strings, template strings, identifiers, numbers and regular expressions *)
(* of tscc::lex::lexer.  A scanner that scan() enters itself is entered    *)
(* with pc = "scan".                                                       *)
(***************************************************************************)
EXTENDS LexerState

---------------------------------------------------------------------------
(* scan_string.                                                            *)

OpenString ==
  /\ pc = "scan" /\ C \in Quote
  /\ start' = location /\ quote' = C /\ wbuffer' = {} /\ pnewline' = FALSE
  /\ Advance(1) /\ GoOn("string")
  /\ UNCHANGED <<resets, context_stack>>

StringCharacter ==
  /\ pc = "string" /\ C \notin {quote, "\\", "\r", "\n", Eof}
  /\ wbuffer' = wbuffer \cup {offset}
  /\ Advance(1) /\ GoOn("string")
  /\ UNCHANGED <<pnewline, resets, context_stack, start, quote>>

(* A line break behind a backslash is dropped; behind \r the code looks at *)
(* the \r again, and drops the character after it whatever it is; nothing  *)
(* says that there is one.                                                 *)
StringContinuation ==
  /\ pc = "string" /\ C = "\\"
  /\ \/ Peek(1) = "\r" /\ Advance(3)
     \/ Peek(1) = "\n" /\ AdvanceThenLine(2)
  /\ GoOn("string")
  /\ UNCHANGED <<pnewline, resets, context_stack, wbuffer, start, quote>>

StringEscape ==
  /\ pc = "string" /\ C = "\\" /\ Peek(1) \notin {"\r", "\n"}
  /\ \E n \in EscapeLength(text, offset + 1) :
       \/ n = Refused /\ Fail("escape")
       \/ /\ n # Refused
          /\ wbuffer' = wbuffer \cup {offset}
          /\ Advance(1 + n) /\ GoOn("string")
          /\ UNCHANGED <<pnewline, resets, context_stack, start, quote>>

EndString ==
  /\ pc = "string"
  /\ \/ C = quote /\ Advance(1) /\ Return("constant_value", start)
     \/ C \in {"\r", "\n", Eof} /\ Throw("unterminated_string_literal") /\ UNCHANGED position
  /\ UNCHANGED <<pnewline, resets, context_stack, wbuffer, start, quote>>

---------------------------------------------------------------------------
(* scan_template_string_part: the first character, then the chunk.         *)

(* At the end of the text the first character is read uninitialised, and   *)
(* may be the closing one.                                                 *)
EndTemplate ==
  /\ pc = "template_start" /\ C \in {"backtick", Eof}
  /\ Advance(IF C = Eof THEN 0 ELSE 1) /\ Pop
  /\ Return("interpolated_string_end", location)
  /\ UNCHANGED <<pnewline, resets, wbuffer, start, quote>>

OpenTemplateExpression ==
  /\ pc = "template_start" /\ C = "$" /\ Peek(1) = "{"
  /\ Advance(2) /\ Push("in_template_expression", <<>>)
  /\ Return("template_start", location)
  /\ UNCHANGED <<pnewline, resets, wbuffer, start, quote>>

(* Mutant: ${ is not looked for at the beginning of a chunk.               *)
OpenTemplateChunkAnywhere ==
  /\ pc = "template_start" /\ C # "backtick"
  /\ wbuffer' = {} /\ GoOn("template")
  /\ UNCHANGED <<position, pnewline, resets, context_stack, start, quote>>

OpenTemplateChunk ==
  /\ pc = "template_start" /\ C # "backtick" /\ ~(C = "$" /\ Peek(1) = "{")
  /\ wbuffer' = {} /\ GoOn("template")
  /\ UNCHANGED <<position, pnewline, resets, context_stack, start, quote>>

TemplateCharacter ==
  /\ pc = "template"
  /\ \/ C \notin {"backtick", "$", "\r", "\\", "\n", Eof} /\ Advance(1)
     \/ C = "$" /\ Peek(1) # "{" /\ Advance(1)
     \/ C = "\n" /\ LineThenAdvance(1)
     \/ C = "\r" /\ Peek(1) = "\n" /\ AdvanceThenLine(2)
     \/ C = "\\" /\ \E n \in EscapeLength(text, offset) : Advance(1 + n)
  /\ wbuffer' = wbuffer \cup {offset}
  /\ GoOn("template")
  /\ UNCHANGED <<pnewline, resets, context_stack, start, quote>>

(* A \r without \n is looked at for ever.                                  *)
TemplateSpin ==
  /\ pc = "template" /\ C = "\r" /\ Peek(1) # "\n"
  /\ UNCHANGED vars

EndTemplateChunk ==
  /\ pc = "template" /\ UNCHANGED position
  /\ \/ C = "backtick" /\ Return("interpolated_string_chunk", location)
     \/ C = "$" /\ Peek(1) = "{" /\ Return("interpolated_string_chunk", NoLocation)
  /\ wbuffer' = {}
  /\ UNCHANGED <<pnewline, resets, context_stack, start, quote>>

UnterminatedTemplate ==
  pc = "template" /\ C = Eof /\ Fail("unterminated_string_literal")

---------------------------------------------------------------------------
(* scan_identifier.  Which names are keywords, and which values of escapes *)
(* are parts of names, is abstracted.                                      *)

OpenIdentifier(l, from) ==
  /\ start' = LocationAt(from) /\ wbuffer' = {} /\ pnewline' = FALSE
  /\ offset' = from /\ UNCHANGED line
  /\ GoOn(l)
  /\ UNCHANGED <<resets, context_stack, quote>>

InIdentifier == pc \in {"identifier", "private_identifier"}

IdentifierCharacter ==
  /\ InIdentifier /\ C \in IdentifierPart
  /\ wbuffer' = wbuffer \cup {offset}
  /\ Advance(1) /\ GoOn(pc)
  /\ UNCHANGED <<pnewline, resets, context_stack, start, quote>>

(* An escape empties the buffer of what stood before it.  Where the closing*)
(* brace would be behind the end of the text, none is missed.              *)
IdentifierEscape ==
  /\ InIdentifier /\ C = "\\"
  /\ \/ /\ ~(Peek(2) = "{" /\ IdentifierEscapeEnd(text, offset) > Len(text))
        /\ Fail("invalid_character")
     \/ /\ IdentifierEscapeEnd(text, offset) # Refused
        /\ offset' = IdentifierEscapeEnd(text, offset) /\ UNCHANGED line
        /\ wbuffer' = {offset}
        /\ GoOn(pc)
        /\ UNCHANGED <<pnewline, resets, context_stack, start, quote>>

(* The buffer begins with one of these characters.                         *)
BufferBegins(set) == \E i \in wbuffer : At(text, i) \in set /\ \A j \in wbuffer : i <= j

InvalidIdentifier ==
  /\ InIdentifier /\ C \notin IdentifierPart \cup {"\\"}
  /\ ~BufferBegins(IdentifierStart)
  /\ Fail("invalid_identifier")

EndIdentifier ==
  /\ InIdentifier /\ C \notin IdentifierPart \cup {"\\"}
  /\ BufferBegins(IdentifierStart \cup {"\\"})
  /\ UNCHANGED position
  /\ \/ pc = "private_identifier" /\ Return("identifier", start) /\ UNCHANGED wbuffer
     \/ pc = "identifier" /\ Return("identifier", start) /\ wbuffer' = {}
     \/ /\ pc = "identifier" /\ ~force_identifier /\ Cardinality(wbuffer) >= 2
        /\ Return("keyword", start) /\ UNCHANGED wbuffer
  /\ UNCHANGED <<pnewline, resets, context_stack, start, quote>>

---------------------------------------------------------------------------
(* scan_decimal_token, scan_hex_token, scan_binary_token and               *)
(* scan_octal_token, and try_scan_regex.                                   *)

AtNumber == C \in Digit \/ (C = "." /\ Peek(1) \in Digit)

(* A legacy octal at the end of the text is advanced over by one more, and *)
(* a suffix is looked for behind it.                                       *)
ScanNumber ==
  /\ pc = "scan" /\ AtNumber
  /\ \/ NumberEnd(text, offset) = Refused /\ Fail("number")
     \/ /\ NumberEnd(text, offset) # Refused
        /\ offset' = NumberEnd(text, offset) /\ UNCHANGED line
        /\ IF NumberEnd(text, offset) > Len(text)
           THEN GoOn("suffix")
           ELSE Return("constant_value", LocationAt(NumberLocation(text, offset)))
        /\ pnewline' = FALSE
        /\ UNCHANGED <<resets, context_stack, wbuffer, start, quote>>

AtRegex == C = "/" /\ Peek(1) \notin {"=", "/", "*", Eof}

(* Mutant: a position is taken from a scan that found nothing.             *)
ScanRegexUnchecked ==
  /\ pc = "scan" /\ AtRegex
  /\ \E end \in RegexEnds(text, offset) \ {Refused} :
       /\ offset' = end /\ UNCHANGED line /\ Return("regex", location)
       /\ wbuffer' = RegexText(text, offset) /\ pnewline' = FALSE
       /\ UNCHANGED <<resets, context_stack, start, quote>>

(* When there is no regular expression, what was read of it stays in the   *)
(* buffer and the slash is an operator.                                    *)
ScanRegex ==
  /\ pc = "scan" /\ AtRegex
  /\ \E end \in RegexEnds(text, offset) :
       \/ end = Refused /\ Fail("regex")
       \/ /\ end # Refused
          /\ IF end = Absent
             THEN Advance(1) /\ Return("operator", location)
             ELSE offset' = end /\ UNCHANGED line /\ Return("regex", location)
          /\ wbuffer' = RegexText(text, offset) /\ pnewline' = FALSE
          /\ UNCHANGED <<resets, context_stack, start, quote>>
===========================================================================
