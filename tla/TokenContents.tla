--------------------------- MODULE TokenContents ---------------------------
(***************************************************************************)
(* What the lexer found is made into a token with contents: a jsdoc        *)
(* comment, a text of JSX, or a number.  The token of the caller, which is *)
(* used again for each token of a text, is emplaced when the contents are  *)
(* made; when that throws, it is left as the variant leaves it.  Before    *)
(* any of them, the characters are put together from the bytes of a source,*)
(* and words and punctuation become tokens that need no contents.          *)
(***************************************************************************)
EXTENDS CodePointBuffer, Spellings, JsdocToken, XmlText, NumberLiteral

VARIABLES
  kind,     \* the token in the making, "source", or "keyword_lookup"
  holds,    \* what token_ has: "nothing" (no value), "valueless", or a token
  emplaced  \* whether emplace_token returned or threw

vars == <<kind, holds, emplaced, jsdocVars, xmlVars, numberVars, bufferVars, spellingVars>>

Init ==
  /\ kind \in {"source", "keyword_lookup", "jsdoc_token", "jsx_text_token", "constant_value_token"}
  /\ holds \in {"nothing", "semicolon_token"} /\ emplaced = FALSE
  /\ IF kind = "source" THEN BufferInit ELSE BufferIdle
  /\ IF kind = "keyword_lookup" THEN SpellingInit ELSE SpellingIdle
  /\ IF kind = "jsdoc_token" THEN JsdocInit ELSE JsdocIdle
  /\ IF kind = "jsx_text_token" THEN XmlInit ELSE XmlIdle
  /\ IF kind = "constant_value_token" THEN NumberInit ELSE NumberIdle

Threw ==
  CASE kind = "jsdoc_token" -> step = "out_of_range"
    [] kind = "jsx_text_token" -> stage = "invalid_xml_character"
    [] OTHER -> FALSE

Made ==
  CASE kind = "jsdoc_token" -> step = "lines" /\ Len(lines) = Len(comment_lines)
    [] kind = "jsx_text_token" -> stage = "decode" /\ offset = Len(xml)
    [] kind = "constant_value_token" -> reading = "end"
    [] kind \in {"source", "keyword_lookup"} -> FALSE

(* A token is emplaced into a variant in place, which loses the old one    *)
(* before the new one is made.                                             *)
Emplaced ==
  CASE ~ Threw -> kind
    [] Threw /\ holds = "nothing" -> "nothing"
    [] OTHER -> "valueless"

EmplaceToken ==
  /\ ~ emplaced /\ (Made \/ Threw)
  /\ emplaced' = TRUE /\ holds' = Emplaced
  /\ UNCHANGED <<kind, jsdocVars, xmlVars, numberVars, bufferVars, spellingVars>>

Jsdoc ==
  /\ kind = "jsdoc_token" /\ JsdocNext
  /\ UNCHANGED <<xmlVars, numberVars, bufferVars, spellingVars>>
JsxText ==
  /\ kind = "jsx_text_token" /\ XmlNext
  /\ UNCHANGED <<jsdocVars, numberVars, bufferVars, spellingVars>>
Number ==
  /\ kind = "constant_value_token" /\ NumberNext
  /\ UNCHANGED <<jsdocVars, xmlVars, bufferVars, spellingVars>>
Source ==
  /\ kind = "source" /\ BufferNext
  /\ UNCHANGED <<jsdocVars, xmlVars, numberVars, spellingVars>>
Spelling ==
  /\ kind = "keyword_lookup" /\ SpellingNext
  /\ UNCHANGED <<jsdocVars, xmlVars, numberVars, bufferVars>>

Contents ==
  /\ (Made \/ Threw) => emplaced
  /\ Source \/ Spelling \/ Jsdoc \/ JsxText \/ Number
  /\ UNCHANGED <<kind, holds, emplaced>>

Done ==
  CASE kind = "jsdoc_token" -> emplaced /\ JsdocDone
    [] kind = "jsx_text_token" -> emplaced /\ XmlDone
    [] kind = "constant_value_token" -> NumberDone
    [] kind = "keyword_lookup" -> SpellingDone
    [] kind = "source" -> pc \in {"lexer", "undefined"}

Ended == Done /\ UNCHANGED vars

Next == EmplaceToken \/ Contents \/ Ended

Spec == Init /\ [][Next]_vars /\ BufferFairness
=============================================================================
