------------------------------ MODULE XmlText ------------------------------
(***************************************************************************)
(* tscc::xml_decode and tscc::xml_encode, as the JSX tokens use them: the  *)
(* constructor decodes the text that the lexer found, and to_string        *)
(* encodes the value.  What was printed is then decoded again.             *)
(***************************************************************************)
EXTENDS CodePoints, SequencesExt

CONSTANTS
  Texts,  \* the texts of an element or an attribute
  Wrap    \* 2^32, where a char32_t overflows

ASSUME WrapAssumption == Wrap \in Nat /\ Wrap > 1114111

VARIABLES
  xml,    \* the text that is decoded or encoded
  offset,      \* where the loop is
  result, \* what was made of it so far
  stage,  \* "decode", "encode", "decode again", or what it ended with
  value   \* the value of the token

xmlVars == <<xml, offset, result, stage, value>>

XmlIdle == xml = <<>> /\ offset = 0 /\ result = <<>> /\ stage = "idle" /\ value = <<>>

XmlInit == xml \in Texts /\ offset = 0 /\ result = <<>> /\ stage = "decode" /\ value = <<>>

IsValidXmlChar(cp) ==
  \/ cp \in {9, 10, 13} \/ cp \in 32..55295 \/ cp \in 57344..65533 \/ cp \in 65536..1114111

Entity == [name \in {<<"a", "m", "p">>, <<"l", "t">>, <<"g", "t">>, <<"q", "u", "o", "t">>,
                     <<"a", "p", "o", "s">>} |->
             CASE name[1] = "l" -> "<" [] name[1] = "g" -> ">" [] name[1] = "q" -> "\""
               [] Len(name) = 3 -> "&" [] Len(name) = 4 /\ name[1] = "a" -> "'"]

(* What stands between the ampersand at offset and the first semicolon behind.  *)
Semicolons == {k \in offset + 2..Len(xml) : xml[k] = ";"}
Semi == CHOOSE k \in Semicolons : \A o \in Semicolons : k <= o
Ref == SubSeq(xml, offset + 2, Semi - 1)

IsNumeric == Len(Ref) >= 2 /\ Ref[1] = "#"
Base == IF Ref[2] \in {"x", "X"} THEN 16 ELSE 10
Digits == IF Base = 16 THEN SubSeq(Ref, 3, Len(Ref)) ELSE SubSeq(Ref, 2, Len(Ref))
IsNumber ==
  /\ Digits # <<>>
  /\ \A k \in DOMAIN Digits : Digits[k] \in (IF Base = 16 THEN HexDigit ELSE DecimalDigit)
CodePoint == FoldLeft(LAMBDA cp, d : (cp * Base + DigitValue(d)) % Wrap, 0, Digits)

Decoding == stage \in {"decode", "decode again"} /\ offset < Len(xml)
Replace(chars, next) ==
  result' = result \o chars /\ offset' = next /\ UNCHANGED <<xml, stage, value>>

AtReference == xml[offset + 1] = "&" /\ Semicolons # {}

DecodePlain ==
  /\ Decoding
  /\ AtReference => Ref \notin DOMAIN Entity /\ ~ IsNumeric
  /\ Replace(<<xml[offset + 1]>>, offset + 1)

(* Mutant: the loop goes on at the semicolon.                              *)
DecodeEntityTwice ==
  /\ Decoding /\ AtReference /\ Ref \in DOMAIN Entity
  /\ Replace(<<Entity[Ref]>>, Semi - 1)

DecodeEntity ==
  /\ Decoding /\ AtReference /\ Ref \in DOMAIN Entity
  /\ Replace(<<Entity[Ref]>>, Semi)

DecodeNumber ==
  /\ Decoding /\ AtReference /\ IsNumeric
  /\ CASE IsNumber /\ IsValidXmlChar(CodePoint) -> Replace(<<CharOf(CodePoint)>>, Semi)
       [] IsNumber /\ ~ IsValidXmlChar(CodePoint) ->
            stage' = "invalid_xml_character" /\ UNCHANGED <<xml, offset, result, value>>
       [] OTHER -> Replace(SubSeq(xml, offset + 1, Semi), Semi)

(* The token has its value, and to_string is called.                       *)
EndDecode ==
  /\ stage = "decode" /\ offset = Len(xml)
  /\ value' = result /\ xml' = result /\ offset' = 0 /\ result' = <<>> /\ stage' = "encode"

Encoded == [c \in {"&", "<", ">", "\"", "'"} |->
              CASE c = "&" -> <<"&", "a", "m", "p", ";">>
                [] c = "<" -> <<"&", "l", "t", ";">>
                [] c = ">" -> <<"&", "g", "t", ";">>
                [] c = "\"" -> <<"&", "q", "u", "o", "t", ";">>
                [] c = "'" -> <<"&", "a", "p", "o", "s", ";">>]

Encode ==
  /\ stage = "encode" /\ offset < Len(xml)
  /\ IF IsValidXmlChar(Code[xml[offset + 1]])
     THEN Replace(IF xml[offset + 1] \in DOMAIN Encoded THEN Encoded[xml[offset + 1]]
                                                   ELSE <<xml[offset + 1]>>, offset + 1)
     ELSE stage' = "to_string_threw" /\ UNCHANGED <<xml, offset, result, value>>

EndEncode ==
  /\ stage = "encode" /\ offset = Len(xml)
  /\ xml' = result /\ offset' = 0 /\ result' = <<>> /\ stage' = "decode again"
  /\ UNCHANGED value

XmlNext == DecodePlain \/ DecodeEntity \/ DecodeNumber \/ EndDecode \/ Encode \/ EndEncode

XmlDone ==
  \/ stage \in {"invalid_xml_character", "to_string_threw"}
  \/ stage = "decode again" /\ offset = Len(xml)

---------------------------------------------------------------------------

(* The value of a token, printed and read again, is the same value: each   *)
(* reference is decoded once, in whatever way the text puts ampersands,    *)
(* semicolons and digits together.                                         *)
XmlReadsBack == (stage = "decode again" /\ offset = Len(xml)) => result = value
=============================================================================
