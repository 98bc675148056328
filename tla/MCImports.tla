----------------------------- MODULE MCImports ------------------------------
(***************************************************************************)
(* Import declarations, on their own and among other statements, and       *)
(* imports with named specifiers.                                          *)
(***************************************************************************)
EXTENDS ImportGrammar

(* Files of import declarations.                                           *)
ImportTokens == {"import", "type", "identifier", "from", "as", "comma", "asterisk",
                 "open_brace", "close_brace", "string_constant", "semicolon", "eq",
                 "require", "open_paren", "close_paren", "dot", "with", "colon"}

(* Statements on lines of their own with comments between and within them. *)
TriviaTokens == (Trivia \ {"block_comment"}) \cup
  {"import", "identifier", "string_constant", "eq", "export", "semicolon"}

(* Named specifiers, spelled with contextual keywords.                     *)
SpecifierTokens == {"import", "export", "open_brace", "close_brace", "identifier", "type",
                    "as", "comma", "from", "string_constant"}
=============================================================================
