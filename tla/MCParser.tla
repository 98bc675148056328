------------------------------ MODULE MCParser ------------------------------
(***************************************************************************)
(* Alphabets of texts that no grammar is compared with.                    *)
(***************************************************************************)
EXTENDS ParserSafety

(* Every token class that the parser tells apart, comments left out.       *)
AnyToken == Token \ {"comment", "block_comment", "block_comment_lines"}

(* Nested scopes, ambient and not, with exports and imports in them.       *)
ScopeTokens == {"declare", "namespace", "module", "identifier", "string_constant",
                "open_brace", "close_brace", "export", "eq", "import", "newline"}
=============================================================================
