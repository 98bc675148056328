------------------------------ MODULE MCTypes -------------------------------
(***************************************************************************)
(* Type aliases: the precedence chain of type expressions with type        *)
(* arguments, and type parameters.                                         *)
(***************************************************************************)
EXTENDS TypeGrammar

TypeTokens == {"type", "identifier", "eq", "bar", "ampersand", "open_paren",
               "close_paren", "open_bracket", "close_bracket", "minus",
               "numeric_constant", "semicolon", "less", "greater", "comma",
               "dot", "extends", "in", "out"}
===========================================================================
