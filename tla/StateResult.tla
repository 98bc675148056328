---------------------------- MODULE StateResult ----------------------------
(***************************************************************************)
(* The vocabulary that the parser's states share: the kinds of token they  *)
(* tell apart, the frames of the state stack, and the results a state      *)
(* returns from process(), accept_child() and on_eof().                    *)
(*                                                                         *)
(* A token is the name of its class (with "_token" dropped).  Spelling and *)
(* source position are abstracted away, except that                        *)
(*   - keyword_type stands for the twelve predefined type keywords,        *)
(*   - boolean_literal for true and false,                                 *)
(*   - string_constant and numeric_constant for the two sorts of           *)
(*     constant_value_token,                                               *)
(*   - block_comment / block_comment_lines for a /* */ or jsdoc comment on *)
(*     one line / on several lines,                                        *)
(*   - other for every token class that no state names.                    *)
(*                                                                         *)
(* A frame is one object of state_stack_: the class of the state and the   *)
(* set of its members that are "on" (a boolean member that is true, an     *)
(* optional or pointer member that is set, the current value of an enum).  *)
(***************************************************************************)

Constant   == {"string_constant", "numeric_constant"}

(* detail::can_be_identifier: identifiers and the contextual keywords.     *)
Identifier == {"identifier", "type", "from", "as", "assert", "require"}

(* Tokens that a specifier's head accepts as a name besides `type`.        *)
SpecifierName == (Identifier \ {"type"}) \cup Constant \cup {"default"}

Punctuation ==
  {"open_brace", "close_brace", "open_paren", "close_paren", "open_bracket",
   "close_bracket", "less", "greater", "comma", "semicolon", "dot", "colon",
   "eq", "asterisk", "bar", "ampersand", "minus"}

Keyword ==
  {"import", "export", "declare", "namespace", "module", "default",
   "extends", "in", "out", "with", "this", "boolean_literal", "keyword_type"}

(* Tokens that collect_trivia takes out of the stream, and those of them   *)
(* that leave a synthetic newline behind.                                  *)
Comment == {"comment", "block_comment", "block_comment_lines"}
Trivia  == Comment \cup {"newline"}
LineBreak == {"newline", "block_comment_lines"}

Token == Identifier \cup Constant \cup Punctuation \cup Keyword \cup Trivia
           \cup {"other"}
EndOfText == "eof"

---------------------------------------------------------------------------
(* Frames.                                                                 *)

Frame(state, on) == [state |-> state, on |-> on]
Fresh(state) == Frame(state, {})
NoFrame == Fresh("none")

(* multiline_state: what a derived class inherits.                         *)
multiline_state == {"newline_loc"}

Turn(f, off, on) == [f EXCEPT !.on = (f.on \ off) \cup on]
TurnOn(f, on) == Turn(f, {}, on)

(* Nodes: an ast_node is its kind and whether its export keyword is set.   *)
(* All type_definition subclasses share one kind, as in ast_node::kind.    *)
Exportable == {"import", "namespace", "declare_module", "type_alias",
               "export_assignment", "export_star", "named_export"}
NodeKind == Exportable \cup {"type_definition", "type_parameter", "null"}
AstNode == [kind : NodeKind, exported : BOOLEAN]
Node(k) == [kind |-> k, exported |-> FALSE]
NullNode == Node("null")

(* A unique_ptr member that is moved into the result: null if not set.     *)
Moved(f, member, k) == IF member \in f.on THEN Node(k) ELSE NullNode

---------------------------------------------------------------------------
(* Results.  frame is the state after the call, calls are the (at most     *)
(* two) calls it makes on the declaration under construction.              *)

Result(act, f) ==
  [act |-> act, frame |-> f, child |-> NoFrame, node |-> NullNode,
   reprocess |-> FALSE, newline |-> FALSE, error |-> "none",
   calls |-> <<"none", "none">>]

Stay(f)        == Result("stay", f)
Push(f, c)     == [Result("push", f) EXCEPT !.child = c]
Complete(f, n) == [Result("complete", f) EXCEPT !.node = n]
Throw(e)       == [Result("throw", NoFrame) EXCEPT !.error = e]
NullOpt(f)     == Result("nullopt", f)

Reprocess(r)      == [r EXCEPT !.reprocess = TRUE]
Calling(r, c)     == [r EXCEPT !.calls = <<c, "none">>]
Calling2(r, c, d) == [r EXCEPT !.calls = <<c, d>>]

Expected == Throw("expected_token")
LogicError == Throw("logic_error")

(* Mutant: the remembered newline outlives the token that came after it.   *)
MultilineSticky(f, t, content) ==
  IF t = "newline" THEN Stay(TurnOn(f, {"newline_loc"}))
  ELSE [content EXCEPT !.newline = /\ content.act = "complete"
                                   /\ content.reprocess
                                   /\ "newline_loc" \in f.on]

(* multiline_state::process: a newline is remembered; the next token goes  *)
(* to process_content, whose result carries the newline only when it gives *)
(* the token back.                                                         *)
Multiline(f, t, content) ==
  IF t = "newline" THEN Stay(TurnOn(f, {"newline_loc"}))
  ELSE [content EXCEPT
          !.newline = /\ content.act = "complete"
                      /\ content.reprocess
                      /\ "newline_loc" \in f.on,
          !.frame   = Turn(content.frame, {"newline_loc"}, {})]

(* basic_state_visitor: the handlers a visitor inherits.                   *)
Visitor(f, t, handled) ==
  IF t = "newline" THEN Stay(f) ELSE handled
===========================================================================
