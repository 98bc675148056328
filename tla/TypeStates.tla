----------------------------- MODULE TypeStates -----------------------------
(***************************************************************************)
(* The states of state/type_state and state/type: a type alias, its header *)
(* and type parameters, and the precedence chain of type expressions       *)
(* (union, intersection, operator, postfix, primary, reference).           *)
(***************************************************************************)
EXTENDS StateResult

TypeStateName ==
  {"type", "type_header", "type_parameter_list", "type_parameter",
   "type_expression", "type_union", "type_intersection", "type_operator",
   "type_postfix", "type_primary", "type_reference", "type_argument_list",
   "type_paren"}

FreshReference == Frame("type_reference", {"expect_segment"})

(* type_state: header, then the right-hand side, then `;` or what ends the *)
(* statement without one.                                                  *)
Type(f, t) ==
  CASE "header_done" \notin f.on ->
         Reprocess(Push(TurnOn(f, {"header_done"}), Fresh("type_header")))
    [] "header_done" \in f.on /\ "type_done" \notin f.on ->
         Reprocess(Push(TurnOn(f, {"type_done"}), Fresh("type_expression")))
    [] OTHER ->
         CASE t = "semicolon" -> Complete(f, Node("type_alias"))
           [] t \in {"newline", "close_brace"} ->
                Reprocess(Complete(f, Node("type_alias")))
           [] OTHER -> Expected

TypeAccept(f, n) ==
  IF "type_done" \notin f.on THEN Stay(f)
  ELSE Stay(IF n.kind = "null" THEN f ELSE TurnOn(f, {"type"}))

TypeEof(f) ==
  IF {"type_done", "type"} \subseteq f.on
  THEN Complete(f, Node("type_alias")) ELSE NullOpt(f)

TypeHeader(f, t) ==
  CASE t = "newline" -> Stay(f)
    [] t # "newline" /\ "has_name" \notin f.on ->
         IF t \in Identifier THEN Stay(TurnOn(f, {"has_name"})) ELSE Expected
    [] t = "less" /\ "has_name" \in f.on /\ "type_params_done" \notin f.on ->
         Push(TurnOn(f, {"type_params_done"}), Fresh("type_parameter_list"))
    [] t = "eq" /\ "has_name" \in f.on ->
         Complete(TurnOn(f, {"type_params_done"}), NullNode)
    [] OTHER -> Expected

TypeParameterList(f, t) ==
  CASE t = "newline" -> Stay(f)
    [] t # "newline" /\ "init_done" \notin f.on ->
         IF t = "greater" THEN Expected
         ELSE Reprocess(Push(TurnOn(f, {"init_done"}), Fresh("type_parameter")))
    [] t = "comma" /\ "init_done" \in f.on -> Push(f, Fresh("type_parameter"))
    [] t = "greater" /\ "init_done" \in f.on -> Complete(f, NullNode)
    [] OTHER -> Expected

(* Variance modifiers in, out (in that order), the name, and then at most  *)
(* one constraint and one default, each a type expression.                 *)
TypeParameter(f, t) ==
  CASE t = "newline" -> Stay(f)
    [] t # "newline" /\ "has_name" \notin f.on ->
         CASE t = "in" /\ f.on \cap {"in", "out"} = {} -> Stay(TurnOn(f, {"in"}))
           [] t = "out" /\ "out" \notin f.on -> Stay(TurnOn(f, {"out"}))
           [] t \in Identifier -> Stay(TurnOn(f, {"has_name"}))
           [] OTHER -> Expected
    [] t = "extends" /\ "has_name" \in f.on /\ "constraint" \notin f.on ->
         Push(TurnOn(f, {"constraint_pending"}), Fresh("type_expression"))
    [] t = "eq" /\ "has_name" \in f.on /\ "default" \notin f.on ->
         Push(TurnOn(f, {"default_pending"}), Fresh("type_expression"))
    [] OTHER -> Reprocess(Complete(f, Node("type_parameter")))

TypeParameterAccept(f, n) ==
  CASE "constraint_pending" \in f.on ->
         Stay(Turn(f, {"constraint_pending"}, {"constraint"}))
    [] f.on \cap {"constraint_pending", "default_pending"} = {"default_pending"} ->
         Stay(Turn(f, {"default_pending"}, {"default"}))
    [] OTHER -> LogicError

TypeExpression(f, t) ==
  IF "init_done" \notin f.on
  THEN Reprocess(Push(TurnOn(f, {"init_done"}), Fresh("type_union")))
  ELSE LogicError

(* type_union_state and type_intersection_state differ in the separator    *)
(* and in the state they push.  member / members: one / several parsed.    *)
Separated(f, t, separator, operand) ==
  LET content ==
        CASE "init_done" \notin f.on /\ t = separator ->
               Push(TurnOn(f, {"init_done"}), Fresh(operand))
          [] "init_done" \notin f.on /\ t # separator ->
               Reprocess(Push(TurnOn(f, {"init_done"}), Fresh(operand)))
          [] "init_done" \in f.on /\ t = separator -> Push(f, Fresh(operand))
          [] OTHER -> Reprocess(Complete(f, Node("type_definition")))
  IN  Multiline(f, t, content)

SeparatedAccept(f, n) ==
  Stay(TurnOn(f, {"member"}))

SeparatedEof(f) ==
  IF "member" \in f.on THEN Complete(f, Node("type_definition")) ELSE NullOpt(f)

TypePostfix(f, t) ==
  LET content ==
        CASE "init_done" \notin f.on ->
               Reprocess(Push(TurnOn(f, {"init_done"}), Fresh("type_primary")))
          [] {"init_done", "open_bracket"} \subseteq f.on ->
               IF t = "close_bracket"
               THEN Stay(Turn(f, {"open_bracket"}, {"base"})) ELSE Expected
          [] t = "open_bracket" /\ f.on \cap {"init_done", "open_bracket"} = {"init_done"} ->
               Stay(TurnOn(f, {"open_bracket"}))
          [] OTHER -> Reprocess(Complete(f, Moved(f, "base", "type_definition")))
  IN  Multiline(f, t, content)

(* Mutant: the type inside the array suffix is not kept.                   *)
TypePostfixAcceptForgets(f, n) == Stay(f)

TypePostfixAccept(f, n) ==
  Stay(IF n.kind = "null" THEN Turn(f, {"base"}, {}) ELSE TurnOn(f, {"base"}))

(* Mutant: an array suffix may end with the text before its bracket.       *)
TypePostfixEofUnclosed(f) ==
  IF "base" \in f.on THEN Complete(f, Node("type_definition")) ELSE NullOpt(f)

TypePostfixEof(f) ==
  IF "base" \in f.on /\ "open_bracket" \notin f.on
  THEN Complete(f, Node("type_definition")) ELSE NullOpt(f)

TypePrimary(f, t) ==
  CASE t = "newline" -> Stay(f)
    [] t # "newline" /\ "minus" \in f.on ->
         IF t \in Constant THEN Complete(f, Node("type_definition")) ELSE Expected
    [] t \in Constant \cup {"keyword_type", "boolean_literal", "this"} /\ "minus" \notin f.on ->
         Complete(f, Node("type_definition"))
    [] t = "minus" /\ "minus" \notin f.on -> Stay(TurnOn(f, {"minus"}))
    [] t = "identifier" /\ "minus" \notin f.on ->
         Reprocess(Push(f, FreshReference))
    [] t = "open_paren" /\ "minus" \notin f.on -> Push(f, Fresh("type_paren"))
    [] OTHER -> Expected

(* A newline is absorbed here without being remembered.                    *)
TypeReference(f, t) ==
  CASE t = "newline" -> Stay(f)
    [] t # "newline" /\ "expect_segment" \in f.on ->
         IF t \in Identifier THEN Stay(Turn(f, {"expect_segment"}, {})) ELSE Expected
    [] t = "dot" /\ f.on \cap {"expect_segment", "type_args_done"} = {} ->
         Stay(TurnOn(f, {"expect_segment"}))
    [] t = "less" /\ f.on \cap {"expect_segment", "type_args_done"} = {} ->
         Push(TurnOn(f, {"type_args_done"}), Fresh("type_argument_list"))
    [] OTHER -> Reprocess(Complete(f, Node("type_definition")))

TypeArgumentList(f, t) ==
  CASE t = "newline" -> Stay(f)
    [] t # "newline" /\ "init_done" \notin f.on ->
         Reprocess(Push(TurnOn(f, {"init_done"}), Fresh("type_expression")))
    [] t = "comma" /\ "init_done" \in f.on -> Push(f, Fresh("type_expression"))
    [] t = "greater" /\ "init_done" \in f.on -> Complete(f, NullNode)
    [] OTHER -> Expected

TypeParen(f, t) ==
  CASE t = "newline" -> Stay(f)
    [] t # "newline" /\ "init_done" \notin f.on ->
         Reprocess(Push(TurnOn(f, {"init_done"}), Fresh("type_expression")))
    [] t = "close_paren" /\ "init_done" \in f.on ->
         Complete(f, Moved(f, "inner", "type_definition"))
    [] OTHER -> Expected

TypeParenAccept(f, n) ==
  Stay(IF n.kind = "null" THEN Turn(f, {"inner"}, {}) ELSE TurnOn(f, {"inner"}))

---------------------------------------------------------------------------
(* The virtual calls, for the states of this module.                       *)

TypeProcess(f, t) ==
  CASE f.state = "type"                -> Type(f, t)
    [] f.state = "type_header"         -> TypeHeader(f, t)
    [] f.state = "type_parameter_list" -> TypeParameterList(f, t)
    [] f.state = "type_parameter"      -> TypeParameter(f, t)
    [] f.state = "type_expression"     -> TypeExpression(f, t)
    [] f.state = "type_union"          -> Separated(f, t, "bar", "type_intersection")
    [] f.state = "type_intersection"   -> Separated(f, t, "ampersand", "type_operator")
    [] f.state = "type_operator"       -> Reprocess(Push(f, Fresh("type_postfix")))
    [] f.state = "type_postfix"        -> TypePostfix(f, t)
    [] f.state = "type_primary"        -> TypePrimary(f, t)
    [] f.state = "type_reference"      -> TypeReference(f, t)
    [] f.state = "type_argument_list"  -> TypeArgumentList(f, t)
    [] OTHER                           -> TypeParen(f, t)

TypeAcceptChild(f, n) ==
  CASE f.state = "type"           -> TypeAccept(f, n)
    [] f.state = "type_parameter" -> TypeParameterAccept(f, n)
    [] f.state \in {"type_union", "type_intersection"} -> SeparatedAccept(f, n)
    [] f.state = "type_postfix"   -> TypePostfixAccept(f, n)
    [] f.state = "type_paren"     -> TypeParenAccept(f, n)
    [] f.state \in {"type_header", "type_parameter_list", "type_argument_list"} -> Stay(f)
    [] f.state \in {"type_expression", "type_operator", "type_primary"} -> Complete(f, n)
    [] OTHER -> Complete(TurnOn(f, {"type_args_done"}), Node("type_definition"))

TypeOnEof(f) ==
  CASE f.state = "type"         -> TypeEof(f)
    [] f.state \in {"type_union", "type_intersection"} -> SeparatedEof(f)
    [] f.state = "type_postfix" -> TypePostfixEof(f)
    [] OTHER                    -> NullOpt(f)
---------------------------------------------------------------------------
(* The members of each class that are set or cleared while it runs.  The   *)
(* node under construction is not among them: `type`, `constraint`, ...    *)
(* say which of its parts are there.                                       *)
type_state == {"header_done", "type_done", "type"}
type_header_state == {"has_name", "type_params_done"}
type_parameter_list_state == {"init_done"}
type_parameter_state ==
  {"in", "out", "has_name", "constraint_pending", "constraint", "default_pending",
   "default"}
type_expression_state == {"init_done"}
type_union_state == multiline_state \cup {"init_done", "member"}
type_intersection_state == multiline_state \cup {"init_done", "member"}
type_operator_state == {}
type_postfix_state == multiline_state \cup {"init_done", "base", "open_bracket"}
type_primary_state == {"minus"}
type_reference_state == {"expect_segment", "type_args_done"}
type_argument_list_state == {"init_done"}
type_paren_state == {"init_done", "inner"}

TypeFlag ==
  UNION {type_state, type_header_state, type_parameter_list_state, type_parameter_state,
         type_expression_state, type_union_state, type_intersection_state,
         type_operator_state, type_postfix_state, type_primary_state,
         type_reference_state, type_argument_list_state, type_paren_state}
===========================================================================
