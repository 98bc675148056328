--------------------------- MODULE States_proofs ---------------------------
(***************************************************************************)
(* Every result of the states of the parser is sound: those of types, of   *)
(* imports and specifiers, of exports and of scopes, with one lemma for    *)
(* each of the three virtual calls.  What they store in the declaration is *)
(* of the right sort, and the file scope never completes, so that the      *)
(* stack never loses its bottom.                                           *)
(***************************************************************************)
EXTENDS Results_proofs

---------------------------------------------------------------------------
(* Types.                                                                  *)

LEMMA TypeFlags ==
  /\ IsFlags({"header_done"}) /\ IsFlags({"type_done"}) /\ IsFlags({"type"})
  /\ IsFlags({"has_name"}) /\ IsFlags({"type_params_done"}) /\ IsFlags({"init_done"})
  /\ IsFlags({"in"}) /\ IsFlags({"out"})
  /\ IsFlags({"constraint_pending"}) /\ IsFlags({"constraint"})
  /\ IsFlags({"default_pending"}) /\ IsFlags({"default"}) /\ IsFlags({"member"})
  /\ IsFlags({"open_bracket"}) /\ IsFlags({"base"}) /\ IsFlags({"minus"})
  /\ IsFlags({"expect_segment"}) /\ IsFlags({"type_args_done"}) /\ IsFlags({"inner"})
  /\ IsFlags({})
BY KnownFlags DEF IsFlags

LEMMA TypeNodes ==
  /\ NullNode \in AstNode /\ Node("type_alias") \in AstNode
  /\ Node("type_definition") \in AstNode /\ Node("type_parameter") \in AstNode
BY Nodes, ANullNode DEF NodeKind, Exportable

LEMMA TypeMoved ==
  ASSUME NEW f, NEW m PROVE Moved(f, m, "type_definition") \in AstNode
BY TypeNodes DEF Moved

LEMMA TypePushes ==
  ASSUME NEW f
  PROVE  /\ f.state = "type" => Pushes(f, Fresh("type_header")) /\ Pushes(f, Fresh("type_expression"))
         /\ f.state = "type_header" => Pushes(f, Fresh("type_parameter_list"))
         /\ f.state = "type_parameter_list" => Pushes(f, Fresh("type_parameter"))
         /\ f.state \in {"type_parameter", "type_argument_list", "type_paren"} =>
              Pushes(f, Fresh("type_expression"))
         /\ f.state = "type_expression" => Pushes(f, Fresh("type_union"))
         /\ f.state = "type_union" => Pushes(f, Fresh("type_intersection"))
         /\ f.state = "type_intersection" => Pushes(f, Fresh("type_operator"))
         /\ f.state = "type_operator" => Pushes(f, Fresh("type_postfix"))
         /\ f.state = "type_postfix" => Pushes(f, Fresh("type_primary"))
         /\ f.state = "type_primary" => Pushes(f, FreshReference) /\ Pushes(f, Fresh("type_paren"))
         /\ f.state = "type_reference" => Pushes(f, Fresh("type_argument_list"))
<1>1. TypeStateName \subseteq StateName BY DEF StateName
<1>2. \A s \in TypeStateName : IsFrame(Fresh(s)) /\ Fresh(s).state = s
  BY <1>1, FreshFrame
<1>3. IsFrame(FreshReference) /\ FreshReference.state = "type_reference"
  BY <1>1, NewFrame, TypeFlags DEF FreshReference, TypeStateName
<1> QED
  BY <1>2, <1>3 DEF Pushes, MayPush, TypeStateName, SpecifierListName, ImportLink, ImportStateName

---------------------------------------------------------------------------
(* process.                                                                *)

LEMMA TypeSound ==
  ASSUME NEW f, NEW t, IsFrame(f), f.state = "type" PROVE Sound(f, t, Type(f, t))
BY TypeFlags, TypeNodes, TypePushes, TurnOnFrame, SoundPush, SoundComplete,
   SoundReprocess, SoundExpected DEF Type

LEMMA TypeHeaderSound ==
  ASSUME NEW f, NEW t, IsFrame(f), f.state = "type_header"
  PROVE  Sound(f, t, TypeHeader(f, t))
BY TypeFlags, TypeNodes, TypePushes, SameFrame, TurnOnFrame, SoundStay, SoundPush,
   SoundComplete, SoundExpected DEF TypeHeader

LEMMA TypeParameterListSound ==
  ASSUME NEW f, NEW t, IsFrame(f), f.state = "type_parameter_list"
  PROVE  Sound(f, t, TypeParameterList(f, t))
BY TypeFlags, TypeNodes, TypePushes, SameFrame, TurnOnFrame, SoundStay, SoundPush,
   SoundComplete, SoundReprocess, SoundExpected DEF TypeParameterList

LEMMA TypeParameterSound ==
  ASSUME NEW f, NEW t, IsFrame(f), f.state = "type_parameter"
  PROVE  Sound(f, t, TypeParameter(f, t))
BY TypeFlags, TypeNodes, TypePushes, SameFrame, TurnOnFrame, SoundStay, SoundPush,
   SoundComplete, SoundReprocess, SoundExpected DEF TypeParameter

LEMMA TypeExpressionSound ==
  ASSUME NEW f, NEW t, IsFrame(f), f.state = "type_expression"
  PROVE  Sound(f, t, TypeExpression(f, t))
BY TypeFlags, TypePushes, TurnOnFrame, SoundPush, SoundReprocess, SoundExpected
   DEF TypeExpression

LEMMA SeparatedSound ==
  ASSUME NEW f, NEW t, IsFrame(f), f.state # "module_scope",
         NEW separator, NEW operand, Pushes(f, Fresh(operand))
  PROVE  Sound(f, t, Separated(f, t, separator, operand))
BY TypeFlags, TypeNodes, SameFrame, TurnOnFrame, SoundPush, SoundComplete,
   SoundReprocess, SoundMultiline DEF Separated

LEMMA TypePostfixSound ==
  ASSUME NEW f, NEW t, IsFrame(f), f.state = "type_postfix"
  PROVE  Sound(f, t, TypePostfix(f, t))
BY TypeFlags, TypeMoved, TypePushes, TurnFrame, TurnOnFrame, SoundStay, SoundPush,
   SoundComplete, SoundReprocess, SoundExpected, SoundMultiline DEF TypePostfix

LEMMA TypePrimarySound ==
  ASSUME NEW f, NEW t, IsFrame(f), f.state = "type_primary"
  PROVE  Sound(f, t, TypePrimary(f, t))
BY TypeFlags, TypeNodes, TypePushes, SameFrame, TurnOnFrame, SoundStay, SoundPush,
   SoundComplete, SoundReprocess, SoundExpected DEF TypePrimary

LEMMA TypeReferenceSound ==
  ASSUME NEW f, NEW t, IsFrame(f), f.state = "type_reference"
  PROVE  Sound(f, t, TypeReference(f, t))
BY TypeFlags, TypeNodes, TypePushes, SameFrame, TurnFrame, TurnOnFrame, SoundStay,
   SoundPush, SoundComplete, SoundReprocess, SoundExpected DEF TypeReference

LEMMA TypeArgumentListSound ==
  ASSUME NEW f, NEW t, IsFrame(f), f.state = "type_argument_list"
  PROVE  Sound(f, t, TypeArgumentList(f, t))
BY TypeFlags, TypeNodes, TypePushes, SameFrame, TurnOnFrame, SoundStay, SoundPush,
   SoundComplete, SoundReprocess, SoundExpected DEF TypeArgumentList

LEMMA TypeParenSound ==
  ASSUME NEW f, NEW t, IsFrame(f), f.state = "type_paren"
  PROVE  Sound(f, t, TypeParen(f, t))
BY TypeFlags, TypeMoved, TypePushes, SameFrame, TurnOnFrame, SoundStay, SoundPush,
   SoundComplete, SoundReprocess, SoundExpected DEF TypeParen

LEMMA TypeProcessSound ==
  ASSUME NEW f, NEW t, IsFrame(f), f.state \in TypeStateName
  PROVE  Sound(f, t, TypeProcess(f, t))
<1>1. CASE f.state = "type_operator"
  BY <1>1, TypePushes, SameFrame, SoundPush, SoundReprocess DEF TypeProcess
<1>2. CASE f.state = "type_union"
  BY <1>2, TypePushes, SeparatedSound DEF TypeProcess
<1>3. CASE f.state = "type_intersection"
  BY <1>3, TypePushes, SeparatedSound DEF TypeProcess
<1>4. CASE f.state \in {"type", "type_header", "type_parameter_list", "type_parameter", "type_expression"}
  BY <1>4, TypeSound, TypeHeaderSound, TypeParameterListSound, TypeParameterSound,
     TypeExpressionSound DEF TypeProcess
<1>5. CASE f.state \in {"type_postfix", "type_primary", "type_reference", "type_argument_list", "type_paren"}
  BY <1>5, TypePostfixSound, TypePrimarySound, TypeReferenceSound,
     TypeArgumentListSound, TypeParenSound DEF TypeProcess
<1> QED BY <1>1, <1>2, <1>3, <1>4, <1>5 DEF TypeStateName

---------------------------------------------------------------------------
(* accept_child and on_eof.                                                *)

LEMMA TypeAcceptChildSound ==
  ASSUME NEW f, NEW t, IsFrame(f), f.state \in TypeStateName, NEW n \in AstNode
  PROVE  Sound(f, t, TypeAcceptChild(f, n))
<1>1. CASE f.state = "type"
  BY <1>1, TypeFlags, SameFrame, TurnOnFrame, SoundStay DEF TypeAcceptChild, TypeAccept
<1>2. CASE f.state = "type_parameter"
  BY <1>2, TypeFlags, TurnFrame, SoundStay, SoundExpected
     DEF TypeAcceptChild, TypeParameterAccept
<1>3. CASE f.state \in {"type_union", "type_intersection"}
  BY <1>3, TypeFlags, TurnOnFrame, SoundStay DEF TypeAcceptChild, SeparatedAccept
<1>4. CASE f.state = "type_postfix"
  BY <1>4, TypeFlags, TurnFrame, TurnOnFrame, SoundStay DEF TypeAcceptChild, TypePostfixAccept
<1>5. CASE f.state = "type_paren"
  BY <1>5, TypeFlags, TurnFrame, TurnOnFrame, SoundStay DEF TypeAcceptChild, TypeParenAccept
<1>6. CASE f.state \in {"type_header", "type_parameter_list", "type_argument_list"}
  BY <1>6, SameFrame, SoundStay DEF TypeAcceptChild
<1>7. CASE f.state \in {"type_expression", "type_operator", "type_primary", "type_reference"}
  BY <1>7, TypeNodes, SoundComplete DEF TypeAcceptChild
<1> QED BY <1>1, <1>2, <1>3, <1>4, <1>5, <1>6, <1>7 DEF TypeStateName

LEMMA TypeOnEofSound ==
  ASSUME NEW f, NEW t, IsFrame(f), f.state \in TypeStateName
  PROVE  Sound(f, t, TypeOnEof(f))
BY TypeNodes, SoundComplete, SoundNullOpt
   DEF TypeOnEof, TypeEof, SeparatedEof, TypePostfixEof

---------------------------------------------------------------------------
(* What the type states promise their neighbours.                          *)

LEMMA TypeLinks ==
  ASSUME NEW g
  PROVE  /\ g.state = "type" =>
              /\ "type_done" \notin g.on => Link(g, Fresh("type_header"))
              /\ "type_done" \in g.on => Link(g, Fresh("type_expression"))
         /\ g.state = "type_header" => Link(g, Fresh("type_parameter_list"))
         /\ g.state = "type_parameter_list" => Link(g, Fresh("type_parameter"))
         /\ g.state \in {"type_argument_list", "type_paren"} => Link(g, Fresh("type_expression"))
         /\ g.state = "type_parameter" /\
              ("constraint_pending" \in g.on \/ "default_pending" \in g.on) =>
              Link(g, Fresh("type_expression"))
         /\ g.state = "type_expression" => Link(g, Fresh("type_union"))
         /\ g.state = "type_union" => Link(g, Fresh("type_intersection"))
         /\ g.state = "type_intersection" => Link(g, Fresh("type_operator"))
         /\ g.state = "type_operator" => Link(g, Fresh("type_postfix"))
         /\ g.state = "type_postfix" => Link(g, Fresh("type_primary"))
         /\ g.state = "type_primary" => Link(g, FreshReference) /\ Link(g, Fresh("type_paren"))
         /\ g.state = "type_reference" => Link(g, Fresh("type_argument_list"))
<1>1. /\ \A s : Fresh(s).state = s
      /\ FreshReference.state = "type_reference"
  BY FrameFields DEF FreshReference
<1>2. g.state \in TypeStateName => g.state \notin ImportStateName /\ g.state \notin Leaf
  BY DEF TypeStateName, ImportStateName, Leaf
<1>3. \A s \in TypeStateName :
        s \notin Scope \cup {"declare", "import", "export", "export_assignment"}
  BY DEF TypeStateName, Scope
<1>4. ASSUME NEW c, g.state \in TypeStateName, c.state \in TypeStateName,
             Delivers(c.state) \subseteq Deliverable(g),
             g.state = "type_parameter" =>
               "constraint_pending" \in g.on \/ "default_pending" \in g.on
      PROVE  Link(g, c)
  BY <1>2, <1>3, <1>4, PlainLink DEF Awaits
<1>5. /\ \A s \in TypeOperand : Delivers(s) = {"type_definition"}
      /\ Delivers("type_header") = {"null"} /\ Delivers("type_parameter_list") = {"null"}
      /\ Delivers("type_argument_list") = {"null"}
      /\ Delivers("type_parameter") = {"type_parameter"}
  BY DEF Delivers, TypeOperand
<1> QED BY <1>1, <1>4, <1>5 DEF Deliverable, TypeStateName, TypeOperand

LEMMA ReferenceRests == Steady(FreshReference) /\ Idle(FreshReference)
BY FrameFields DEF FreshReference, Steady, Idle, ImportStateName

LEMMA TypeProper ==
  ASSUME NEW f, NEW t, IsFrame(f), f.state = "type", Steady(f), Idle(f)
  PROVE  Proper(f, Type(f, t))
<1>1. CASE "header_done" \notin f.on
  <2>. DEFINE g == TurnOn(f, {"header_done"})
  <2>1. g.state = f.state /\ g.on = f.on \cup {"header_done"} BY TurnFields
  <2>. HIDE DEF g
  <2>2. Keeps(f, g) /\ Steady(g) BY <2>1, <1>1 DEF Keeps, Inherited, Steady
  <2>3. Link(g, Fresh("type_header")) BY <2>1, <1>1, TypeLinks DEF Steady
  <2>4. Proper(f, Reprocess(Push(g, Fresh("type_header"))))
    BY <2>2, <2>3, FreshRests, ProperPush, ProperReprocess
  <2> QED BY <1>1, <2>4 DEF Type, g
<1>2. CASE "header_done" \in f.on /\ "type_done" \notin f.on
  <2>. DEFINE g == TurnOn(f, {"type_done"})
  <2>1. g.state = f.state /\ g.on = f.on \cup {"type_done"} BY TurnFields
  <2>. HIDE DEF g
  <2>2. Keeps(f, g) /\ Steady(g) BY <2>1, <1>2 DEF Keeps, Inherited, Steady
  <2>3. Link(g, Fresh("type_expression")) BY <2>1, TypeLinks
  <2>4. Proper(f, Reprocess(Push(g, Fresh("type_expression"))))
    BY <2>2, <2>3, FreshRests, ProperPush, ProperReprocess
  <2> QED BY <1>2, <2>4 DEF Type, g
<1>3. CASE "header_done" \in f.on /\ "type_done" \in f.on
  <2>1. Node("type_alias").kind \in Delivers(f.state)
    BY NodeFields DEF Delivers, TypeOperand
  <2> QED BY <1>3, <2>1, ProperComplete, ProperReprocess, ProperExpected DEF Type
<1> QED BY <1>1, <1>2, <1>3

LEMMA TypeUninherited ==
  /\ Uninherited({"has_name"}) /\ Uninherited({"type_params_done"})
  /\ Uninherited({"init_done"}) /\ Uninherited({"in"}) /\ Uninherited({"out"})
  /\ Uninherited({"constraint_pending"}) /\ Uninherited({"constraint"})
  /\ Uninherited({"default_pending"}) /\ Uninherited({"default"})
  /\ Uninherited({"member"}) /\ Uninherited({"minus"}) /\ Uninherited({"expect_segment"})
  /\ Uninherited({"type_args_done"}) /\ Uninherited({})
BY DEF Uninherited, Inherited

LEMMA TypeDelivers ==
  ASSUME NEW f
  PROVE  /\ f.state \in {"type_header", "type_parameter_list", "type_argument_list"} =>
              NullNode.kind \in Delivers(f.state)
         /\ f.state = "type_parameter" => Node("type_parameter").kind \in Delivers(f.state)
         /\ f.state \in TypeOperand => Node("type_definition").kind \in Delivers(f.state)
BY NodeFields DEF Delivers, TypeOperand

(* The states whose members promise nothing.                               *)
LEMMA TypeListProper ==
  ASSUME NEW f, NEW t, IsFrame(f)
  PROVE  /\ f.state = "type_header" => Proper(f, TypeHeader(f, t))
         /\ f.state = "type_parameter_list" => Proper(f, TypeParameterList(f, t))
         /\ f.state = "type_argument_list" => Proper(f, TypeArgumentList(f, t))
<1>1. \A s \in {"type_header", "type_parameter_list", "type_argument_list"} : s \notin Committed
  BY DEF Committed, ImportStateName
<1>. USE <1>1, FreeTurnOn, FreeFrame, TypeUninherited, TypeDelivers, TypeLinks, FreshRests,
         ProperStay, ProperPush, ProperComplete, ProperReprocess, ProperExpected
<1>2. f.state = "type_header" => Proper(f, TypeHeader(f, t))
  BY DEF TypeHeader
<1>3. f.state = "type_parameter_list" => Proper(f, TypeParameterList(f, t))
  BY DEF TypeParameterList
<1>4. f.state = "type_argument_list" => Proper(f, TypeArgumentList(f, t))
  BY DEF TypeArgumentList
<1> QED BY <1>2, <1>3, <1>4

LEMMA TypeParameterProper ==
  ASSUME NEW f, NEW t, IsFrame(f), f.state = "type_parameter"
  PROVE  Proper(f, TypeParameter(f, t))
<1>1. f.state \notin Committed BY DEF Committed, ImportStateName
<1>2. Link(TurnOn(f, {"constraint_pending"}), Fresh("type_expression"))
  <2>. DEFINE g == TurnOn(f, {"constraint_pending"})
  <2>1. g.state = f.state /\ g.on = f.on \cup {"constraint_pending"} BY TurnFields
  <2>. HIDE DEF g
  <2>2. Link(g, Fresh("type_expression")) BY <2>1, TypeLinks
  <2> QED BY <2>2 DEF g
<1>3. Link(TurnOn(f, {"default_pending"}), Fresh("type_expression"))
  <2>. DEFINE g == TurnOn(f, {"default_pending"})
  <2>1. g.state = f.state /\ g.on = f.on \cup {"default_pending"} BY TurnFields
  <2>. HIDE DEF g
  <2>2. Link(g, Fresh("type_expression")) BY <2>1, TypeLinks
  <2> QED BY <2>2 DEF g
<1> QED
  BY <1>1, <1>2, <1>3, FreeTurnOn, FreeFrame, TypeUninherited, TypeDelivers, FreshRests,
     ProperStay, ProperPush, ProperComplete, ProperReprocess, ProperExpected
     DEF TypeParameter

LEMMA SeparatedProper ==
  ASSUME NEW f, NEW t, IsFrame(f), f.state \in {"type_union", "type_intersection"},
         NEW separator, NEW operand, \A g : g.state = f.state => Link(g, Fresh(operand))
  PROVE  Proper(f, Separated(f, t, separator, operand))
<1>. DEFINE content ==
        CASE "init_done" \notin f.on /\ t = separator ->
               Push(TurnOn(f, {"init_done"}), Fresh(operand))
          [] "init_done" \notin f.on /\ t # separator ->
               Reprocess(Push(TurnOn(f, {"init_done"}), Fresh(operand)))
          [] "init_done" \in f.on /\ t = separator -> Push(f, Fresh(operand))
          [] OTHER -> Reprocess(Complete(f, Node("type_definition")))
<1>1. f.state \notin Committed BY DEF Committed, ImportStateName
<1>2. Proper(f, content)
  BY <1>1, FreeTurnOn, FreeFrame, TypeUninherited, TypeDelivers, FreshRests,
     ProperPush, ProperComplete, ProperReprocess DEF TypeOperand
<1>3. content.act \in {"stay", "push"} => IsFrame(content.frame)
  BY TypeFlags, SameFrame, TurnOnFrame DEF Replaces, Push, Complete, Reprocess, Result
<1>. HIDE DEF content
<1>4. Proper(f, Multiline(f, t, content))
  BY <1>1, <1>2, <1>3, FreeFrame, ProperMultiline
<1> QED BY <1>4 DEF Separated, content

LEMMA TypeAtomProper ==
  ASSUME NEW f, NEW t, IsFrame(f)
  PROVE  /\ f.state = "type_operator" => Proper(f, Reprocess(Push(f, Fresh("type_postfix"))))
         /\ f.state = "type_primary" => Proper(f, TypePrimary(f, t))
         /\ f.state = "type_reference" => Proper(f, TypeReference(f, t))
<1>1. \A s \in {"type_operator", "type_primary", "type_reference"} : s \notin Committed
  BY DEF Committed, ImportStateName
<1>. USE <1>1, FreeTurn, FreeTurnOn, FreeFrame, TypeUninherited, TypeDelivers, TypeLinks,
         FreshRests, ReferenceRests, ProperStay, ProperPush, ProperComplete, ProperReprocess,
         ProperExpected
<1>2. f.state = "type_operator" => Proper(f, Reprocess(Push(f, Fresh("type_postfix"))))
  OBVIOUS
<1>3. f.state = "type_primary" => Proper(f, TypePrimary(f, t))
  BY DEF TypePrimary, TypeOperand
<1>4. f.state = "type_reference" => Proper(f, TypeReference(f, t))
  BY DEF TypeReference, TypeOperand
<1> QED BY <1>2, <1>3, <1>4

LEMMA TypeExpressionProper ==
  ASSUME NEW f, NEW t, IsFrame(f), f.state = "type_expression", Idle(f)
  PROVE  Proper(f, TypeExpression(f, t))
<1>. DEFINE g == TurnOn(f, {"init_done"})
<1>1. g.state = f.state /\ g.on = f.on \cup {"init_done"} BY TurnFields
<1>. HIDE DEF g
<1>2. Keeps(f, g) /\ Steady(g) BY <1>1 DEF Keeps, Inherited, Steady
<1>3. Link(g, Fresh("type_union")) BY <1>1, TypeLinks
<1>4. Proper(f, Reprocess(Push(g, Fresh("type_union"))))
  BY <1>2, <1>3, FreshRests, ProperPush, ProperReprocess
<1>5. "init_done" \notin f.on BY DEF Idle
<1> QED BY <1>4, <1>5 DEF TypeExpression, g

(* The members of a postfix or a parenthesis, and the operand they hold.   *)
LEMMA HolderTurn ==
  ASSUME NEW f, IsFrame(f), f.state \in {"type_postfix", "type_paren"}, Idle(f)
  PROVE  /\ \A m \in {"init_done", "open_bracket"} :
              /\ Keeps(f, TurnOn(f, {m})) /\ Steady(TurnOn(f, {m}))
              /\ TurnOn(f, {m}).state = f.state
         /\ Idle(TurnOn(f, {"open_bracket"}))
         /\ \A m \in {"open_bracket"} :
              LET g == Turn(f, {m}, {"base"})
              IN  Keeps(f, g) /\ Steady(g) /\ (f.state = "type_postfix" => Idle(g))
         /\ Keeps(f, f) /\ Steady(f)
<1>1. \A off, on : /\ Turn(f, off, on).state = f.state
                   /\ Turn(f, off, on).on = (f.on \ off) \cup on
                   /\ TurnOn(f, on).state = f.state
                   /\ TurnOn(f, on).on = f.on \cup on
  BY TurnFields
<1>2. \A g : g.state = f.state => Steady(g) BY DEF Steady
<1>3. f.state \notin ImportStateName BY DEF ImportStateName
<1>4. \A m \in {"init_done", "open_bracket"} : Keeps(f, TurnOn(f, {m}))
  BY <1>1 DEF Keeps, Inherited
<1>5. Keeps(f, Turn(f, {"open_bracket"}, {"base"})) /\ Keeps(f, f)
  BY <1>1 DEF Keeps, Inherited
<1>6. Idle(TurnOn(f, {"open_bracket"}))
  BY <1>1, <1>3 DEF Idle
<1>7. f.state = "type_postfix" => Idle(Turn(f, {"open_bracket"}, {"base"}))
  BY <1>1, <1>3 DEF Idle
<1> QED BY <1>1, <1>2, <1>4, <1>5, <1>6, <1>7

LEMMA TypePostfixProper ==
  ASSUME NEW f, NEW t, IsFrame(f), f.state = "type_postfix", Idle(f)
  PROVE  Proper(f, TypePostfix(f, t))
<1>. DEFINE content ==
        CASE "init_done" \notin f.on ->
               Reprocess(Push(TurnOn(f, {"init_done"}), Fresh("type_primary")))
          [] {"init_done", "open_bracket"} \subseteq f.on ->
               IF t = "close_bracket"
               THEN Stay(Turn(f, {"open_bracket"}, {"base"})) ELSE Expected
          [] t = "open_bracket" /\ f.on \cap {"init_done", "open_bracket"} = {"init_done"} ->
               Stay(TurnOn(f, {"open_bracket"}))
          [] OTHER -> Reprocess(Complete(f, Moved(f, "base", "type_definition")))
<1>1. "init_done" \in f.on => Moved(f, "base", "type_definition").kind \in Delivers(f.state)
  BY TypeDelivers DEF Moved, Idle, TypeOperand
<1>2. Link(TurnOn(f, {"init_done"}), Fresh("type_primary"))
  BY HolderTurn, TypeLinks
<1>3. Proper(f, content)
  BY <1>1, <1>2, HolderTurn, FreshRests, ProperStay, ProperPush, ProperComplete,
     ProperReprocess, ProperExpected
<1>4. content.act \in {"stay", "push"} => IsFrame(content.frame)
  BY TypeFlags, TurnFrame, TurnOnFrame
     DEF Replaces, Stay, Push, Complete, Reprocess, Expected, Throw, Result
<1>5. Steady(f) BY HolderTurn
<1>. HIDE DEF content
<1>6. Proper(f, Multiline(f, t, content)) BY <1>3, <1>4, <1>5, ProperMultiline
<1> QED BY <1>6 DEF TypePostfix, content

LEMMA TypeParenProper ==
  ASSUME NEW f, NEW t, IsFrame(f), f.state = "type_paren", Idle(f)
  PROVE  Proper(f, TypeParen(f, t))
<1>1. "init_done" \in f.on => Moved(f, "inner", "type_definition").kind \in Delivers(f.state)
  BY TypeDelivers DEF Moved, Idle, TypeOperand
<1>2. Link(TurnOn(f, {"init_done"}), Fresh("type_expression"))
  BY HolderTurn, TypeLinks
<1> QED
  BY <1>1, <1>2, HolderTurn, FreshRests, ProperStay, ProperPush, ProperComplete,
     ProperReprocess, ProperExpected DEF TypeParen

---------------------------------------------------------------------------
(* The three calls.                                                        *)

LEMMA TypeProcessProper ==
  ASSUME NEW f, NEW t, IsFrame(f), f.state \in TypeStateName, Steady(f), Idle(f)
  PROVE  Proper(f, TypeProcess(f, t))
<1>1. CASE f.state \in {"type", "type_expression", "type_postfix", "type_paren"}
  BY <1>1, TypeProper, TypeExpressionProper, TypePostfixProper, TypeParenProper
     DEF TypeProcess
<1>2. CASE f.state \in {"type_header", "type_parameter_list", "type_argument_list"}
  BY <1>2, TypeListProper DEF TypeProcess
<1>3. CASE f.state \in {"type_operator", "type_primary", "type_reference"}
  BY <1>3, TypeAtomProper DEF TypeProcess
<1>4. CASE f.state = "type_parameter"
  BY <1>4, TypeParameterProper DEF TypeProcess
<1>5. CASE f.state = "type_union"
  <2>1. Proper(f, Separated(f, t, "bar", "type_intersection"))
    BY <1>5, TypeLinks, SeparatedProper
  <2> QED BY <1>5, <2>1 DEF TypeProcess
<1>6. CASE f.state = "type_intersection"
  <2>1. Proper(f, Separated(f, t, "ampersand", "type_operator"))
    BY <1>6, TypeLinks, SeparatedProper
  <2> QED BY <1>6, <2>1 DEF TypeProcess
<1> QED BY <1>1, <1>2, <1>3, <1>4, <1>5, <1>6 DEF TypeStateName

LEMMA TypeAcceptProper ==
  ASSUME NEW f, IsFrame(f), f.state \in TypeStateName, Steady(f), Awaits(f),
         NEW n, n.kind \in Deliverable(f)
  PROVE  Proper(f, TypeAcceptChild(f, n))
<1>1. CASE f.state = "type"
  <2>. DEFINE g == TurnOn(f, {"type"})
  <2>1. g.state = f.state /\ g.on = f.on \cup {"type"} BY TurnFields
  <2>. HIDE DEF g
  <2>2. Keeps(f, g) /\ Keeps(f, f) BY <2>1 DEF Keeps, Inherited
  <2>3. Steady(g) BY <2>1, <1>1 DEF Steady
  <2>4. Idle(g) /\ Idle(f) BY <2>1, <1>1 DEF Idle, ImportStateName
  <2>5. Proper(f, Stay(f)) /\ Proper(f, Stay(g)) BY <2>2, <2>3, <2>4, ProperStay
  <2> QED BY <1>1, <2>5 DEF TypeAcceptChild, TypeAccept, g
<1>2. CASE f.state = "type_parameter"
  <2>1. f.state \notin Committed BY <1>2 DEF Committed, ImportStateName
  <2>2. Proper(f, Stay(Turn(f, {"constraint_pending"}, {"constraint"})))
    BY <2>1, FreeTurn, TypeUninherited, ProperStay
  <2>3. Proper(f, Stay(Turn(f, {"default_pending"}, {"default"})))
    BY <2>1, FreeTurn, TypeUninherited, ProperStay
  <2>4. \/ "constraint_pending" \in f.on
        \/ f.on \cap {"constraint_pending", "default_pending"} = {"default_pending"}
    BY <1>2 DEF Awaits
  <2>5. TypeAcceptChild(f, n) = TypeParameterAccept(f, n) BY <1>2 DEF TypeAcceptChild
  <2> QED BY <2>2, <2>3, <2>4, <2>5 DEF TypeParameterAccept
<1>3. CASE f.state \in {"type_union", "type_intersection"}
  <2>1. f.state \notin Committed BY <1>3 DEF Committed, ImportStateName
  <2> QED
    BY <1>3, <2>1, FreeTurnOn, TypeUninherited, ProperStay
       DEF TypeAcceptChild, SeparatedAccept
<1>4. CASE f.state \in {"type_postfix", "type_paren"}
  <2>. DEFINE m == IF f.state = "type_postfix" THEN "base" ELSE "inner"
              g == TurnOn(f, {m})
  <2>1. g.state = f.state /\ g.on = f.on \cup {m} BY TurnFields
  <2>2. TypeAcceptChild(f, n) = Stay(g)
    BY <1>4 DEF TypeAcceptChild, TypePostfixAccept, TypeParenAccept, Deliverable
  <2>. HIDE DEF g
  <2>3. Keeps(f, g) BY <2>1 DEF Keeps, Inherited
  <2>4. Steady(g) BY <2>1, <1>4 DEF Steady
  <2>5. Idle(g) BY <2>1, <1>4 DEF Idle, ImportStateName
  <2> QED BY <2>2, <2>3, <2>4, <2>5, ProperStay
<1>5. CASE f.state \in {"type_header", "type_parameter_list", "type_argument_list"}
  <2>1. f.state \notin Committed BY <1>5 DEF Committed, ImportStateName
  <2> QED BY <1>5, <2>1, FreeFrame, ProperStay DEF TypeAcceptChild
<1>6. CASE f.state \in {"type_expression", "type_operator", "type_primary"}
  <2>1. n.kind \in Delivers(f.state) BY <1>6 DEF Deliverable, Delivers, TypeOperand
  <2> QED BY <1>6, <2>1, ProperComplete DEF TypeAcceptChild
<1>7. CASE f.state = "type_reference"
  BY <1>7, TypeDelivers, ProperComplete DEF TypeAcceptChild, TypeOperand
<1> QED BY <1>1, <1>2, <1>3, <1>4, <1>5, <1>6, <1>7 DEF TypeStateName

LEMMA TypeEofProper ==
  ASSUME NEW f, f.state \in TypeStateName
  PROVE  Proper(f, TypeOnEof(f))
<1>1. f.state = "type" => Node("type_alias").kind \in Delivers(f.state)
  BY NodeFields DEF Delivers, TypeOperand
<1> QED
  BY <1>1, TypeDelivers, ProperComplete, ProperNullOpt
     DEF TypeOnEof, TypeEof, SeparatedEof, TypePostfixEof, TypeOperand

---------------------------------------------------------------------------
(* Imports.                                                                *)

LEMMA ImportFlags ==
  /\ IsFlags({"expect_specifier_or_close"}) /\ IsFlags({"expect_comma_or_close"})
  /\ IsFlags({"head_done"}) /\ IsFlags({"equals_only"}) /\ IsFlags({"awaiting_sub"})
  /\ IsFlags({"post_sub"}) /\ IsFlags({"closed"}) /\ IsFlags({"expecting_id"})
  /\ IsFlags({"saw_newline"}) /\ IsFlags({"expect_open_brace"})
  /\ IsFlags({"expect_key_or_close"}) /\ IsFlags({"after_key"})
  /\ IsFlags({"after_colon"}) /\ IsFlags({"after_value"}) /\ IsFlags({})
BY KnownFlags DEF IsFlags

LEMMA ImportNodes == NullNode \in AstNode /\ Node("import") \in AstNode
BY Nodes, ANullNode DEF NodeKind, Exportable

---------------------------------------------------------------------------
(* The specifier states.                                                   *)

LEMMA SpecifierPushes ==
  ASSUME NEW f
  PROVE  /\ f.state \in SpecifierListName => Pushes(f, Frame("specifier", {}))
         /\ f.state = "specifier" => /\ Pushes(f, Frame("specifier_head", {}))
                                     /\ Pushes(f, Frame("specifier_alias", {}))
         /\ f.state = "specifier_head" => Pushes(f, Frame("specifier_resolve_type", {}))
<1>1. \A s \in SpecifierStateName : IsFrame(Frame(s, {})) /\ Frame(s, {}).state = s
  BY NewFrame, NoFlags DEF StateName
<1> QED
  BY <1>1 DEF Pushes, MayPush, SpecifierStateName, SpecifierListName, ImportLink, ImportStateName

(* The calls of these states keep their tokens in type.                    *)
LEMMA SpecifierCalls ==
  ASSUME NEW t
  PROVE  /\ CallFits("new_specifier", t) /\ CallFits("store_specifier", t)
         /\ CallFits("specifier_type", t) /\ CallFits("specifier_demote_type", t)
         /\ t \in SpecifierName => CallFits("specifier_name", t)
         /\ t \in Identifier => CallFits("specifier_alias", t)
BY DEF CallFits

LEMMA SpecifierProcessSound ==
  ASSUME NEW f, NEW t, IsFrame(f), f.state \in SpecifierStateName
  PROVE  Sound(f, t, SpecifierProcess(f, t))
<1>. USE SpecifierCalls, SpecifierPushes, ImportNodes, SameFrame, SoundStay, SoundPush,
         SoundComplete, SoundReprocess, SoundCalling, SoundExpected, SoundVisitor
<1>1. CASE f.state \in SpecifierListName
  BY <1>1, ImportFlags, TurnFrame DEF SpecifierProcess, SpecifierList, SpecifierListName
<1>2. CASE f.state = "specifier"
  BY <1>2 DEF SpecifierProcess, SpecifierListName, SpecifierItem
<1>3. CASE f.state = "specifier_head"
  BY <1>3 DEF SpecifierProcess, SpecifierListName, SpecifierHead
<1>4. CASE f.state = "specifier_resolve_type"
  BY <1>4 DEF SpecifierProcess, SpecifierListName, SpecifierResolveType
<1>5. CASE f.state = "specifier_alias"
  BY <1>5 DEF SpecifierProcess, SpecifierListName, SpecifierAlias
<1> QED BY <1>1, <1>2, <1>3, <1>4, <1>5 DEF SpecifierStateName

LEMMA SpecifierAcceptChildSound ==
  ASSUME NEW f, NEW t, IsFrame(f), f.state \in SpecifierStateName, NEW n \in AstNode
  PROVE  Sound(f, t, SpecifierAcceptChild(f, n))
<1>1. f.state # "module_scope" BY DEF SpecifierStateName, SpecifierListName
<1> QED
  BY <1>1, SpecifierCalls, ImportNodes, ImportFlags, TurnFrame, TurnOnFrame, SoundStay,
     SoundComplete, SoundCalling, SoundExpected
     DEF SpecifierAcceptChild, SpecifierListAccept, SpecifierItemAccept

---------------------------------------------------------------------------
(* The import states.                                                      *)

LEMMA ImportCalls ==
  ASSUME NEW t
  PROVE  /\ CallFits("set_module_specifier", t) /\ CallFits("set_type_keyword", t)
         /\ CallFits("set_default_binding", t) /\ CallFits("set_namespace_name", t)
         /\ CallFits("init_named_imports", t) /\ CallFits("set_equals_name", t)
         /\ CallFits("init_require", t) /\ CallFits("set_require_module_specifier", t)
         /\ CallFits("add_entity_identifier", t) /\ CallFits("set_attributes_keyword", t)
         /\ t \in Constant => CallFits("add_attribute", t)
BY DEF CallFits

LEMMA LinkPushes ==
  ASSUME NEW f, f.state \in ImportLink
  PROVE  /\ \A s \in ImportLink : Pushes(f, Fresh(s)) /\ Pushes(f, Inherit(f, s))
         /\ Pushes(f, NamedImports)
         /\ Pushes(f, Frame("import_attributes", {"expect_open_brace"}))
<1>1. ImportStateName \subseteq StateName /\ "named_import" \in StateName
  BY DEF StateName, SpecifierStateName, SpecifierListName
<1>2. MayPush(f.state) = ImportLink \cup {"named_import", "import_attributes"}
  BY DEF MayPush, ImportLink, ImportStateName, SpecifierListName
<1>3. IsFlags(f.on \cap {"equals_only"})
  BY KnownFlags DEF IsFlags
<1>4. \A s \in ImportLink : s \in StateName BY <1>1 DEF ImportLink
<1>5. "import_attributes" \in StateName BY <1>1 DEF ImportStateName
<1> QED
  BY <1>1, <1>2, <1>3, <1>4, <1>5, FreshFrame, NewFrame, ImportFlags
     DEF Pushes, Inherit, NamedImports

LEMMA Links ==
  {"after_import", "after_type", "after_default", "after_comma", "expect_from",
   "after_from", "expect_as", "expect_namespace_name", "after_equals",
   "expect_require_paren", "after_require_open", "after_require_module",
   "import_entity", "after_module_spec"} = ImportLink
BY DEF ImportLink, ImportStateName

LEMMA ImportSound ==
  ASSUME NEW f, NEW t, IsFrame(f), f.state = "import" PROVE Sound(f, t, Import(f, t))
<1>1. Pushes(f, Inherit(f, "after_import"))
  <2>1. IsFlags(f.on \cap {"equals_only"}) BY KnownFlags DEF IsFlags
  <2>2. "after_import" \in StateName BY DEF StateName, ImportStateName
  <2> QED
    BY <2>1, <2>2, NewFrame
       DEF Inherit, Pushes, MayPush, SpecifierListName, ImportLink, ImportStateName
<1> QED BY <1>1, SameFrame, SoundPush, SoundReprocess DEF Import

LEMMA EndOfImportSound ==
  ASSUME NEW f, NEW t, f.state # "module_scope" PROVE Sound(f, t, EndOfImport(f, t))
BY ImportNodes, SoundComplete, SoundReprocess, SoundExpected DEF EndOfImport

(* The links that pass the declaration on: import clauses and from.        *)
LEMMA ClauseSound ==
  ASSUME NEW f, NEW t, IsFrame(f), f.state \in ImportLink
  PROVE  /\ Sound(f, t, AfterImport(f, t)) /\ Sound(f, t, AfterType(f, t))
         /\ Sound(f, t, AfterDefault(f, t)) /\ Sound(f, t, AfterComma(f, t))
         /\ Sound(f, t, ExpectFrom(f, t)) /\ Sound(f, t, AfterFrom(f, t))
         /\ Sound(f, t, ExpectAs(f, t)) /\ Sound(f, t, ExpectNamespaceName(f, t))
<1>. USE LinkPushes, Links, ImportCalls, ImportFlags, SameFrame, TurnOnFrame, SoundPush,
         SoundReprocess, SoundCalling, SoundCalling2, SoundExpected, SoundVisitor
<1>1. Sound(f, t, AfterImport(f, t)) BY DEF AfterImport, PushSub
<1>2. Sound(f, t, AfterType(f, t)) BY DEF AfterType, PushSub
<1>3. Sound(f, t, AfterDefault(f, t)) BY DEF AfterDefault
<1>4. Sound(f, t, AfterComma(f, t)) BY DEF AfterComma, PushSub
<1>5. Sound(f, t, ExpectFrom(f, t)) BY DEF ExpectFrom
<1>6. Sound(f, t, AfterFrom(f, t)) BY DEF AfterFrom
<1>7. Sound(f, t, ExpectAs(f, t)) BY DEF ExpectAs
<1>8. Sound(f, t, ExpectNamespaceName(f, t)) BY DEF ExpectNamespaceName
<1> QED BY <1>1, <1>2, <1>3, <1>4, <1>5, <1>6, <1>7, <1>8

(* The links of the equals form, and what follows a module specifier.      *)
LEMMA EqualsSound ==
  ASSUME NEW f, NEW t, IsFrame(f), f.state \in ImportLink
  PROVE  /\ Sound(f, t, AfterEquals(f, t)) /\ Sound(f, t, ExpectRequireParen(f, t))
         /\ Sound(f, t, AfterRequireOpen(f, t)) /\ Sound(f, t, AfterRequireModule(f, t))
         /\ Sound(f, t, ImportEntity(f, t)) /\ Sound(f, t, AfterModuleSpec(f, t))
<1>. f.state # "module_scope" BY DEF ImportLink, ImportStateName
<1>. USE LinkPushes, Links, ImportCalls, ImportFlags, ImportNodes, SameFrame, TurnFrame,
         TurnOnFrame, SoundStay, SoundPush, SoundComplete, SoundReprocess, SoundCalling,
         SoundExpected, SoundVisitor, EndOfImportSound
<1>1. Sound(f, t, AfterEquals(f, t)) BY DEF AfterEquals
<1>2. Sound(f, t, ExpectRequireParen(f, t)) BY DEF ExpectRequireParen
<1>3. Sound(f, t, AfterRequireOpen(f, t)) BY DEF AfterRequireOpen
<1>4. Sound(f, t, AfterRequireModule(f, t)) BY DEF AfterRequireModule
<1>5. Sound(f, t, ImportEntity(f, t)) BY DEF ImportEntity
<1>6. Sound(f, t, AfterModuleSpec(f, t)) BY DEF AfterModuleSpec, PushSub
<1> QED BY <1>1, <1>2, <1>3, <1>4, <1>5, <1>6

LEMMA ImportAttributesSound ==
  ASSUME NEW f, NEW t, IsFrame(f), f.state = "import_attributes"
  PROVE  Sound(f, t, ImportAttributes(f, t))
BY ImportCalls, ImportFlags, ImportNodes, TurnFrame, SoundStay, SoundComplete,
   SoundCalling, SoundExpected, SoundVisitor DEF ImportAttributes, Phase

LEMMA ImportProcessSound ==
  ASSUME NEW f, NEW t, IsFrame(f), f.state \in ImportStateName
  PROVE  Sound(f, t, ImportProcess(f, t))
<1>1. CASE f.state = "import" BY <1>1, ImportSound DEF ImportProcess
<1>2. CASE f.state = "import_attributes"
  BY <1>2, ImportAttributesSound DEF ImportProcess
<1>3. CASE f.state \in ImportLink
  BY <1>3, ClauseSound, EqualsSound DEF ImportProcess, ImportLink, ImportStateName
<1> QED BY <1>1, <1>2, <1>3 DEF ImportLink

LEMMA ImportAcceptChildSound ==
  ASSUME NEW f, NEW t, IsFrame(f), f.state \in ImportStateName, NEW n \in AstNode
  PROVE  Sound(f, t, ImportAcceptChild(f, n))
<1>1. f.state # "module_scope" BY DEF ImportStateName
<1> QED
  BY <1>1, ImportFlags, ImportNodes, TurnFrame, SoundStay, SoundComplete, SoundExpected
     DEF ImportAcceptChild

LEMMA ImportOnEofSound ==
  ASSUME NEW f, NEW t, f.state \in ImportStateName PROVE Sound(f, t, ImportOnEof(f))
<1>1. f.state # "module_scope" BY DEF ImportStateName
<1> QED BY <1>1, ImportNodes, SoundComplete, SoundNullOpt DEF ImportOnEof

---------------------------------------------------------------------------
(* Exports and scopes.                                                     *)

LEMMA ScopeFlags ==
  /\ IsFlags({"equals_only"}) /\ IsFlags({"module_like"}) /\ IsFlags({"has_identifier"})
  /\ IsFlags({"started"}) /\ IsFlags({"list_done"}) /\ IsFlags({"ambient"})
  /\ IsFlags({"has_export_assignment"}) /\ IsFlags({"has_named_export"})
  /\ IsFlags({"header_done"}) /\ IsFlags({"expect_segment"}) /\ IsFlags({"has_name"})
  /\ IsFlags({"expect_specifier_or_close"}) /\ IsFlags({})
BY KnownFlags DEF IsFlags

LEMMA StatementNodes ==
  /\ NullNode \in AstNode
  /\ \A k \in {"namespace", "declare_module", "export_assignment", "export_star",
               "named_export"} : Node(k) \in AstNode
BY Nodes, ANullNode DEF NodeKind, Exportable

(* The calls of these states store no token.                               *)
LEMMA ExportCalls ==
  ASSUME NEW t
  PROVE  /\ CallFits("new_import", t) /\ CallFits("new_export", t)
         /\ CallFits("set_as_name", t) /\ CallFits("set_module_specifier", t)
         /\ CallFits("set_semicolon", t)
BY DEF CallFits

LEMMA ExportErrors ==
  {"declaration_or_statement_expected", "export_default_not_at_top_level",
   "export_assignment_not_at_top_level", "export_assignment_conflicts",
   "declare_in_ambient_context", "null_dereference"} \subseteq Error
BY DEF Error

---------------------------------------------------------------------------
(* The export states.                                                      *)

LEMMA ExportPushes ==
  ASSUME NEW f
  PROVE  \A c : IsFrame(c) /\ c.state \in MayPush(f.state) => Pushes(f, c)
BY DEF Pushes

LEMMA ExportSound ==
  ASSUME NEW f, NEW t, IsFrame(f), f.state = "export" PROVE Sound(f, t, Export(f, t))
<1>1. MayPush("export") = {"import", "declare", "namespace", "type", "export_assignment",
                           "export_star", "named_export"}
  BY DEF MayPush, Statement, SpecifierListName, ImportLink, ImportStateName
<1>2. MayPush("export") \subseteq StateName
  BY <1>1 DEF StateName, TypeStateName, ImportStateName, ExportStateName, ScopeStateName
<1>3. \A s \in MayPush("export") :
        Pushes(f, Fresh(s)) /\ Pushes(f, Frame(s, {"equals_only"}))
  BY <1>2, FreshFrame, NewFrame, ScopeFlags DEF Pushes
<1> QED
  BY <1>1, <1>3, ExportCalls, ExportErrors, SameFrame, SoundPush, SoundCalling, SoundThrow,
     SoundVisitor DEF Export

(* The states of an export chain push the next one afresh.                 *)
LEMMA ExportChain ==
  ASSUME NEW f
  PROVE  /\ f.state = "export_star" => Pushes(f, Fresh("export_star_after_star"))
         /\ f.state = "export_star_after_star" =>
              /\ Pushes(f, Fresh("export_star_name"))
              /\ Pushes(f, Fresh("export_star_module_spec"))
         /\ f.state = "export_star_name" => Pushes(f, Fresh("export_star_from"))
         /\ f.state = "export_star_from" => Pushes(f, Fresh("export_star_module_spec"))
         /\ f.state = "export_star_module_spec" => Pushes(f, Fresh("export_star_semicolon"))
         /\ f.state = "named_export" =>
              /\ Pushes(f, Frame("export_specifier_list", {"expect_specifier_or_close"}))
              /\ Pushes(f, Fresh("named_export_module_spec"))
         /\ f.state = "named_export_module_spec" =>
              Pushes(f, Fresh("named_export_semicolon"))
<1>1. /\ \A s \in ExportStateName : s \in StateName
      /\ "export_specifier_list" \in StateName
  BY DEF StateName, SpecifierStateName, SpecifierListName
<1>2. \A s \in ExportStateName : IsFrame(Fresh(s)) /\ Fresh(s).state = s
  BY <1>1, FreshFrame
<1>3. LET c == Frame("export_specifier_list", {"expect_specifier_or_close"})
      IN  IsFrame(c) /\ c.state = "export_specifier_list"
  BY <1>1, NewFrame, ScopeFlags
<1> QED
  BY <1>2, <1>3
     DEF Pushes, MayPush, ExportStateName, SpecifierListName, ImportLink, ImportStateName

LEMMA ExportProcessSound ==
  ASSUME NEW f, NEW t, IsFrame(f), f.state \in ExportStateName
  PROVE  Sound(f, t, ExportProcess(f, t))
<1>. f.state # "module_scope" BY DEF ExportStateName
<1>. USE ExportChain, ExportCalls, ScopeFlags, StatementNodes, SameFrame, TurnOnFrame,
         SoundStay, SoundPush, SoundComplete, SoundReprocess, SoundCalling, SoundExpected,
         SoundVisitor, SoundMultiline
<1>1. CASE f.state = "export" BY <1>1, ExportSound DEF ExportProcess
<1>2. CASE f.state = "export_assignment" BY <1>2 DEF ExportProcess, ExportAssignment
<1>3. CASE f.state = "export_star" BY <1>3 DEF ExportProcess, ExportStar
<1>4. CASE f.state = "export_star_after_star"
  BY <1>4 DEF ExportProcess, ExportStarAfterStar
<1>5. CASE f.state = "export_star_name" BY <1>5 DEF ExportProcess, ExportStarNameState
<1>6. CASE f.state = "export_star_from" BY <1>6 DEF ExportProcess, ExportStarFrom
<1>7. CASE f.state \in {"export_star_module_spec", "named_export_module_spec"}
  BY <1>7 DEF ExportProcess, ModuleSpec
<1>8. CASE f.state = "named_export" BY <1>8 DEF ExportProcess, NamedExport
<1>9. CASE f.state \in {"export_star_semicolon", "named_export_semicolon"}
  BY <1>9 DEF ExportProcess, OptionalSemicolon
<1> QED BY <1>1, <1>2, <1>3, <1>4, <1>5, <1>6, <1>7, <1>8, <1>9 DEF ExportStateName

LEMMA ExportAcceptChildSound ==
  ASSUME NEW f, NEW t, IsFrame(f), f.state \in ExportStateName, NEW n \in AstNode
  PROVE  Sound(f, t, ExportAcceptChild(f, n))
<1>. f.state # "module_scope" BY DEF ExportStateName
<1>1. [n EXCEPT !.exported = n.exported \/ n.kind \in Exportable] \in AstNode
  BY DEF AstNode
<1> QED
  BY <1>1, ScopeFlags, StatementNodes, ExportErrors, SameFrame, TurnOnFrame, SoundStay,
     SoundComplete, SoundThrow, SoundExpected
     DEF ExportAcceptChild, ExportAccept, NamedExportAccept

LEMMA ExportOnEofSound ==
  ASSUME NEW f, NEW t, f.state \in ExportStateName PROVE Sound(f, t, ExportOnEof(f))
<1>. f.state # "module_scope" BY DEF ExportStateName
<1> QED BY StatementNodes, SoundComplete, SoundNullOpt DEF ExportOnEof

---------------------------------------------------------------------------
(* The scope states.                                                       *)

LEMMA ScopePushes ==
  ASSUME NEW f
  PROVE  /\ f.state \in Scope => \A s \in Statement : \A on :
              IsFlags(on) => Pushes(f, Frame(s, on))
         /\ f.state = "namespace" => Pushes(f, Frame("namespace_header", {"expect_segment"}))
         /\ f.state = "declare_module" => Pushes(f, Frame("declare_module_header", {}))
         /\ f.state = "declare" =>
              /\ Pushes(f, Frame("declare_module_dispatch", {}))
              /\ Pushes(f, Frame("namespace", {"ambient"}))
              /\ Pushes(f, Frame("type", {}))
         /\ f.state = "declare_module_dispatch" =>
              /\ Pushes(f, Frame("declare_module", {}))
              /\ Pushes(f, Frame("namespace", {"ambient"}))
<1>1. ScopeStateName \cup Statement \subseteq StateName
  BY DEF StateName, Statement, TypeStateName, ImportStateName, ExportStateName, ScopeStateName
<1>2. \A s \in ScopeStateName \cup Statement : \A on :
        IsFlags(on) => IsFrame(Frame(s, on)) /\ Frame(s, on).state = s
  BY <1>1, NewFrame
<1>3. /\ \A s \in Scope : Statement \subseteq MayPush(s)
      /\ "namespace_header" \in MayPush("namespace")
      /\ "declare_module_header" \in MayPush("declare_module")
      /\ {"declare_module_dispatch", "namespace", "type"} \subseteq MayPush("declare")
      /\ {"declare_module", "namespace"} \subseteq MayPush("declare_module_dispatch")
  <2>. USE DEF MayPush, SpecifierListName, ImportLink, ImportStateName
  <2>1. MayPush("module_scope") = Statement
    OBVIOUS
  <2>2. MayPush("namespace") = Statement \cup {"namespace_header"}
    OBVIOUS
  <2>3. MayPush("declare_module") = Statement \cup {"declare_module_header"}
    OBVIOUS
  <2>4. MayPush("declare") = {"declare_module_dispatch", "namespace", "type"}
    OBVIOUS
  <2>5. MayPush("declare_module_dispatch") = {"declare_module", "namespace"}
    OBVIOUS
  <2> QED BY <2>1, <2>2, <2>3, <2>4, <2>5 DEF Scope
<1> QED BY <1>2, <1>3, ScopeFlags DEF Pushes, Statement, ScopeStateName

LEMMA ModuleScopeVisitorSound ==
  ASSUME NEW f, NEW t, IsFrame(f), f.state \in Scope, NEW ambient, NEW module_like
  PROVE  Sound(f, t, ModuleScopeVisitor(f, t, ambient, module_like))
<1>1. /\ IsFlags(FlagIf(~module_like, "equals_only"))
      /\ IsFlags(FlagIf(ambient, "ambient"))
      /\ IsFlags(FlagIf(module_like, "module_like"))
  BY ScopeFlags DEF FlagIf
<1>2. {"import", "declare", "namespace", "export", "type"} = Statement BY DEF Statement
<1>. HIDE DEF FlagIf
<1> QED
  BY <1>1, <1>2, ScopePushes, ScopeFlags, ExportCalls, ExportErrors, SameFrame, SoundPush,
     SoundCalling, SoundThrow, SoundVisitor DEF ModuleScopeVisitor

LEMMA BracedScopeSound ==
  ASSUME NEW f, NEW t, IsFrame(f), f.state \in {"namespace", "declare_module"},
         NEW header, Pushes(f, header), NEW kind, Node(kind) \in AstNode,
         NEW ambient, NEW module_like
  PROVE  Sound(f, t, BracedScope(f, t, header, kind, ambient, module_like))
<1>. f.state # "module_scope" /\ f.state \in Scope BY DEF Scope
<1> QED
  BY ModuleScopeVisitorSound, ScopeFlags, TurnOnFrame, SoundPush, SoundComplete,
     SoundReprocess DEF BracedScope

LEMMA ScopeProcessSound ==
  ASSUME NEW f, NEW t, IsFrame(f), f.state \in ScopeStateName
  PROVE  Sound(f, t, ScopeProcess(f, t))
<1>. USE ScopePushes, ScopeFlags, StatementNodes, ExportErrors, SameFrame, TurnFrame,
         TurnOnFrame, SoundStay, SoundPush, SoundComplete, SoundReprocess, SoundThrow,
         SoundExpected, SoundVisitor
<1>1. CASE f.state = "module_scope"
  BY <1>1, ModuleScopeVisitorSound DEF ScopeProcess, Scope
<1>2. CASE f.state = "namespace"
  BY <1>2, BracedScopeSound DEF ScopeProcess, Namespace
<1>3. CASE f.state = "namespace_header" BY <1>3 DEF ScopeProcess, NamespaceHeader
<1>4. CASE f.state = "declare" BY <1>4 DEF ScopeProcess, Declare
<1>5. CASE f.state = "declare_module_dispatch"
  BY <1>5 DEF ScopeProcess, DeclareModuleDispatch
<1>6. CASE f.state = "declare_module"
  BY <1>6, BracedScopeSound DEF ScopeProcess, DeclareModule
<1>7. CASE f.state = "declare_module_header"
  BY <1>7 DEF ScopeProcess, DeclareModuleHeader
<1> QED BY <1>1, <1>2, <1>3, <1>4, <1>5, <1>6, <1>7 DEF ScopeStateName

LEMMA ScopeAcceptChildSound ==
  ASSUME NEW f, NEW t, IsFrame(f), f.state \in ScopeStateName, NEW n \in AstNode
  PROVE  Sound(f, t, ScopeAcceptChild(f, n))
<1>1. Sound(f, t, TrackExports(f, n))
  BY ScopeFlags, ExportErrors, SameFrame, TurnOnFrame, SoundStay, SoundThrow
     DEF TrackExports
<1> QED
  BY <1>1, ExportErrors, SameFrame, SoundStay, SoundComplete, SoundThrow, SoundExpected
     DEF ScopeAcceptChild, ModuleScopeAccept, DeclareModuleAccept

---------------------------------------------------------------------------
(* What the specifier states promise their neighbours.                     *)

LEMMA StatementUninherited ==
  /\ Uninherited({"expect_specifier_or_close"}) /\ Uninherited({"expect_comma_or_close"})
  /\ Uninherited({"head_done"}) /\ Uninherited({"has_identifier"})
  /\ Uninherited({"started"}) /\ Uninherited({"list_done"})
  /\ Uninherited({"has_export_assignment"}) /\ Uninherited({"has_named_export"})
  /\ Uninherited({"header_done"}) /\ Uninherited({"expect_segment"})
  /\ Uninherited({"has_name"}) /\ Uninherited({})
BY DEF Uninherited, Inherited

LEMMA StatementRests ==
  ASSUME NEW s, s \notin Committed, NEW on
  PROVE  Steady(Frame(s, on)) /\ Idle(Frame(s, on)) /\ Frame(s, on).state = s
<1>1. Frame(s, on).state = s BY FrameFields
<1> QED BY <1>1, FreeFrame

LEMMA SpecifierProper ==
  ASSUME NEW f, IsFrame(f), f.state \in SpecifierStateName
  PROVE  /\ \A t : Steady(f) => Proper(f, SpecifierProcess(f, t))
         /\ \A n : Awaits(f) => Proper(f, SpecifierAcceptChild(f, n))
<1>1. \A s \in SpecifierStateName : /\ s \notin Committed
                                    /\ s \notin Scope \cup {"declare", "import", "export",
                                                            "export_assignment"}
                                    /\ s \notin ImportStateName
                                    /\ Delivers(s) = {"null"}
  BY DEF SpecifierStateName, SpecifierListName, Committed, ImportStateName, Scope, Delivers,
         TypeOperand
<1>2. Deliverable(f) = {"null"}
  BY DEF Deliverable, SpecifierStateName, SpecifierListName
<1>3. ASSUME NEW s \in SpecifierStateName, f.state \notin Leaf
      PROVE  Link(f, Frame(s, {}))
  <2>1. Frame(s, {}).state = s BY FrameFields
  <2>2. Awaits(f) BY <1>3 DEF Awaits, SpecifierStateName, SpecifierListName
  <2> QED BY <1>1, <1>2, <2>1, <2>2, PlainLink
<1>4. \A s \in SpecifierStateName : Steady(Frame(s, {})) /\ Idle(Frame(s, {}))
  BY <1>1, StatementRests
<1>5. NullNode.kind \in Delivers(f.state) BY <1>1, NodeFields
<1>6. f.state \notin Committed /\ Keeps(f, f) /\ Steady(f) /\ Idle(f) BY <1>1, FreeFrame
<1>. USE <1>3, <1>4, <1>5, <1>6, FreeTurn, FreeTurnOn, StatementUninherited, ProperStay,
         ProperPush, ProperComplete, ProperReprocess, ProperCalling, ProperExpected,
         ProperVisitor
<1>7. ASSUME NEW t PROVE Proper(f, SpecifierProcess(f, t))
  <2>1. CASE f.state \in SpecifierListName
    BY <2>1 DEF SpecifierProcess, SpecifierList, SpecifierListName, SpecifierStateName, Leaf
  <2>2. CASE f.state = "specifier"
    BY <2>2 DEF SpecifierProcess, SpecifierListName, SpecifierItem, SpecifierStateName, Leaf
  <2>3. CASE f.state = "specifier_head"
    BY <2>3 DEF SpecifierProcess, SpecifierListName, SpecifierHead, SpecifierStateName, Leaf
  <2>4. CASE f.state = "specifier_resolve_type"
    BY <2>4 DEF SpecifierProcess, SpecifierListName, SpecifierResolveType
  <2>5. CASE f.state = "specifier_alias"
    BY <2>5 DEF SpecifierProcess, SpecifierListName, SpecifierAlias
  <2> QED BY <2>1, <2>2, <2>3, <2>4, <2>5 DEF SpecifierStateName
<1>8. ASSUME NEW n, Awaits(f) PROVE Proper(f, SpecifierAcceptChild(f, n))
  BY <1>8 DEF SpecifierAcceptChild, SpecifierListAccept, SpecifierItemAccept, Awaits, Leaf,
              SpecifierStateName
<1> QED BY <1>7, <1>8

---------------------------------------------------------------------------
(* What the import states promise their neighbours.                        *)

(* A link of the chain that may come next, and a list or clause.           *)
LEMMA LinkNext ==
  ASSUME NEW g, g.state \in ImportStateName, g.state \notin Leaf,
         "awaiting_sub" \notin g.on,
         NEW c, c.state \in ImportLink, EqualsBound(g) => EqualsLink(c)
  PROVE  Link(g, c)
<1>1. Awaits(g) /\ Deliverable(g) = {"null"}
  BY DEF Awaits, Leaf, Deliverable, ImportStateName
<1>2. Delivers(c.state) = {"null"} /\ AmbientPasses(g, c) /\ Placed(g, c)
  BY DEF Delivers, TypeOperand, AmbientPasses, Placed, Scope, ImportLink, ImportStateName
<1>3. c.state \notin {"named_import", "import_attributes"}
  BY DEF ImportLink, ImportStateName
<1> QED BY <1>1, <1>2, <1>3 DEF Link, EqualsPasses, Hands

LEMMA LinkSub ==
  ASSUME NEW g, g.state \in ImportStateName, g.state \notin Leaf,
         "awaiting_sub" \in g.on, ~EqualsBound(g),
         NEW c, c.state \in {"named_import", "import_attributes"}
  PROVE  Link(g, c)
<1>1. Awaits(g) /\ Deliverable(g) = {"null"}
  BY DEF Awaits, Leaf, Deliverable, ImportStateName
<1>2. Delivers(c.state) = {"null"} /\ AmbientPasses(g, c) /\ Placed(g, c)
  BY DEF Delivers, TypeOperand, AmbientPasses, Placed, Scope
<1> QED BY <1>1, <1>2 DEF Link, EqualsPasses, Hands

LEMMA ImportRests ==
  ASSUME NEW g, g.state \in ImportStateName, "awaiting_sub" \notin g.on
  PROVE  Steady(g) /\ Idle(g)
BY DEF Steady, Idle, ImportStateName

LEMMA ImportTurn ==
  ASSUME NEW f, IsFrame(f), f.state \in ImportStateName, NEW off, NEW on,
         Uninherited(off), Uninherited(on)
  PROVE  /\ Keeps(f, Turn(f, off, on)) /\ Keeps(f, TurnOn(f, on)) /\ Keeps(f, f)
         /\ "awaiting_sub" \notin f.on /\ "awaiting_sub" \notin on =>
              /\ Steady(Turn(f, off, on)) /\ Idle(Turn(f, off, on))
              /\ Steady(TurnOn(f, on)) /\ Idle(TurnOn(f, on))
<1>. DEFINE g == Turn(f, off, on)
            h == TurnOn(f, on)
<1>1. /\ g.state = f.state /\ g.on = (f.on \ off) \cup on
      /\ h.state = f.state /\ h.on = f.on \cup on
  BY TurnFields
<1>. HIDE DEF g, h
<1>2. Keeps(f, g) /\ Keeps(f, h) /\ Keeps(f, f) BY <1>1 DEF Keeps, Uninherited
<1>3. "awaiting_sub" \notin f.on /\ "awaiting_sub" \notin on =>
        Steady(g) /\ Idle(g) /\ Steady(h) /\ Idle(h)
  BY <1>1, ImportRests
<1> QED BY <1>2, <1>3 DEF g, h

LEMMA ImportUninherited ==
  /\ Uninherited({"awaiting_sub"}) /\ Uninherited({"post_sub"}) /\ Uninherited({"closed"})
  /\ Uninherited({"expecting_id"}) /\ Uninherited({"saw_newline"})
  /\ Uninherited({"expect_open_brace"}) /\ Uninherited({"expect_key_or_close"})
  /\ Uninherited({"after_key"}) /\ Uninherited({"after_colon"})
  /\ Uninherited({"after_value"}) /\ Uninherited({})
BY DEF Uninherited, Inherited

LEMMA ImportPushes ==
  ASSUME NEW f, f.state \in ImportStateName, f.state \notin Leaf,
         "awaiting_sub" \notin f.on
  PROVE  /\ \A s \in ImportLink :
              ~EqualsBound(f) => Link(f, Fresh(s))
         /\ Link(f, Fresh("import_entity"))
         /\ \A s \in {"after_import", "after_default", "after_equals"} : Link(f, Inherit(f, s))
         /\ \A s \in ImportLink : /\ Steady(Inherit(f, s)) /\ Idle(Inherit(f, s))
                                 /\ Steady(Fresh(s)) /\ Idle(Fresh(s))
<1>1. \A s : /\ Fresh(s).state = s /\ Fresh(s).on = {}
             /\ Inherit(f, s).state = s /\ Inherit(f, s).on = f.on \cap {"equals_only"}
  BY FrameFields DEF Inherit
<1>2. ImportLink \subseteq ImportStateName BY DEF ImportLink
<1>3. \A s \in ImportLink :
        ~EqualsBound(f) => Link(f, Fresh(s))
  BY <1>1, LinkNext
<1>4. Link(f, Fresh("import_entity"))
  <2>1. EqualsLink(Fresh("import_entity")) BY <1>1 DEF EqualsLink
  <2>2. "import_entity" \in ImportLink BY DEF ImportLink, ImportStateName
  <2>3. Fresh("import_entity").state \in ImportLink BY <1>1, <2>2
  <2> QED BY <2>1, <2>3, LinkNext
<1>5. ASSUME NEW s \in {"after_import", "after_default", "after_equals"}
      PROVE  Link(f, Inherit(f, s))
  <2>1. EqualsBound(f) => EqualsLink(Inherit(f, s)) BY <1>1 DEF EqualsLink, EqualsBound
  <2>2. s \in ImportLink BY DEF ImportLink, ImportStateName
  <2>3. Inherit(f, s).state \in ImportLink BY <1>1, <2>2
  <2> QED BY <2>1, <2>3, LinkNext
<1>6. ASSUME NEW s \in ImportLink
      PROVE  Steady(Inherit(f, s)) /\ Idle(Inherit(f, s)) /\ Steady(Fresh(s)) /\ Idle(Fresh(s))
  BY <1>1, <1>2, ImportRests
<1> QED BY <1>3, <1>4, <1>5, <1>6

LEMMA PushSubProper ==
  ASSUME NEW f, IsFrame(f),
         \/ f.state = "after_import" /\ "equals_only" \notin f.on
         \/ f.state \in {"after_type", "after_comma", "after_module_spec"},
         NEW c, c.state \in {"named_import", "import_attributes"}, "awaiting_sub" \notin c.on
  PROVE  Proper(f, PushSub(f, c))
<1>. DEFINE g == TurnOn(f, {"awaiting_sub"})
<1>1. g.state = f.state /\ g.on = f.on \cup {"awaiting_sub"} BY TurnFields
<1>. HIDE DEF g
<1>2. g.state \in ImportStateName /\ g.state \notin Leaf \cup {"import", "type"}
  BY <1>1 DEF ImportStateName, Leaf
<1>3. Keeps(f, g) BY <1>1 DEF Keeps, Inherited
<1>4. Steady(g) BY <1>2 DEF Steady
<1>5. Link(g, c)
  <2>1. "awaiting_sub" \in g.on BY <1>1
  <2>2. ~EqualsBound(g) BY <1>1 DEF EqualsBound
  <2> QED BY <1>2, <2>1, <2>2, LinkSub
<1>6. Steady(c) /\ Idle(c) BY DEF Steady, Idle, ImportStateName
<1> QED BY <1>3, <1>4, <1>5, <1>6, ProperPush DEF PushSub, g

LEMMA ImportDelivers ==
  ASSUME NEW f
  PROVE  /\ f.state \in ImportStateName \ {"import"} => NullNode.kind \in Delivers(f.state)
         /\ f.state = "import" => Node("import").kind \in Delivers(f.state)
BY NodeFields DEF Delivers, TypeOperand, ImportStateName

(* The links that pass the declaration on: import clauses and from.        *)
LEMMA ClauseProper ==
  ASSUME NEW f, NEW t, IsFrame(f), f.state \in ImportStateName, Idle(f)
  PROVE  /\ f.state = "import" => Proper(f, Import(f, t))
         /\ f.state = "after_import" => Proper(f, AfterImport(f, t))
         /\ f.state = "after_type" => Proper(f, AfterType(f, t))
         /\ f.state = "after_default" => Proper(f, AfterDefault(f, t))
         /\ f.state = "after_comma" => Proper(f, AfterComma(f, t))
         /\ f.state = "expect_from" => Proper(f, ExpectFrom(f, t))
         /\ f.state = "after_from" => Proper(f, AfterFrom(f, t))
         /\ f.state = "expect_as" => Proper(f, ExpectAs(f, t))
         /\ f.state = "expect_namespace_name" => Proper(f, ExpectNamespaceName(f, t))
<1>1. "awaiting_sub" \notin f.on BY DEF Idle
<1>2. Keeps(f, f) /\ Steady(f) BY <1>1, ImportRests DEF Keeps
<1>3. NamedImports.state = "named_import" /\ "awaiting_sub" \notin NamedImports.on
  BY FrameFields DEF NamedImports
<1>15. f.state \in {"after_type", "after_comma"} => Proper(f, PushSub(f, NamedImports))
  BY <1>3, PushSubProper
<1>4. f.state \notin Leaf =>
        \A s \in ImportLink :
          ~EqualsBound(f) => Proper(f, Push(f, Fresh(s)))
  BY <1>1, <1>2, ImportPushes, ProperPush
<1>5. f.state \notin Leaf =>
        \A s \in {"after_import", "after_default", "after_equals"} :
          Proper(f, Push(f, Inherit(f, s)))
  BY <1>1, <1>2, ImportPushes, ProperPush, Links
<1>. USE Links, ProperReprocess, ProperCalling, ProperExpected, ProperVisitor, <1>2, <1>4
         DEF EqualsBound, Leaf
<1>6. f.state = "import" => Proper(f, Import(f, t)) BY <1>5 DEF Import
<1>7. f.state = "after_import" => Proper(f, AfterImport(f, t))
  BY <1>3, <1>5, PushSubProper DEF AfterImport
<1>8. f.state = "after_type" => Proper(f, AfterType(f, t))
  BY <1>15 DEF AfterType
<1>9. f.state = "after_default" => Proper(f, AfterDefault(f, t))
  BY <1>5 DEF AfterDefault
<1>10. f.state = "after_comma" => Proper(f, AfterComma(f, t))
  BY <1>15 DEF AfterComma
<1>11. f.state = "expect_from" => Proper(f, ExpectFrom(f, t)) BY DEF ExpectFrom
<1>12. f.state = "after_from" => Proper(f, AfterFrom(f, t)) BY DEF AfterFrom
<1>13. f.state = "expect_as" => Proper(f, ExpectAs(f, t)) BY DEF ExpectAs
<1>14. f.state = "expect_namespace_name" => Proper(f, ExpectNamespaceName(f, t))
  BY DEF ExpectNamespaceName
<1> QED BY <1>6, <1>7, <1>8, <1>9, <1>10, <1>11, <1>12, <1>13, <1>14

(* The links of the equals form, and what follows a module specifier.      *)
LEMMA EqualsProper ==
  ASSUME NEW f, NEW t, IsFrame(f), f.state \in ImportStateName, Idle(f)
  PROVE  /\ f.state = "after_equals" => Proper(f, AfterEquals(f, t))
         /\ f.state = "expect_require_paren" => Proper(f, ExpectRequireParen(f, t))
         /\ f.state = "after_require_open" => Proper(f, AfterRequireOpen(f, t))
         /\ f.state = "after_require_module" => Proper(f, AfterRequireModule(f, t))
         /\ f.state = "import_entity" => Proper(f, ImportEntity(f, t))
         /\ f.state = "after_module_spec" => Proper(f, AfterModuleSpec(f, t))
         /\ f.state = "import_attributes" => Proper(f, ImportAttributes(f, t))
<1>1. "awaiting_sub" \notin f.on BY DEF Idle
<1>2. Keeps(f, f) /\ Steady(f) BY <1>1, ImportRests DEF Keeps
<1>3. f.state \notin Leaf =>
        \A s \in ImportLink :
          ~EqualsBound(f) => Proper(f, Push(f, Fresh(s)))
  BY <1>1, <1>2, ImportPushes, ProperPush
<1>4. f.state \notin Leaf => Proper(f, Push(f, Fresh("import_entity")))
  BY <1>1, <1>2, ImportPushes, ProperPush, Links
<1>5. f.state # "import" => Proper(f, Complete(f, NullNode))
  BY ImportDelivers, ProperComplete
<1>6. ASSUME NEW off, NEW on, Uninherited(off), Uninherited(on), "awaiting_sub" \notin on
      PROVE  Proper(f, Stay(Turn(f, off, on))) /\ Proper(f, Stay(TurnOn(f, on)))
  BY <1>1, <1>6, ImportTurn, ProperStay
<1>. USE Links, ProperReprocess, ProperCalling, ProperExpected, ProperVisitor, <1>2, <1>3
         DEF EqualsBound, Leaf
<1>7. f.state # "import" => Proper(f, EndOfImport(f, t)) BY <1>5 DEF EndOfImport
<1>8. f.state = "after_equals" => Proper(f, AfterEquals(f, t)) BY <1>4 DEF AfterEquals
<1>9. f.state = "expect_require_paren" => Proper(f, ExpectRequireParen(f, t))
  BY DEF ExpectRequireParen
<1>10. f.state = "after_require_open" => Proper(f, AfterRequireOpen(f, t))
  BY DEF AfterRequireOpen
<1>11. f.state = "after_require_module" => Proper(f, AfterRequireModule(f, t))
  BY <1>6, <1>7, ImportUninherited DEF AfterRequireModule
<1>12. f.state = "import_entity" => Proper(f, ImportEntity(f, t))
  BY <1>6, <1>7, ImportUninherited DEF ImportEntity
<1>13. f.state = "after_module_spec" => Proper(f, AfterModuleSpec(f, t))
  <2>. DEFINE c == Frame("import_attributes", {"expect_open_brace"})
  <2>1. c.state = "import_attributes" /\ "awaiting_sub" \notin c.on BY FrameFields
  <2>. HIDE DEF c
  <2>2. f.state = "after_module_spec" => Proper(f, PushSub(f, c)) BY <2>1, PushSubProper
  <2>3. Proper(f, Stay(TurnOn(f, {"saw_newline"}))) BY <1>6, ImportUninherited
  <2> QED BY <2>2, <2>3, <1>5, <1>7 DEF AfterModuleSpec, c
<1>14. f.state = "import_attributes" => Proper(f, ImportAttributes(f, t))
  BY <1>5, <1>6, ImportUninherited DEF ImportAttributes, Phase
<1> QED BY <1>8, <1>9, <1>10, <1>11, <1>12, <1>13, <1>14

LEMMA ImportProcessProper ==
  ASSUME NEW f, NEW t, IsFrame(f), f.state \in ImportStateName, Steady(f), Idle(f)
  PROVE  Proper(f, ImportProcess(f, t))
BY ClauseProper, EqualsProper DEF ImportProcess, ImportStateName

LEMMA ImportAcceptProper ==
  ASSUME NEW f, IsFrame(f), f.state \in ImportStateName, Steady(f), Awaits(f), NEW n
  PROVE  Proper(f, ImportAcceptChild(f, n))
<1>1. f.state # "import_attributes" BY DEF Awaits, Leaf
<1>2. CASE "awaiting_sub" \in f.on
  <2>. DEFINE g == Turn(f, {"awaiting_sub"}, {"post_sub"})
  <2>1. g.state = f.state /\ g.on = (f.on \ {"awaiting_sub"}) \cup {"post_sub"} BY TurnFields
  <2>. HIDE DEF g
  <2>2. Keeps(f, g) BY <2>1 DEF Keeps, Inherited
  <2>3. Steady(g) /\ Idle(g) BY <2>1, ImportRests
  <2>4. Proper(f, Stay(g)) BY <2>2, <2>3, ProperStay
  <2>5. f.state # "import" BY <1>2 DEF Steady
  <2> QED BY <1>1, <1>2, <2>4, <2>5 DEF ImportAcceptChild, g
<1>3. CASE "awaiting_sub" \notin f.on
  <2>1. f.state = "import" => Proper(f, Complete(f, Node("import")))
    BY ImportDelivers, ProperComplete
  <2>2. f.state # "import" => Proper(f, Complete(f, NullNode))
    BY ImportDelivers, ProperComplete
  <2>3. CASE f.state = "import"
    BY <1>3, <2>1, <2>3 DEF ImportAcceptChild
  <2>4. CASE f.state # "import"
    BY <1>1, <1>3, <2>2, <2>4 DEF ImportAcceptChild
  <2> QED BY <2>3, <2>4
<1> QED BY <1>2, <1>3

LEMMA ImportEofProper ==
  ASSUME NEW f, f.state \in ImportStateName
  PROVE  Proper(f, ImportOnEof(f))
BY ImportDelivers, ProperComplete, ProperNullOpt DEF ImportOnEof

---------------------------------------------------------------------------
(* What the export states promise their neighbours.                        *)

LEMMA ExportProper ==
  ASSUME NEW f, NEW t, IsFrame(f), f.state = "export"
  PROVE  Proper(f, Export(f, t))
<1>1. Keeps(f, f) /\ Steady(f) /\ Idle(f)
  BY FreeFrame DEF Committed, ImportStateName
<1>2. Awaits(f) /\ Deliverable(f) = Exportable BY DEF Awaits, Leaf, Deliverable
<1>3. \A c : AmbientPasses(f, c) /\ EqualsPasses(f, c) /\ Hands(f, c)
  BY DEF AmbientPasses, EqualsPasses, EqualsBound, Hands, ImportStateName
<1>4. \A s \in {"type", "namespace", "declare", "import", "export_assignment", "export_star",
                "named_export"} :
        Delivers(s) \subseteq Exportable
  BY DEF Delivers, TypeOperand, Exportable, DeclaredKind
<1>5. \A s \in {"type", "namespace", "declare", "export_star", "named_export"} :
        Proper(f, Push(f, Fresh(s)))
  <2>. TAKE s \in {"type", "namespace", "declare", "export_star", "named_export"}
  <2>. DEFINE c == Fresh(s)
  <2>1. c.state = s BY FrameFields
  <2>2. Steady(c) /\ Idle(c) BY FreshRests
  <2>. HIDE DEF c
  <2>3. Placed(f, c) BY <2>1 DEF Placed
  <2>4. Link(f, c) BY <1>2, <1>3, <1>4, <2>1, <2>3 DEF Link
  <2> QED BY <1>1, <2>2, <2>4, ProperPush DEF c
<1>6. Proper(f, Push(f, Frame("import", {"equals_only"})))
  <2>. DEFINE c == Frame("import", {"equals_only"})
  <2>1. c.state = "import" /\ c.on = {"equals_only"} BY FrameFields
  <2>. HIDE DEF c
  <2>2. Steady(c) /\ Idle(c) BY <2>1, ImportRests DEF ImportStateName
  <2>3. Placed(f, c) BY <2>1 DEF Placed
  <2>4. Link(f, c) BY <1>2, <1>3, <1>4, <2>1, <2>3 DEF Link
  <2> QED BY <1>1, <2>2, <2>4, ProperPush DEF c
<1>7. "module_like" \in f.on => Proper(f, Push(f, Fresh("export_assignment")))
  <2>. DEFINE c == Fresh("export_assignment")
  <2>1. c.state = "export_assignment" BY FrameFields
  <2>2. Steady(c) /\ Idle(c) BY FreshRests
  <2>. HIDE DEF c
  <2>3. "module_like" \in f.on => Placed(f, c) BY <2>1 DEF Placed
  <2>4. "module_like" \in f.on => Link(f, c) BY <1>2, <1>3, <1>4, <2>1, <2>3 DEF Link
  <2> QED BY <1>1, <2>2, <2>4, ProperPush DEF c
<1>8. /\ "declaration_or_statement_expected" \notin InternalError
      /\ "export_default_not_at_top_level" \notin InternalError
      /\ "export_assignment_not_at_top_level" \notin InternalError
  BY DEF InternalError
<1> QED
  BY <1>1, <1>5, <1>6, <1>7, <1>8, ProperCalling, ProperThrow, ProperVisitor DEF Export

(* The states of an export chain.                                          *)
LEMMA ExportLinks ==
  ASSUME NEW f, f.state \in ExportStateName \ {"export"}, f.state \notin Leaf, NEW c,
         c.state \in (ExportStateName \ {"export", "export_assignment", "export_star",
                                          "named_export"}) \cup {"export_specifier_list"}
  PROVE  Link(f, c)
<1>1. Awaits(f) /\ Deliverable(f) = {"null"}
  BY DEF Awaits, Leaf, Deliverable, ExportStateName
<1>2. Delivers(c.state) = {"null"}
  BY DEF Delivers, TypeOperand, ExportStateName
<1>3. c.state \notin Scope \cup {"declare", "import", "export", "export_assignment"}
  BY DEF Scope, ExportStateName
<1>4. f.state \notin ImportStateName BY DEF ImportStateName, ExportStateName
<1> QED BY <1>1, <1>2, <1>3, <1>4, PlainLink

LEMMA ExportDelivers ==
  ASSUME NEW f
  PROVE  /\ f.state = "export_assignment" => Node("export_assignment").kind \in Delivers(f.state)
         /\ f.state = "export_star" => Node("export_star").kind \in Delivers(f.state)
         /\ f.state = "named_export" => Node("named_export").kind \in Delivers(f.state)
         /\ f.state \in ExportStateName \ {"export", "export_assignment", "export_star",
                                           "named_export"} =>
              NullNode.kind \in Delivers(f.state)
BY NodeFields DEF Delivers, TypeOperand, ExportStateName

LEMMA ExportProcessProper ==
  ASSUME NEW f, NEW t, IsFrame(f), f.state \in ExportStateName
  PROVE  Proper(f, ExportProcess(f, t))
<1>1. f.state \notin Committed BY DEF ExportStateName, Committed, ImportStateName
<1>2. Keeps(f, f) /\ Steady(f) /\ Idle(f) BY <1>1, FreeFrame
<1>3. ASSUME NEW on, Uninherited(on)
      PROVE  Proper(f, Stay(TurnOn(f, on)))
  BY <1>1, <1>3, FreeTurnOn, ProperStay
<1>4. ASSUME NEW s \in ExportStateName \ {"export", "export_assignment", "export_star",
                                          "named_export"},
             f.state # "export", f.state \notin Leaf
      PROVE  Proper(f, Push(f, Fresh(s)))
  <2>1. Fresh(s).state = s BY FrameFields
  <2>2. Link(f, Fresh(s)) BY <1>4, <2>1, ExportLinks
  <2> QED BY <1>2, <2>2, FreshRests, ProperPush
<1>. USE <1>2, ExportDelivers, ProperComplete, ProperReprocess, ProperCalling, ProperExpected,
         ProperVisitor
<1>5. CASE f.state = "export" BY <1>5, ExportProper DEF ExportProcess
<1>6. CASE f.state = "export_assignment"
  <2>. DEFINE g == TurnOn(f, {"has_identifier"})
              content == CASE "has_identifier" \notin f.on ->
                                IF t = "identifier" THEN Stay(g) ELSE Expected
                           [] "has_identifier" \in f.on /\ t = "semicolon" ->
                                Complete(f, Node("export_assignment"))
                           [] OTHER -> Reprocess(Complete(f, Node("export_assignment")))
  <2>1. Proper(f, Stay(g)) BY <1>3, StatementUninherited
  <2>2. Proper(f, content) BY <1>6, <2>1
  <2>3. IsFrame(g) BY ScopeFlags, TurnOnFrame DEF Replaces
  <2>. HIDE DEF g
  <2>4. content.act \in {"stay", "push"} => IsFrame(content.frame)
    BY <2>3 DEF Stay, Complete, Reprocess, Expected, Throw, Result
  <2>. HIDE DEF content
  <2>5. Proper(f, Multiline(f, t, content)) BY <2>2, <2>4, ProperMultiline
  <2> QED BY <1>6, <2>5 DEF ExportProcess, ExportAssignment, content, g
<1>7. CASE f.state = "export_star"
  <2>. DEFINE g == TurnOn(f, {"started"})
              c == Fresh("export_star_after_star")
  <2>1. Keeps(f, g) /\ Steady(g) /\ g.state = f.state
    BY <1>1, StatementUninherited, FreeTurnOn
  <2>2. c.state = "export_star_after_star" /\ Steady(c) /\ Idle(c) BY FrameFields, FreshRests
  <2>. HIDE DEF g, c
  <2>3. Link(g, c) BY <1>7, <2>1, <2>2, ExportLinks DEF ExportStateName, Leaf
  <2>4. Proper(f, Reprocess(Push(g, c))) BY <2>1, <2>2, <2>3, ProperPush
  <2> QED BY <1>7, <2>4 DEF ExportProcess, ExportStar, g, c
<1>8. CASE f.state = "export_star_after_star"
  BY <1>4, <1>8 DEF ExportProcess, ExportStarAfterStar, ExportStateName, Leaf
<1>9. CASE f.state = "export_star_name"
  BY <1>4, <1>9 DEF ExportProcess, ExportStarNameState, ExportStateName, Leaf
<1>10. CASE f.state = "export_star_from"
  BY <1>4, <1>10 DEF ExportProcess, ExportStarFrom, ExportStateName, Leaf
<1>11. CASE f.state \in {"export_star_module_spec", "named_export_module_spec"}
  BY <1>4, <1>11 DEF ExportProcess, ModuleSpec, ExportStateName, Leaf
<1>12. CASE f.state = "named_export"
  <2>. DEFINE c == Frame("export_specifier_list", {"expect_specifier_or_close"})
  <2>1. "export_specifier_list" \notin Committed BY DEF Committed, ImportStateName
  <2>2. c.state = "export_specifier_list" /\ Steady(c) /\ Idle(c)
    BY <2>1, StatementRests
  <2>. HIDE DEF c
  <2>3. Link(f, c) BY <1>12, <2>2, ExportLinks DEF Leaf, ExportStateName
  <2>4. Proper(f, Reprocess(Push(f, c))) BY <2>2, <2>3, ProperPush
  <2>5. Proper(f, Push(f, Fresh("named_export_module_spec")))
    BY <1>4, <1>12 DEF ExportStateName, Leaf
  <2>6. Proper(f, Stay(f)) BY ProperStay
  <2> QED BY <1>12, <2>4, <2>5, <2>6 DEF ExportProcess, NamedExport, c
<1>13. CASE f.state \in {"export_star_semicolon", "named_export_semicolon"}
  BY <1>13 DEF ExportProcess, OptionalSemicolon, ExportStateName
<1> QED
  BY <1>5, <1>6, <1>7, <1>8, <1>9, <1>10, <1>11, <1>12, <1>13 DEF ExportStateName

LEMMA ExportAcceptProper ==
  ASSUME NEW f, IsFrame(f), f.state \in ExportStateName, Awaits(f),
         NEW n \in AstNode, n.kind \in Deliverable(f)
  PROVE  Proper(f, ExportAcceptChild(f, n))
<1>1. f.state \notin Committed BY DEF ExportStateName, Committed, ImportStateName
<1>2. f.state \notin {"export_star_semicolon", "named_export_semicolon", "export_assignment"}
  BY DEF Awaits, Leaf
<1>3. CASE f.state = "export"
  <2>. DEFINE m == [n EXCEPT !.exported = n.exported \/ n.kind \in Exportable]
  <2>1. m.kind = n.kind BY DEF AstNode
  <2>2. n.kind \in Exportable BY <1>3 DEF Deliverable
  <2>3. m.kind \in Delivers(f.state) /\ n.kind # "null"
    BY <1>3, <2>1, <2>2 DEF Delivers, TypeOperand, Exportable
  <2>4. ExportAcceptChild(f, n) = Complete(f, m)
    BY <1>3, <2>3 DEF ExportAcceptChild, ExportAccept
  <2> QED BY <2>3, <2>4, ProperComplete
<1>4. CASE f.state = "named_export"
  BY <1>1, <1>4, FreeTurnOn, StatementUninherited, ExportDelivers, ProperStay, ProperComplete
     DEF ExportAcceptChild, NamedExportAccept
<1>5. CASE f.state = "export_star"
  BY <1>5, ExportDelivers, ProperComplete DEF ExportAcceptChild
<1>6. CASE f.state \notin {"export", "named_export", "export_star"}
  BY <1>2, <1>6, ExportDelivers, ProperComplete DEF ExportAcceptChild
<1> QED BY <1>3, <1>4, <1>5, <1>6

LEMMA ExportEofProper ==
  ASSUME NEW f, f.state \in ExportStateName
  PROVE  Proper(f, ExportOnEof(f))
BY ExportDelivers, ProperComplete, ProperNullOpt DEF ExportOnEof

---------------------------------------------------------------------------
(* What the scope states promise their neighbours.                         *)

ScopeError == {"declaration_or_statement_expected", "declare_in_ambient_context",
               "export_assignment_conflicts", "expected_token"}

LEMMA ScopeErrors == \A e \in ScopeError : e \notin InternalError
BY DEF ScopeError, InternalError

(* A scope and a statement in it: ambient and module_like are what the     *)
(* scope passes on.                                                        *)
LEMMA StatementLink ==
  ASSUME NEW f, f.state \in Scope, NEW c, c.state \in Statement,
         c.state = "declare" => ~Ambient(f),
         c.state = "namespace" /\ Ambient(f) => "ambient" \in c.on,
         c.state = "export" /\ "module_like" \in c.on => f.state # "namespace",
         c.state = "import" /\ f.state = "namespace" => "equals_only" \in c.on
  PROVE  Link(f, c)
<1>1. Awaits(f) BY DEF Awaits, Leaf, Scope
<1>2. Delivers(c.state) \subseteq Deliverable(f)
  BY DEF Delivers, TypeOperand, Deliverable, Scope, Statement, Exportable, DeclaredKind
<1>3. AmbientPasses(f, c) BY DEF AmbientPasses, Statement, Scope, Ambient
<1>4. Placed(f, c) BY DEF Placed, Statement, Scope
<1>5. EqualsPasses(f, c) /\ Hands(f, c)
  BY DEF EqualsPasses, EqualsBound, Hands, ImportStateName, Scope
<1> QED BY <1>1, <1>2, <1>3, <1>4, <1>5 DEF Link

(* The statements that a scope pushes with the members it must give them.  *)
LEMMA StatementPushes ==
  ASSUME NEW f, f.state \in Scope
  PROVE  /\ \A on : "awaiting_sub" \notin on /\ (f.state = "namespace" => "equals_only" \in on)
                  => Proper(f, Push(f, Frame("import", on)))
         /\ ~Ambient(f) => Proper(f, Push(f, Frame("declare", {})))
         /\ \A on : (Ambient(f) => "ambient" \in on) => Proper(f, Push(f, Frame("namespace", on)))
         /\ \A on : ("module_like" \in on => f.state # "namespace")
                  => Proper(f, Push(f, Frame("export", on)))
         /\ Proper(f, Push(f, Frame("type", {})))
<1>1. Keeps(f, f) /\ Steady(f) /\ Idle(f)
  BY FreeFrame DEF Committed, ImportStateName, Scope
<1>2. \A s, on : Frame(s, on).state = s /\ Frame(s, on).on = on BY FrameFields
<1>3. ASSUME NEW on, "awaiting_sub" \notin on, f.state = "namespace" => "equals_only" \in on
      PROVE  Proper(f, Push(f, Frame("import", on)))
  <2>. DEFINE c == Frame("import", on)
  <2>1. c.state = "import" /\ c.on = on BY <1>2
  <2>. HIDE DEF c
  <2>2. Steady(c) /\ Idle(c) BY <1>3, <2>1, ImportRests DEF ImportStateName
  <2>3. Link(f, c) BY <1>3, <2>1, StatementLink DEF Statement
  <2> QED BY <1>1, <2>2, <2>3, ProperPush DEF c
<1>4. ASSUME NEW s \in {"declare", "namespace", "export", "type"}, NEW on,
             s = "type" => on = {}, s = "declare" => ~Ambient(f),
             s = "namespace" /\ Ambient(f) => "ambient" \in on,
             s = "export" /\ "module_like" \in on => f.state # "namespace"
      PROVE  Proper(f, Push(f, Frame(s, on)))
  <2>. DEFINE c == Frame(s, on)
  <2>1. c.state = s /\ c.on = on BY <1>2
  <2>. HIDE DEF c
  <2>2. Steady(c) /\ Idle(c) BY <1>4, <2>1 DEF Steady, Idle, ImportStateName
  <2>3. Link(f, c) BY <1>4, <2>1, StatementLink DEF Statement
  <2> QED BY <1>1, <2>2, <2>3, ProperPush DEF c
<1> QED BY <1>3, <1>4

LEMMA ModuleScopeVisitorProper ==
  ASSUME NEW f, NEW t
  PROVE  /\ f.state = "module_scope" => Proper(f, ModuleScopeVisitor(f, t, FALSE, TRUE))
         /\ f.state = "namespace" =>
              Proper(f, ModuleScopeVisitor(f, t, "ambient" \in f.on, FALSE))
         /\ f.state = "declare_module" => Proper(f, ModuleScopeVisitor(f, t, TRUE, TRUE))
<1>1. f.state \in Scope => Steady(f) /\ Idle(f)
  BY FreeFrame DEF Committed, ImportStateName, Scope
<1>2. /\ Proper(f, Throw("declare_in_ambient_context"))
      /\ Proper(f, Throw("declaration_or_statement_expected"))
  BY ScopeErrors, ProperThrow DEF ScopeError
<1>3. \A m : /\ FlagIf(TRUE, m) = {m} /\ FlagIf(FALSE, m) = {}
             /\ FlagIf(~TRUE, m) = {} /\ FlagIf(~FALSE, m) = {m}
  BY DEF FlagIf
<1>4. CASE f.state = "module_scope"
  <2>1. f.state \in Scope /\ ~Ambient(f) BY <1>4 DEF Scope, Ambient
  <2>2. /\ Proper(f, Push(f, Frame("import", {}))) /\ Proper(f, Push(f, Frame("declare", {})))
        /\ Proper(f, Push(f, Frame("namespace", {}))) /\ Proper(f, Push(f, Frame("type", {})))
        /\ Proper(f, Push(f, Frame("export", {"module_like"})))
    BY <1>4, <2>1, StatementPushes
  <2>3. Proper(f, ModuleScopeVisitor(f, t, FALSE, TRUE))
    BY <1>1, <1>2, <1>3, <2>1, <2>2, ProperCalling, ProperVisitor DEF ModuleScopeVisitor
  <2> QED BY <1>4, <2>3
<1>5. CASE f.state = "namespace"
  <2>. DEFINE on == FlagIf("ambient" \in f.on, "ambient")
  <2>1. f.state \in Scope /\ (Ambient(f) <=> "ambient" \in f.on) BY <1>5 DEF Scope, Ambient
  <2>2. "ambient" \in f.on => "ambient" \in on BY DEF FlagIf
  <2>3. /\ Proper(f, Push(f, Frame("import", {"equals_only"})))
        /\ "ambient" \notin f.on => Proper(f, Push(f, Frame("declare", {})))
        /\ Proper(f, Push(f, Frame("namespace", on))) /\ Proper(f, Push(f, Frame("type", {})))
        /\ Proper(f, Push(f, Frame("export", {})))
    BY <1>5, <2>1, <2>2, StatementPushes
  <2>4. Proper(f, ModuleScopeVisitor(f, t, "ambient" \in f.on, FALSE))
    BY <1>1, <1>2, <1>3, <2>1, <2>3, ProperCalling, ProperVisitor DEF ModuleScopeVisitor
  <2> QED BY <1>5, <2>4
<1>6. CASE f.state = "declare_module"
  <2>1. f.state \in Scope /\ Ambient(f) BY <1>6 DEF Scope, Ambient
  <2>2. /\ Proper(f, Push(f, Frame("import", {})))
        /\ Proper(f, Push(f, Frame("namespace", {"ambient"})))
        /\ Proper(f, Push(f, Frame("type", {})))
        /\ Proper(f, Push(f, Frame("export", {"module_like"})))
    BY <1>6, <2>1, StatementPushes
  <2>3. Proper(f, ModuleScopeVisitor(f, t, TRUE, TRUE))
    BY <1>1, <1>2, <1>3, <2>1, <2>2, ProperCalling, ProperVisitor DEF ModuleScopeVisitor
  <2> QED BY <1>6, <2>3
<1> QED BY <1>4, <1>5, <1>6

LEMMA BracedScopeProper ==
  ASSUME NEW f, IsFrame(f), f.state \in {"namespace", "declare_module"},
         NEW header, header.state \in {"namespace_header", "declare_module_header"}
  PROVE  /\ Proper(f, Complete(f, Node(f.state)))
         /\ Proper(f, Reprocess(Push(TurnOn(f, {"header_done"}), header)))
<1>1. f.state \in Scope /\ f.state \notin Committed
  BY DEF Scope, Committed, ImportStateName
<1>2. Proper(f, Complete(f, Node(f.state)))
  <2>1. Node(f.state).kind \in Delivers(f.state) BY NodeFields DEF Delivers, TypeOperand
  <2> QED BY <2>1, ProperComplete
<1>3. Proper(f, Reprocess(Push(TurnOn(f, {"header_done"}), header)))
  <2>. DEFINE g == TurnOn(f, {"header_done"})
  <2>1. Keeps(f, g) /\ Steady(g) /\ g.state = f.state
    BY <1>1, StatementUninherited, FreeTurnOn
  <2>. HIDE DEF g
  <2>2. Steady(header) /\ Idle(header) BY DEF Steady, Idle, ImportStateName
  <2>3. Awaits(g) /\ Delivers(header.state) \subseteq Deliverable(g)
    BY <2>1 DEF Awaits, Leaf, Delivers, TypeOperand, Deliverable
  <2>4. Link(g, header)
    BY <2>1, <2>3, PlainLink DEF Scope, ImportStateName
  <2> QED BY <2>1, <2>2, <2>4, ProperPush, ProperReprocess DEF g
<1> QED BY <1>2, <1>3

LEMMA DeclareProper ==
  ASSUME NEW f, NEW t, IsFrame(f)
  PROVE  /\ f.state = "declare" => Proper(f, Declare(f, t))
         /\ f.state = "declare_module_dispatch" => Proper(f, DeclareModuleDispatch(f, t))
<1>1. f.state \in {"declare", "declare_module_dispatch"} => Keeps(f, f) /\ Steady(f) /\ Idle(f)
  BY FreeFrame DEF Committed, ImportStateName
<1>2. \A s, on : Frame(s, on).state = s /\ Frame(s, on).on = on BY FrameFields
<1>3. ASSUME NEW c, Steady(c) /\ Idle(c),
             f.state \in {"declare", "declare_module_dispatch"},
             c.state \in IF f.state = "declare" THEN {"declare_module_dispatch", "namespace", "type"}
                         ELSE {"declare_module", "namespace"},
             c.state = "namespace" => "ambient" \in c.on
      PROVE  Proper(f, Push(f, c))
  <2>1. Awaits(f) BY <1>3 DEF Awaits, Leaf
  <2>2. Delivers(c.state) \subseteq Deliverable(f)
    BY <1>3 DEF Delivers, TypeOperand, Deliverable, DeclaredKind
  <2>3. AmbientPasses(f, c) BY <1>3 DEF AmbientPasses, Ambient, Scope
  <2>4. Placed(f, c) BY <1>3 DEF Placed
  <2>5. EqualsPasses(f, c) /\ Hands(f, c)
    BY <1>3 DEF EqualsPasses, EqualsBound, Hands, ImportStateName
  <2>6. Link(f, c) BY <2>1, <2>2, <2>3, <2>4, <2>5 DEF Link
  <2> QED BY <1>1, <1>3, <2>6, ProperPush
<1>4. /\ f.state = "declare" => Proper(f, Push(f, Frame("declare_module_dispatch", {})))
      /\ f.state = "declare" => Proper(f, Push(f, Frame("type", {})))
      /\ f.state = "declare_module_dispatch" => Proper(f, Push(f, Frame("declare_module", {})))
  <2>1. \A s \in {"declare_module_dispatch", "type", "declare_module"} :
          Steady(Frame(s, {})) /\ Idle(Frame(s, {}))
    BY <1>2 DEF Steady, Idle
  <2> QED BY <1>2, <1>3, <2>1
<1>5. f.state \in {"declare", "declare_module_dispatch"} =>
        Proper(f, Push(f, Frame("namespace", {"ambient"})))
  <2>. DEFINE c == Frame("namespace", {"ambient"})
  <2>1. c.state = "namespace" /\ "ambient" \in c.on BY <1>2
  <2>. HIDE DEF c
  <2>2. Steady(c) /\ Idle(c) BY <2>1 DEF Steady, Idle, ImportStateName
  <2> QED BY <1>3, <2>1, <2>2 DEF c
<1>6. Proper(f, Throw("declaration_or_statement_expected"))
  BY ScopeErrors, ProperThrow DEF ScopeError
<1>7. f.state = "declare" => Proper(f, Declare(f, t))
  BY <1>1, <1>4, <1>5, <1>6, ProperVisitor DEF Declare
<1>8. f.state = "declare_module_dispatch" => Proper(f, DeclareModuleDispatch(f, t))
  BY <1>4, <1>5, ProperReprocess DEF DeclareModuleDispatch
<1> QED BY <1>7, <1>8

LEMMA HeaderProper ==
  ASSUME NEW f, NEW t, IsFrame(f)
  PROVE  /\ f.state = "namespace_header" => Proper(f, NamespaceHeader(f, t))
         /\ f.state = "declare_module_header" => Proper(f, DeclareModuleHeader(f, t))
<1>1. \A s \in {"namespace_header", "declare_module_header"} :
        s \notin Committed /\ NullNode.kind \in Delivers(s)
  BY NodeFields DEF Committed, ImportStateName, Delivers, TypeOperand
<1>. USE <1>1, FreeTurn, FreeTurnOn, FreeFrame, StatementUninherited, ProperStay,
         ProperComplete, ProperExpected
<1>2. f.state = "namespace_header" => Proper(f, NamespaceHeader(f, t))
  BY DEF NamespaceHeader
<1>3. f.state = "declare_module_header" => Proper(f, DeclareModuleHeader(f, t))
  BY DEF DeclareModuleHeader
<1> QED BY <1>2, <1>3

LEMMA ScopeProcessProper ==
  ASSUME NEW f, NEW t, IsFrame(f), f.state \in ScopeStateName
  PROVE  Proper(f, ScopeProcess(f, t))
<1>1. CASE f.state = "module_scope"
  BY <1>1, ModuleScopeVisitorProper DEF ScopeProcess
<1>2. CASE f.state = "namespace"
  <2>. DEFINE c == Frame("namespace_header", {"expect_segment"})
  <2>1. c.state = "namespace_header" BY FrameFields
  <2>. HIDE DEF c
  <2>2. /\ Proper(f, Complete(f, Node("namespace")))
        /\ Proper(f, Reprocess(Push(TurnOn(f, {"header_done"}), c)))
    BY <1>2, <2>1, BracedScopeProper
  <2> QED
    BY <1>2, <2>2, ModuleScopeVisitorProper DEF ScopeProcess, Namespace, BracedScope, c
<1>3. CASE f.state = "declare_module"
  <2>. DEFINE c == Frame("declare_module_header", {})
  <2>1. c.state = "declare_module_header" BY FrameFields
  <2>. HIDE DEF c
  <2>2. /\ Proper(f, Complete(f, Node("declare_module")))
        /\ Proper(f, Reprocess(Push(TurnOn(f, {"header_done"}), c)))
    BY <1>3, <2>1, BracedScopeProper
  <2> QED
    BY <1>3, <2>2, ModuleScopeVisitorProper DEF ScopeProcess, DeclareModule, BracedScope, c
<1>4. CASE f.state \in {"declare", "declare_module_dispatch"}
  BY <1>4, DeclareProper DEF ScopeProcess
<1>5. CASE f.state \in {"namespace_header", "declare_module_header"}
  BY <1>5, HeaderProper DEF ScopeProcess
<1> QED BY <1>1, <1>2, <1>3, <1>4, <1>5 DEF ScopeStateName

LEMMA TrackExportsProper ==
  ASSUME NEW f, NEW n, IsFrame(f), f.state \in Scope
  PROVE  Proper(f, TrackExports(f, n)) /\ Proper(f, Stay(f))
<1>1. f.state \notin Committed BY DEF Scope, Committed, ImportStateName
<1>2. Proper(f, Throw("export_assignment_conflicts"))
  BY ScopeErrors, ProperThrow DEF ScopeError
<1> QED
  BY <1>1, <1>2, FreeTurnOn, FreeFrame, StatementUninherited, ProperStay DEF TrackExports

LEMMA ScopeAcceptProper ==
  ASSUME NEW f, IsFrame(f), f.state \in ScopeStateName, Awaits(f),
         NEW n, n.kind \in Deliverable(f)
  PROVE  Proper(f, ScopeAcceptChild(f, n))
<1>1. f.state \notin {"namespace_header", "declare_module_header"} BY DEF Awaits, Leaf
<1>2. CASE f.state \in Scope
  <2>1. f.state = "module_scope" => n.kind # "null" BY DEF Deliverable, Exportable
  <2> QED
    BY <1>2, <2>1, TrackExportsProper
       DEF ScopeAcceptChild, ModuleScopeAccept, DeclareModuleAccept, Scope
<1>3. CASE f.state \in {"declare", "declare_module_dispatch"}
  <2>1. n.kind \in Delivers(f.state) BY <1>3 DEF Deliverable, Delivers, TypeOperand
  <2> QED BY <1>3, <2>1, ProperComplete DEF ScopeAcceptChild
<1> QED BY <1>1, <1>2, <1>3 DEF ScopeStateName, Scope
===========================================================================
