--------------------------- MODULE Results_proofs ---------------------------
(***************************************************************************)
(* What it takes for the result of a state to keep the parser well-typed,  *)
(* and the lemmas by which the results of StateResult.tla are built.       *)
(***************************************************************************)
EXTENDS ParserSafety, TLAPS

IsFrame(f) == f \in FrameSet
IsFlags(on) == on \in SUBSET Flag

(* The members that the lemmas below name are members of some state.       *)
LEMMA KnownFlags ==
  {"header_done", "type_done", "type", "has_name", "type_params_done", "init_done",
   "in", "out", "constraint_pending", "constraint", "default_pending", "default",
   "newline_loc", "member", "open_bracket", "base", "minus", "expect_segment",
   "type_args_done", "inner", "expect_specifier_or_close",
   "expect_comma_or_close", "head_done", "equals_only", "awaiting_sub",
   "post_sub", "closed", "expecting_id", "saw_newline", "expect_open_brace",
   "expect_key_or_close", "after_key", "after_colon", "after_value",
   "module_like", "has_identifier", "started", "list_done", "ambient",
   "has_export_assignment", "has_named_export"} \subseteq Flag
<1>1. {"header_done", "type_done", "type", "has_name", "type_params_done", "init_done",
       "in", "out", "constraint_pending", "constraint", "default_pending", "default",
       "newline_loc", "member", "open_bracket", "base", "minus", "expect_segment",
       "type_args_done", "inner"} \subseteq TypeFlag
  BY DEF TypeFlag, type_state, type_header_state, type_parameter_state, type_union_state,
         type_postfix_state, type_primary_state, type_reference_state, type_paren_state,
         multiline_state
<1>2. {"has_export_assignment", "has_named_export", "ambient"} \subseteq ScopeFlag
  BY DEF ScopeFlag, module_scope_state, namespace_state
<1>3. {"module_like", "has_identifier", "started", "list_done"} \subseteq ExportFlag
  BY DEF ExportFlag, export_state, export_assignment_state, export_star_state,
         named_export_state
<1>4. {"expect_specifier_or_close", "expect_comma_or_close", "head_done"} \subseteq SpecifierFlag
  BY DEF SpecifierFlag, specifier_list_state, specifier_state
<1>5. {"equals_only", "expect_open_brace", "expect_key_or_close", "after_key", "after_colon",
       "after_value"} \subseteq ImportFlag
  BY DEF ImportFlag, import_state, import_attributes_state
<1>6. {"awaiting_sub", "post_sub"} \subseteq ImportFlag
  BY DEF ImportFlag, initial_import_states
<1>7. {"closed", "expecting_id"} \subseteq ImportFlag
  BY DEF ImportFlag, equals_import_states
<1>8. {"saw_newline"} \subseteq ImportFlag
  BY DEF ImportFlag, module_completion_states
<1> QED BY <1>1, <1>2, <1>3, <1>4, <1>5, <1>6, <1>7, <1>8 DEF Flag

(* A frame g that takes the place of f, and one that f may push.           *)
Replaces(f, g) == IsFrame(g) /\ g.state = f.state
Pushes(f, c) == IsFrame(c) /\ c.state \in MayPush(f.state)

(* The token that a call stores is one its member can hold.                *)
CallFits(c, t) ==
  /\ c = "specifier_name"  => t \in SpecifierName
  /\ c = "specifier_alias" => t \in Identifier
  /\ c = "add_attribute"   => t \in Constant

ResultField == {"act", "frame", "child", "node", "reprocess", "newline", "error", "calls"}

(* A result of frame f for token t that the parser can act on.             *)
Sound(f, t, r) ==
  /\ DOMAIN r = ResultField
  /\ r.act \in {"stay", "push", "complete", "throw", "nullopt"}
  /\ r.act \in {"stay", "push"} => Replaces(f, r.frame)
  /\ r.act = "push" => Pushes(f, r.child)
  /\ r.act = "complete" => f.state # "module_scope"
  /\ r.node \in AstNode
  /\ r.reprocess \in BOOLEAN /\ r.newline \in BOOLEAN
  /\ r.act = "throw" => r.error \in Error
  /\ CallFits(r.calls[1], t) /\ CallFits(r.calls[2], t)

---------------------------------------------------------------------------
(* Frames.                                                                 *)

LEMMA TurnFrame ==
  ASSUME NEW f, IsFrame(f), NEW off, NEW on, IsFlags(on)
  PROVE  Replaces(f, Turn(f, off, on))
BY DEF Replaces, IsFrame, IsFlags, FrameSet, Turn

LEMMA TurnOnFrame ==
  ASSUME NEW f, IsFrame(f), NEW on, IsFlags(on)
  PROVE  Replaces(f, TurnOn(f, on))
BY TurnFrame DEF TurnOn

LEMMA SameFrame == ASSUME NEW f, IsFrame(f) PROVE Replaces(f, f)
BY DEF Replaces

LEMMA NewFrame ==
  ASSUME NEW s \in StateName, NEW on, IsFlags(on)
  PROVE  IsFrame(Frame(s, on)) /\ Frame(s, on).state = s
BY DEF IsFrame, IsFlags, FrameSet, Frame

LEMMA FreshFrame ==
  ASSUME NEW s \in StateName
  PROVE  IsFrame(Fresh(s)) /\ Fresh(s).state = s
BY NewFrame DEF Fresh, IsFlags

LEMMA NoFlags == IsFlags({})
BY DEF IsFlags

LEMMA Nodes == \A k \in NodeKind : Node(k) \in AstNode
BY DEF Node, AstNode

LEMMA ANullNode == NullNode \in AstNode
BY DEF NullNode, Node, AstNode, NodeKind

---------------------------------------------------------------------------
(* Results.                                                                *)

LEMMA SoundStay ==
  ASSUME NEW f, NEW t, NEW g, Replaces(f, g)
  PROVE  Sound(f, t, Stay(g))
BY ANullNode DEF Sound, ResultField, CallFits, Stay, Result

LEMMA SoundPush ==
  ASSUME NEW f, NEW t, NEW g, Replaces(f, g), NEW c, Pushes(f, c)
  PROVE  Sound(f, t, Push(g, c))
BY ANullNode DEF Sound, ResultField, CallFits, Push, Result

LEMMA SoundComplete ==
  ASSUME NEW f, NEW t, NEW g, f.state # "module_scope", NEW n \in AstNode
  PROVE  Sound(f, t, Complete(g, n))
BY DEF Sound, ResultField, CallFits, Complete, Result

LEMMA SoundThrow ==
  ASSUME NEW f, NEW t, NEW e \in Error
  PROVE  Sound(f, t, Throw(e))
BY ANullNode DEF Sound, ResultField, CallFits, Throw, Result

LEMMA SoundNullOpt == ASSUME NEW f, NEW t PROVE Sound(f, t, NullOpt(f))
BY ANullNode DEF Sound, ResultField, CallFits, NullOpt, Result

LEMMA SoundReprocess ==
  ASSUME NEW f, NEW t, NEW r, Sound(f, t, r)
  PROVE  Sound(f, t, Reprocess(r))
BY DEF Sound, ResultField, Reprocess

LEMMA SoundCalling ==
  ASSUME NEW f, NEW t, NEW r, Sound(f, t, r), NEW c, CallFits(c, t)
  PROVE  Sound(f, t, Calling(r, c))
BY DEF Sound, ResultField, Calling, CallFits

LEMMA SoundCalling2 ==
  ASSUME NEW f, NEW t, NEW r, Sound(f, t, r), NEW c, CallFits(c, t), NEW d, CallFits(d, t)
  PROVE  Sound(f, t, Calling2(r, c, d))
BY DEF Sound, ResultField, Calling2

LEMMA SoundExpected ==
  ASSUME NEW f, NEW t PROVE Sound(f, t, Expected) /\ Sound(f, t, LogicError)
BY SoundThrow DEF Expected, LogicError, Error

LEMMA SoundVisitor ==
  ASSUME NEW f, NEW t, IsFrame(f), NEW r, Sound(f, t, r)
  PROVE  Sound(f, t, Visitor(f, t, r))
BY SoundStay, SameFrame DEF Visitor

LEMMA SoundMultiline ==
  ASSUME NEW f, NEW t, IsFrame(f), NEW r, Sound(f, t, r)
  PROVE  Sound(f, t, Multiline(f, t, r))
<1>1. CASE t = "newline"
  <2>1. IsFlags({"newline_loc"}) BY KnownFlags DEF IsFlags
  <2> QED BY <1>1, <2>1, SoundStay, TurnOnFrame DEF Multiline
<1>2. CASE t # "newline"
  <2>1. r.act \in {"stay", "push"} => Replaces(f, Turn(r.frame, {"newline_loc"}, {}))
    BY TurnFrame, NoFlags DEF Sound, Replaces
  <2>. DEFINE given == r.act = "complete" /\ r.reprocess /\ "newline_loc" \in f.on
              g == Turn(r.frame, {"newline_loc"}, {})
  <2>2. Multiline(f, t, r) = [r EXCEPT !.newline = given, !.frame = g]
    BY <1>2 DEF Multiline
  <2>3. given \in BOOLEAN BY DEF Sound
  <2>. HIDE DEF given, g
  <2>4. Sound(f, t, [r EXCEPT !.newline = given, !.frame = g])
    BY <2>1, <2>3 DEF Sound, ResultField, g
  <2> QED BY <2>2, <2>4
<1> QED BY <1>1, <1>2
---------------------------------------------------------------------------
(* What a frame and its neighbours on the stack promise each other, beyond *)
(* the type of the result.                                                 *)

(* The exceptions that only a mistake in the states can raise.             *)
InternalError == {"logic_error", "bad_variant_access", "null_dereference"}

(* Members that are set when a state is pushed and never again.            *)
Inherited == {"ambient", "equals_only", "module_like"}

Keeps(f, g) ==
  g.state = f.state /\ \A m \in Inherited : m \in g.on <=> m \in f.on

(* Of every frame; of the top frame while it is given tokens; and of a     *)
(* frame with another above it.                                            *)
Steady(f) ==
  /\ f.state = "type" /\ "type_done" \in f.on => "header_done" \in f.on
  /\ f.state = "import" => "awaiting_sub" \notin f.on

Idle(f) ==
  /\ f.state = "type_expression" => "init_done" \notin f.on
  /\ f.state = "type_postfix" /\ "init_done" \in f.on => "base" \in f.on
  /\ f.state = "type_paren" /\ "init_done" \in f.on => "inner" \in f.on
  /\ f.state \in ImportStateName => "awaiting_sub" \notin f.on

Leaf == {"specifier_resolve_type", "specifier_alias", "import_attributes", "import_entity",
         "export_assignment", "export_star_semicolon", "named_export_semicolon",
         "namespace_header", "declare_module_header"}

Awaits(f) ==
  /\ f.state \notin Leaf
  /\ f.state = "type_parameter" =>
       "constraint_pending" \in f.on \/ "default_pending" \in f.on

(* The kinds of node that a state may complete with.                       *)
TypeOperand == {"type_expression", "type_union", "type_intersection", "type_operator",
                "type_postfix", "type_primary", "type_reference", "type_paren"}

Delivers(s) ==
  CASE s = "type" -> {"type_alias"}
    [] s \in TypeOperand -> {"type_definition"}
    [] s \in {"type_parameter", "import", "namespace", "declare_module",
              "export_assignment", "export_star", "named_export"} -> {s}
    [] s = "declare" -> DeclaredKind \ {"import"}
    [] s = "declare_module_dispatch" -> {"namespace", "declare_module"}
    [] s = "export" -> Exportable
    [] OTHER -> {"null"}

(* An ambient scope passes on that it is.                                  *)
AmbientPasses(f, c) ==
  f.state \notin {"export", "declare"} /\ (f.state \in Scope => Ambient(f)) =>
    c.state # "declare" /\ (c.state \in Scope => Ambient(c))

(* A scope tells what is below it which forms are legal there.             *)
Placed(f, c) ==
  /\ c.state = "export_assignment" => "module_like" \in f.on
  /\ c.state = "export" /\ "module_like" \in c.on =>
       f.state \in {"module_scope", "declare_module"}
  /\ c.state = "import" /\ f.state \in {"namespace", "export"} => "equals_only" \in c.on

(* The links of an import that may only be an equals form.                 *)
EqualsLink(h) ==
  \/ (h.state \in {"after_import", "after_default", "after_equals"} /\ "equals_only" \in h.on)
  \/ h.state = "import_entity"
EqualsBound(f) ==
  /\ f.state \in {"import", "after_import", "after_default", "after_equals"}
  /\ "equals_only" \in f.on
EqualsPasses(f, c) == EqualsBound(f) => EqualsLink(c)

(* A link of an import waits for its own list or clause only.              *)
Hands(f, c) ==
  f.state \in ImportStateName =>
    ("awaiting_sub" \in f.on <=> c.state \in {"named_import", "import_attributes"})

(* A frame f and the one it has pushed.                                    *)
Link(f, c) ==
  /\ Awaits(f)
  /\ Delivers(c.state) \subseteq Deliverable(f)
  /\ AmbientPasses(f, c) /\ Placed(f, c) /\ EqualsPasses(f, c) /\ Hands(f, c)

(* A result of f that keeps these promises.                                *)
Proper(f, r) ==
  /\ DOMAIN r = ResultField
  /\ r.act \in {"stay", "push"} => Keeps(f, r.frame) /\ Steady(r.frame)
  /\ r.act = "stay" => Idle(r.frame)
  /\ r.act = "push" => Link(r.frame, r.child) /\ Idle(r.child) /\ Steady(r.child)
  /\ r.act = "complete" => r.node.kind \in Delivers(f.state)
  /\ r.act = "throw" => r.error \notin InternalError

---------------------------------------------------------------------------

LEMMA TurnFields ==
  ASSUME NEW f, IsFrame(f), NEW off, NEW on
  PROVE  /\ Turn(f, off, on).state = f.state
         /\ Turn(f, off, on).on = (f.on \ off) \cup on
         /\ TurnOn(f, on).state = f.state
         /\ TurnOn(f, on).on = f.on \cup on
BY DEF IsFrame, FrameSet, Turn, TurnOn

LEMMA FrameFields ==
  /\ \A s, on : Frame(s, on).state = s /\ Frame(s, on).on = on
  /\ \A s : Fresh(s).state = s /\ Fresh(s).on = {}
BY DEF Frame, Fresh

LEMMA NodeFields == (\A k : Node(k).kind = k) /\ NullNode.kind = "null"
BY DEF Node, NullNode

LEMMA ProperStay ==
  ASSUME NEW f, NEW g, Keeps(f, g), Steady(g), Idle(g)
  PROVE  Proper(f, Stay(g))
BY DEF Proper, ResultField, Stay, Result

LEMMA ProperPush ==
  ASSUME NEW f, NEW g, Keeps(f, g), Steady(g), NEW c, Link(g, c), Idle(c), Steady(c)
  PROVE  Proper(f, Push(g, c))
BY DEF Proper, ResultField, Push, Result

LEMMA ProperComplete ==
  ASSUME NEW f, NEW g, NEW n, n.kind \in Delivers(f.state)
  PROVE  Proper(f, Complete(g, n))
BY DEF Proper, ResultField, Complete, Result

LEMMA ProperThrow ==
  ASSUME NEW f, NEW e, e \notin InternalError
  PROVE  Proper(f, Throw(e))
BY DEF Proper, ResultField, Throw, Result

LEMMA ProperExpected == \A f : Proper(f, Expected)
<1>1. "expected_token" \notin InternalError BY DEF InternalError
<1> QED BY <1>1, ProperThrow DEF Expected

LEMMA ProperNullOpt == \A f : Proper(f, NullOpt(f))
BY DEF Proper, ResultField, NullOpt, Result

LEMMA ProperReprocess ==
  ASSUME NEW f, NEW r, Proper(f, r)
  PROVE  Proper(f, Reprocess(r))
BY DEF Proper, ResultField, Reprocess

LEMMA ProperCalling ==
  ASSUME NEW f, NEW r, Proper(f, r), NEW c, NEW d
  PROVE  Proper(f, Calling(r, c)) /\ Proper(f, Calling2(r, c, d))
BY DEF Proper, ResultField, Calling, Calling2

LEMMA ProperVisitor ==
  ASSUME NEW f, NEW t, Steady(f), Idle(f), NEW r, t # "newline" => Proper(f, r)
  PROVE  Proper(f, Visitor(f, t, r))
<1>1. Keeps(f, f) BY DEF Keeps
<1> QED BY <1>1, ProperStay DEF Visitor

(* A newline that is remembered or forgotten changes no promise.           *)
LEMMA NewlineKept ==
  ASSUME NEW f, IsFrame(f), NEW off \in SUBSET {"newline_loc"},
         NEW on \in SUBSET {"newline_loc"}
  PROVE  LET g == Turn(f, off, on)
         IN  /\ Keeps(f, g)
             /\ Steady(f) => Steady(g)
             /\ Idle(f) => Idle(g)
             /\ \A c : Link(f, c) => Link(g, c)
<1>. DEFINE g == Turn(f, off, on)
<1>1. g.state = f.state /\ g.on = (f.on \ off) \cup on BY TurnFields
<1>2. \A m : m # "newline_loc" => (m \in g.on <=> m \in f.on)
  BY <1>1
<1>. HIDE DEF g
<1>3. Keeps(f, g) BY <1>1, <1>2 DEF Keeps, Inherited
<1>4. Steady(f) => Steady(g) BY <1>1, <1>2 DEF Steady
<1>5. Idle(f) => Idle(g) BY <1>1, <1>2 DEF Idle
<1>6. ASSUME NEW c, Link(f, c) PROVE Link(g, c)
  <2>1. Awaits(g) BY <1>1, <1>2, <1>6 DEF Link, Awaits
  <2>2. Deliverable(g) = Deliverable(f) BY <1>1, <1>2 DEF Deliverable
  <2>3. AmbientPasses(g, c) BY <1>1, <1>2, <1>6 DEF Link, AmbientPasses, Ambient
  <2>4. Placed(g, c) BY <1>1, <1>2, <1>6 DEF Link, Placed
  <2>5. EqualsPasses(g, c) BY <1>1, <1>2, <1>6 DEF Link, EqualsPasses, EqualsBound
  <2>6. Hands(g, c) BY <1>1, <1>2, <1>6 DEF Link, Hands
  <2> QED BY <2>1, <2>2, <2>3, <2>4, <2>5, <2>6, <1>6 DEF Link
<1> QED BY <1>3, <1>4, <1>5, <1>6 DEF g

LEMMA ProperMultiline ==
  ASSUME NEW f, NEW t, IsFrame(f), Steady(f), Idle(f),
         NEW r, t # "newline" => Proper(f, r) /\ (r.act \in {"stay", "push"} => IsFrame(r.frame))
  PROVE  Proper(f, Multiline(f, t, r))
<1>1. CASE t = "newline"
  <2>. DEFINE g == Turn(f, {}, {"newline_loc"})
  <2>1. Keeps(f, g) /\ Steady(g) /\ Idle(g) BY NewlineKept
  <2>2. Multiline(f, t, r) = Stay(g) BY <1>1 DEF Multiline, TurnOn
  <2>. HIDE DEF g
  <2> QED BY <2>1, <2>2, ProperStay
<1>2. CASE t # "newline"
  <2>. DEFINE given == r.act = "complete" /\ r.reprocess /\ "newline_loc" \in f.on
              g == Turn(r.frame, {"newline_loc"}, {})
  <2>1. ASSUME r.act \in {"stay", "push"}
        PROVE  /\ Keeps(r.frame, g) /\ Steady(g)
               /\ Idle(r.frame) => Idle(g)
               /\ \A c : Link(r.frame, c) => Link(g, c)
    BY <1>2, <2>1, NewlineKept DEF Proper
  <2>2. Multiline(f, t, r) = [r EXCEPT !.newline = given, !.frame = g]
    BY <1>2 DEF Multiline
  <2>. HIDE DEF given, g
  <2>3. r.act \in {"stay", "push"} => Keeps(f, g)
    BY <1>2, <2>1 DEF Proper, Keeps
  <2>4. Proper(f, [r EXCEPT !.newline = given, !.frame = g])
    BY <1>2, <2>1, <2>3 DEF Proper, ResultField
  <2> QED BY <2>2, <2>4
<1> QED BY <1>1, <1>2

(* Links outside imports to states that open no scope or export.           *)
LEMMA PlainLink ==
  ASSUME NEW f, NEW c, f.state \notin ImportStateName,
         c.state \notin Scope \cup {"declare", "import", "export", "export_assignment"},
         Awaits(f), Delivers(c.state) \subseteq Deliverable(f)
  PROVE  Link(f, c)
BY DEF Link, AmbientPasses, Placed, EqualsPasses, EqualsBound, Hands, ImportStateName

LEMMA FreshRests == \A s : Steady(Fresh(s)) /\ Idle(Fresh(s))
BY FrameFields DEF Steady, Idle

(* Most states promise nothing by the members that change while they run.  *)
Committed == {"type", "type_expression", "type_postfix", "type_paren"} \cup ImportStateName

Uninherited(on) == \A m \in Inherited : m \notin on

LEMMA FreeTurn ==
  ASSUME NEW f, IsFrame(f), f.state \notin Committed, NEW off, Uninherited(off),
         NEW on, Uninherited(on)
  PROVE  Keeps(f, Turn(f, off, on)) /\ Steady(Turn(f, off, on)) /\ Idle(Turn(f, off, on))
<1>. DEFINE g == Turn(f, off, on)
<1>1. g.state = f.state /\ g.on = (f.on \ off) \cup on BY TurnFields
<1>. HIDE DEF g
<1>2. Keeps(f, g) BY <1>1 DEF Keeps, Uninherited
<1>3. Steady(g) /\ Idle(g) BY <1>1 DEF Steady, Idle, Committed, ImportStateName
<1> QED BY <1>2, <1>3 DEF g

LEMMA FreeTurnOn ==
  ASSUME NEW f, IsFrame(f), f.state \notin Committed, NEW on, Uninherited(on)
  PROVE  /\ Keeps(f, TurnOn(f, on)) /\ Steady(TurnOn(f, on)) /\ Idle(TurnOn(f, on))
         /\ TurnOn(f, on).state = f.state
<1>1. Uninherited({}) BY DEF Uninherited
<1> QED BY <1>1, FreeTurn, TurnFields DEF TurnOn

LEMMA FreeFrame ==
  ASSUME NEW f, f.state \notin Committed
  PROVE  Keeps(f, f) /\ Steady(f) /\ Idle(f)
BY DEF Keeps, Steady, Idle, Committed, ImportStateName
===========================================================================
