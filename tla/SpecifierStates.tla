-------------------------- MODULE SpecifierStates --------------------------
(***************************************************************************)
(* The states of state/specifier: the braced list { a, b as c, type d } of *)
(* named imports (named_import_state) and of named exports                 *)
(* (export_specifier_list_state).  named_import and export_specifier_list  *)
(* share the list's grammar and differ in where a specifier is stored.     *)
(***************************************************************************)
EXTENDS StateResult

SpecifierListName == {"named_import", "export_specifier_list"}
SpecifierStateName ==
  SpecifierListName \cup
  {"specifier", "specifier_head", "specifier_resolve_type", "specifier_alias"}

FreshList(state) == Frame(state, {"expect_specifier_or_close"})

SpecifierList(f, t) ==
  CASE t = "newline" -> Stay(f)
    [] t = "close_brace" -> Complete(f, NullNode)
    [] t \notin {"newline", "close_brace"} /\ "expect_specifier_or_close" \in f.on ->
         Calling(Reprocess(Push(f, Frame("specifier", {}))), "new_specifier")
    [] t = "comma" /\ "expect_comma_or_close" \in f.on ->
         Stay(Turn(f, {"expect_comma_or_close"}, {"expect_specifier_or_close"}))
    [] OTHER -> Expected

SpecifierListAccept(f, n) ==
  Stay(Turn(f, {"expect_specifier_or_close"}, {"expect_comma_or_close"}))

(* One specifier: its head [type] name, then `as` alias or a terminator    *)
(* that is left for the list.                                              *)
SpecifierItem(f, t) ==
  CASE t = "newline" -> Stay(f)
    [] t # "newline" /\ "head_done" \notin f.on ->
         Reprocess(Push(f, Frame("specifier_head", {})))
    [] t = "as" /\ "head_done" \in f.on -> Push(f, Frame("specifier_alias", {}))
    [] t \in {"comma", "close_brace"} /\ "head_done" \in f.on ->
         Calling(Reprocess(Complete(f, NullNode)), "store_specifier")
    [] OTHER -> Expected

(* The first child is the head; the second is the alias, which completes   *)
(* the specifier.                                                          *)
SpecifierItemAccept(f, n) ==
  IF "head_done" \notin f.on THEN Stay(TurnOn(f, {"head_done"}))
  ELSE Calling(Complete(f, NullNode), "store_specifier")

SpecifierHead(f, t) ==
  Visitor(f, t,
    CASE t = "type" ->
           Calling(Push(f, Frame("specifier_resolve_type", {})), "specifier_type")
      [] t \in SpecifierName -> Calling(Complete(f, NullNode), "specifier_name")
      [] OTHER -> Expected)

(* After `type`: a terminator makes it the name, a name makes it the       *)
(* modifier.                                                               *)
SpecifierResolveType(f, t) ==
  Visitor(f, t,
    CASE t \in {"as", "comma", "close_brace"} ->
           Calling(Reprocess(Complete(f, NullNode)), "specifier_demote_type")
      [] t \in SpecifierName \ {"as"} -> Calling(Complete(f, NullNode), "specifier_name")
      [] OTHER -> Expected)

SpecifierAlias(f, t) ==
  Visitor(f, t,
    IF t \in Identifier THEN Calling(Complete(f, NullNode), "specifier_alias")
    ELSE Expected)

---------------------------------------------------------------------------

SpecifierProcess(f, t) ==
  CASE f.state \in SpecifierListName       -> SpecifierList(f, t)
    [] f.state = "specifier"               -> SpecifierItem(f, t)
    [] f.state = "specifier_head"          -> SpecifierHead(f, t)
    [] f.state = "specifier_resolve_type"  -> SpecifierResolveType(f, t)
    [] OTHER                               -> SpecifierAlias(f, t)

SpecifierAcceptChild(f, n) ==
  CASE f.state \in SpecifierListName -> SpecifierListAccept(f, n)
    [] f.state = "specifier"         -> SpecifierItemAccept(f, n)
    [] f.state = "specifier_head"    -> Complete(f, NullNode)
    [] OTHER                         -> LogicError
---------------------------------------------------------------------------
(* The members of each class that are set or cleared while it runs; the    *)
(* tokens of a specifier are kept in the declaration.                      *)
specifier_list_state == {"expect_specifier_or_close", "expect_comma_or_close"}
specifier_state == {"head_done"}
specifier_head_state == {}
specifier_resolve_type_state == {}
specifier_alias_state == {}
named_import_state == specifier_list_state

SpecifierFlag ==
  UNION {specifier_list_state, named_import_state, specifier_state, specifier_head_state,
         specifier_resolve_type_state, specifier_alias_state}
===========================================================================
