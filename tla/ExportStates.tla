---------------------------- MODULE ExportStates ----------------------------
(***************************************************************************)
(* The states of state/export_state and state/export: the dispatch on the  *)
(* token after `export`, export assignments, export * and named exports.   *)
(***************************************************************************)
EXTENDS StateResult

ExportStateName ==
  {"export", "export_assignment", "export_star", "export_star_after_star",
   "export_star_name", "export_star_from", "export_star_module_spec",
   "export_star_semicolon", "named_export", "named_export_module_spec",
   "named_export_semicolon"}

(* The states below know nothing of an enclosing ambient context: the      *)
(* namespace after `export` is pushed with ambient = false.                *)
Export(f, t) ==
  Visitor(f, t,
    CASE t = "type"       -> Push(f, Fresh("type"))
      [] t \in {"namespace", "module"} -> Push(f, Fresh("namespace"))
      [] t = "import"     -> Calling(Push(f, Frame("import", {"equals_only"})), "new_import")
      [] t = "declare"    -> Push(f, Fresh("declare"))
      [] t = "default"    ->
           Throw(IF "module_like" \in f.on THEN "declaration_or_statement_expected"
                 ELSE "export_default_not_at_top_level")
      [] t = "eq"         ->
           IF "module_like" \in f.on THEN Push(f, Fresh("export_assignment"))
           ELSE Throw("export_assignment_not_at_top_level")
      [] t = "asterisk"   -> Calling(Push(f, Fresh("export_star")), "new_export")
      [] t = "open_brace" -> Calling(Push(f, Fresh("named_export")), "new_export")
      [] OTHER            -> Throw("declaration_or_statement_expected"))

(* The child is dereferenced, then given the export keyword if it can      *)
(* carry one.                                                              *)
ExportAccept(f, n) ==
  IF n.kind = "null" THEN Throw("null_dereference")
  ELSE Complete(f, [n EXCEPT !.exported = n.exported \/ n.kind \in Exportable])

ExportAssignment(f, t) ==
  Multiline(f, t,
    CASE "has_identifier" \notin f.on ->
           IF t = "identifier" THEN Stay(TurnOn(f, {"has_identifier"})) ELSE Expected
      [] "has_identifier" \in f.on /\ t = "semicolon" ->
           Complete(f, Node("export_assignment"))
      [] OTHER -> Reprocess(Complete(f, Node("export_assignment"))))

ExportStar(f, t) ==
  Visitor(f, t,
    Reprocess(Push(TurnOn(f, {"started"}), Fresh("export_star_after_star"))))

ExportStarAfterStar(f, t) ==
  Visitor(f, t,
    CASE t = "as"   -> Push(f, Fresh("export_star_name"))
      [] t = "from" -> Push(f, Fresh("export_star_module_spec"))
      [] OTHER      -> Expected)

ExportStarNameState(f, t) ==
  Visitor(f, t, IF t \in Identifier
    THEN Calling(Push(f, Fresh("export_star_from")), "set_as_name") ELSE Expected)

ExportStarFrom(f, t) ==
  Visitor(f, t, IF t = "from" THEN Push(f, Fresh("export_star_module_spec")) ELSE Expected)

(* export_star_module_spec_state and named_export_module_spec_state.       *)
ModuleSpec(f, t, next) ==
  Visitor(f, t, IF t \in Constant
    THEN Calling(Push(f, Fresh(next)), "set_module_specifier") ELSE Expected)

(* Mutant: a missing semicolon is forgiven without completing.             *)
OptionalSemicolonStays(f, t) ==
  Visitor(f, t,
    IF t = "semicolon" THEN Calling(Complete(f, NullNode), "set_semicolon")
    ELSE Reprocess(Stay(f)))

(* export_star_semicolon_state and named_export_semicolon_state: newlines  *)
(* are skipped, and a missing semicolon is always forgiven.                *)
OptionalSemicolon(f, t) ==
  Visitor(f, t,
    IF t = "semicolon" THEN Calling(Complete(f, NullNode), "set_semicolon")
    ELSE Reprocess(Complete(f, NullNode)))

NamedExport(f, t) ==
  CASE t = "newline" -> Stay(f)
    [] t # "newline" /\ "list_done" \notin f.on ->
         Reprocess(Push(f, Frame("export_specifier_list", {"expect_specifier_or_close"})))
    [] t = "from" /\ "list_done" \in f.on -> Push(f, Fresh("named_export_module_spec"))
    [] t = "semicolon" /\ "list_done" \in f.on ->
         Calling(Complete(f, Node("named_export")), "set_semicolon")
    [] OTHER -> Reprocess(Complete(f, Node("named_export")))

NamedExportAccept(f, n) ==
  IF "list_done" \notin f.on THEN Stay(TurnOn(f, {"list_done"}))
  ELSE Complete(f, Node("named_export"))

---------------------------------------------------------------------------

ExportProcess(f, t) ==
  CASE f.state = "export"                  -> Export(f, t)
    [] f.state = "export_assignment"       -> ExportAssignment(f, t)
    [] f.state = "export_star"             -> ExportStar(f, t)
    [] f.state = "export_star_after_star"  -> ExportStarAfterStar(f, t)
    [] f.state = "export_star_name"        -> ExportStarNameState(f, t)
    [] f.state = "export_star_from"        -> ExportStarFrom(f, t)
    [] f.state = "export_star_module_spec" -> ModuleSpec(f, t, "export_star_semicolon")
    [] f.state = "named_export"            -> NamedExport(f, t)
    [] f.state = "named_export_module_spec" -> ModuleSpec(f, t, "named_export_semicolon")
    [] OTHER                               -> OptionalSemicolon(f, t)

ExportAcceptChild(f, n) ==
  CASE f.state = "export"            -> ExportAccept(f, n)
    [] f.state = "export_assignment" -> Stay(f)
    [] f.state = "export_star"       -> Complete(f, Node("export_star"))
    [] f.state = "named_export"      -> NamedExportAccept(f, n)
    [] f.state \in {"export_star_semicolon", "named_export_semicolon"} -> LogicError
    [] OTHER                         -> Complete(f, NullNode)

ExportOnEof(f) ==
  CASE f.state = "export_assignment" /\ "has_identifier" \in f.on ->
         Complete(f, Node("export_assignment"))
    [] f.state = "named_export" /\ "list_done" \in f.on ->
         Complete(f, Node("named_export"))
    [] f.state \in {"export_star_semicolon", "named_export_semicolon"} ->
         Complete(f, NullNode)
    [] OTHER -> NullOpt(f)
---------------------------------------------------------------------------
(* The members of each class that are set or cleared while it runs; the    *)
(* links of a chain only know their coordinator.                           *)
export_state == {"module_like"}
export_assignment_state == multiline_state \cup {"has_identifier"}
export_star_state == {"started"}
export_star_chain_states ==
  [export_star_after_star |-> {}, export_star_name |-> {}, export_star_from |-> {},
   export_star_module_spec |-> {}, export_star_semicolon |-> {}]
named_export_state == {"list_done"}
named_export_chain_states ==
  [named_export_module_spec |-> {}, named_export_semicolon |-> {}]

ExportFlag ==
  UNION {export_state, export_assignment_state, export_star_state, named_export_state,
         UNION {export_star_chain_states[s] : s \in DOMAIN export_star_chain_states},
         UNION {named_export_chain_states[s] : s \in DOMAIN named_export_chain_states}}
===========================================================================
