----------------------------- MODULE ScopeStates -----------------------------
(***************************************************************************)
(* The declaration scopes and what opens them: the module (file) scope at  *)
(* the bottom of the stack, namespaces, ambient modules, their headers,    *)
(* and the two states behind `declare`.                                    *)
(***************************************************************************)
EXTENDS StateResult

ScopeStateName ==
  {"module_scope", "namespace", "namespace_header", "declare",
   "declare_module_dispatch", "declare_module", "declare_module_header"}

FlagIf(b, name) == IF b THEN {name} ELSE {}

(* module_scope_visitor: what may start a statement.  ambient is passed on *)
(* to a nested namespace; module_like tells export and import which forms  *)
(* are legal.                                                              *)
ModuleScopeVisitor(f, t, ambient, module_like) ==
  Visitor(f, t,
    CASE t = "import" ->
           Calling(Push(f, Frame("import", FlagIf(~module_like, "equals_only"))), "new_import")
      [] t = "declare" /\ ~ambient -> Push(f, Frame("declare", {}))
      [] t = "declare" /\ ambient  -> Throw("declare_in_ambient_context")
      [] t \in {"namespace", "module"} ->
           Push(f, Frame("namespace", FlagIf(ambient, "ambient")))
      [] t = "export" -> Push(f, Frame("export", FlagIf(module_like, "module_like")))
      [] t = "type"   -> Push(f, Frame("type", {}))
      [] OTHER        -> Throw("declaration_or_statement_expected"))

(* Mutant: an export assignment looks for other assignments only.          *)
TrackExportsOneWay(f, n) ==
  CASE n.kind = "export_assignment" ->
         IF "has_export_assignment" \in f.on THEN Throw("export_assignment_conflicts")
         ELSE Stay(TurnOn(f, {"has_export_assignment"}))
    [] n.kind # "export_assignment" /\ n.exported ->
         IF "has_export_assignment" \in f.on THEN Throw("export_assignment_conflicts")
         ELSE Stay(TurnOn(f, {"has_named_export"}))
    [] OTHER -> Stay(f)

(* The export bookkeeping that module_scope_state and declare_module_state *)
(* do for each child: an export assignment excludes every other export.    *)
TrackExports(f, n) ==
  CASE n.kind = "export_assignment" ->
         IF f.on \cap {"has_export_assignment", "has_named_export"} # {}
         THEN Throw("export_assignment_conflicts")
         ELSE Stay(TurnOn(f, {"has_export_assignment"}))
    [] n.kind # "export_assignment" /\ n.kind \in Exportable /\ n.exported ->
         IF "has_export_assignment" \in f.on THEN Throw("export_assignment_conflicts")
         ELSE Stay(TurnOn(f, {"has_named_export"}))
    [] OTHER -> Stay(f)

(* Mutant: the file scope completes with its child instead of staying.     *)
ModuleScopeAcceptCompletes(f, n) == Complete(f, n)

(* The file scope dereferences every child it is given.                    *)
ModuleScopeAccept(f, n) ==
  IF n.kind = "null" THEN Throw("null_dereference") ELSE TrackExports(f, n)

(* namespace_state and declare_module_state: the header first, then        *)
(* statements up to the closing brace.                                     *)
BracedScope(f, t, header, kind, ambient, module_like) ==
  CASE "header_done" \notin f.on -> Reprocess(Push(TurnOn(f, {"header_done"}), header))
    [] "header_done" \in f.on /\ t = "close_brace" -> Complete(f, Node(kind))
    [] OTHER -> ModuleScopeVisitor(f, t, ambient, module_like)

(* Mutants: a nested namespace is never ambient; a namespace lets exports  *)
(* and imports take every form that a module does.                         *)
NamespaceForgetsAmbient(f, t) ==
  BracedScope(f, t, Frame("namespace_header", {"expect_segment"}), "namespace", FALSE, FALSE)
NamespaceModuleLike(f, t) ==
  BracedScope(f, t, Frame("namespace_header", {"expect_segment"}), "namespace",
              "ambient" \in f.on, TRUE)

Namespace(f, t) ==
  BracedScope(f, t, Frame("namespace_header", {"expect_segment"}), "namespace",
              "ambient" \in f.on, FALSE)

DeclareModule(f, t) ==
  BracedScope(f, t, Frame("declare_module_header", {}), "declare_module", TRUE, TRUE)

DeclareModuleAccept(f, n) == IF n.kind = "null" THEN Stay(f) ELSE TrackExports(f, n)

NamespaceHeader(f, t) ==
  CASE t = "newline" -> Stay(f)
    [] t = "identifier" /\ "expect_segment" \in f.on -> Stay(Turn(f, {"expect_segment"}, {}))
    [] t = "dot" /\ "expect_segment" \notin f.on -> Stay(TurnOn(f, {"expect_segment"}))
    [] t = "open_brace" /\ "expect_segment" \notin f.on -> Complete(f, NullNode)
    [] OTHER -> Expected

DeclareModuleHeader(f, t) ==
  CASE t = "newline" -> Stay(f)
    [] t = "string_constant" /\ "has_name" \notin f.on -> Stay(TurnOn(f, {"has_name"}))
    [] t = "open_brace" /\ "has_name" \in f.on -> Complete(f, NullNode)
    [] OTHER -> Expected

(* `declare`, and the dispatch on the token after `declare module`: any    *)
(* token but a constant, a newline included, commits to a namespace.       *)
Declare(f, t) ==
  Visitor(f, t,
    CASE t = "module"    -> Push(f, Frame("declare_module_dispatch", {}))
      [] t = "namespace" -> Push(f, Frame("namespace", {"ambient"}))
      [] t = "type"      -> Push(f, Frame("type", {}))
      [] OTHER           -> Throw("declaration_or_statement_expected"))

DeclareModuleDispatch(f, t) ==
  Reprocess(Push(f, IF t \in Constant THEN Frame("declare_module", {})
                    ELSE Frame("namespace", {"ambient"})))

---------------------------------------------------------------------------

ScopeProcess(f, t) ==
  CASE f.state = "module_scope"            -> ModuleScopeVisitor(f, t, FALSE, TRUE)
    [] f.state = "namespace"               -> Namespace(f, t)
    [] f.state = "namespace_header"        -> NamespaceHeader(f, t)
    [] f.state = "declare"                 -> Declare(f, t)
    [] f.state = "declare_module_dispatch" -> DeclareModuleDispatch(f, t)
    [] f.state = "declare_module"          -> DeclareModule(f, t)
    [] OTHER                               -> DeclareModuleHeader(f, t)

ScopeAcceptChild(f, n) ==
  CASE f.state = "module_scope"   -> ModuleScopeAccept(f, n)
    [] f.state = "namespace"      -> Stay(f)
    [] f.state = "declare_module" -> DeclareModuleAccept(f, n)
    [] f.state \in {"declare", "declare_module_dispatch"} -> Complete(f, n)
    [] OTHER                      -> LogicError
---------------------------------------------------------------------------
(* The members of each class that are set or cleared while it runs.        *)
(* has_default_export_ is declared but never set.                          *)
module_scope_state == {"has_export_assignment", "has_named_export"}
namespace_state == {"ambient", "header_done"}
namespace_header_state == {"expect_segment"}
declare_state == {}
declare_module_state == module_scope_state \cup {"header_done"}
declare_module_header_state == {"has_name"}

ScopeFlag ==
  UNION {module_scope_state, namespace_state, namespace_header_state, declare_state,
         declare_module_state, declare_module_header_state}
===========================================================================
