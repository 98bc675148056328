---------------------------- MODULE ImportStates ----------------------------
(***************************************************************************)
(* The states of state/import_state and state/import.  Each token of an    *)
(* import declaration pushes the state that expects the next one, so the   *)
(* declaration is a chain of frames on top of the import frame, and the    *)
(* last of them completing unwinds the chain.                              *)
(***************************************************************************)
EXTENDS StateResult

ImportStateName ==
  {"import", "after_import", "after_type", "after_default", "after_comma",
   "expect_from", "after_from", "expect_as", "expect_namespace_name",
   "after_equals", "expect_require_paren", "after_require_open",
   "after_require_module", "import_entity", "after_module_spec",
   "import_attributes"}

Inherit(f, state) == Frame(state, f.on \cap {"equals_only"})
NamedImports == Frame("named_import", {"expect_specifier_or_close"})

(* A state that hands a list or clause to a child and waits for it.        *)
PushSub(f, sub) == Push(TurnOn(f, {"awaiting_sub"}), sub)

Import(f, t) == Reprocess(Push(f, Inherit(f, "after_import")))

AfterImport(f, t) ==
  CASE "equals_only" \in f.on ->
         Visitor(f, t, IF t \in Identifier
                       THEN Push(f, Inherit(f, "after_default")) ELSE Expected)
    [] "equals_only" \notin f.on /\ "post_sub" \in f.on ->
         Reprocess(Push(f, Fresh("expect_from")))
    [] OTHER ->
         Visitor(f, t,
           CASE t \in Constant ->
                  Calling(Push(f, Fresh("after_module_spec")), "set_module_specifier")
             [] t = "type"       -> Push(f, Fresh("after_type"))
             [] t = "asterisk"   -> Push(f, Fresh("expect_as"))
             [] t = "open_brace" -> Calling(PushSub(f, NamedImports), "init_named_imports")
             [] t \in Identifier \ {"type"} -> Push(f, Fresh("after_default"))
             [] OTHER -> Expected)

(* `import type`: the next token tells whether `type` was the modifier or  *)
(* the name of the default binding.                                        *)
AfterType(f, t) ==
  IF "post_sub" \in f.on THEN Reprocess(Push(f, Fresh("expect_from")))
  ELSE Visitor(f, t,
    CASE t = "open_brace" ->
           Calling2(PushSub(f, NamedImports), "set_type_keyword", "init_named_imports")
      [] t = "asterisk" -> Calling(Push(f, Fresh("expect_as")), "set_type_keyword")
      [] t = "from"     -> Calling(Push(f, Fresh("after_from")), "set_default_binding")
      [] t = "comma"    -> Calling(Push(f, Fresh("after_comma")), "set_default_binding")
      [] t = "eq"       -> Calling(Push(f, Fresh("after_equals")), "set_equals_name")
      [] t \in Identifier \ {"from"} ->
           Calling(Push(f, Fresh("after_default")), "set_type_keyword")
      [] OTHER -> Expected)

AfterDefault(f, t) ==
  Visitor(f, t,
    CASE t = "eq" -> Calling(Push(f, Inherit(f, "after_equals")), "set_equals_name")
      [] t = "from" /\ "equals_only" \notin f.on ->
           Calling(Push(f, Fresh("after_from")), "set_default_binding")
      [] t = "comma" /\ "equals_only" \notin f.on ->
           Calling(Push(f, Fresh("after_comma")), "set_default_binding")
      [] OTHER -> Expected)

AfterComma(f, t) ==
  IF "post_sub" \in f.on THEN Reprocess(Push(f, Fresh("expect_from")))
  ELSE Visitor(f, t,
    CASE t = "asterisk"   -> Push(f, Fresh("expect_as"))
      [] t = "open_brace" -> Calling(PushSub(f, NamedImports), "init_named_imports")
      [] OTHER -> Expected)

ExpectFrom(f, t) ==
  Visitor(f, t, IF t = "from" THEN Push(f, Fresh("after_from")) ELSE Expected)

AfterFrom(f, t) ==
  Visitor(f, t, IF t \in Constant
    THEN Calling(Push(f, Fresh("after_module_spec")), "set_module_specifier")
    ELSE Expected)

ExpectAs(f, t) ==
  Visitor(f, t, IF t = "as" THEN Push(f, Fresh("expect_namespace_name")) ELSE Expected)

ExpectNamespaceName(f, t) ==
  Visitor(f, t, IF t \in Identifier
    THEN Calling(Push(f, Fresh("expect_from")), "set_namespace_name") ELSE Expected)

(* `import name =`: require(...) or a qualified name; in a namespace only  *)
(* the latter.                                                             *)
AfterEquals(f, t) ==
  Visitor(f, t,
    CASE t = "require" /\ "equals_only" \notin f.on ->
           Calling(Push(f, Fresh("expect_require_paren")), "init_require")
      [] t \in Identifier \ {"require"} ->
           Calling(Push(f, Fresh("import_entity")), "add_entity_identifier")
      [] OTHER -> Expected)

ExpectRequireParen(f, t) ==
  Visitor(f, t, IF t = "open_paren" THEN Push(f, Fresh("after_require_open")) ELSE Expected)

AfterRequireOpen(f, t) ==
  Visitor(f, t, IF t \in Constant
    THEN Calling(Push(f, Fresh("after_require_module")), "set_require_module_specifier")
    ELSE Expected)

(* Mutant: only a semicolon or a closing brace ends an import.             *)
EndOfImportNoNewline(f, t) ==
  Visitor(f, t,
    CASE t = "semicolon"   -> Complete(f, NullNode)
      [] t = "close_brace" -> Reprocess(Complete(f, NullNode))
      [] OTHER -> Expected)

(* The visitors that end an equals form: a newline ends it too.            *)
EndOfImport(f, t) ==
  CASE t \in {"semicolon", "newline"} -> Complete(f, NullNode)
    [] t = "close_brace" -> Reprocess(Complete(f, NullNode))
    [] OTHER -> Expected

AfterRequireModule(f, t) ==
  IF "closed" \in f.on THEN EndOfImport(f, t)
  ELSE Visitor(f, t, IF t = "close_paren" THEN Stay(TurnOn(f, {"closed"})) ELSE Expected)

ImportEntity(f, t) ==
  IF "expecting_id" \in f.on
  THEN Visitor(f, t, IF t \in Identifier
         THEN Calling(Stay(Turn(f, {"expecting_id"}, {})), "add_entity_identifier")
         ELSE Expected)
  ELSE IF t = "dot" THEN Stay(TurnOn(f, {"expecting_id"})) ELSE EndOfImport(f, t)

(* A newline after the module specifier may still be followed by with or   *)
(* assert, so it is remembered and the next token decides.                 *)
AfterModuleSpec(f, t) ==
  IF "post_sub" \in f.on THEN EndOfImport(f, t)
  ELSE CASE t = "semicolon" -> Complete(f, NullNode)
         [] t \in {"assert", "with"} ->
              Calling(PushSub(f, Frame("import_attributes", {"expect_open_brace"})),
                      "set_attributes_keyword")
         [] t = "newline" -> Stay(TurnOn(f, {"saw_newline"}))
         [] t = "close_brace" -> Reprocess(Complete(f, NullNode))
         [] OTHER -> IF "saw_newline" \in f.on
                     THEN Reprocess(Complete(f, NullNode)) ELSE Expected

Phase(f, from, to) == Stay(Turn(f, {from}, {to}))

ImportAttributes(f, t) ==
  Visitor(f, t,
    CASE "expect_open_brace" \in f.on /\ t = "open_brace" ->
           Phase(f, "expect_open_brace", "expect_key_or_close")
      [] "expect_key_or_close" \in f.on /\ t \in Identifier \cup Constant ->
           Phase(f, "expect_key_or_close", "after_key")
      [] "after_key" \in f.on /\ t = "colon" -> Phase(f, "after_key", "after_colon")
      [] "after_colon" \in f.on /\ t \in Constant ->
           Calling(Phase(f, "after_colon", "after_value"), "add_attribute")
      [] "after_value" \in f.on /\ t = "comma" ->
           Phase(f, "after_value", "expect_key_or_close")
      [] f.on \cap {"expect_key_or_close", "after_value"} # {} /\ t = "close_brace" ->
           Complete(f, NullNode)
      [] OTHER -> Expected)

---------------------------------------------------------------------------

ImportProcess(f, t) ==
  CASE f.state = "import"                -> Import(f, t)
    [] f.state = "after_import"          -> AfterImport(f, t)
    [] f.state = "after_type"            -> AfterType(f, t)
    [] f.state = "after_default"         -> AfterDefault(f, t)
    [] f.state = "after_comma"           -> AfterComma(f, t)
    [] f.state = "expect_from"           -> ExpectFrom(f, t)
    [] f.state = "after_from"            -> AfterFrom(f, t)
    [] f.state = "expect_as"             -> ExpectAs(f, t)
    [] f.state = "expect_namespace_name" -> ExpectNamespaceName(f, t)
    [] f.state = "after_equals"          -> AfterEquals(f, t)
    [] f.state = "expect_require_paren"  -> ExpectRequireParen(f, t)
    [] f.state = "after_require_open"    -> AfterRequireOpen(f, t)
    [] f.state = "after_require_module"  -> AfterRequireModule(f, t)
    [] f.state = "import_entity"         -> ImportEntity(f, t)
    [] f.state = "after_module_spec"     -> AfterModuleSpec(f, t)
    [] OTHER                             -> ImportAttributes(f, t)

(* A state that handed a list or clause to a child resumes after it; every *)
(* other link of the chain passes the completion on, and the import itself *)
(* delivers its node.                                                      *)
ImportAcceptChild(f, n) ==
  CASE "awaiting_sub" \in f.on -> Stay(Turn(f, {"awaiting_sub"}, {"post_sub"}))
    [] f.state = "import" -> Complete(f, Node("import"))
    [] f.state = "import_attributes" -> LogicError
    [] OTHER -> Complete(f, NullNode)

(* Mutant: a qualified name may end with the text behind its dot.          *)
ImportOnEofBehindDot(f) ==
  IF \/ f.state \in {"after_module_spec", "import_entity"}
     \/ f.state = "after_require_module" /\ "closed" \in f.on
  THEN Complete(f, NullNode) ELSE NullOpt(f)

ImportOnEof(f) ==
  IF \/ f.state = "after_module_spec"
     \/ f.state = "after_require_module" /\ "closed" \in f.on
     \/ f.state = "import_entity" /\ "expecting_id" \notin f.on
  THEN Complete(f, NullNode) ELSE NullOpt(f)
---------------------------------------------------------------------------
(* The members of the classes of each header that are set or cleared while *)
(* they run; awaiting_sub, post_sub and the phases are values of an enum.  *)
import_state == {"equals_only"}
initial_import_states ==
  [after_import |-> {"equals_only", "awaiting_sub", "post_sub"},
   after_type |-> {"awaiting_sub", "post_sub"}]
binding_import_states ==
  [after_default |-> {"equals_only"}, after_comma |-> {"awaiting_sub", "post_sub"}]
namespace_import_states ==
  [expect_as |-> {}, expect_namespace_name |-> {}]
from_clause_states == [expect_from |-> {}, after_from |-> {}]
equals_import_states ==
  [after_equals |-> {"equals_only"}, expect_require_paren |-> {},
   after_require_open |-> {}, after_require_module |-> {"closed"},
   import_entity |-> {"expecting_id"}]
module_completion_states ==
  [after_module_spec |-> {"awaiting_sub", "post_sub", "saw_newline"}]
import_attributes_state ==
  {"expect_open_brace", "expect_key_or_close", "after_key", "after_colon", "after_value"}

ImportFlag ==
  import_state \cup import_attributes_state \cup
    UNION {UNION {header[s] : s \in DOMAIN header} :
             header \in {initial_import_states, binding_import_states,
                         namespace_import_states, from_clause_states,
                         equals_import_states, module_completion_states}}
===========================================================================
