---------------------------- MODULE ParserSafety ----------------------------
(***************************************************************************)
(* What the parser loop and its states promise each other in every state   *)
(* of a parse: the shape of the stack, what a completed state delivers to  *)
(* the one below it, and what a finished declaration looks like.           *)
(***************************************************************************)
EXTENDS Parser

Flag == TypeFlag \cup ScopeFlag \cup ExportFlag \cup SpecifierFlag \cup ImportFlag
FrameSet == [state : StateName, on : SUBSET Flag]

Error == {"none", "expected_token", "declaration_or_statement_expected",
          "declare_in_ambient_context", "export_default_not_at_top_level",
          "export_assignment_not_at_top_level", "export_assignment_conflicts",
          "unexpected_end_of_text", "invalid_argument", "logic_error",
          "bad_variant_access", "null_dereference"}

DeclarationSet ==
  [form : Form, has : SUBSET Part, attribute_values : SUBSET Constant,
   specifiers : Seq(Specifier), current : Specifier, broken : {FALSE}]

EntrySet == [token : Comment, at : 1 .. MaxTokens, node : NodeKind,
             rel : {"leading", "orphaned"}]

(* Every variable has its type: in particular the index holds no newline,  *)
(* the stack is never empty, and no declaration is left half-broken.       *)
TypeOK ==
  /\ token_iter \in Alphabet \cup {EndOfText}
  /\ tokens_read \in 0 .. MaxTokens
  /\ synthetic_newline \in BOOLEAN
  /\ pending_trivia \in Seq([token : Trivia, at : 1 .. MaxTokens])
  /\ trivia_index \in [given : BOOLEAN, entries : Seq(EntrySet)]
  /\ state_stack \in Seq(FrameSet) \ {<<>>}
  /\ declaration \in DeclarationSet
  /\ children \in Seq(AstNode)
  /\ pc \in Location
  /\ node \in AstNode
  /\ resume \in Resume
  /\ error \in Error

---------------------------------------------------------------------------
(* The stack.                                                              *)

Scope == {"module_scope", "namespace", "declare_module"}
Statement == {"import", "declare", "namespace", "export", "type"}

(* The links of an import chain that do not pass through a list or clause. *)
ImportLink == ImportStateName \ {"import", "import_attributes"}

(* Which states each state may push.                                       *)
MayPush(s) ==
  CASE s = "module_scope"         -> Statement
    [] s = "namespace"            -> Statement \cup {"namespace_header"}
    [] s = "declare_module"       -> Statement \cup {"declare_module_header"}
    [] s = "declare"              -> {"declare_module_dispatch", "namespace", "type"}
    [] s = "declare_module_dispatch" -> {"declare_module", "namespace"}
    [] s = "export"               -> (Statement \ {"export"}) \cup
                                     {"export_assignment", "export_star", "named_export"}
    [] s = "type"                 -> {"type_header", "type_expression"}
    [] s = "type_header"          -> {"type_parameter_list"}
    [] s = "type_parameter_list"  -> {"type_parameter"}
    [] s = "type_parameter"       -> {"type_expression"}
    [] s = "type_expression"      -> {"type_union"}
    [] s = "type_union"           -> {"type_intersection"}
    [] s = "type_intersection"    -> {"type_operator"}
    [] s = "type_operator"        -> {"type_postfix"}
    [] s = "type_postfix"         -> {"type_primary"}
    [] s = "type_primary"         -> {"type_reference", "type_paren"}
    [] s = "type_reference"       -> {"type_argument_list"}
    [] s \in {"type_argument_list", "type_paren"} -> {"type_expression"}
    [] s \in SpecifierListName    -> {"specifier"}
    [] s = "specifier"            -> {"specifier_head", "specifier_alias"}
    [] s = "specifier_head"       -> {"specifier_resolve_type"}
    [] s = "import"               -> {"after_import"}
    [] s \in ImportLink           -> ImportLink \cup {"named_import", "import_attributes"}
    [] s = "export_star"          -> {"export_star_after_star"}
    [] s = "export_star_after_star" -> {"export_star_name", "export_star_module_spec"}
    [] s = "export_star_name"     -> {"export_star_from"}
    [] s = "export_star_from"     -> {"export_star_module_spec"}
    [] s = "export_star_module_spec" -> {"export_star_semicolon"}
    [] s = "named_export"         -> {"export_specifier_list", "named_export_module_spec"}
    [] s = "named_export_module_spec" -> {"named_export_semicolon"}
    [] OTHER                      -> {}

(* The file scope is at the bottom of the stack and nowhere else, and each *)
(* frame is one that the frame below it pushes.  With the first conjunct,  *)
(* handle_complete never finds the stack empty (its assertion).            *)
StackShape ==
  /\ Depth > 0 /\ state_stack[1].state = "module_scope"
  /\ \A i \in 1 .. Depth - 1 : state_stack[i + 1].state \in MayPush(state_stack[i].state)

---------------------------------------------------------------------------
(* What a state is given when the one above it completes.                  *)

DeclaredKind == {"import", "namespace", "declare_module", "type_alias"}

(* The kinds of node that the accept_child of frame f is written for: it   *)
(* casts or dereferences its argument without a check.                     *)
Deliverable(f) ==
  CASE f.state = "module_scope"   -> Exportable
    [] f.state \in {"namespace", "declare_module"} -> Exportable \cup {"null"}
    [] f.state = "export"         -> Exportable
    [] f.state = "declare"        -> DeclaredKind \ {"import"}
    [] f.state = "declare_module_dispatch" -> {"namespace", "declare_module"}
    [] f.state = "type"           -> IF "type_done" \in f.on THEN {"type_definition"} ELSE {"null"}
    [] f.state = "type_parameter_list" -> {"type_parameter"}
    [] f.state \in {"type_parameter", "type_expression", "type_union",
                    "type_intersection", "type_operator", "type_postfix",
                    "type_primary", "type_argument_list", "type_paren"} -> {"type_definition"}
    [] OTHER                      -> {"null"}

(* The node that handle_complete delivers is of a kind that the receiving  *)
(* state casts it to, and is not null where the state dereferences it, at  *)
(* every link of a cascade of completions.                                 *)
DeliveredKind == pc = "handle_complete" => node.kind \in Deliverable(Top)

(* The states never reach the branches written for the impossible: the     *)
(* logic_error throws, std::get on the wrong alternative of an import, the *)
(* dereference of a null child.                                            *)
NoInternalError == error \notin {"logic_error", "bad_variant_access", "null_dereference"}

---------------------------------------------------------------------------
(* Scopes.                                                                 *)

Ambient(f) == f.state = "declare_module" \/ (f.state = "namespace" /\ "ambient" \in f.on)
Between(i, j) == {k \in 1 .. Depth : i < k /\ k < j}

(* Inside an ambient scope every nested scope is ambient and no `declare`  *)
(* is under way, however deep, unless an `export` stands between.          *)
AmbientInherited ==
  \A i, j \in 1 .. Depth :
    /\ i < j /\ Ambient(state_stack[i])
    /\ \A k \in Between(i, j) : state_stack[k].state # "export"
    => /\ state_stack[j].state # "declare"
       /\ state_stack[j].state \in Scope => Ambient(state_stack[j])

(* An export assignment is only under way directly in a file or an ambient *)
(* module, and in a namespace only import-equals without require completes.*)
PlacedInModule ==
  /\ \A i \in 3 .. Depth : state_stack[i].state = "export_assignment" =>
       state_stack[i - 2].state \in {"module_scope", "declare_module"}
  /\ pc = "handle_complete" /\ node.kind = "import" /\ Top.state \in {"namespace", "export"}
     => declaration.form = "equals" /\ "require" \notin declaration.has

(* An export assignment is the only export of a file.                      *)
ExportAssignmentAlone ==
  \A i, j \in 1 .. Len(children) :
    children[i].kind = "export_assignment" /\ i # j => ~children[j].exported
                                            /\ children[j].kind # "export_assignment"

---------------------------------------------------------------------------
(* A finished import.                                                      *)

(* When an import is delivered, what its accessors show is one form, and   *)
(* nothing that was read is hidden: `import "m"`; bindings `from "m"`,     *)
(* with a default, a namespace or named bindings, the last two never       *)
(* together; or `name =` one of require("m") and a qualified name, without *)
(* attributes.                                                             *)
ImportWellFormed ==
  pc = "handle_complete" /\ node.kind = "import" /\ ~node.exported =>
    LET d == declaration
    IN  /\ d.has \subseteq Shown(d) \cup {"require"}
        /\ d.specifiers # <<>> => "named" \in Shown(d)
        /\ d.attribute_values # {} => "attributes_keyword" \in Shown(d)
        /\ CASE d.form = "side_effect" ->
               "module_specifier" \in Shown(d) /\ "type_keyword" \notin Shown(d)
          [] d.form = "from" ->
               /\ "module_specifier" \in Shown(d)
               /\ d.has \cap {"default_binding", "namespace_name", "named"} # {}
               /\ ~ {"namespace_name", "named"} \subseteq d.has
          [] d.form = "equals" ->
               /\ "attributes_keyword" \notin Shown(d)
               /\ "require_module_specifier" \in Shown(d) <=> "entity_name" \notin Shown(d)
               /\ "require" \in d.has <=> "require_module_specifier" \in Shown(d)
          [] OTHER -> FALSE

---------------------------------------------------------------------------
(* The trivia index.                                                       *)

(* The comments indexed so far, and those about to be, are in the order of *)
(* the text and each is there once: the index is never out of order, and   *)
(* finalize() has nothing to sort.                                         *)
IndexSorted ==
  LET all == trivia_index.entries \o pending_trivia
  IN  \A i, j \in 1 .. Len(all) : i < j => all[i].at < all[j].at

---------------------------------------------------------------------------

(* Every parse ends: no state gives a token back for ever, and a text of   *)
(* bounded length does not keep the loop busy without end.                 *)
Terminates == <>(pc \in {"returned", "thrown"})
===========================================================================
