----------------------------- MODULE Declaration -----------------------------
(***************************************************************************)
(* The import or export declaration under construction.  The states of an  *)
(* import chain write through one import_node_builder, those of an export  *)
(* through their coordinator, those of a specifier through its             *)
(* specifier_state; here each of these calls is an operator on one record. *)
(*                                                                         *)
(*   form         which alternative of import_node::form_ is held;         *)
(*                "export" for a named_export_node or export_star_node     *)
(*   has          the parts of the node that are set                       *)
(*   attribute_values  the sorts of value among the import attributes      *)
(*   specifiers   the named specifiers stored so far                       *)
(*   current      the members name_, type_keyword_ and alias_ of the       *)
(*                specifier_state at work ("none": an empty token)         *)
(*   broken       std::get on the wrong alternative has thrown             *)
(***************************************************************************)
EXTENDS StateResult, Sequences

Form == {"none", "side_effect", "from", "equals", "export"}
Part == {"type_keyword", "default_binding", "namespace_name", "named",
         "module_specifier", "attributes_keyword", "require",
         "require_module_specifier", "entity_name", "as_name", "semicolon"}

Name == SpecifierName \cup {"type", "none"}
Specifier == [name : Name, type_keyword : {"type", "none"}, alias : Identifier \cup {"none"}]
NoSpecifier == [name |-> "none", type_keyword |-> "none", alias |-> "none"]

NewDeclaration(form) ==
  [form |-> form, has |-> {}, attribute_values |-> {}, specifiers |-> <<>>,
   current |-> NoSpecifier, broken |-> FALSE]

Broken(d) == [d EXCEPT !.broken = TRUE]
Has(d, part) == [d EXCEPT !.has = d.has \cup {part}]

---------------------------------------------------------------------------
(* import_node::ensure_*: an empty variant takes the alternative asked     *)
(* for; one that holds another alternative throws bad_variant_access.      *)

EnsureFrom(d) ==
  CASE d.form = "none" -> [d EXCEPT !.form = "from"]
    [] d.form = "from" -> d
    [] OTHER -> Broken(d)

(* Mutant: the equals form is taken for granted instead of emplaced.       *)
EnsureEqualsHeld(d) == IF d.form = "equals" THEN d ELSE Broken(d)

EnsureEquals(d) ==
  CASE d.form = "none" -> [d EXCEPT !.form = "equals"]
    [] d.form = "equals" -> d
    [] OTHER -> Broken(d)

EnsureNamed(d) ==
  LET e == EnsureFrom(d)
  IN  IF "namespace_name" \in e.has THEN Broken(e) ELSE Has(e, "named")

EnsureRequire(d) ==
  IF d.form = "equals" /\ "entity_name" \notin d.has
  THEN Has(d, "require") ELSE Broken(d)

---------------------------------------------------------------------------
(* import_node_builder.                                                    *)

SetNamespaceName(d) ==
  LET e == EnsureFrom(d)
  IN  [e EXCEPT !.has = (e.has \ {"named"}) \cup {"namespace_name"}]

(* Mutant: a module specifier always makes a side-effect import.           *)
SetModuleSpecifierAlways(d) == Has([d EXCEPT !.form = "side_effect"], "module_specifier")

(* Anything but a from-form becomes (or is overwritten by) a side effect.  *)
SetModuleSpecifier(d) ==
  Has(IF d.form \in {"from", "export"} THEN d
      ELSE [d EXCEPT !.form = "side_effect"], "module_specifier")

SetRequireModuleSpecifier(d) ==
  IF d.form = "equals" /\ "require" \in d.has
  THEN Has(d, "require_module_specifier") ELSE Broken(d)

AddEntityIdentifier(d) ==
  IF d.form = "equals" /\ "require" \notin d.has
  THEN Has(d, "entity_name") ELSE Broken(d)

AddAttribute(d, t) ==
  [d EXCEPT !.attribute_values = d.attribute_values \cup {t}]

---------------------------------------------------------------------------
(* The accessors of import_node: a part that is set is only shown while    *)
(* the form that holds it is the alternative of form_.                     *)

AnyFormShows == {"type_keyword", "attributes_keyword"}
FromShows    == {"default_binding", "namespace_name", "named", "module_specifier"}
EqualsShows  == {"require_module_specifier", "entity_name"}

Shown(d) ==
  d.has \cap (AnyFormShows \cup
    CASE d.form = "side_effect" -> {"module_specifier"}
      [] d.form = "from"        -> FromShows
      [] d.form = "equals"      -> EqualsShows
      [] OTHER                  -> {})

---------------------------------------------------------------------------
(* specifier_state and the list that stores its result.                    *)

Normalize(t) == IF t \in Identifier THEN "identifier" ELSE t

(* Mutant: a `type` that turns out to be the name stays a modifier too.    *)
DemoteTypeKeeps(d) == [d EXCEPT !.current.name = d.current.type_keyword]

DemoteType(d) ==
  [d EXCEPT !.current.name = d.current.type_keyword, !.current.type_keyword = "none"]

StoreSpecifier(d) ==
  LET e == IF d.form = "export" THEN d ELSE EnsureNamed(d)
      s == [d.current EXCEPT !.name = Normalize(d.current.name),
                             !.alias = Normalize(d.current.alias)]
  IN  [e EXCEPT !.specifiers = Append(e.specifiers, s), !.current = NoSpecifier]

---------------------------------------------------------------------------
(* The calls by name; t is the token being processed.                      *)

Call(d, c, t) ==
  CASE c = "new_import"              -> NewDeclaration("none")
    [] c = "new_export"              -> NewDeclaration("export")
    [] c = "set_type_keyword"        -> Has(d, "type_keyword")
    [] c = "set_default_binding"     -> Has(EnsureFrom(d), "default_binding")
    [] c = "set_namespace_name"      -> SetNamespaceName(d)
    [] c = "init_named_imports"      -> EnsureNamed(d)
    [] c = "set_module_specifier"    -> SetModuleSpecifier(d)
    [] c = "set_attributes_keyword"  -> Has(d, "attributes_keyword")
    [] c = "add_attribute"           -> AddAttribute(d, t)
    [] c = "set_equals_name"         -> EnsureEquals(d)
    [] c = "init_require"            -> EnsureRequire(d)
    [] c = "set_require_module_specifier" -> SetRequireModuleSpecifier(d)
    [] c = "add_entity_identifier"   -> AddEntityIdentifier(d)
    [] c = "set_as_name"             -> Has(d, "as_name")
    [] c = "set_semicolon"           -> Has(d, "semicolon")
    [] c = "new_specifier"           -> [d EXCEPT !.current = NoSpecifier]
    [] c = "specifier_type"          -> [d EXCEPT !.current.type_keyword = "type"]
    [] c = "specifier_name"          -> [d EXCEPT !.current.name = t]
    [] c = "specifier_demote_type"   -> DemoteType(d)
    [] c = "specifier_alias"         -> [d EXCEPT !.current.alias = t]
    [] c = "store_specifier"         -> StoreSpecifier(d)
    [] OTHER                         -> d

Build(d, calls, t) == Call(Call(d, calls[1], t), calls[2], t)
===========================================================================
