--------------------------- MODULE ImportGrammar ----------------------------
(***************************************************************************)
(* The language of import declarations, and the agreement of the import    *)
(* and specifier states with it on files of imports without line breaks.   *)
(* Contextual keywords are names wherever the code takes a name.           *)
(***************************************************************************)
EXTENDS Transcript

(* A longer list does not fit in `import { } from "m"`, nor in `import "m" *)
(* with { }`.                                                              *)
LOCAL MaxList == MaxTokens - 5

LOCAL Seq_(parts) == All(parts, MaxTokens)
LOCAL Braced(item) ==
  Seq_(<<Word("open_brace"),
         Optional(All(<<List(item, Word("comma"), MaxList), Optional(Word("comma"))>>, MaxList)),
         Word("close_brace")>>)
LOCAL AnyName(excluded) == AnyOf(Identifier \ excluded)
LOCAL Module == AnyOf(Constant)

(* name [as alias], and type name [as alias].  `type` alone, or before     *)
(* `as`, is a name itself; behind the modifier neither is one.             *)
LOCAL Specifiers ==
  LET alias == Optional(Seq_(<<Word("as"), AnyName({})>>))
      plain == Seq_(<<AnyOf(SpecifierName \cup {"type"}), alias>>)
      typed == Seq_(<<Word("type"), AnyOf(SpecifierName \ {"as"}), alias>>)
  IN  Braced(plain \cup typed)

(* default, * as name, { specifiers }, or a default before either.         *)
LOCAL Bindings(excluded) ==
  LET all == Seq_(<<Word("asterisk"), Word("as"), AnyName({})>>) \cup Specifiers
  IN  all \cup Seq_(<<AnyName(excluded), Optional(Seq_(<<Word("comma"), all>>))>>)

LOCAL Attributes ==
  LET entry == Seq_(<<AnyOf(Identifier \cup Constant), Word("colon"), AnyOf(Constant)>>)
  IN  Seq_(<<AnyOf({"with", "assert"}), Braced(entry)>>)

(* Without the modifier the bindings may start with any name, `type` and   *)
(* `from` included; with it, with any but `from`.                          *)
LOCAL FromImports ==
  Seq_(<<Bindings({}) \cup Seq_(<<Word("type"), Bindings({"from"})>>),
         Word("from"), Module, Optional(Attributes)>>)

LOCAL EqualsImports ==
  LET require == Seq_(<<Word("require"), Word("open_paren"), Module, Word("close_paren")>>)
      entity  == Seq_(<<AnyName({"require"}), Star(Seq_(<<Word("dot"), AnyName({})>>), MaxTokens - 4)>>)
  IN  Seq_(<<AnyName({}) \cup Seq_(<<Word("type"), AnyName({"from"})>>), Word("eq"), require \cup entity>>)

Imports ==
  Seq_(<<Word("import"),
         Seq_(<<Module, Optional(Attributes)>>) \cup FromImports \cup EqualsImports>>)

LOCAL Statements == Seq_(<<Imports, Word("semicolon")>>)
ImportTexts == Seq_(<<Star(Statements, MaxTokens), Optional(Imports)>>)
ImportPrefixes == PrefixesOf(ImportTexts)

(* A file of imports parses exactly when it is in the language, in every   *)
(* combination of default, namespace and named bindings, the type modifier *)
(* and names that look like it, import-equals and import attributes.       *)
ImportAgreement ==
  /\ \A i \in 1 .. Len(children) : children[i].kind = "import"
  /\ Depth > 1 => state_stack[2].state = "import"
  => Agrees(ImportTexts, ImportPrefixes)

(* After import declarations that are complete, a line break ends the last *)
(* of them even without its semicolon, and the next statement is taken as  *)
(* one.                                                                    *)
ImportEndsAtLineBreak == EndsAtLineBreak(ImportTexts \ {<<>>})
===========================================================================
