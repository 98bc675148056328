------------------------ MODULE ParserSafety_proofs -------------------------
(***************************************************************************)
(* What the states of the parser promise each other holds in every state   *)
(* of a parse.  Three things make the promises inductive: what each frame  *)
(* of the stack owes the one above it (Orderly), how far the import or     *)
(* export under construction has come while a state is at work (Reached)   *)
(* and what its unfinished frames rely on meanwhile (Held), where in the   *)
(* text the trivia come from (Behind), and behind which line breaks the    *)
(* newlines that the states remember were met (Accounted).                 *)
(***************************************************************************)
EXTENDS Parser_proofs, Transcript

---------------------------------------------------------------------------
(* The states' results.                                                    *)

LEMMA ProcessProper ==
  ASSUME NEW f, NEW t, IsFrame(f), Steady(f), Idle(f) PROVE Proper(f, Process(f, t))
<1>1. f.state \in StateName BY DEF IsFrame, FrameSet
<1> QED
  BY <1>1, TypeProcessProper, SpecifierProper, ImportProcessProper, ExportProcessProper,
     ScopeProcessProper DEF Process, StateName

LEMMA AcceptProper ==
  ASSUME NEW f, IsFrame(f), Steady(f), Awaits(f), NEW n \in AstNode, n.kind \in Deliverable(f)
  PROVE  Proper(f, AcceptChild(f, n))
<1>1. f.state \in StateName BY DEF IsFrame, FrameSet
<1> QED
  BY <1>1, TypeAcceptProper, SpecifierProper, ImportAcceptProper, ExportAcceptProper,
     ScopeAcceptProper DEF AcceptChild, StateName

LEMMA EofProper == ASSUME NEW f PROVE Proper(f, OnEof(f))
BY TypeEofProper, ImportEofProper, ExportEofProper, ProperNullOpt DEF OnEof

---------------------------------------------------------------------------
(* The stack.                                                              *)

(* What may be above a frame of an unfinished import, list or specifier,   *)
(* however far up.                                                         *)
Item == {"specifier", "specifier_head", "specifier_resolve_type", "specifier_alias"}
Sub == {"named_import", "import_attributes"} \cup Item

Over(f, h) ==
  /\ f.state # "import_attributes"
  /\ f.state \in ImportStateName => h.state \in ImportStateName \cup Sub
  /\ f.state \in ImportStateName /\ "awaiting_sub" \in f.on => h.state \in Sub
  /\ f.state \in {"named_import", "specifier", "export_specifier_list"} => h.state \in Item
  /\ f.state = "named_export" =>
       h.state \in {"export_specifier_list", "named_export_module_spec",
                    "named_export_semicolon"} \cup Item
  /\ f.state = "import" /\ "equals_only" \in f.on => EqualsLink(h)

(* Inside an ambient scope.                                                *)
Shielded(f) == f.state # "declare" /\ (f.state \in Scope => Ambient(f))

Orderly(s) ==
  /\ \A i \in 1 .. Len(s) - 1 : Link(s[i], s[i + 1])
  /\ \A j \in 1 .. Len(s) : \A i \in 1 .. j - 1 : Over(s[i], s[j])
  /\ \A j \in 1 .. Len(s) : \A i \in 1 .. j - 1 :
       Ambient(s[i]) /\ (\A k \in i + 1 .. j - 1 : s[k].state # "export") => Shielded(s[j])

(* A frame that keeps what f promised may take its place.                  *)
LEMMA KeptBelow ==
  ASSUME NEW f, NEW g, Keeps(f, g)
  PROVE  /\ \A p : Link(p, f) => Link(p, g)
         /\ \A p : Over(p, f) => Over(p, g)
         /\ Shielded(f) => Shielded(g)
<1>1. /\ g.state = f.state
      /\ "ambient" \in g.on <=> "ambient" \in f.on
      /\ "equals_only" \in g.on <=> "equals_only" \in f.on
      /\ "module_like" \in g.on <=> "module_like" \in f.on
  BY DEF Keeps, Inherited
<1>2. (EqualsLink(f) <=> EqualsLink(g)) /\ (Ambient(f) <=> Ambient(g))
  BY <1>1 DEF EqualsLink, Ambient
<1>3. ASSUME NEW p, Link(p, f) PROVE Link(p, g)
  <2>1. AmbientPasses(p, g) BY <1>1, <1>2, <1>3 DEF Link, AmbientPasses
  <2>2. Placed(p, g) BY <1>1, <1>3 DEF Link, Placed
  <2>3. EqualsPasses(p, g) BY <1>2, <1>3 DEF Link, EqualsPasses
  <2>4. Hands(p, g) BY <1>1, <1>3 DEF Link, Hands
  <2> QED BY <1>1, <1>3, <2>1, <2>2, <2>3, <2>4 DEF Link
<1>4. ASSUME NEW p, Over(p, f) PROVE Over(p, g)
  BY <1>1, <1>2, <1>4 DEF Over
<1>5. Shielded(f) => Shielded(g) BY <1>1, <1>2 DEF Shielded
<1> QED BY <1>3, <1>4, <1>5

LEMMA OverPushed ==
  ASSUME NEW g, NEW c, Link(g, c), c.state \in MayPush(g.state)
  PROVE  Over(g, c) /\ \A p : Over(p, g) => Over(p, c)
<1>1. g.state \in ImportStateName => c.state \in ImportStateName \cup Sub
  BY DEF MayPush, ImportStateName, ImportLink, Sub, SpecifierListName
<1>2. g.state \in ImportStateName /\ "awaiting_sub" \in g.on => c.state \in Sub
  BY DEF Link, Hands, Sub
<1>3. /\ g.state \in Item => c.state \in Item
      /\ g.state \in {"named_import", "export_specifier_list"} => c.state \in Item
  BY DEF MayPush, ImportStateName, ImportLink, Item, SpecifierListName
<1>4. g.state \notin {"import_attributes", "import_entity"}
  BY DEF Link, Awaits, Leaf
<1>5. g.state \in {"named_export", "named_export_module_spec", "named_export_semicolon"} =>
        c.state \in {"export_specifier_list", "named_export_module_spec",
                     "named_export_semicolon"}
  BY DEF MayPush, ImportStateName, ImportLink, SpecifierListName
<1>6. (EqualsLink(g) \/ (g.state = "import" /\ "equals_only" \in g.on)) => EqualsLink(c)
  BY <1>4 DEF Link, EqualsPasses, EqualsBound, EqualsLink
<1>7. Over(g, c)
  BY <1>1, <1>2, <1>3, <1>4, <1>5, <1>6 DEF Over, Item, ImportStateName
<1>8. ASSUME NEW p, Over(p, g) PROVE Over(p, c)
  <2>1. p.state \in ImportStateName => c.state \in ImportStateName \cup Sub
    <3>1. p.state \in ImportStateName => g.state \in ImportStateName \cup Sub
      BY <1>8 DEF Over
    <3>2. g.state \in Sub /\ g.state # "import_attributes" => c.state \in Sub
      BY <1>3 DEF Sub
    <3> QED BY <1>1, <1>4, <3>1, <3>2
  <2>2. p.state \in ImportStateName /\ "awaiting_sub" \in p.on => c.state \in Sub
    BY <1>3, <1>4, <1>8 DEF Over, Sub
  <2>3. p.state \in {"named_import", "specifier", "export_specifier_list"} => c.state \in Item
    BY <1>3, <1>8 DEF Over
  <2>4. p.state = "named_export" =>
          c.state \in {"export_specifier_list", "named_export_module_spec",
                       "named_export_semicolon"} \cup Item
    BY <1>3, <1>5, <1>8 DEF Over
  <2>5. p.state = "import" /\ "equals_only" \in p.on => EqualsLink(c)
    BY <1>6, <1>8 DEF Over
  <2>6. p.state # "import_attributes" BY <1>8 DEF Over
  <2> QED BY <2>1, <2>2, <2>3, <2>4, <2>5, <2>6 DEF Over
<1> QED BY <1>7, <1>8

(* Sequences of frames, by length and element.                             *)
LEMMA ReplacedTop ==
  ASSUME NEW s, IsStack(s), NEW g, IsFrame(g)
  PROVE  LET u == [s EXCEPT ![Len(s)] = g]
         IN  /\ Len(u) = Len(s) /\ u[Len(s)] = g
             /\ \A i \in 1 .. Len(s) - 1 : u[i] = s[i]
<1>1. Len(s) \in Nat \ {0} BY StackTop
<1>2. /\ Len([s EXCEPT ![Len(s)] = g]) = Len(s)
      /\ \A j \in 1 .. Len(s) :
           [s EXCEPT ![Len(s)] = g][j] = IF j = Len(s) THEN g ELSE s[j]
  BY <1>1, ExceptSeq DEF IsStack, IsFrame
<1>. DEFINE u == [s EXCEPT ![Len(s)] = g]
<1>. HIDE DEF u
<1>3. \A i \in 1 .. Len(s) - 1 : i \in 1 .. Len(s) /\ i # Len(s) BY <1>1
<1>4. Len(s) \in 1 .. Len(s) BY <1>1
<1>5. /\ Len(u) = Len(s)
      /\ \A j \in 1 .. Len(s) : u[j] = IF j = Len(s) THEN g ELSE s[j]
  BY <1>2 DEF u
<1>6. Len(u) = Len(s) /\ u[Len(s)] = g /\ \A i \in 1 .. Len(s) - 1 : u[i] = s[i]
  BY <1>3, <1>4, <1>5
<1> QED BY <1>6 DEF u

LEMMA OrderlyReplaced ==
  ASSUME NEW s, IsStack(s), Orderly(s), NEW g, IsFrame(g), Keeps(s[Len(s)], g)
  PROVE  Orderly([s EXCEPT ![Len(s)] = g])
<1>. DEFINE n == Len(s)
            u == [s EXCEPT ![n] = g]
<1>1. n \in Nat \ {0} BY StackTop
<1>2. Len(u) = n /\ u[n] = g /\ \A i \in 1 .. n - 1 : u[i] = s[i] BY ReplacedTop
<1>3. /\ \A p : Link(p, s[n]) => Link(p, g)
      /\ \A p : Over(p, s[n]) => Over(p, g)
      /\ Shielded(s[n]) => Shielded(g)
  BY KeptBelow
<1>4. \A i \in 1 .. n - 1 : Link(s[i], s[i + 1]) BY DEF Orderly
<1>5. \A j \in 1 .. n : \A i \in 1 .. j - 1 : Over(s[i], s[j]) BY DEF Orderly
<1>6. \A j \in 1 .. n : \A i \in 1 .. j - 1 :
        Ambient(s[i]) /\ (\A k \in i + 1 .. j - 1 : s[k].state # "export") => Shielded(s[j])
  BY DEF Orderly
<1>. HIDE DEF n, u
<1>7. ASSUME NEW i \in 1 .. n - 1 PROVE Link(u[i], u[i + 1])
  <2>1. u[i] = s[i] /\ Link(s[i], s[i + 1]) BY <1>2, <1>4
  <2>2. CASE i + 1 = n BY <1>2, <1>3, <2>1, <2>2
  <2>3. CASE i + 1 # n
    <3>1. i + 1 \in 1 .. n - 1 BY <1>1, <2>3
    <3> QED BY <1>2, <2>1, <3>1
  <2> QED BY <2>2, <2>3
<1>8. ASSUME NEW j \in 1 .. n, NEW i \in 1 .. j - 1
      PROVE  /\ Over(u[i], u[j])
             /\ Ambient(u[i]) /\ (\A k \in i + 1 .. j - 1 : u[k].state # "export")
                => Shielded(u[j])
  <2>1. i \in 1 .. n - 1 /\ u[i] = s[i] BY <1>1, <1>2
  <2>2. \A k \in i + 1 .. j - 1 : k \in 1 .. n - 1 BY <1>1
  <2>3. \A k \in i + 1 .. j - 1 : u[k] = s[k] BY <1>2, <2>2
  <2>4. Over(s[i], s[j]) BY <1>5
  <2>5. Ambient(u[i]) /\ (\A k \in i + 1 .. j - 1 : u[k].state # "export") => Shielded(s[j])
    BY <1>6, <2>1, <2>3
  <2>6. CASE j = n BY <1>2, <1>3, <2>1, <2>4, <2>5, <2>6
  <2>7. CASE j # n
    <3>1. j \in 1 .. n - 1 BY <1>1, <2>7
    <3>2. u[j] = s[j] BY <1>2, <3>1
    <3> QED BY <2>1, <2>4, <2>5, <3>2
  <2> QED BY <2>6, <2>7
<1>9. Orderly(u) BY <1>2, <1>7, <1>8 DEF Orderly
<1> QED BY <1>9 DEF u, n

LEMMA OrderlyPushed ==
  ASSUME NEW s, IsStack(s), Orderly(s), NEW c, Pushes(s[Len(s)], c), Link(s[Len(s)], c)
  PROVE  Orderly(Append(s, c))
<1>. DEFINE n == Len(s)
            u == Append(s, c)
<1>1. n \in Nat \ {0} BY StackTop
<1>2. /\ Len(u) = n + 1 /\ u[n + 1] = c
      /\ \A i \in 1 .. n : u[i] = s[i]
  BY AppendProperties DEF IsStack, Pushes, IsFrame
<1>3. Over(s[n], c) /\ \A p : Over(p, s[n]) => Over(p, c)
  BY OverPushed DEF Pushes
<1>4. \A i \in 1 .. n - 1 : Link(s[i], s[i + 1]) BY DEF Orderly
<1>5. \A j \in 1 .. n : \A i \in 1 .. j - 1 : Over(s[i], s[j]) BY DEF Orderly
<1>6. \A j \in 1 .. n : \A i \in 1 .. j - 1 :
        Ambient(s[i]) /\ (\A k \in i + 1 .. j - 1 : s[k].state # "export") => Shielded(s[j])
  BY DEF Orderly
<1>7. AmbientPasses(s[n], c) /\ Link(s[n], c) BY DEF Link
<1>. HIDE DEF n, u
<1>8. ASSUME NEW i \in 1 .. n PROVE Link(u[i], u[i + 1])
  <2>1. CASE i = n BY <1>1, <1>2, <1>7, <2>1
  <2>2. CASE i # n
    <3>1. i \in 1 .. n - 1 /\ i + 1 \in 1 .. n BY <1>1, <2>2
    <3> QED BY <1>2, <1>4, <3>1
  <2> QED BY <2>1, <2>2
<1>9. ASSUME NEW j \in 1 .. n, NEW i \in 1 .. j - 1
      PROVE  /\ Over(u[i], u[j])
             /\ Ambient(u[i]) /\ (\A k \in i + 1 .. j - 1 : u[k].state # "export")
                => Shielded(u[j])
  <2>1. i \in 1 .. n /\ u[i] = s[i] /\ u[j] = s[j] BY <1>1, <1>2
  <2>2. \A k \in i + 1 .. j - 1 : k \in 1 .. n BY <1>1
  <2>3. \A k \in i + 1 .. j - 1 : u[k] = s[k] BY <1>2, <2>2
  <2>4. Over(s[i], s[j]) BY <1>5
  <2>5. Ambient(s[i]) /\ (\A k \in i + 1 .. j - 1 : s[k].state # "export") => Shielded(s[j])
    BY <1>6
  <2> QED BY <2>1, <2>3, <2>4, <2>5
<1>10. ASSUME NEW i \in 1 .. n
       PROVE  /\ Over(u[i], c)
              /\ Ambient(u[i]) /\ (\A k \in i + 1 .. n : u[k].state # "export") => Shielded(c)
  <2>0. u[i] = s[i] BY <1>2
  <2>1. CASE i = n
    <3>1. Ambient(s[n]) => Shielded(c) BY <1>7 DEF AmbientPasses, Ambient, Shielded, Scope
    <3> QED BY <1>3, <2>0, <2>1, <3>1
  <2>2. CASE i # n
    <3>1. i \in 1 .. n - 1 /\ n \in 1 .. n /\ n \in i + 1 .. n BY <1>1, <2>2
    <3>2. Over(u[i], c) BY <1>3, <1>5, <2>0, <3>1
    <3>3. ASSUME Ambient(u[i]), \A k \in i + 1 .. n : u[k].state # "export"
          PROVE  Shielded(c)
      <4>1. \A k \in i + 1 .. n - 1 : k \in i + 1 .. n /\ k \in 1 .. n BY <1>1
      <4>2. \A k \in i + 1 .. n - 1 : s[k].state # "export" BY <1>2, <3>3, <4>1
      <4>3. Shielded(s[n]) BY <1>6, <2>0, <3>1, <3>3, <4>2
      <4>4. s[n].state # "export" BY <1>2, <3>1, <3>3
      <4> QED BY <1>7, <4>3, <4>4 DEF AmbientPasses, Shielded
    <3> QED BY <3>2, <3>3
  <2> QED BY <2>1, <2>2
<1>11. ASSUME NEW j \in 1 .. n + 1, NEW i \in 1 .. j - 1
       PROVE  /\ Over(u[i], u[j])
              /\ Ambient(u[i]) /\ (\A k \in i + 1 .. j - 1 : u[k].state # "export")
                 => Shielded(u[j])
  <2>1. CASE j = n + 1
    <3>1. i \in 1 .. n /\ j - 1 = n /\ u[j] = c BY <1>1, <1>2, <2>1
    <3> QED BY <1>10, <3>1
  <2>2. CASE j # n + 1
    <3>1. j \in 1 .. n BY <1>1, <2>2
    <3> QED BY <1>9, <3>1
  <2> QED BY <2>1, <2>2
<1>12. 1 .. Len(u) - 1 = 1 .. n /\ 1 .. Len(u) = 1 .. n + 1
  <2>1. Len(u) = n + 1 BY <1>2
  <2> QED BY <1>1, <2>1
<1>13. Orderly(u) BY <1>8, <1>11, <1>12 DEF Orderly
<1> QED BY <1>13 DEF u

LEMMA PoppedTop ==
  ASSUME NEW s, IsStack(s), s[Len(s)].state # "module_scope"
  PROVE  LET u == SubSeq(s, 1, Len(s) - 1)
         IN  /\ Len(s) - 1 \in Nat \ {0} /\ Len(u) = Len(s) - 1
             /\ \A i \in 1 .. Len(s) - 1 : u[i] = s[i]
<1>1. Len(s) \in Nat \ {0, 1} BY StackTop DEF IsStack
<1>2. \A i \in 1 .. Len(s) - 1 : s[i] \in FrameSet
  BY <1>1, ElementOfSeq DEF IsStack
<1>. DEFINE n == Len(s) - 1
            u == SubSeq(s, 1, n)
<1>3. n \in Nat \ {0} BY <1>1
<1>4. \A i \in 1 .. n : s[i] \in FrameSet BY <1>2
<1>. HIDE DEF n
<1>5. /\ Len(u) = IF 1 <= n THEN n - 1 + 1 ELSE 0
      /\ \A i \in 1 .. n - 1 + 1 : u[i] = s[1 + i - 1]
  BY <1>3, <1>4, SubSeqProperties
<1>. HIDE DEF u
<1>6. (IF 1 <= n THEN n - 1 + 1 ELSE 0) = n /\ n - 1 + 1 = n BY <1>3
<1>7. \A i \in 1 .. n : 1 + i - 1 = i BY <1>3
<1>8. Len(u) = n /\ \A i \in 1 .. n : u[i] = s[i] BY <1>5, <1>6, <1>7
<1> QED BY <1>3, <1>8 DEF u, n

LEMMA OrderlyPopped ==
  ASSUME NEW s, IsStack(s), Orderly(s), s[Len(s)].state # "module_scope"
  PROVE  Orderly(SubSeq(s, 1, Len(s) - 1))
<1>. DEFINE n == Len(s) - 1
            u == SubSeq(s, 1, n)
<1>1. n \in Nat \ {0} /\ Len(u) = n /\ \A i \in 1 .. n : u[i] = s[i] BY PoppedTop
<1>2. \A i \in 1 .. n : Link(s[i], s[i + 1]) BY DEF Orderly
<1>3. \A j \in 1 .. Len(s) : \A i \in 1 .. j - 1 : Over(s[i], s[j]) BY DEF Orderly
<1>4. \A j \in 1 .. Len(s) : \A i \in 1 .. j - 1 :
        Ambient(s[i]) /\ (\A k \in i + 1 .. j - 1 : s[k].state # "export") => Shielded(s[j])
  BY DEF Orderly
<1>5. \A j \in 1 .. n : j \in 1 .. Len(s) BY StackTop
<1>. HIDE DEF n, u
<1>6. \A i \in 1 .. n - 1 : Link(u[i], u[i + 1])
  <2>1. \A i \in 1 .. n - 1 : i \in 1 .. n /\ i + 1 \in 1 .. n BY <1>1
  <2> QED BY <1>1, <1>2, <2>1
<1>7. ASSUME NEW j \in 1 .. n, NEW i \in 1 .. j - 1
      PROVE  /\ Over(u[i], u[j])
             /\ Ambient(u[i]) /\ (\A k \in i + 1 .. j - 1 : u[k].state # "export")
                => Shielded(u[j])
  <2>1. i \in 1 .. n /\ u[i] = s[i] /\ u[j] = s[j] BY <1>1
  <2>2. \A k \in i + 1 .. j - 1 : k \in 1 .. n BY <1>1
  <2>3. \A k \in i + 1 .. j - 1 : u[k] = s[k] BY <1>1, <2>2
  <2>4. Over(s[i], s[j]) BY <1>3, <1>5
  <2>5. Ambient(s[i]) /\ (\A k \in i + 1 .. j - 1 : s[k].state # "export") => Shielded(s[j])
    BY <1>4, <1>5
  <2> QED BY <2>1, <2>3, <2>4, <2>5
<1>8. Orderly(u) BY <1>1, <1>6, <1>7 DEF Orderly
<1> QED BY <1>8 DEF u, n

---------------------------------------------------------------------------
(* The declaration under construction.                                     *)

Bare(d) == d.specifiers = <<>> /\ d.attribute_values = {}
Bindings == {"default_binding", "namespace_name", "named"}

(* The body of ImportWellFormed.                                           *)
Finished(d) ==
  /\ d.has \subseteq Shown(d) \cup {"require"}
  /\ d.specifiers # <<>> => "named" \in Shown(d)
  /\ d.attribute_values # {} => "attributes_keyword" \in Shown(d)
  /\ CASE d.form = "side_effect" ->
         "module_specifier" \in Shown(d) /\ "type_keyword" \notin Shown(d)
    [] d.form = "from" ->
         /\ "module_specifier" \in Shown(d)
         /\ d.has \cap Bindings # {}
         /\ ~ {"namespace_name", "named"} \subseteq d.has
    [] d.form = "equals" ->
         /\ "attributes_keyword" \notin Shown(d)
         /\ ("require_module_specifier" \in Shown(d) <=> "entity_name" \notin Shown(d))
         /\ ("require" \in d.has <=> "require_module_specifier" \in Shown(d))
    [] OTHER -> FALSE

(* How far an import has come: before its clause, behind a default binding *)
(* or a comma, in front of a namespace binding or `from`, within an equals *)
(* form or a require, behind a named list, or behind a module specifier.   *)
AtClause(d) == d.form = "none" /\ d.has = {} /\ Bare(d)
AtDefault(d) == d.form = "none" /\ d.has \subseteq {"type_keyword"} /\ Bare(d)
AtComma(d) ==
  /\ d.form = "from" /\ "default_binding" \in d.has
  /\ d.has \subseteq {"type_keyword", "default_binding"} /\ Bare(d)
AtNamespace(d) ==
  /\ d.form = "from" \/ (d.form = "none" /\ "default_binding" \notin d.has)
  /\ d.has \subseteq {"type_keyword", "default_binding"} /\ Bare(d)
AtFrom(d) ==
  /\ d.form = "from" /\ d.attribute_values = {}
  /\ d.has \cap Bindings # {} /\ d.has \subseteq {"type_keyword"} \cup Bindings
  /\ ~ {"namespace_name", "named"} \subseteq d.has
  /\ d.specifiers # <<>> => "named" \in d.has
AtEquals(d) == d.form = "equals" /\ d.has \subseteq {"type_keyword"} /\ Bare(d)
AtRequire(d) ==
  /\ d.form = "equals" /\ "require" \in d.has
  /\ d.has \subseteq {"type_keyword", "require"} /\ Bare(d)
FromNamed(d) ==
  /\ d.form = "from" /\ "named" \in d.has
  /\ d.has \subseteq {"type_keyword", "default_binding", "named"}
  /\ d.attribute_values = {}
Specified(d) == Finished(d) /\ d.form \in {"side_effect", "from"}
Attributed(d) == Specified(d) /\ "attributes_keyword" \in d.has
EqualsOnly(d) == d.form \in {"none", "equals"} /\ "require" \notin d.has
Entity(d) == Finished(d) /\ d.form = "equals" /\ "require" \notin d.has
Required(d) == Finished(d) /\ d.form = "equals"

(* What frame f relies on while the frames above it work on declaration d. *)
Held(f, d) ==
  /\ f.state = "import" /\ "equals_only" \in f.on => EqualsOnly(d)
  /\ f.state \in {"after_import", "after_type", "after_comma"} /\ "awaiting_sub" \in f.on =>
       FromNamed(d)
  /\ f.state = "after_module_spec" /\ "awaiting_sub" \in f.on => Attributed(d)
  /\ f.state \in ImportStateName /\ "awaiting_sub" \in f.on =>
       f.state \in {"after_import", "after_type", "after_comma", "after_module_spec"}
  /\ f.state = "after_import" /\ "equals_only" \in f.on =>
       "awaiting_sub" \notin f.on /\ "post_sub" \notin f.on
  /\ f.state = "import_attributes" => Attributed(d)
  /\ f.state = "named_import" => FromNamed(d)
  /\ f.state = "specifier" => FromNamed(d) \/ d.form = "export"
  /\ f.state \in {"named_export", "export_specifier_list"} => d.form = "export"

(* What the frame that is given the tokens finds.                          *)
Reached(f, d) ==
  LET s == f.state
  IN  /\ s = "import" \/ (s \in {"after_import", "after_type"} /\ "post_sub" \notin f.on) =>
           AtClause(d)
      /\ s \in {"after_import", "after_type", "after_comma"} /\ "post_sub" \in f.on =>
           FromNamed(d)
      /\ s = "after_default" => AtDefault(d)
      /\ s = "after_comma" /\ "post_sub" \notin f.on => AtComma(d)
      /\ s \in {"expect_as", "expect_namespace_name"} => AtNamespace(d)
      /\ s \in {"expect_from", "after_from"} => AtFrom(d)
      /\ s = "after_module_spec" => Specified(d)
      /\ s = "after_equals" => AtEquals(d)
      /\ s \in {"expect_require_paren", "after_require_open"} => AtRequire(d)
      /\ s = "after_require_module" => Required(d)
      /\ s = "import_entity" => Entity(d)

LEMMA Stages ==
  ASSUME NEW d
  PROVE  /\ AtClause(d) => AtDefault(d) /\ AtNamespace(d) /\ EqualsOnly(d)
         /\ AtDefault(d) => EqualsOnly(d)
         /\ AtComma(d) => AtNamespace(d)
         /\ FromNamed(d) => AtFrom(d)
         /\ AtEquals(d) => EqualsOnly(d)
         /\ Specified(d) => Finished(d)
         /\ Attributed(d) => Specified(d)
         /\ Entity(d) => Finished(d) /\ EqualsOnly(d)
         /\ Required(d) => Finished(d)
BY DEF AtClause, AtDefault, AtComma, AtNamespace, AtFrom, AtEquals, FromNamed, Specified,
       Attributed, EqualsOnly, Entity, Required, Bare, Bindings

(* The declaration e that a call makes of d, by the parts these use.       *)
Makes(d, e, form, has) ==
  /\ e.form = form /\ e.has = has /\ e.attribute_values = d.attribute_values
  /\ e.specifiers = d.specifiers /\ ~e.broken

LEMMA BuildOne ==
  ASSUME NEW d, NEW c, NEW t
  PROVE  Build(d, <<c, "none">>, t) = Call(d, c, t)
BY DEF Build, Call

LEMMA ImportCallMakes ==
  ASSUME NEW d \in DeclarationSet, NEW t
  PROVE  /\ Makes(d, Call(d, "set_type_keyword", t), d.form, d.has \cup {"type_keyword"})
         /\ d.form \in {"none", "from"} =>
              Makes(d, Call(d, "set_default_binding", t), "from", d.has \cup {"default_binding"})
         /\ d.form \in {"none", "from"} =>
              Makes(d, Call(d, "set_namespace_name", t), "from",
                    (d.has \ {"named"}) \cup {"namespace_name"})
         /\ d.form \in {"none", "from"} /\ "namespace_name" \notin d.has =>
              Makes(d, Call(d, "init_named_imports", t), "from", d.has \cup {"named"})
         /\ Makes(d, Call(d, "set_module_specifier", t),
                  IF d.form \in {"from", "export"} THEN d.form ELSE "side_effect",
                  d.has \cup {"module_specifier"})
         /\ Makes(d, Call(d, "set_attributes_keyword", t), d.form,
                  d.has \cup {"attributes_keyword"})
<1>1. /\ Call(d, "set_type_keyword", t) = Has(d, "type_keyword")
      /\ Call(d, "set_default_binding", t) = Has(EnsureFrom(d), "default_binding")
      /\ Call(d, "set_namespace_name", t) = SetNamespaceName(d)
      /\ Call(d, "init_named_imports", t) = EnsureNamed(d)
      /\ Call(d, "set_module_specifier", t) = SetModuleSpecifier(d)
      /\ Call(d, "set_attributes_keyword", t) = Has(d, "attributes_keyword")
  BY DEF Call
<1>2. \A p : Makes(d, Has(d, p), d.form, d.has \cup {p})
  BY DEF Makes, Has, DeclarationSet
<1>3. d.form \in {"none", "from"} =>
        Makes(d, Has(EnsureFrom(d), "default_binding"), "from", d.has \cup {"default_binding"})
  BY DEF Makes, Has, EnsureFrom, DeclarationSet
<1>4. d.form \in {"none", "from"} =>
        Makes(d, SetNamespaceName(d), "from", (d.has \ {"named"}) \cup {"namespace_name"})
  BY DEF Makes, SetNamespaceName, EnsureFrom, DeclarationSet
<1>5. d.form \in {"none", "from"} /\ "namespace_name" \notin d.has =>
        Makes(d, EnsureNamed(d), "from", d.has \cup {"named"})
  BY DEF Makes, Has, EnsureNamed, EnsureFrom, DeclarationSet
<1>6. Makes(d, SetModuleSpecifier(d),
            IF d.form \in {"from", "export"} THEN d.form ELSE "side_effect",
            d.has \cup {"module_specifier"})
  BY DEF Makes, Has, SetModuleSpecifier, DeclarationSet
<1> QED BY <1>1, <1>2, <1>3, <1>4, <1>5, <1>6

LEMMA EqualsCallMakes ==
  ASSUME NEW d \in DeclarationSet, NEW t
  PROVE  /\ d.form \in {"none", "equals"} =>
              Makes(d, Call(d, "set_equals_name", t), "equals", d.has)
         /\ d.form = "equals" /\ "entity_name" \notin d.has =>
              Makes(d, Call(d, "init_require", t), "equals", d.has \cup {"require"})
         /\ d.form = "equals" /\ "require" \in d.has =>
              Makes(d, Call(d, "set_require_module_specifier", t), "equals",
                    d.has \cup {"require_module_specifier"})
         /\ d.form = "equals" /\ "require" \notin d.has =>
              Makes(d, Call(d, "add_entity_identifier", t), "equals", d.has \cup {"entity_name"})
<1>1. /\ Call(d, "set_equals_name", t) = EnsureEquals(d)
      /\ Call(d, "init_require", t) = EnsureRequire(d)
      /\ Call(d, "set_require_module_specifier", t) = SetRequireModuleSpecifier(d)
      /\ Call(d, "add_entity_identifier", t) = AddEntityIdentifier(d)
  BY DEF Call
<1>2. d.form \in {"none", "equals"} => Makes(d, EnsureEquals(d), "equals", d.has)
  BY DEF Makes, EnsureEquals, DeclarationSet
<1>3. d.form = "equals" /\ "entity_name" \notin d.has =>
        Makes(d, EnsureRequire(d), "equals", d.has \cup {"require"})
  BY DEF Makes, Has, EnsureRequire, DeclarationSet
<1>4. d.form = "equals" /\ "require" \in d.has =>
        Makes(d, SetRequireModuleSpecifier(d), "equals", d.has \cup {"require_module_specifier"})
  BY DEF Makes, Has, SetRequireModuleSpecifier, DeclarationSet
<1>5. d.form = "equals" /\ "require" \notin d.has =>
        Makes(d, AddEntityIdentifier(d), "equals", d.has \cup {"entity_name"})
  BY DEF Makes, Has, AddEntityIdentifier, DeclarationSet
<1> QED BY <1>1, <1>2, <1>3, <1>4, <1>5

(* The stages that the calls of an import lead from and to.                *)
LEMMA ClauseCalls ==
  ASSUME NEW d \in DeclarationSet, NEW t
  PROVE  /\ AtClause(d) =>
              /\ Specified(Call(d, "set_module_specifier", t))
              /\ ~Call(d, "set_module_specifier", t).broken
         /\ AtClause(d) \/ AtComma(d) =>
              /\ FromNamed(Call(d, "init_named_imports", t))
              /\ ~Call(d, "init_named_imports", t).broken
         /\ AtDefault(d) =>
              /\ AtFrom(Call(d, "set_default_binding", t))
              /\ AtComma(Call(d, "set_default_binding", t))
              /\ ~Call(d, "set_default_binding", t).broken
         /\ AtNamespace(d) =>
              /\ AtFrom(Call(d, "set_namespace_name", t))
              /\ ~Call(d, "set_namespace_name", t).broken
         /\ AtFrom(d) =>
              /\ Specified(Call(d, "set_module_specifier", t))
              /\ ~Call(d, "set_module_specifier", t).broken
<1>. USE ImportCallMakes
<1>1. ASSUME AtClause(d)
      PROVE  Specified(Call(d, "set_module_specifier", t))
             /\ ~Call(d, "set_module_specifier", t).broken
  <2>. DEFINE e == Call(d, "set_module_specifier", t)
  <2>1. Makes(d, e, "side_effect", {"module_specifier"}) BY <1>1 DEF AtClause
  <2>. HIDE DEF e
  <2>2. Specified(e)
    BY <1>1, <2>1 DEF Makes, AtClause, Bare, Specified, Finished, Shown, AnyFormShows
  <2> QED BY <2>1, <2>2 DEF Makes, e
<1>2. ASSUME AtClause(d) \/ AtComma(d)
      PROVE  FromNamed(Call(d, "init_named_imports", t))
             /\ ~Call(d, "init_named_imports", t).broken
  <2>. DEFINE e == Call(d, "init_named_imports", t)
  <2>1. Makes(d, e, "from", d.has \cup {"named"}) BY <1>2 DEF AtClause, AtComma
  <2>. HIDE DEF e
  <2>2. FromNamed(e) BY <1>2, <2>1 DEF Makes, AtClause, AtComma, Bare, FromNamed
  <2> QED BY <2>1, <2>2 DEF Makes, e
<1>3. ASSUME AtDefault(d)
      PROVE  /\ AtFrom(Call(d, "set_default_binding", t))
             /\ AtComma(Call(d, "set_default_binding", t))
             /\ ~Call(d, "set_default_binding", t).broken
  <2>. DEFINE e == Call(d, "set_default_binding", t)
  <2>1. Makes(d, e, "from", d.has \cup {"default_binding"}) BY <1>3 DEF AtDefault
  <2>. HIDE DEF e
  <2>2. AtFrom(e) BY <1>3, <2>1 DEF Makes, AtDefault, Bare, AtFrom, Bindings
  <2>3. AtComma(e) BY <1>3, <2>1 DEF Makes, AtDefault, Bare, AtComma
  <2> QED BY <2>1, <2>2, <2>3 DEF Makes, e
<1>4. ASSUME AtNamespace(d)
      PROVE  AtFrom(Call(d, "set_namespace_name", t))
             /\ ~Call(d, "set_namespace_name", t).broken
  <2>. DEFINE e == Call(d, "set_namespace_name", t)
  <2>1. Makes(d, e, "from", (d.has \ {"named"}) \cup {"namespace_name"})
    BY <1>4 DEF AtNamespace
  <2>. HIDE DEF e
  <2>2. AtFrom(e) BY <1>4, <2>1 DEF Makes, AtNamespace, Bare, AtFrom, Bindings
  <2> QED BY <2>1, <2>2 DEF Makes, e
<1>5. ASSUME AtFrom(d)
      PROVE  Specified(Call(d, "set_module_specifier", t))
             /\ ~Call(d, "set_module_specifier", t).broken
  <2>. DEFINE e == Call(d, "set_module_specifier", t)
  <2>1. Makes(d, e, "from", d.has \cup {"module_specifier"}) BY <1>5 DEF AtFrom
  <2>. HIDE DEF e
  <2>2. Shown(e) = e.has
    BY <1>5, <2>1 DEF Makes, AtFrom, Bindings, Shown, AnyFormShows, FromShows
  <2>3. Specified(e)
    BY <1>5, <2>1, <2>2 DEF Makes, AtFrom, Bindings, Specified, Finished
  <2> QED BY <2>1, <2>3 DEF Makes, e
<1> QED BY <1>1, <1>2, <1>3, <1>4, <1>5

(* `import type`: the modifier, alone or with a named list.                *)
LEMMA TypeKeywordCalls ==
  ASSUME NEW d \in DeclarationSet, NEW t, AtClause(d)
  PROVE  LET e == Call(d, "set_type_keyword", t)
             g == Call(e, "init_named_imports", t)
         IN  /\ ~e.broken /\ AtNamespace(e) /\ AtDefault(e)
             /\ ~g.broken /\ FromNamed(g)
<1>. DEFINE e == Call(d, "set_type_keyword", t)
            g == Call(e, "init_named_imports", t)
<1>1. Makes(d, e, "none", {"type_keyword"}) BY ImportCallMakes DEF AtClause
<1>2. e = Has(d, "type_keyword") BY DEF Call
<1>3. g = EnsureNamed(e) BY DEF Call
<1>. HIDE DEF e, g
<1>4. e \in DeclarationSet BY <1>2 DEF DeclarationSet, Has, Part
<1>5. AtNamespace(e) /\ AtDefault(e)
  BY <1>1 DEF Makes, AtClause, AtNamespace, AtDefault, Bare
<1>6. ~g.broken /\ FromNamed(g)
  <2>1. g = [e EXCEPT !.form = "from", !.has = {"type_keyword", "named"}]
    BY <1>1, <1>3, <1>4 DEF Makes, EnsureNamed, EnsureFrom, Has, DeclarationSet
  <2> QED BY <1>1, <1>4, <2>1 DEF Makes, AtClause, Bare, FromNamed, DeclarationSet
<1> QED BY <1>1, <1>5, <1>6 DEF Makes, e, g

LEMMA FormCalls ==
  ASSUME NEW d \in DeclarationSet, NEW t
  PROVE  /\ AtDefault(d) =>
              /\ AtEquals(Call(d, "set_equals_name", t))
              /\ ~Call(d, "set_equals_name", t).broken
         /\ AtEquals(d) =>
              /\ AtRequire(Call(d, "init_require", t))
              /\ ~Call(d, "init_require", t).broken
         /\ AtEquals(d) \/ Entity(d) =>
              /\ Entity(Call(d, "add_entity_identifier", t))
              /\ ~Call(d, "add_entity_identifier", t).broken
         /\ AtRequire(d) =>
              /\ Required(Call(d, "set_require_module_specifier", t))
              /\ ~Call(d, "set_require_module_specifier", t).broken
         /\ Specified(d) =>
              /\ Attributed(Call(d, "set_attributes_keyword", t))
              /\ ~Call(d, "set_attributes_keyword", t).broken
<1>. USE ImportCallMakes, EqualsCallMakes
<1>1. ASSUME AtDefault(d)
      PROVE  AtEquals(Call(d, "set_equals_name", t)) /\ ~Call(d, "set_equals_name", t).broken
  <2>. DEFINE e == Call(d, "set_equals_name", t)
  <2>1. Makes(d, e, "equals", d.has) BY <1>1 DEF AtDefault
  <2>. HIDE DEF e
  <2>2. AtEquals(e) BY <1>1, <2>1 DEF Makes, AtDefault, Bare, AtEquals
  <2> QED BY <2>1, <2>2 DEF Makes, e
<1>2. ASSUME AtEquals(d)
      PROVE  AtRequire(Call(d, "init_require", t)) /\ ~Call(d, "init_require", t).broken
  <2>. DEFINE e == Call(d, "init_require", t)
  <2>1. Makes(d, e, "equals", d.has \cup {"require"}) BY <1>2 DEF AtEquals
  <2>. HIDE DEF e
  <2>2. AtRequire(e) BY <1>2, <2>1 DEF Makes, AtEquals, Bare, AtRequire
  <2> QED BY <2>1, <2>2 DEF Makes, e
<1>3. ASSUME AtEquals(d) \/ Entity(d)
      PROVE  /\ Entity(Call(d, "add_entity_identifier", t))
             /\ ~Call(d, "add_entity_identifier", t).broken
  <2>. DEFINE e == Call(d, "add_entity_identifier", t)
  <2>1. Makes(d, e, "equals", d.has \cup {"entity_name"}) BY <1>3 DEF AtEquals, Entity
  <2>. HIDE DEF e
  <2>2. d.has \subseteq {"type_keyword", "entity_name"} /\ Bare(d)
    <3>1. CASE AtEquals(d) BY <3>1 DEF AtEquals
    <3>2. CASE Entity(d)
      <4>1. Finished(d) /\ d.form = "equals" /\ "require" \notin d.has BY <3>2 DEF Entity
      <4>2. Shown(d) = d.has \cap {"type_keyword", "attributes_keyword",
                                   "require_module_specifier", "entity_name"}
        BY <4>1 DEF Shown, AnyFormShows, EqualsShows
      <4> QED BY <4>1, <4>2 DEF Finished, Bare
    <3> QED BY <1>3, <3>1, <3>2
  <2>3. Shown(e) = e.has /\ e.has \subseteq {"type_keyword", "entity_name"}
    BY <2>1, <2>2 DEF Makes, Shown, AnyFormShows, EqualsShows
  <2>4. "entity_name" \in e.has /\ e.form = "equals" /\ Bare(e)
    BY <2>1, <2>2 DEF Makes, Bare
  <2>5. Finished(e) BY <2>3, <2>4 DEF Finished, Bare
  <2> QED BY <2>1, <2>3, <2>4, <2>5 DEF Makes, Entity, e
<1>4. ASSUME AtRequire(d)
      PROVE  /\ Required(Call(d, "set_require_module_specifier", t))
             /\ ~Call(d, "set_require_module_specifier", t).broken
  <2>. DEFINE e == Call(d, "set_require_module_specifier", t)
  <2>1. Makes(d, e, "equals", d.has \cup {"require_module_specifier"}) BY <1>4 DEF AtRequire
  <2>. HIDE DEF e
  <2>2. Required(e)
    BY <1>4, <2>1
       DEF Makes, AtRequire, Bare, Required, Finished, Shown, AnyFormShows, EqualsShows
  <2> QED BY <2>1, <2>2 DEF Makes, e
<1>5. ASSUME Specified(d)
      PROVE  /\ Attributed(Call(d, "set_attributes_keyword", t))
             /\ ~Call(d, "set_attributes_keyword", t).broken
  <2>. DEFINE e == Call(d, "set_attributes_keyword", t)
  <2>1. Makes(d, e, d.form, d.has \cup {"attributes_keyword"}) BY ImportCallMakes
  <2>. HIDE DEF e
  <2>2. Shown(e) = Shown(d) \cup {"attributes_keyword"}
    BY <2>1 DEF Makes, Shown, AnyFormShows, FromShows, EqualsShows
  <2>3. Attributed(e)
    BY <1>5, <2>1, <2>2 DEF Makes, Specified, Finished, Attributed, Bindings
  <2> QED BY <2>1, <2>3 DEF Makes, e
<1> QED BY <1>1, <1>2, <1>3, <1>4, <1>5

(* Two declarations that differ in attributes and specifiers only.         *)
Alike(d, e) == e.form = d.form /\ e.has = d.has /\ ~e.broken

LEMMA AttributeCall ==
  ASSUME NEW d \in DeclarationSet, NEW t
  PROVE  /\ Alike(d, Call(d, "add_attribute", t))
         /\ Attributed(d) => Attributed(Call(d, "add_attribute", t))
<1>. DEFINE e == Call(d, "add_attribute", t)
<1>1. e = [d EXCEPT !.attribute_values = d.attribute_values \cup {t}]
  BY DEF Call, AddAttribute
<1>. HIDE DEF e
<1>2. Alike(d, e) /\ e.specifiers = d.specifiers BY <1>1 DEF Alike, DeclarationSet
<1>3. Shown(e) = Shown(d) BY <1>2 DEF Alike, Shown
<1>4. Attributed(d) => "attributes_keyword" \in Shown(e)
  BY <1>2, <1>3 DEF Attributed, Shown, AnyFormShows
<1>5. Attributed(d) => Attributed(e)
  BY <1>2, <1>3, <1>4 DEF Alike, Attributed, Specified, Finished
<1> QED BY <1>2, <1>5 DEF e

(* The calls of a specifier touch nothing else but the list it goes to.    *)
LEMMA SpecifierCall ==
  ASSUME NEW d \in DeclarationSet, NEW t,
         NEW c \in {"new_specifier", "specifier_type", "specifier_name",
                    "specifier_demote_type", "specifier_alias"}
  PROVE  /\ Alike(d, Call(d, c, t))
         /\ Call(d, c, t).attribute_values = d.attribute_values
         /\ Call(d, c, t).specifiers = d.specifiers
<1>. DEFINE Same(e) == /\ Alike(d, e) /\ e.attribute_values = d.attribute_values
                       /\ e.specifiers = d.specifiers
<1>1. \A s : Same([d EXCEPT !.current = s]) BY DEF Alike, DeclarationSet
<1>2. CASE c = "new_specifier" BY <1>1, <1>2 DEF Call
<1>3. CASE c = "specifier_type" BY <1>1, <1>3 DEF Call
<1>4. CASE c = "specifier_name" BY <1>1, <1>4 DEF Call
<1>5. CASE c = "specifier_demote_type"
  BY <1>5 DEF Call, DemoteType, Alike, DeclarationSet
<1>6. CASE c = "specifier_alias" BY <1>1, <1>6 DEF Call
<1> QED BY <1>2, <1>3, <1>4, <1>5, <1>6

LEMMA StoreCall ==
  ASSUME NEW d \in DeclarationSet, NEW t, FromNamed(d) \/ d.form = "export"
  PROVE  /\ Alike(d, Call(d, "store_specifier", t))
         /\ Call(d, "store_specifier", t).attribute_values = d.attribute_values
<1>. DEFINE e == IF d.form = "export" THEN d ELSE EnsureNamed(d)
<1>1. Makes(d, e, d.form, d.has)
  <2>1. CASE d.form = "export" BY <2>1 DEF Makes, DeclarationSet
  <2>2. CASE d.form # "export"
    <3>1. FromNamed(d) BY <2>2
    <3>2. Makes(d, Call(d, "init_named_imports", t), "from", d.has \cup {"named"})
      BY <3>1, ImportCallMakes DEF FromNamed
    <3>3. Call(d, "init_named_imports", t) = EnsureNamed(d) BY DEF Call
    <3>4. d.has \cup {"named"} = d.has /\ d.form = "from" BY <3>1 DEF FromNamed
    <3> QED BY <2>2, <3>2, <3>3, <3>4
  <2> QED BY <2>1, <2>2
<1>2. e \in DeclarationSet
  BY <1>1 DEF Makes, EnsureNamed, EnsureFrom, Has, Broken, DeclarationSet, Form, Part
<1>3. Call(d, "store_specifier", t) =
        [e EXCEPT !.specifiers = Append(e.specifiers,
             [d.current EXCEPT !.name = Normalize(d.current.name),
                               !.alias = Normalize(d.current.alias)]),
                  !.current = NoSpecifier]
  BY DEF Call, StoreSpecifier
<1>. HIDE DEF e
<1> QED BY <1>1, <1>2, <1>3 DEF Makes, Alike, DeclarationSet

(* The calls of an export keep the declaration one.                        *)
LEMMA ExportCall ==
  ASSUME NEW d \in DeclarationSet, NEW t,
         NEW c \in {"set_as_name", "set_semicolon", "set_module_specifier"}
  PROVE  /\ d.form = "export" => Call(d, c, t).form = "export"
         /\ ~Call(d, c, t).broken
BY DEF Call, Has, SetModuleSpecifier, DeclarationSet

---------------------------------------------------------------------------
(* What a result of frame f does to declaration d: the calls it makes lead *)
(* where the frames that stay on the stack rely on them to lead.           *)

Grows(f, d, e) == ~e.broken /\ \A h : Over(h, f) /\ Held(h, d) => Held(h, e)

Advances(f, d, t, r) ==
  LET e == Build(d, r.calls, t)
  IN  /\ Grows(f, d, e)
      /\ r.act \in {"stay", "push"} => Held(r.frame, e)
      /\ r.act = "stay" => Reached(r.frame, e)
      /\ r.act = "push" => Held(r.child, e) /\ Reached(r.child, e)
      /\ r.act = "complete" /\ f.state \in ImportLink => Finished(e)

Silent(r) == DOMAIN r = ResultField /\ r.calls = <<"none", "none">>

(* The states that rely on the declaration at all.                         *)
Guarded == ImportStateName \cup
             {"named_import", "specifier", "named_export", "export_specifier_list"}

LEMMA Unguarded ==
  ASSUME NEW f, NEW d
  PROVE  /\ f.state \notin Guarded => Held(f, d)
         /\ f.state \notin ImportStateName => Reached(f, d)
BY DEF Guarded, Held, Reached, ImportStateName

LEMMA GrowsNot == ASSUME NEW f, NEW d, ~d.broken PROVE Grows(f, d, d)
BY DEF Grows

LEMMA GrowsLink ==
  ASSUME NEW f, f.state \in ImportLink, NEW d, NEW e, ~e.broken, EqualsLink(f) => EqualsOnly(e)
  PROVE  Grows(f, d, e)
<1>1. f.state \notin Sub /\ f.state \notin Item /\ f.state \in ImportStateName
      /\ f.state \notin {"export_specifier_list", "named_export_module_spec",
                         "named_export_semicolon"}
  BY DEF ImportLink, ImportStateName, Sub, Item
<1>2. ASSUME NEW h, Over(h, f), Held(h, d) PROVE Held(h, e)
  <2>1. h.state \notin {"named_import", "specifier", "named_export", "export_specifier_list",
                        "import_attributes"}
    BY <1>1, <1>2 DEF Over
  <2>2. h.state \in ImportStateName => "awaiting_sub" \notin h.on
    BY <1>1, <1>2 DEF Over
  <2>3. h.state = "import" /\ "equals_only" \in h.on => EqualsOnly(e)
    BY <1>2 DEF Over
  <2>4. h.state = "after_import" /\ "equals_only" \in h.on => "post_sub" \notin h.on
    BY <1>2 DEF Held
  <2> QED BY <2>1, <2>2, <2>3, <2>4 DEF Held, ImportStateName
<1> QED BY <1>2 DEF Grows

LEMMA GrowsAttributes ==
  ASSUME NEW f, f.state = "import_attributes", NEW d, Attributed(d), NEW e, Attributed(e),
         ~e.broken
  PROVE  Grows(f, d, e)
<1>1. ASSUME NEW h, Over(h, f), Held(h, d) PROVE Held(h, e)
  <2>1. h.state \notin {"named_import", "specifier", "named_export", "export_specifier_list",
                        "import_attributes"}
    BY <1>1 DEF Over, Item
  <2>2. ~FromNamed(d) BY DEF Attributed, FromNamed
  <2>3. ~(h.state = "import" /\ "equals_only" \in h.on) BY <1>1 DEF Over, EqualsLink
  <2> QED BY <1>1, <2>1, <2>2, <2>3 DEF Held, ImportStateName
<1> QED BY <1>1 DEF Grows

LEMMA GrowsAlike ==
  ASSUME NEW f, NEW d, NEW e, Alike(d, e), e.attribute_values = d.attribute_values,
         e.specifiers = d.specifiers \/ FromNamed(d) \/ d.form = "export"
  PROVE  /\ Grows(f, d, e)
         /\ \A h : Held(h, d) => Held(h, e)
<1>1. Shown(e) = Shown(d) BY DEF Alike, Shown
<1>2. EqualsOnly(d) => EqualsOnly(e) BY DEF Alike, EqualsOnly
<1>3. FromNamed(d) => FromNamed(e) BY DEF Alike, FromNamed
<1>4. Attributed(d) => Attributed(e)
  <2>1. CASE e.specifiers = d.specifiers
    BY <1>1, <2>1 DEF Alike, Attributed, Specified, Finished
  <2>2. CASE FromNamed(d) BY <2>2 DEF Attributed, FromNamed
  <2>3. CASE d.form = "export" BY <2>3 DEF Attributed, Specified
  <2> QED BY <2>1, <2>2, <2>3
<1>5. ASSUME NEW h, Held(h, d) PROVE Held(h, e)
  BY <1>2, <1>3, <1>4, <1>5 DEF Held, Alike
<1> QED BY <1>5 DEF Grows, Alike

LEMMA GrowsExport ==
  ASSUME NEW f, f.state \in ExportStateName \ {"export"}, NEW d, NEW e, ~e.broken,
         d.form = "export" => e.form = "export"
  PROVE  Grows(f, d, e)
<1>1. f.state \notin ImportStateName \cup Sub \cup Item
  BY DEF ExportStateName, ImportStateName, Sub, Item
<1>2. ASSUME NEW h, Over(h, f), Held(h, d) PROVE Held(h, e)
  <2>1. h.state \notin ImportStateName \cup {"named_import", "specifier", "export_specifier_list"}
    BY <1>1, <1>2 DEF Over
  <2> QED BY <1>2, <2>1 DEF Held, ImportStateName
<1> QED BY <1>2 DEF Grows

LEMMA GrowsOpen ==
  ASSUME NEW f, f.state \in Scope \cup {"export"}, NEW d, NEW e, ~e.broken
  PROVE  Grows(f, d, e)
<1>1. /\ f.state \notin ImportStateName \cup Sub \cup Item
      /\ f.state \notin {"export_specifier_list", "named_export_module_spec",
                         "named_export_semicolon"}
  BY DEF Scope, ImportStateName, Sub, Item
<1>2. ASSUME NEW h, Over(h, f) PROVE Held(h, e)
  <2>1. h.state \notin Guarded BY <1>1, <1>2 DEF Over, Guarded
  <2> QED BY <2>1, Unguarded
<1> QED BY <1>2 DEF Grows

---------------------------------------------------------------------------
(* Results, by what they are built of.                                     *)

LEMMA BuildNone ==
  ASSUME NEW d, NEW t, NEW r, Silent(r)
  PROVE  Build(d, r.calls, t) = d
BY DEF Silent, Build, Call

LEMMA SilentResults ==
  /\ \A g : Silent(Stay(g))
  /\ \A g, c : Silent(Push(g, c))
  /\ \A g, n : Silent(Complete(g, n))
  /\ \A e : Silent(Throw(e))
  /\ \A g : Silent(NullOpt(g))
  /\ Silent(Expected) /\ Silent(LogicError)
BY DEF Silent, ResultField, Stay, Push, Complete, Throw, NullOpt, Expected, LogicError, Result

LEMMA SilentReprocess == ASSUME NEW r, Silent(r) PROVE Silent(Reprocess(r))
BY DEF Silent, ResultField, Reprocess

LEMMA SilentVisitor == ASSUME NEW f, NEW t, NEW r, Silent(r) PROVE Silent(Visitor(f, t, r))
BY SilentResults DEF Visitor

LEMMA SilentMultiline == ASSUME NEW f, NEW t, NEW r, Silent(r) PROVE Silent(Multiline(f, t, r))
<1>1. CASE t = "newline" BY <1>1, SilentResults DEF Multiline
<1>2. CASE t # "newline" BY <1>2 DEF Multiline, Silent, ResultField
<1> QED BY <1>1, <1>2

LEMMA AdvancesStay ==
  ASSUME NEW f, NEW d, ~d.broken, NEW t, NEW g, Held(g, d), Reached(g, d)
  PROVE  Advances(f, d, t, Stay(g))
<1>1. Build(d, Stay(g).calls, t) = d BY SilentResults, BuildNone
<1>2. Stay(g).act = "stay" /\ Stay(g).frame = g BY DEF Stay, Result
<1> QED BY <1>1, <1>2, GrowsNot DEF Advances

LEMMA AdvancesPush ==
  ASSUME NEW f, NEW d, ~d.broken, NEW t, NEW g, Held(g, d), NEW c, Held(c, d), Reached(c, d)
  PROVE  Advances(f, d, t, Push(g, c))
<1>1. Build(d, Push(g, c).calls, t) = d BY SilentResults, BuildNone
<1>2. Push(g, c).act = "push" /\ Push(g, c).frame = g /\ Push(g, c).child = c
  BY DEF Push, Result
<1> QED BY <1>1, <1>2, GrowsNot DEF Advances

LEMMA AdvancesComplete ==
  ASSUME NEW f, NEW d, ~d.broken, NEW t, NEW g, NEW n, f.state \in ImportLink => Finished(d)
  PROVE  Advances(f, d, t, Complete(g, n))
<1>1. Build(d, Complete(g, n).calls, t) = d BY SilentResults, BuildNone
<1>2. Complete(g, n).act = "complete" BY DEF Complete, Result
<1> QED BY <1>1, <1>2, GrowsNot DEF Advances

LEMMA AdvancesThrow ==
  ASSUME NEW f, NEW d, ~d.broken, NEW t
  PROVE  /\ \A e : Advances(f, d, t, Throw(e))
         /\ Advances(f, d, t, Expected)
         /\ \A g : Advances(f, d, t, NullOpt(g))
<1>1. /\ \A e : Build(d, Throw(e).calls, t) = d /\ Throw(e).act = "throw"
      /\ \A g : Build(d, NullOpt(g).calls, t) = d /\ NullOpt(g).act = "nullopt"
  <2>1. \A e : Throw(e).act = "throw" BY DEF Throw, Result
  <2>2. \A g : NullOpt(g).act = "nullopt" BY DEF NullOpt, Result
  <2> QED BY <2>1, <2>2, SilentResults, BuildNone
<1>2. \A e : Advances(f, d, t, Throw(e)) BY <1>1, GrowsNot DEF Advances
<1>3. \A g : Advances(f, d, t, NullOpt(g)) BY <1>1, GrowsNot DEF Advances
<1> QED BY <1>2, <1>3 DEF Expected

LEMMA AdvancesReprocess ==
  ASSUME NEW f, NEW d, NEW t, NEW r, DOMAIN r = ResultField, Advances(f, d, t, r)
  PROVE  Advances(f, d, t, Reprocess(r))
<1>1. /\ Reprocess(r).act = r.act /\ Reprocess(r).frame = r.frame
      /\ Reprocess(r).child = r.child /\ Reprocess(r).calls = r.calls
  BY DEF Reprocess, ResultField
<1> QED BY <1>1 DEF Advances

LEMMA AdvancesVisitor ==
  ASSUME NEW f, NEW d, ~d.broken, Held(f, d), Reached(f, d), NEW t,
         NEW r, t # "newline" => Advances(f, d, t, r)
  PROVE  Advances(f, d, t, Visitor(f, t, r))
BY AdvancesStay DEF Visitor

(* A call that leads from d to e, and a result that is right for e.        *)
LEMMA AdvancesCalling ==
  ASSUME NEW f, NEW d, NEW t, NEW r, Silent(r), NEW c,
         Grows(f, d, Call(d, c, t)), Advances(f, Call(d, c, t), t, r)
  PROVE  Advances(f, d, t, Calling(r, c))
<1>. DEFINE e == Call(d, c, t)
            q == Calling(r, c)
<1>1. /\ q.act = r.act /\ q.frame = r.frame /\ q.child = r.child /\ q.calls = <<c, "none">>
  BY DEF Calling, Silent, ResultField
<1>2. Build(d, q.calls, t) = e BY <1>1, BuildOne
<1>3. Build(e, r.calls, t) = e BY BuildNone
<1>. HIDE DEF e, q
<1>4. Advances(f, d, t, q) BY <1>1, <1>2, <1>3 DEF Advances, e
<1> QED BY <1>4 DEF q

LEMMA AdvancesCalling2 ==
  ASSUME NEW f, NEW d, NEW t, NEW r, Silent(r), NEW b, NEW c,
         Grows(f, d, Call(Call(d, b, t), c, t)), Advances(f, Call(Call(d, b, t), c, t), t, r)
  PROVE  Advances(f, d, t, Calling2(r, b, c))
<1>. DEFINE e == Call(Call(d, b, t), c, t)
            q == Calling2(r, b, c)
<1>1. /\ q.act = r.act /\ q.frame = r.frame /\ q.child = r.child /\ q.calls = <<b, c>>
  BY DEF Calling2, Silent, ResultField
<1>2. Build(d, q.calls, t) = e BY <1>1 DEF Build
<1>3. Build(e, r.calls, t) = e BY BuildNone
<1>. HIDE DEF e, q
<1>4. Advances(f, d, t, q) BY <1>1, <1>2, <1>3 DEF Advances, e
<1> QED BY <1>4 DEF q

---------------------------------------------------------------------------
(* The import states.                                                      *)

(* A link of the chain that nothing has been handed to yet.                *)
Clear(c) == c.state \in ImportLink /\ "awaiting_sub" \notin c.on /\ "post_sub" \notin c.on

LEMMA ClearLinks ==
  ASSUME NEW c, Clear(c), NEW e
  PROVE  /\ Held(c, e)
         /\ c.state \in {"after_import", "after_type"} /\ AtClause(e) => Reached(c, e)
         /\ c.state = "after_default" /\ AtDefault(e) => Reached(c, e)
         /\ c.state = "after_comma" /\ AtComma(e) => Reached(c, e)
         /\ c.state \in {"expect_as", "expect_namespace_name"} /\ AtNamespace(e) => Reached(c, e)
         /\ c.state \in {"expect_from", "after_from"} /\ AtFrom(e) => Reached(c, e)
         /\ c.state = "after_module_spec" /\ Specified(e) => Reached(c, e)
         /\ c.state = "after_equals" /\ AtEquals(e) => Reached(c, e)
         /\ c.state \in {"expect_require_paren", "after_require_open"} /\ AtRequire(e) =>
              Reached(c, e)
         /\ c.state = "after_require_module" /\ Required(e) => Reached(c, e)
         /\ c.state = "import_entity" /\ Entity(e) => Reached(c, e)
<1>1. Held(c, e) BY DEF Clear, Held, ImportLink, ImportStateName
<1>2. c.state # "import" BY DEF Clear, ImportLink
<1> QED BY <1>1, <1>2 DEF Clear, Reached

LEMMA FreshClear ==
  ASSUME NEW f, NEW s \in ImportLink
  PROVE  /\ Clear(Fresh(s)) /\ Fresh(s).state = s
         /\ Clear(Inherit(f, s)) /\ Inherit(f, s).state = s
BY FrameFields DEF Clear, Inherit

(* A link that pushes the next one.                                        *)
LEMMA LinkAdvances ==
  ASSUME NEW f, f.state \in ImportLink, Idle(f), NEW d, Held(f, d), NEW e, ~e.broken, NEW t,
         EqualsLink(f) => EqualsOnly(e)
  PROVE  /\ Grows(f, d, e)
         /\ Held(f, e)
         /\ \A c : Clear(c) /\ Reached(c, e) => Advances(f, e, t, Push(f, c))
<1>1. f.state \in ImportStateName \ {"import", "import_attributes"} BY DEF ImportLink
<1>2. "awaiting_sub" \notin f.on BY <1>1 DEF Idle
<1>3. Held(f, e) BY <1>1, <1>2 DEF Held, ImportStateName
<1> QED BY <1>3, GrowsLink, ClearLinks, AdvancesPush

(* A link that hands the list or clause c to its own child.                *)
LEMMA SubAdvances ==
  ASSUME NEW f, IsFrame(f), NEW e, ~e.broken, NEW t, NEW c, c.on \cap {"awaiting_sub"} = {},
         \/ /\ f.state \in {"after_type", "after_comma"} /\ c.state = "named_import"
            /\ FromNamed(e)
         \/ /\ f.state = "after_import" /\ "equals_only" \notin f.on /\ c.state = "named_import"
            /\ FromNamed(e)
         \/ f.state = "after_module_spec" /\ c.state = "import_attributes" /\ Attributed(e)
  PROVE  Advances(f, e, t, PushSub(f, c))
<1>. DEFINE g == TurnOn(f, {"awaiting_sub"})
<1>1. g.state = f.state /\ g.on = f.on \cup {"awaiting_sub"} BY TurnFields
<1>. HIDE DEF g
<1>2. Held(g, e) BY <1>1 DEF Held, ImportStateName
<1>3. Held(c, e) /\ Reached(c, e) BY DEF Held, Reached, ImportStateName
<1> QED BY <1>2, <1>3, AdvancesPush DEF PushSub, g

(* A call, and the link that waits for the next token.                     *)
LEMMA CallAdvances ==
  ASSUME NEW f, f.state \in ImportLink, Idle(f), NEW d, Held(f, d), NEW t,
         NEW b, ~Call(d, b, t).broken, EqualsLink(f) => EqualsOnly(Call(d, b, t)),
         NEW c, Clear(c), Reached(c, Call(d, b, t))
  PROVE  Advances(f, d, t, Calling(Push(f, c), b))
<1>. DEFINE e == Call(d, b, t)
<1>1. Grows(f, d, e) /\ Advances(f, e, t, Push(f, c)) BY LinkAdvances
<1> QED BY <1>1, SilentResults, AdvancesCalling

LEMMA NextAdvances ==
  ASSUME NEW f, f.state \in ImportLink, Idle(f), NEW d, ~d.broken, Held(f, d), NEW t,
         EqualsLink(f) => EqualsOnly(d), NEW c, Clear(c), Reached(c, d)
  PROVE  Advances(f, d, t, Push(f, c)) /\ Advances(f, d, t, Reprocess(Push(f, c)))
<1>1. Advances(f, d, t, Push(f, c)) BY LinkAdvances
<1>2. DOMAIN Push(f, c) = ResultField BY SilentResults DEF Silent
<1> QED BY <1>1, <1>2, AdvancesReprocess

LEMMA SubCallAdvances ==
  ASSUME NEW f, IsFrame(f), f.state \in ImportLink, ~EqualsLink(f), NEW d, NEW t, NEW b,
         ~Call(d, b, t).broken, NEW c, c.on \cap {"awaiting_sub"} = {},
         \/ /\ f.state \in {"after_type", "after_comma"} /\ c.state = "named_import"
            /\ FromNamed(Call(d, b, t))
         \/ /\ f.state = "after_import" /\ "equals_only" \notin f.on /\ c.state = "named_import"
            /\ FromNamed(Call(d, b, t))
         \/ /\ f.state = "after_module_spec" /\ c.state = "import_attributes"
            /\ Attributed(Call(d, b, t))
  PROVE  Advances(f, d, t, Calling(PushSub(f, c), b))
<1>. DEFINE e == Call(d, b, t)
<1>1. Grows(f, d, e) BY GrowsLink
<1>2. Advances(f, e, t, PushSub(f, c))
  <2>1. ~e.broken OBVIOUS
  <2>. HIDE DEF e
  <2> QED BY <2>1, SubAdvances DEF e
<1>3. Silent(PushSub(f, c)) BY SilentResults DEF PushSub
<1> QED BY <1>1, <1>2, <1>3, AdvancesCalling

LEMMA InitialAdvances ==
  ASSUME NEW f, IsFrame(f), f.state \in {"import", "after_import"}, Idle(f),
         NEW d \in DeclarationSet, Held(f, d), Reached(f, d), NEW t
  PROVE  Advances(f, d, t, ImportProcess(f, t))
<1>1. ~d.broken BY DEF DeclarationSet
<1>2. CASE f.state = "import"
  <2>. DEFINE c == Inherit(f, "after_import")
  <2>1. Clear(c) /\ c.state = "after_import" BY FreshClear DEF ImportLink, ImportStateName
  <2>. HIDE DEF c
  <2>2. AtClause(d) BY <1>2 DEF Reached
  <2>3. Held(c, d) /\ Reached(c, d) BY <2>1, <2>2, ClearLinks
  <2>4. Advances(f, d, t, Push(f, c)) BY <1>1, <2>3, AdvancesPush
  <2>5. DOMAIN Push(f, c) = ResultField BY SilentResults DEF Silent
  <2> QED BY <1>2, <2>4, <2>5, AdvancesReprocess DEF ImportProcess, Import, c
<1>3. CASE f.state = "after_import" /\ "post_sub" \in f.on
  <2>1. f.state \in ImportLink /\ "expect_from" \in ImportLink
    BY <1>3 DEF ImportLink, ImportStateName
  <2>2. "equals_only" \notin f.on BY <1>3 DEF Held
  <2>3. ~EqualsLink(f) BY <1>3, <2>2 DEF EqualsLink
  <2>4. AtFrom(d) BY <1>3, Stages DEF Reached
  <2>5. Clear(Fresh("expect_from")) /\ Fresh("expect_from").state = "expect_from"
    BY <2>1, FreshClear
  <2>6. Reached(Fresh("expect_from"), d) BY <2>4, <2>5, ClearLinks
  <2>7. Advances(f, d, t, Reprocess(Push(f, Fresh("expect_from"))))
    BY <1>1, <2>1, <2>3, <2>5, <2>6, NextAdvances
  <2> QED BY <1>3, <2>2, <2>7 DEF ImportProcess, AfterImport
<1>4. CASE f.state = "after_import" /\ "post_sub" \notin f.on
  <2>1. /\ f.state \in ImportLink /\ "after_default" \in ImportLink
        /\ "after_module_spec" \in ImportLink /\ "after_type" \in ImportLink
        /\ "expect_as" \in ImportLink
    BY <1>4 DEF ImportLink, ImportStateName
  <2>2. AtClause(d) BY <1>4 DEF Reached
  <2>3. AtDefault(d) /\ AtNamespace(d) /\ EqualsOnly(d) BY <2>2, Stages
  <2>4. Advances(f, d, t, Expected) BY <1>1, AdvancesThrow
  <2>5. CASE "equals_only" \in f.on
    <3>. DEFINE c == Inherit(f, "after_default")
    <3>1. Clear(c) /\ c.state = "after_default" BY <2>1, FreshClear
    <3>. HIDE DEF c
    <3>2. Reached(c, d) BY <2>3, <3>1, ClearLinks
    <3>3. Advances(f, d, t, Push(f, c)) BY <1>1, <2>1, <2>3, <3>1, <3>2, NextAdvances
    <3> QED BY <1>1, <1>4, <2>4, <2>5, <3>3, AdvancesVisitor DEF ImportProcess, AfterImport, c
  <2>6. CASE "equals_only" \notin f.on
    <3>1. ~EqualsLink(f) BY <1>4, <2>6 DEF EqualsLink
    <3>2. /\ Clear(Fresh("after_default")) /\ Fresh("after_default").state = "after_default"
          /\ Clear(Fresh("after_type")) /\ Fresh("after_type").state = "after_type"
          /\ Clear(Fresh("expect_as")) /\ Fresh("expect_as").state = "expect_as"
          /\ Clear(Fresh("after_module_spec"))
          /\ Fresh("after_module_spec").state = "after_module_spec"
      BY <2>1, FreshClear
    <3>3. /\ Reached(Fresh("after_default"), d) /\ Reached(Fresh("after_type"), d)
          /\ Reached(Fresh("expect_as"), d)
      BY <2>2, <2>3, <3>2, ClearLinks
    <3>4. /\ Advances(f, d, t, Push(f, Fresh("after_default")))
          /\ Advances(f, d, t, Push(f, Fresh("after_type")))
          /\ Advances(f, d, t, Push(f, Fresh("expect_as")))
      BY <1>1, <2>1, <3>1, <3>2, <3>3, NextAdvances
    <3>5. Advances(f, d, t, Calling(Push(f, Fresh("after_module_spec")), "set_module_specifier"))
      <4>. DEFINE e == Call(d, "set_module_specifier", t)
      <4>1. Specified(e) /\ ~e.broken BY <2>2, ClauseCalls
      <4>2. Reached(Fresh("after_module_spec"), e) BY <3>2, <4>1, ClearLinks
      <4> QED BY <2>1, <3>1, <3>2, <4>1, <4>2, CallAdvances
    <3>6. Advances(f, d, t, Calling(PushSub(f, NamedImports), "init_named_imports"))
      <4>1. NamedImports.state = "named_import" /\ NamedImports.on \cap {"awaiting_sub"} = {}
        BY FrameFields DEF NamedImports
      <4>2. /\ FromNamed(Call(d, "init_named_imports", t))
            /\ ~Call(d, "init_named_imports", t).broken
        BY <2>2, ClauseCalls
      <4> QED BY <1>4, <2>1, <2>6, <3>1, <4>1, <4>2, SubCallAdvances
    <3> QED
      BY <1>1, <1>4, <2>4, <2>6, <3>4, <3>5, <3>6, AdvancesVisitor
         DEF ImportProcess, AfterImport
  <2> QED BY <2>5, <2>6
<1> QED BY <1>2, <1>3, <1>4

LEMMA BindingAdvances ==
  ASSUME NEW f, IsFrame(f), f.state \in {"after_type", "after_comma"}, Idle(f),
         NEW d \in DeclarationSet, Held(f, d), Reached(f, d), NEW t
  PROVE  Advances(f, d, t, ImportProcess(f, t))
<1>1. ~d.broken BY DEF DeclarationSet
<1>2. /\ f.state \in ImportLink /\ "expect_from" \in ImportLink /\ "expect_as" \in ImportLink
      /\ "after_from" \in ImportLink /\ "after_comma" \in ImportLink
      /\ "after_equals" \in ImportLink /\ "after_default" \in ImportLink
  BY DEF ImportLink, ImportStateName
<1>3. ~EqualsLink(f) BY DEF EqualsLink
<1>4. \A s \in ImportLink : Clear(Fresh(s)) /\ Fresh(s).state = s BY FreshClear
<1>5. Advances(f, d, t, Expected) BY <1>1, AdvancesThrow
<1>6. NamedImports.state = "named_import" /\ NamedImports.on \cap {"awaiting_sub"} = {}
  BY FrameFields DEF NamedImports
<1>7. CASE "post_sub" \in f.on
  <2>1. AtFrom(d) BY <1>7, Stages DEF Reached
  <2>2. Reached(Fresh("expect_from"), d) BY <1>2, <1>4, <2>1, ClearLinks
  <2>3. Advances(f, d, t, Reprocess(Push(f, Fresh("expect_from"))))
    BY <1>1, <1>2, <1>3, <1>4, <2>2, NextAdvances
  <2> QED BY <1>7, <2>3 DEF ImportProcess, AfterType, AfterComma
<1>8. CASE "post_sub" \notin f.on /\ f.state = "after_comma"
  <2>1. AtComma(d) BY <1>8 DEF Reached
  <2>2. Reached(Fresh("expect_as"), d) BY <1>2, <1>4, <2>1, Stages, ClearLinks
  <2>3. Advances(f, d, t, Push(f, Fresh("expect_as")))
    BY <1>1, <1>2, <1>3, <1>4, <2>2, NextAdvances
  <2>4. Advances(f, d, t, Calling(PushSub(f, NamedImports), "init_named_imports"))
    <3>1. /\ FromNamed(Call(d, "init_named_imports", t))
          /\ ~Call(d, "init_named_imports", t).broken
      BY <2>1, ClauseCalls
    <3> QED BY <1>2, <1>3, <1>6, <1>8, <3>1, SubCallAdvances
  <2> QED BY <1>1, <1>5, <1>8, <2>3, <2>4, AdvancesVisitor DEF ImportProcess, AfterComma
<1>9. CASE "post_sub" \notin f.on /\ f.state = "after_type"
  <2>1. AtClause(d) /\ AtDefault(d) BY <1>9, Stages DEF Reached
  <2>2. ASSUME NEW b, NEW s \in ImportLink, ~Call(d, b, t).broken,
               Reached(Fresh(s), Call(d, b, t))
        PROVE  Advances(f, d, t, Calling(Push(f, Fresh(s)), b))
    BY <1>2, <1>3, <1>4, <2>2, CallAdvances
  <2>3. Advances(f, d, t, Calling2(PushSub(f, NamedImports), "set_type_keyword",
                                   "init_named_imports"))
    <3>. DEFINE e == Call(Call(d, "set_type_keyword", t), "init_named_imports", t)
    <3>1. ~e.broken /\ FromNamed(e) BY <2>1, TypeKeywordCalls
    <3>. HIDE DEF e
    <3>2. Grows(f, d, e) BY <1>2, <1>3, <3>1, GrowsLink
    <3>3. Advances(f, e, t, PushSub(f, NamedImports)) BY <1>6, <1>9, <3>1, SubAdvances
    <3>4. Silent(PushSub(f, NamedImports)) BY SilentResults DEF PushSub
    <3> QED BY <3>2, <3>3, <3>4, AdvancesCalling2 DEF e
  <2>4. /\ Advances(f, d, t, Calling(Push(f, Fresh("expect_as")), "set_type_keyword"))
        /\ Advances(f, d, t, Calling(Push(f, Fresh("after_default")), "set_type_keyword"))
    <3>. DEFINE e == Call(d, "set_type_keyword", t)
    <3>1. ~e.broken /\ AtNamespace(e) /\ AtDefault(e) BY <2>1, TypeKeywordCalls
    <3>2. Reached(Fresh("expect_as"), e) /\ Reached(Fresh("after_default"), e)
      BY <1>2, <1>4, <3>1, ClearLinks
    <3> QED BY <1>2, <2>2, <3>1, <3>2
  <2>5. /\ Advances(f, d, t, Calling(Push(f, Fresh("after_from")), "set_default_binding"))
        /\ Advances(f, d, t, Calling(Push(f, Fresh("after_comma")), "set_default_binding"))
    <3>. DEFINE e == Call(d, "set_default_binding", t)
    <3>1. ~e.broken /\ AtFrom(e) /\ AtComma(e) BY <2>1, ClauseCalls
    <3>2. Reached(Fresh("after_from"), e) /\ Reached(Fresh("after_comma"), e)
      BY <1>2, <1>4, <3>1, ClearLinks
    <3> QED BY <1>2, <2>2, <3>1, <3>2
  <2>6. Advances(f, d, t, Calling(Push(f, Fresh("after_equals")), "set_equals_name"))
    <3>. DEFINE e == Call(d, "set_equals_name", t)
    <3>1. ~e.broken /\ AtEquals(e) BY <2>1, FormCalls
    <3>2. Reached(Fresh("after_equals"), e) BY <1>2, <1>4, <3>1, ClearLinks
    <3> QED BY <1>2, <2>2, <3>1, <3>2
  <2> QED
    BY <1>1, <1>5, <1>9, <2>3, <2>4, <2>5, <2>6, AdvancesVisitor DEF ImportProcess, AfterType
<1> QED BY <1>7, <1>8, <1>9

LEMMA DefaultAdvances ==
  ASSUME NEW f, IsFrame(f), f.state = "after_default", Idle(f),
         NEW d \in DeclarationSet, Held(f, d), Reached(f, d), NEW t
  PROVE  Advances(f, d, t, ImportProcess(f, t))
<1>1. ~d.broken BY DEF DeclarationSet
<1>2. /\ f.state \in ImportLink /\ "after_from" \in ImportLink
      /\ "after_comma" \in ImportLink /\ "after_equals" \in ImportLink
  BY DEF ImportLink, ImportStateName
<1>3. AtDefault(d) BY DEF Reached
<1>4. \A s \in ImportLink : /\ Clear(Fresh(s)) /\ Fresh(s).state = s
                            /\ Clear(Inherit(f, s)) /\ Inherit(f, s).state = s
  BY FreshClear
<1>5. Advances(f, d, t, Expected) BY <1>1, AdvancesThrow
<1>6. Advances(f, d, t, Calling(Push(f, Inherit(f, "after_equals")), "set_equals_name"))
  <2>. DEFINE e == Call(d, "set_equals_name", t)
  <2>1. ~e.broken /\ AtEquals(e) BY <1>3, FormCalls
  <2>2. Reached(Inherit(f, "after_equals"), e) BY <1>2, <1>4, <2>1, ClearLinks
  <2>3. EqualsOnly(e) BY <2>1, Stages
  <2> QED BY <1>2, <1>4, <2>1, <2>2, <2>3, CallAdvances
<1>7. "equals_only" \notin f.on =>
        /\ Advances(f, d, t, Calling(Push(f, Fresh("after_from")), "set_default_binding"))
        /\ Advances(f, d, t, Calling(Push(f, Fresh("after_comma")), "set_default_binding"))
  <2>. DEFINE e == Call(d, "set_default_binding", t)
  <2>1. ~e.broken /\ AtFrom(e) /\ AtComma(e) BY <1>3, ClauseCalls
  <2>2. Reached(Fresh("after_from"), e) /\ Reached(Fresh("after_comma"), e)
    BY <1>2, <1>4, <2>1, ClearLinks
  <2>3. "equals_only" \notin f.on => ~EqualsLink(f) BY DEF EqualsLink
  <2> QED BY <1>2, <1>4, <2>1, <2>2, <2>3, CallAdvances
<1> QED BY <1>1, <1>5, <1>6, <1>7, AdvancesVisitor DEF ImportProcess, AfterDefault

(* From the bindings to the module specifier.                              *)
LEMMA FromAdvances ==
  ASSUME NEW f, IsFrame(f), Idle(f),
         f.state \in {"expect_from", "after_from", "expect_as", "expect_namespace_name"},
         NEW d \in DeclarationSet, Held(f, d), Reached(f, d), NEW t
  PROVE  Advances(f, d, t, ImportProcess(f, t))
<1>1. ~d.broken BY DEF DeclarationSet
<1>2. /\ f.state \in ImportLink /\ "after_from" \in ImportLink /\ "expect_from" \in ImportLink
      /\ "expect_namespace_name" \in ImportLink /\ "after_module_spec" \in ImportLink
  BY DEF ImportLink, ImportStateName
<1>3. ~EqualsLink(f) BY DEF EqualsLink
<1>4. \A s \in ImportLink : Clear(Fresh(s)) /\ Fresh(s).state = s BY FreshClear
<1>5. Advances(f, d, t, Expected) BY <1>1, AdvancesThrow
<1>6. CASE f.state = "expect_from"
  <2>1. AtFrom(d) BY <1>6 DEF Reached
  <2>2. Reached(Fresh("after_from"), d) BY <1>2, <1>4, <2>1, ClearLinks
  <2>3. Advances(f, d, t, Push(f, Fresh("after_from")))
    BY <1>1, <1>2, <1>3, <1>4, <2>2, NextAdvances
  <2> QED BY <1>1, <1>5, <1>6, <2>3, AdvancesVisitor DEF ImportProcess, ExpectFrom
<1>7. CASE f.state = "after_from"
  <2>. DEFINE e == Call(d, "set_module_specifier", t)
  <2>1. AtFrom(d) BY <1>7 DEF Reached
  <2>2. ~e.broken /\ Specified(e) BY <2>1, ClauseCalls
  <2>3. Reached(Fresh("after_module_spec"), e) BY <1>2, <1>4, <2>2, ClearLinks
  <2>4. Advances(f, d, t, Calling(Push(f, Fresh("after_module_spec")), "set_module_specifier"))
    BY <1>2, <1>3, <1>4, <2>2, <2>3, CallAdvances
  <2> QED BY <1>1, <1>5, <1>7, <2>4, AdvancesVisitor DEF ImportProcess, AfterFrom
<1>8. CASE f.state = "expect_as"
  <2>1. AtNamespace(d) BY <1>8 DEF Reached
  <2>2. Reached(Fresh("expect_namespace_name"), d) BY <1>2, <1>4, <2>1, ClearLinks
  <2>3. Advances(f, d, t, Push(f, Fresh("expect_namespace_name")))
    BY <1>1, <1>2, <1>3, <1>4, <2>2, NextAdvances
  <2> QED BY <1>1, <1>5, <1>8, <2>3, AdvancesVisitor DEF ImportProcess, ExpectAs
<1>9. CASE f.state = "expect_namespace_name"
  <2>. DEFINE e == Call(d, "set_namespace_name", t)
  <2>1. AtNamespace(d) BY <1>9 DEF Reached
  <2>2. ~e.broken /\ AtFrom(e) BY <2>1, ClauseCalls
  <2>3. Reached(Fresh("expect_from"), e) BY <1>2, <1>4, <2>2, ClearLinks
  <2>4. Advances(f, d, t, Calling(Push(f, Fresh("expect_from")), "set_namespace_name"))
    BY <1>2, <1>3, <1>4, <2>2, <2>3, CallAdvances
  <2> QED BY <1>1, <1>5, <1>9, <2>4, AdvancesVisitor DEF ImportProcess, ExpectNamespaceName
<1> QED BY <1>6, <1>7, <1>8, <1>9

(* The equals form.                                                        *)
LEMMA EqualsAdvances ==
  ASSUME NEW f, IsFrame(f), Idle(f),
         f.state \in {"after_equals", "expect_require_paren", "after_require_open"},
         NEW d \in DeclarationSet, Held(f, d), Reached(f, d), NEW t
  PROVE  Advances(f, d, t, ImportProcess(f, t))
<1>1. ~d.broken BY DEF DeclarationSet
<1>2. /\ f.state \in ImportLink /\ "expect_require_paren" \in ImportLink
      /\ "after_require_open" \in ImportLink /\ "after_require_module" \in ImportLink
      /\ "import_entity" \in ImportLink
  BY DEF ImportLink, ImportStateName
<1>3. EqualsLink(f) => f.state = "after_equals" /\ "equals_only" \in f.on BY DEF EqualsLink
<1>4. \A s \in ImportLink : Clear(Fresh(s)) /\ Fresh(s).state = s BY FreshClear
<1>5. Advances(f, d, t, Expected) BY <1>1, AdvancesThrow
<1>6. CASE f.state = "after_equals"
  <2>1. AtEquals(d) BY <1>6 DEF Reached
  <2>2. Advances(f, d, t, Calling(Push(f, Fresh("import_entity")), "add_entity_identifier"))
    <3>. DEFINE e == Call(d, "add_entity_identifier", t)
    <3>1. ~e.broken /\ Entity(e) BY <2>1, FormCalls
    <3>2. Reached(Fresh("import_entity"), e) /\ EqualsOnly(e)
      BY <1>2, <1>4, <3>1, ClearLinks, Stages
    <3> QED BY <1>2, <1>4, <3>1, <3>2, CallAdvances
  <2>3. "equals_only" \notin f.on =>
          Advances(f, d, t, Calling(Push(f, Fresh("expect_require_paren")), "init_require"))
    <3>. DEFINE e == Call(d, "init_require", t)
    <3>1. ~e.broken /\ AtRequire(e) BY <2>1, FormCalls
    <3>2. Reached(Fresh("expect_require_paren"), e) BY <1>2, <1>4, <3>1, ClearLinks
    <3> QED BY <1>2, <1>3, <1>4, <3>1, <3>2, CallAdvances
  <2> QED BY <1>1, <1>5, <1>6, <2>2, <2>3, AdvancesVisitor DEF ImportProcess, AfterEquals
<1>7. CASE f.state = "expect_require_paren"
  <2>1. AtRequire(d) BY <1>7 DEF Reached
  <2>2. Reached(Fresh("after_require_open"), d) BY <1>2, <1>4, <2>1, ClearLinks
  <2>3. Advances(f, d, t, Push(f, Fresh("after_require_open")))
    BY <1>1, <1>2, <1>3, <1>4, <1>7, <2>2, NextAdvances
  <2> QED BY <1>1, <1>5, <1>7, <2>3, AdvancesVisitor DEF ImportProcess, ExpectRequireParen
<1>8. CASE f.state = "after_require_open"
  <2>. DEFINE e == Call(d, "set_require_module_specifier", t)
  <2>1. AtRequire(d) BY <1>8 DEF Reached
  <2>2. ~e.broken /\ Required(e) BY <2>1, FormCalls
  <2>3. Reached(Fresh("after_require_module"), e) BY <1>2, <1>4, <2>2, ClearLinks
  <2>4. Advances(f, d, t, Calling(Push(f, Fresh("after_require_module")),
                                  "set_require_module_specifier"))
    BY <1>2, <1>3, <1>4, <1>8, <2>2, <2>3, CallAdvances
  <2> QED BY <1>1, <1>5, <1>8, <2>4, AdvancesVisitor DEF ImportProcess, AfterRequireOpen
<1> QED BY <1>6, <1>7, <1>8

(* The states that may end an import.                                      *)
Ending == {"after_require_module", "import_entity", "after_module_spec"}

LEMMA EndingStays ==
  ASSUME NEW f, IsFrame(f), f.state \in Ending, Idle(f), NEW d, ~d.broken, Reached(f, d), NEW t
  PROVE  /\ Finished(d)
         /\ \A off, on : "awaiting_sub" \notin on =>
              /\ Advances(f, d, t, Stay(Turn(f, off, on)))
              /\ Advances(f, d, t, Stay(TurnOn(f, on)))
         /\ Advances(f, d, t, Complete(f, NullNode))
         /\ Advances(f, d, t, Reprocess(Complete(f, NullNode)))
         /\ Advances(f, d, t, EndOfImport(f, t))
<1>1. Finished(d) BY Stages DEF Reached, Ending
<1>2. f.state \in ImportStateName /\ "awaiting_sub" \notin f.on
  BY DEF Idle, Ending, ImportStateName
<1>3. ASSUME NEW g, g.state = f.state, "awaiting_sub" \notin g.on
      PROVE  Advances(f, d, t, Stay(g))
  <2>1. Held(g, d) BY <1>3 DEF Held, Ending
  <2>2. Reached(g, d) BY <1>3 DEF Reached, Ending
  <2> QED BY <2>1, <2>2, AdvancesStay
<1>4. ASSUME NEW off, NEW on, "awaiting_sub" \notin on
      PROVE  Advances(f, d, t, Stay(Turn(f, off, on))) /\ Advances(f, d, t, Stay(TurnOn(f, on)))
  <2>1. Turn(f, off, on).state = f.state /\ Turn(f, off, on).on = (f.on \ off) \cup on
        /\ TurnOn(f, on).state = f.state /\ TurnOn(f, on).on = f.on \cup on
    BY TurnFields
  <2> QED BY <1>2, <1>3, <1>4, <2>1
<1>5. Advances(f, d, t, Complete(f, NullNode)) BY <1>1, AdvancesComplete
<1>6. Advances(f, d, t, Reprocess(Complete(f, NullNode)))
  <2>1. DOMAIN Complete(f, NullNode) = ResultField BY SilentResults DEF Silent
  <2> QED BY <1>5, <2>1, AdvancesReprocess
<1>7. Advances(f, d, t, EndOfImport(f, t)) BY <1>5, <1>6, AdvancesThrow DEF EndOfImport
<1> QED BY <1>1, <1>4, <1>5, <1>6, <1>7

LEMMA EndingAdvances ==
  ASSUME NEW f, IsFrame(f), Idle(f), f.state \in Ending,
         NEW d \in DeclarationSet, Held(f, d), Reached(f, d), NEW t
  PROVE  Advances(f, d, t, ImportProcess(f, t))
<1>1. ~d.broken BY DEF DeclarationSet
<1>2. /\ Advances(f, d, t, Complete(f, NullNode))
      /\ Advances(f, d, t, Reprocess(Complete(f, NullNode)))
      /\ Advances(f, d, t, EndOfImport(f, t))
      /\ Advances(f, d, t, Stay(TurnOn(f, {"closed"})))
      /\ Advances(f, d, t, Stay(TurnOn(f, {"expecting_id"})))
      /\ Advances(f, d, t, Stay(TurnOn(f, {"saw_newline"})))
  BY <1>1, EndingStays
<1>3. Advances(f, d, t, Expected) BY <1>1, AdvancesThrow
<1>4. f.state \in ImportLink BY DEF Ending, ImportLink, ImportStateName
<1>5. CASE f.state = "after_require_module"
  BY <1>1, <1>2, <1>3, <1>5, AdvancesVisitor DEF ImportProcess, AfterRequireModule
<1>6. CASE f.state = "import_entity"
  <2>. DEFINE e == Call(d, "add_entity_identifier", t)
              g == Turn(f, {"expecting_id"}, {})
  <2>1. Entity(d) BY <1>6 DEF Reached
  <2>2. ~e.broken /\ Entity(e) BY <2>1, FormCalls
  <2>3. EqualsOnly(e) BY <2>2, Stages
  <2>. HIDE DEF e
  <2>4. Grows(f, d, e) BY <1>4, <2>2, <2>3, GrowsLink
  <2>5. Reached(f, e) BY <1>6, <2>2 DEF Reached
  <2>6. Advances(f, e, t, Stay(g)) BY <2>2, <2>5, EndingStays
  <2>7. Advances(f, d, t, Calling(Stay(g), "add_entity_identifier"))
    BY <2>4, <2>6, SilentResults, AdvancesCalling DEF e
  <2> QED BY <1>1, <1>2, <1>3, <1>6, <2>7, AdvancesVisitor DEF ImportProcess, ImportEntity
<1>7. CASE f.state = "after_module_spec"
  <2>. DEFINE e == Call(d, "set_attributes_keyword", t)
              c == Frame("import_attributes", {"expect_open_brace"})
  <2>1. c.state = "import_attributes" /\ c.on \cap {"awaiting_sub"} = {} BY FrameFields
  <2>2. Specified(d) BY <1>7 DEF Reached
  <2>3. ~e.broken /\ Attributed(e) BY <2>2, FormCalls
  <2>4. ~EqualsLink(f) BY <1>7 DEF EqualsLink
  <2>. HIDE DEF c
  <2>5. Advances(f, d, t, Calling(PushSub(f, c), "set_attributes_keyword"))
    BY <1>4, <1>7, <2>1, <2>3, <2>4, SubCallAdvances
  <2> QED BY <1>1, <1>2, <1>3, <1>7, <2>5 DEF ImportProcess, AfterModuleSpec, c
<1> QED BY <1>5, <1>6, <1>7 DEF Ending

LEMMA AttributesAdvances ==
  ASSUME NEW f, IsFrame(f), Idle(f), f.state = "import_attributes",
         NEW d \in DeclarationSet, Held(f, d), Reached(f, d), NEW t
  PROVE  Advances(f, d, t, ImportProcess(f, t))
<1>1. ~d.broken BY DEF DeclarationSet
<1>2. Attributed(d) /\ "awaiting_sub" \notin f.on
  BY DEF Held, Idle, ImportStateName
<1>3. ASSUME NEW e, ~e.broken, Attributed(e), NEW from, NEW to, to # "awaiting_sub"
      PROVE  Advances(f, e, t, Phase(f, from, to))
  <2>. DEFINE g == Turn(f, {from}, {to})
  <2>1. g.state = f.state /\ g.on = (f.on \ {from}) \cup {to} BY TurnFields
  <2>. HIDE DEF g
  <2>2. Held(g, e) BY <1>2, <1>3, <2>1 DEF Held
  <2>3. Reached(g, e) BY <2>1 DEF Reached
  <2> QED BY <1>3, <2>2, <2>3, AdvancesStay DEF Phase, g
<1>4. Advances(f, d, t, Calling(Phase(f, "after_colon", "after_value"), "add_attribute"))
  <2>. DEFINE e == Call(d, "add_attribute", t)
  <2>1. ~e.broken /\ Attributed(e) BY <1>2, AttributeCall DEF Alike
  <2>. HIDE DEF e
  <2>2. Grows(f, d, e) BY <1>2, <2>1, GrowsAttributes
  <2>3. Advances(f, e, t, Phase(f, "after_colon", "after_value")) BY <1>3, <2>1
  <2>4. Silent(Phase(f, "after_colon", "after_value")) BY SilentResults DEF Phase
  <2> QED BY <2>2, <2>3, <2>4, AdvancesCalling DEF e
<1>5. Advances(f, d, t, Complete(f, NullNode))
  BY <1>1, AdvancesComplete DEF ImportLink
<1>6. /\ Advances(f, d, t, Phase(f, "expect_open_brace", "expect_key_or_close"))
      /\ Advances(f, d, t, Phase(f, "expect_key_or_close", "after_key"))
      /\ Advances(f, d, t, Phase(f, "after_key", "after_colon"))
      /\ Advances(f, d, t, Phase(f, "after_value", "expect_key_or_close"))
  BY <1>1, <1>2, <1>3
<1>7. Advances(f, d, t, Expected) BY <1>1, AdvancesThrow
<1> QED
  BY <1>1, <1>4, <1>5, <1>6, <1>7, AdvancesVisitor DEF ImportProcess, ImportAttributes

LEMMA ImportAdvances ==
  ASSUME NEW f, IsFrame(f), Idle(f), f.state \in ImportStateName,
         NEW d \in DeclarationSet, Held(f, d), Reached(f, d), NEW t
  PROVE  Advances(f, d, t, ImportProcess(f, t))
BY InitialAdvances, BindingAdvances, DefaultAdvances, FromAdvances, EqualsAdvances,
   EndingAdvances, AttributesAdvances DEF ImportStateName, Ending

LEMMA ImportAcceptAdvances ==
  ASSUME NEW f, IsFrame(f), Steady(f), Awaits(f), f.state \in ImportStateName,
         NEW d \in DeclarationSet, Held(f, d), NEW t, NEW n,
         "awaiting_sub" \notin f.on => Finished(d)
  PROVE  Advances(f, d, t, ImportAcceptChild(f, n))
<1>1. ~d.broken BY DEF DeclarationSet
<1>2. f.state # "import_attributes" BY DEF Awaits, Leaf
<1>3. CASE "awaiting_sub" \in f.on
  <2>. DEFINE g == Turn(f, {"awaiting_sub"}, {"post_sub"})
  <2>1. g.state = f.state /\ g.on = (f.on \ {"awaiting_sub"}) \cup {"post_sub"} BY TurnFields
  <2>. HIDE DEF g
  <2>2. f.state \in {"after_import", "after_type", "after_comma", "after_module_spec"}
    BY <1>3 DEF Held
  <2>3. Held(g, d) BY <1>3, <2>1, <2>2 DEF Held, ImportStateName
  <2>4. Reached(g, d) BY <1>3, <2>1, <2>2, Stages DEF Held, Reached
  <2>5. Advances(f, d, t, Stay(g)) BY <1>1, <2>3, <2>4, AdvancesStay
  <2>6. f.state \notin {"import", "import_attributes"} BY <2>2
  <2> QED BY <1>3, <2>2, <2>5, <2>6 DEF ImportAcceptChild, g
<1>4. CASE "awaiting_sub" \notin f.on
  <2>1. /\ Advances(f, d, t, Complete(f, Node("import")))
        /\ Advances(f, d, t, Complete(f, NullNode))
    BY <1>1, <1>4, AdvancesComplete
  <2>2. CASE f.state = "import" BY <1>4, <2>1, <2>2 DEF ImportAcceptChild
  <2>3. CASE f.state # "import" BY <1>2, <1>4, <2>1, <2>3 DEF ImportAcceptChild
  <2> QED BY <2>2, <2>3
<1> QED BY <1>3, <1>4

LEMMA ImportEofAdvances ==
  ASSUME NEW f, f.state \in ImportStateName, NEW d \in DeclarationSet, Reached(f, d), NEW t
  PROVE  Advances(f, d, t, ImportOnEof(f))
<1>1. ~d.broken BY DEF DeclarationSet
<1>2. f.state \in Ending => Finished(d) BY Stages DEF Reached, Ending
<1> QED BY <1>1, <1>2, AdvancesComplete, AdvancesThrow DEF ImportOnEof, Ending

---------------------------------------------------------------------------
(* The other states.                                                       *)

(* Results of a state that is not of an import, by how they are built.     *)
LEMMA PlainResults ==
  ASSUME NEW f, IsFrame(f), f.state \notin ImportStateName, NEW d, ~d.broken, Held(f, d),
         NEW t
  PROVE  /\ \A g : g.state = f.state => Advances(f, d, t, Stay(g))
         /\ Advances(f, d, t, Stay(f))
         /\ \A on : Advances(f, d, t, Stay(TurnOn(f, on)))
         /\ \A off, on : Advances(f, d, t, Stay(Turn(f, off, on)))
         /\ \A g, c : g.state = f.state /\ Held(c, d) /\ Reached(c, d) =>
              Advances(f, d, t, Push(g, c)) /\ Advances(f, d, t, Reprocess(Push(g, c)))
         /\ \A g, n : Advances(f, d, t, Complete(g, n))
                      /\ Advances(f, d, t, Reprocess(Complete(g, n)))
         /\ \A e : Advances(f, d, t, Throw(e))
         /\ \A g : Advances(f, d, t, NullOpt(g))
         /\ Advances(f, d, t, Expected) /\ Advances(f, d, t, LogicError)
<1>1. ASSUME NEW g, g.state = f.state PROVE Held(g, d) /\ Reached(g, d)
  BY <1>1 DEF Held, Reached, ImportStateName
<1>2. f.state \notin ImportLink BY DEF ImportLink
<1>3. /\ \A g, c : DOMAIN Push(g, c) = ResultField
      /\ \A g, n : DOMAIN Complete(g, n) = ResultField
  BY SilentResults DEF Silent
<1>4. \A g : g.state = f.state => Advances(f, d, t, Stay(g)) BY <1>1, AdvancesStay
<1>5. \A g, c : g.state = f.state /\ Held(c, d) /\ Reached(c, d) => Advances(f, d, t, Push(g, c))
  BY <1>1, AdvancesPush
<1>6. \A g, n : Advances(f, d, t, Complete(g, n)) BY <1>2, AdvancesComplete
<1>7. ASSUME NEW on PROVE TurnOn(f, on).state = f.state BY TurnFields
<1>8. ASSUME NEW off, NEW on PROVE Turn(f, off, on).state = f.state BY TurnFields
<1>9. /\ Advances(f, d, t, Stay(f))
      /\ \A on : Advances(f, d, t, Stay(TurnOn(f, on)))
      /\ \A off, on : Advances(f, d, t, Stay(Turn(f, off, on)))
  BY <1>4, <1>7, <1>8
<1> QED BY <1>3, <1>4, <1>5, <1>6, <1>9, AdvancesReprocess, AdvancesThrow DEF LogicError

(* Named imports and exports: the calls of a specifier.                    *)
LEMMA SpecifierCalling ==
  ASSUME NEW f, NEW d \in DeclarationSet, Held(f, d), NEW t,
         NEW c \in {"new_specifier", "specifier_type", "specifier_name",
                    "specifier_demote_type", "specifier_alias"},
         NEW r, Silent(r), Advances(f, Call(d, c, t), t, r)
  PROVE  Advances(f, d, t, Calling(r, c))
<1>1. Grows(f, d, Call(d, c, t)) BY SpecifierCall, GrowsAlike
<1> QED BY <1>1, AdvancesCalling

LEMMA SpecifierCallHeld ==
  ASSUME NEW f, NEW d \in DeclarationSet, Held(f, d), NEW t,
         NEW c \in {"new_specifier", "specifier_type", "specifier_name",
                    "specifier_demote_type", "specifier_alias"}
  PROVE  Held(f, Call(d, c, t)) /\ ~Call(d, c, t).broken
BY SpecifierCall, GrowsAlike DEF Alike

LEMMA SpecifierAdvances ==
  ASSUME NEW f, IsFrame(f), f.state \in SpecifierStateName, NEW d \in DeclarationSet,
         Held(f, d), NEW t
  PROVE  Advances(f, d, t, SpecifierProcess(f, t))
<1>1. ~d.broken BY DEF DeclarationSet
<1>2. f.state \notin ImportStateName
  BY DEF SpecifierStateName, SpecifierListName, ImportStateName
<1>3. \A s \in SpecifierStateName \ SpecifierListName : Frame(s, {}).state = s BY FrameFields
<1>4. ASSUME NEW e, NEW s \in {"specifier_head", "specifier_resolve_type", "specifier_alias"}
      PROVE  Held(Frame(s, {}), e) /\ Reached(Frame(s, {}), e)
  <2>1. Frame(s, {}).state = s BY FrameFields
  <2>2. s \notin Guarded /\ s \notin ImportStateName BY DEF Guarded, ImportStateName
  <2> QED BY <2>1, <2>2, Unguarded
<1>5. /\ Advances(f, d, t, Stay(f)) /\ Advances(f, d, t, Expected)
      /\ \A on : Advances(f, d, t, Stay(TurnOn(f, on)))
      /\ \A off, on : Advances(f, d, t, Stay(Turn(f, off, on)))
  BY <1>1, <1>2, PlainResults
<1>6. ASSUME NEW c \in {"new_specifier", "specifier_type", "specifier_name",
                        "specifier_demote_type", "specifier_alias"}
      PROVE  /\ Advances(f, d, t, Calling(Complete(f, NullNode), c))
             /\ Advances(f, d, t, Calling(Reprocess(Complete(f, NullNode)), c))
             /\ \A p : Held(p, Call(d, c, t)) /\ Reached(p, Call(d, c, t)) =>
                  /\ Advances(f, d, t, Calling(Push(f, p), c))
                  /\ Advances(f, d, t, Calling(Reprocess(Push(f, p)), c))
  <2>. DEFINE e == Call(d, c, t)
  <2>1. Held(f, e) /\ ~e.broken BY SpecifierCallHeld
  <2>. HIDE DEF e
  <2>2. /\ Advances(f, e, t, Complete(f, NullNode))
        /\ Advances(f, e, t, Reprocess(Complete(f, NullNode)))
        /\ \A p : Held(p, e) /\ Reached(p, e) =>
             Advances(f, e, t, Push(f, p)) /\ Advances(f, e, t, Reprocess(Push(f, p)))
    BY <1>2, <2>1, PlainResults
  <2>3. /\ Silent(Complete(f, NullNode)) /\ Silent(Reprocess(Complete(f, NullNode)))
        /\ \A p : Silent(Push(f, p)) /\ Silent(Reprocess(Push(f, p)))
    BY SilentResults, SilentReprocess
  <2> QED BY <2>2, <2>3, SpecifierCalling DEF e
<1>7. CASE f.state \in SpecifierListName
  <2>. DEFINE e == Call(d, "new_specifier", t)
              p == Frame("specifier", {})
  <2>1. Held(f, e) BY SpecifierCallHeld
  <2>2. p.state = "specifier" BY FrameFields
  <2>. HIDE DEF e, p
  <2>3. FromNamed(e) \/ e.form = "export" BY <1>7, <2>1 DEF Held, SpecifierListName
  <2>4. Held(p, e) /\ Reached(p, e) BY <2>2, <2>3 DEF Held, Reached, ImportStateName
  <2>5. Advances(f, d, t, Calling(Reprocess(Push(f, p)), "new_specifier"))
    BY <1>6, <2>4 DEF e
  <2>6. Advances(f, d, t, Complete(f, NullNode)) BY <1>1, <1>2, PlainResults
  <2>7. Advances(f, d, t, SpecifierList(f, t)) BY <1>5, <2>5, <2>6 DEF SpecifierList, p
  <2> QED BY <1>7, <2>7 DEF SpecifierProcess, SpecifierListName
<1>8. CASE f.state = "specifier"
  <2>1. /\ Advances(f, d, t, Reprocess(Push(f, Frame("specifier_head", {}))))
        /\ Advances(f, d, t, Push(f, Frame("specifier_alias", {})))
    BY <1>1, <1>2, <1>4, PlainResults
  <2>2. Advances(f, d, t, Calling(Reprocess(Complete(f, NullNode)), "store_specifier"))
    <3>. DEFINE e == Call(d, "store_specifier", t)
    <3>0. FromNamed(d) \/ d.form = "export" BY <1>8 DEF Held
    <3>1. Alike(d, e) /\ e.attribute_values = d.attribute_values BY <3>0, StoreCall
    <3>. HIDE DEF e
    <3>2. Grows(f, d, e) /\ Held(f, e) /\ ~e.broken BY <3>0, <3>1, GrowsAlike DEF Alike
    <3>3. Advances(f, e, t, Reprocess(Complete(f, NullNode))) BY <1>2, <3>2, PlainResults
    <3> QED BY <3>2, <3>3, SilentResults, SilentReprocess, AdvancesCalling DEF e
  <2>3. f.state \notin SpecifierListName BY <1>8 DEF SpecifierListName
  <2> QED BY <1>5, <1>8, <2>1, <2>2, <2>3 DEF SpecifierProcess, SpecifierItem
<1>9. CASE f.state = "specifier_head"
  <2>1. Advances(f, d, t, Calling(Push(f, Frame("specifier_resolve_type", {})), "specifier_type"))
    BY <1>4, <1>6
  <2>2. Advances(f, d, t, Calling(Complete(f, NullNode), "specifier_name")) BY <1>6
  <2>3. f.state \notin SpecifierListName BY <1>9 DEF SpecifierListName
  <2> QED BY <1>5, <1>9, <2>1, <2>2, <2>3 DEF SpecifierProcess, SpecifierHead, Visitor
<1>10. CASE f.state = "specifier_resolve_type"
  <2>1. /\ Advances(f, d, t, Calling(Complete(f, NullNode), "specifier_name"))
        /\ Advances(f, d, t, Calling(Reprocess(Complete(f, NullNode)), "specifier_demote_type"))
    BY <1>6
  <2>2. f.state \notin SpecifierListName BY <1>10 DEF SpecifierListName
  <2> QED BY <1>5, <1>10, <2>1, <2>2 DEF SpecifierProcess, SpecifierResolveType, Visitor
<1>11. CASE f.state = "specifier_alias"
  <2>1. Advances(f, d, t, Calling(Complete(f, NullNode), "specifier_alias")) BY <1>6
  <2>2. f.state \notin SpecifierListName BY <1>11 DEF SpecifierListName
  <2> QED BY <1>5, <1>11, <2>1, <2>2 DEF SpecifierProcess, SpecifierAlias, Visitor
<1> QED BY <1>7, <1>8, <1>9, <1>10, <1>11 DEF SpecifierStateName

LEMMA SpecifierAcceptAdvances ==
  ASSUME NEW f, IsFrame(f), f.state \in SpecifierStateName, NEW d \in DeclarationSet,
         Held(f, d), NEW t, NEW n
  PROVE  Advances(f, d, t, SpecifierAcceptChild(f, n))
<1>1. ~d.broken BY DEF DeclarationSet
<1>2. f.state \notin ImportStateName
  BY DEF SpecifierStateName, SpecifierListName, ImportStateName
<1>3. /\ Advances(f, d, t, Complete(f, NullNode)) /\ Advances(f, d, t, LogicError)
      /\ \A on : Advances(f, d, t, Stay(TurnOn(f, on)))
      /\ \A off, on : Advances(f, d, t, Stay(Turn(f, off, on)))
  BY <1>1, <1>2, PlainResults
<1>4. CASE f.state = "specifier"
  <2>1. Advances(f, d, t, Calling(Complete(f, NullNode), "store_specifier"))
    <3>. DEFINE e == Call(d, "store_specifier", t)
    <3>0. FromNamed(d) \/ d.form = "export" BY <1>4 DEF Held
    <3>1. Alike(d, e) /\ e.attribute_values = d.attribute_values BY <3>0, StoreCall
    <3>. HIDE DEF e
    <3>2. Grows(f, d, e) /\ Held(f, e) /\ ~e.broken BY <3>0, <3>1, GrowsAlike DEF Alike
    <3>3. Advances(f, e, t, Complete(f, NullNode)) BY <1>2, <3>2, PlainResults
    <3> QED BY <3>2, <3>3, SilentResults, AdvancesCalling DEF e
  <2>2. f.state \notin SpecifierListName BY <1>4 DEF SpecifierListName
  <2> QED BY <1>3, <1>4, <2>1, <2>2 DEF SpecifierAcceptChild, SpecifierItemAccept
<1>5. CASE f.state # "specifier"
  BY <1>3, <1>5 DEF SpecifierAcceptChild, SpecifierListAccept
<1> QED BY <1>4, <1>5

(* Exports: the calls of the states after `export`.                        *)
LEMMA ExportCalling ==
  ASSUME NEW f, IsFrame(f), f.state \in ExportStateName \ {"export"},
         NEW d \in DeclarationSet, Held(f, d), NEW t,
         NEW c \in {"set_as_name", "set_semicolon", "set_module_specifier"}
  PROVE  /\ \A n : Advances(f, d, t, Calling(Complete(f, n), c))
         /\ \A p : p.state \notin Guarded => Advances(f, d, t, Calling(Push(f, p), c))
<1>. DEFINE e == Call(d, c, t)
<1>1. ~e.broken /\ (d.form = "export" => e.form = "export") BY ExportCall
<1>. HIDE DEF e
<1>2. Grows(f, d, e) BY <1>1, GrowsExport
<1>3. f.state \notin ImportStateName
      /\ f.state \notin {"named_import", "specifier", "export_specifier_list"}
  BY DEF ExportStateName, ImportStateName
<1>4. Held(f, e) BY <1>1, <1>3 DEF Held, ImportStateName
<1>5. ASSUME NEW n PROVE Advances(f, d, t, Calling(Complete(f, n), c))
  <2>1. Advances(f, e, t, Complete(f, n)) BY <1>1, <1>3, <1>4, PlainResults
  <2> QED BY <1>2, <2>1, SilentResults, AdvancesCalling DEF e
<1>6. ASSUME NEW p, p.state \notin Guarded PROVE Advances(f, d, t, Calling(Push(f, p), c))
  <2>1. Held(p, e) /\ Reached(p, e) BY <1>6, Unguarded DEF Guarded
  <2>2. Advances(f, e, t, Push(f, p)) BY <1>1, <1>3, <1>4, <2>1, PlainResults
  <2> QED BY <1>2, <2>2, SilentResults, AdvancesCalling DEF e
<1> QED BY <1>5, <1>6

(* A new import or export in a scope, and below `export`.                  *)
LEMMA OpenCalling ==
  ASSUME NEW f, IsFrame(f), f.state \in Scope \cup {"export"}, NEW d, NEW t
  PROVE  /\ \A on \in SUBSET {"equals_only"} :
              Advances(f, d, t, Calling(Push(f, Frame("import", on)), "new_import"))
         /\ Advances(f, d, t, Calling(Push(f, Fresh("export_star")), "new_export"))
         /\ Advances(f, d, t, Calling(Push(f, Fresh("named_export")), "new_export"))
<1>1. f.state \notin Guarded /\ f.state \notin ImportStateName
  BY DEF Scope, Guarded, ImportStateName
<1>2. ASSUME NEW c, NEW e, e = Call(d, c, t), ~e.broken, NEW p, Held(p, e), Reached(p, e)
      PROVE  Advances(f, d, t, Calling(Push(f, p), c))
  <2>1. Grows(f, d, e) BY <1>2, GrowsOpen
  <2>2. Held(f, e) BY <1>1, Unguarded
  <2>3. Advances(f, e, t, Push(f, p)) BY <1>1, <1>2, <2>2, PlainResults
  <2> QED BY <1>2, <2>1, <2>3, SilentResults, AdvancesCalling
<1>3. /\ Call(d, "new_import", t) = NewDeclaration("none")
      /\ Call(d, "new_export", t) = NewDeclaration("export")
  BY DEF Call
<1>4. /\ AtClause(NewDeclaration("none")) /\ EqualsOnly(NewDeclaration("none"))
      /\ ~NewDeclaration("none").broken /\ ~NewDeclaration("export").broken
      /\ NewDeclaration("export").form = "export"
  BY DEF NewDeclaration, AtClause, EqualsOnly, Bare
<1>5. ASSUME NEW on \in SUBSET {"equals_only"}
      PROVE  Advances(f, d, t, Calling(Push(f, Frame("import", on)), "new_import"))
  <2>. DEFINE e == NewDeclaration("none")
              p == Frame("import", on)
  <2>1. p.state = "import" /\ "awaiting_sub" \notin p.on BY FrameFields
  <2>0. AtClause(e) /\ EqualsOnly(e) BY <1>4
  <2>. HIDE DEF e, p
  <2>2. Held(p, e) /\ Reached(p, e)
    BY <2>0, <2>1 DEF Held, Reached, ImportStateName
  <2> QED BY <1>2, <1>3, <1>4, <2>2 DEF e, p
<1>6. ASSUME NEW s \in {"export_star", "named_export"}
      PROVE  Advances(f, d, t, Calling(Push(f, Fresh(s)), "new_export"))
  <2>. DEFINE e == NewDeclaration("export")
              p == Fresh(s)
  <2>1. p.state = s BY FrameFields
  <2>0. e.form = "export" BY <1>4
  <2>. HIDE DEF e, p
  <2>2. Held(p, e) /\ Reached(p, e)
    BY <2>0, <2>1 DEF Held, Reached, ImportStateName
  <2> QED BY <1>2, <1>3, <1>4, <2>2 DEF e, p
<1> QED BY <1>5, <1>6

(* A state that relies on nothing and calls nothing.                       *)
LEMMA SilentAdvances ==
  ASSUME NEW f, f.state \notin Guarded, NEW d, ~d.broken, NEW t, NEW r, Silent(r),
         Sound(f, t, r), r.act = "push" => r.child.state \notin Guarded
  PROVE  Advances(f, d, t, r)
<1>1. Build(d, r.calls, t) = d BY BuildNone
<1>2. r.act \in {"stay", "push"} => Held(r.frame, d) /\ Reached(r.frame, d)
  BY Unguarded DEF Sound, Replaces, Guarded
<1>3. r.act = "push" => Held(r.child, d) /\ Reached(r.child, d)
  BY Unguarded DEF Guarded
<1>4. f.state \notin ImportLink BY DEF Guarded, ImportLink
<1> QED BY <1>1, <1>2, <1>3, <1>4, GrowsNot DEF Advances

LEMMA TypeSilent ==
  ASSUME NEW f, NEW t, NEW n
  PROVE  Silent(TypeProcess(f, t)) /\ Silent(TypeAcceptChild(f, n)) /\ Silent(TypeOnEof(f))
<1>. USE SilentResults, SilentReprocess
<1>1. Silent(TypeAcceptChild(f, n)) /\ Silent(TypeOnEof(f))
  BY DEF TypeAcceptChild, TypeAccept, TypeParameterAccept, SeparatedAccept, TypePostfixAccept,
         TypeParenAccept, TypeOnEof, TypeEof, SeparatedEof, TypePostfixEof
<1>2. Silent(Type(f, t)) /\ Silent(TypeHeader(f, t)) /\ Silent(TypeExpression(f, t))
  BY DEF Type, TypeHeader, TypeExpression
<1>3. Silent(TypeParameterList(f, t)) /\ Silent(TypeParameter(f, t))
  BY DEF TypeParameterList, TypeParameter
<1>4. \A separator, operand : Silent(Separated(f, t, separator, operand))
  BY SilentMultiline DEF Separated
<1>5. Silent(TypePostfix(f, t))
  BY SilentMultiline DEF TypePostfix
<1>6. Silent(TypePrimary(f, t)) /\ Silent(TypeReference(f, t))
  BY DEF TypePrimary, TypeReference
<1>7. Silent(TypeArgumentList(f, t)) /\ Silent(TypeParen(f, t))
  BY DEF TypeArgumentList, TypeParen
<1> QED BY <1>1, <1>2, <1>3, <1>4, <1>5, <1>6, <1>7 DEF TypeProcess

LEMMA TypeAdvances ==
  ASSUME NEW f, IsFrame(f), f.state \in TypeStateName, NEW d \in DeclarationSet, NEW t,
         NEW n \in AstNode
  PROVE  /\ Advances(f, d, t, TypeProcess(f, t)) /\ Advances(f, d, t, TypeAcceptChild(f, n))
         /\ Advances(f, d, t, TypeOnEof(f))
<1>1. ~d.broken BY DEF DeclarationSet
<1>2. f.state \notin Guarded BY DEF TypeStateName, Guarded, ImportStateName
<1>3. ASSUME NEW c, Pushes(f, c) PROVE c.state \notin Guarded
  <2>1. c.state \in TypeStateName
    BY <1>3 DEF Pushes, MayPush, TypeStateName, SpecifierListName, ImportLink, ImportStateName
  <2> QED BY <2>1 DEF TypeStateName, Guarded, ImportStateName
<1>4. /\ Sound(f, t, TypeProcess(f, t)) /\ Sound(f, t, TypeAcceptChild(f, n))
      /\ Sound(f, t, TypeOnEof(f))
  BY TypeProcessSound, TypeAcceptChildSound, TypeOnEofSound
<1>5. ASSUME NEW r, Sound(f, t, r), Silent(r) PROVE Advances(f, d, t, r)
  BY <1>1, <1>2, <1>3, <1>5, SilentAdvances DEF Sound
<1> QED BY <1>4, <1>5, TypeSilent

LEMMA ScopeAdvances ==
  ASSUME NEW f, IsFrame(f), f.state \in ScopeStateName, NEW d \in DeclarationSet, NEW t,
         NEW n \in AstNode
  PROVE  /\ Advances(f, d, t, ScopeProcess(f, t)) /\ Advances(f, d, t, ScopeAcceptChild(f, n))
<1>1. ~d.broken BY DEF DeclarationSet
<1>2. f.state \notin Guarded /\ f.state \notin ImportStateName
  BY DEF ScopeStateName, Guarded, ImportStateName
<1>3. Held(f, d) BY <1>2, Unguarded
<1>4. /\ \A g : g.state = f.state => Advances(f, d, t, Stay(g))
      /\ Advances(f, d, t, Stay(f))
      /\ \A on : Advances(f, d, t, Stay(TurnOn(f, on)))
      /\ \A off, on : Advances(f, d, t, Stay(Turn(f, off, on)))
      /\ \A m : Advances(f, d, t, Complete(f, m))
      /\ \A e : Advances(f, d, t, Throw(e))
      /\ Advances(f, d, t, Expected) /\ Advances(f, d, t, LogicError)
  BY <1>1, <1>2, <1>3, PlainResults
<1>5. ASSUME NEW s, s \notin Guarded, NEW on
      PROVE  /\ Advances(f, d, t, Push(f, Frame(s, on)))
             /\ Advances(f, d, t, Reprocess(Push(f, Frame(s, on))))
             /\ \A m : Advances(f, d, t, Reprocess(Push(TurnOn(f, m), Frame(s, on))))
  <2>. DEFINE p == Frame(s, on)
  <2>1. p.state = s BY FrameFields
  <2>. HIDE DEF p
  <2>2. Held(p, d) /\ Reached(p, d) BY <1>5, <2>1, Unguarded DEF Guarded
  <2>3. \A m : TurnOn(f, m).state = f.state BY TurnFields
  <2> QED BY <1>1, <1>2, <1>3, <2>2, <2>3, PlainResults DEF p
<1>6. {"declare", "namespace", "export", "type", "namespace_header", "declare_module_header",
       "declare_module_dispatch", "declare_module"} \cap Guarded = {}
  BY DEF Guarded, ImportStateName
<1>7. ASSUME f.state \in Scope, NEW ambient, NEW module_like
      PROVE  Advances(f, d, t, ModuleScopeVisitor(f, t, ambient, module_like))
  <2>1. FlagIf(~module_like, "equals_only") \in SUBSET {"equals_only"} BY DEF FlagIf
  <2> QED BY <1>4, <1>5, <1>6, <1>7, <2>1, OpenCalling DEF ModuleScopeVisitor, Visitor
<1>8. Advances(f, d, t, TrackExports(f, n)) BY <1>4 DEF TrackExports
<1>9. Advances(f, d, t, ScopeAcceptChild(f, n))
  BY <1>4, <1>8 DEF ScopeAcceptChild, ModuleScopeAccept, DeclareModuleAccept
<1>10. CASE f.state = "module_scope" BY <1>7, <1>9, <1>10 DEF ScopeProcess, Scope
<1>11. CASE f.state = "namespace"
  BY <1>4, <1>5, <1>6, <1>7, <1>9, <1>11 DEF ScopeProcess, Scope, Namespace, BracedScope
<1>12. CASE f.state = "declare_module"
  BY <1>4, <1>5, <1>6, <1>7, <1>9, <1>12 DEF ScopeProcess, Scope, DeclareModule, BracedScope
<1>13. CASE f.state \in {"namespace_header", "declare_module_header"}
  BY <1>4, <1>9, <1>13 DEF ScopeProcess, NamespaceHeader, DeclareModuleHeader
<1>14. CASE f.state = "declare"
  BY <1>4, <1>5, <1>6, <1>9, <1>14 DEF ScopeProcess, Declare, Visitor
<1>15. CASE f.state = "declare_module_dispatch"
  BY <1>5, <1>6, <1>9, <1>15 DEF ScopeProcess, DeclareModuleDispatch
<1> QED BY <1>10, <1>11, <1>12, <1>13, <1>14, <1>15 DEF ScopeStateName

LEMMA ExportAdvances ==
  ASSUME NEW f, IsFrame(f), f.state \in ExportStateName, NEW d \in DeclarationSet, Held(f, d),
         NEW t
  PROVE  Advances(f, d, t, ExportProcess(f, t))
<1>1. ~d.broken BY DEF DeclarationSet
<1>2. f.state \notin ImportStateName BY DEF ExportStateName, ImportStateName
<1>3. /\ Advances(f, d, t, Stay(f))
      /\ \A on : Advances(f, d, t, Stay(TurnOn(f, on)))
      /\ \A m : Advances(f, d, t, Complete(f, m)) /\ Advances(f, d, t, Reprocess(Complete(f, m)))
      /\ \A e : Advances(f, d, t, Throw(e))
      /\ Advances(f, d, t, Expected)
  BY <1>1, <1>2, PlainResults
<1>4. ASSUME NEW s, s \notin Guarded
      PROVE  /\ Fresh(s).state \notin Guarded
             /\ Advances(f, d, t, Push(f, Fresh(s)))
             /\ \A m : Advances(f, d, t, Reprocess(Push(TurnOn(f, m), Fresh(s))))
  <2>. DEFINE p == Fresh(s)
  <2>1. p.state = s BY FrameFields
  <2>. HIDE DEF p
  <2>2. Held(p, d) /\ Reached(p, d) BY <1>4, <2>1, Unguarded DEF Guarded
  <2>3. \A m : TurnOn(f, m).state = f.state BY TurnFields
  <2> QED BY <1>1, <1>2, <1>4, <2>1, <2>2, <2>3, PlainResults DEF p
<1>5. {"type", "namespace", "declare", "export_assignment", "export_star_after_star",
       "export_star_name", "export_star_from", "export_star_module_spec",
       "export_star_semicolon", "named_export_module_spec", "named_export_semicolon"}
        \cap Guarded = {}
  BY DEF Guarded, ImportStateName
<1>6. CASE f.state = "export"
  <2>1. Advances(f, d, t, Export(f, t))
    <3>1. {"equals_only"} \in SUBSET {"equals_only"} OBVIOUS
    <3> QED BY <1>3, <1>4, <1>5, <1>6, <3>1, OpenCalling DEF Export, Visitor
  <2> QED BY <1>6, <2>1 DEF ExportProcess
<1>7. CASE f.state = "export_assignment"
  <2>1. f.state \notin Guarded BY <1>7 DEF Guarded, ImportStateName
  <2>2. Sound(f, t, ExportProcess(f, t)) BY ExportProcessSound
  <2>3. ExportProcess(f, t) = ExportAssignment(f, t) BY <1>7 DEF ExportProcess
  <2>4. Silent(ExportAssignment(f, t))
    BY SilentResults, SilentReprocess, SilentMultiline DEF ExportAssignment
  <2>5. ~\E c : Pushes(f, c)
    BY <1>7 DEF Pushes, MayPush, SpecifierListName, ImportLink, ImportStateName
  <2> QED BY <1>1, <2>1, <2>2, <2>3, <2>4, <2>5, SilentAdvances DEF Sound
<1>8. CASE f.state \in {"export_star", "export_star_after_star", "export_star_name",
                        "export_star_from", "export_star_module_spec",
                        "named_export_module_spec"}
  <2>1. /\ Advances(f, d, t, Calling(Push(f, Fresh("export_star_from")), "set_as_name"))
        /\ Advances(f, d, t, Calling(Push(f, Fresh("export_star_semicolon")),
                                     "set_module_specifier"))
        /\ Advances(f, d, t, Calling(Push(f, Fresh("named_export_semicolon")),
                                     "set_module_specifier"))
    BY <1>4, <1>5, <1>8, ExportCalling
  <2>2. /\ Advances(f, d, t, ExportStar(f, t)) /\ Advances(f, d, t, ExportStarAfterStar(f, t))
        /\ Advances(f, d, t, ExportStarNameState(f, t)) /\ Advances(f, d, t, ExportStarFrom(f, t))
        /\ Advances(f, d, t, ModuleSpec(f, t, "export_star_semicolon"))
        /\ Advances(f, d, t, ModuleSpec(f, t, "named_export_semicolon"))
    BY <1>3, <1>4, <1>5, <2>1
       DEF ExportStar, ExportStarAfterStar, ExportStarNameState, ExportStarFrom, ModuleSpec,
           Visitor
  <2> QED BY <1>8, <2>2 DEF ExportProcess
<1>9. CASE f.state = "named_export"
  <2>. DEFINE p == Frame("export_specifier_list", {"expect_specifier_or_close"})
  <2>1. p.state = "export_specifier_list" BY FrameFields
  <2>. HIDE DEF p
  <2>2. Held(p, d) /\ Reached(p, d) BY <1>9, <2>1 DEF Held, Reached, ImportStateName
  <2>3. Advances(f, d, t, Reprocess(Push(f, p))) BY <1>1, <1>2, <2>2, PlainResults
  <2>4. Advances(f, d, t, Calling(Complete(f, Node("named_export")), "set_semicolon"))
    BY <1>9, ExportCalling
  <2>5. Advances(f, d, t, NamedExport(f, t))
    BY <1>3, <1>4, <1>5, <2>3, <2>4 DEF NamedExport, p
  <2> QED BY <1>9, <2>5 DEF ExportProcess
<1>10. CASE f.state \in {"export_star_semicolon", "named_export_semicolon"}
  <2>1. Advances(f, d, t, Calling(Complete(f, NullNode), "set_semicolon"))
    BY <1>10, ExportCalling
  <2>2. Advances(f, d, t, OptionalSemicolon(f, t))
    BY <1>3, <2>1 DEF OptionalSemicolon, Visitor
  <2> QED BY <1>10, <2>2 DEF ExportProcess
<1> QED BY <1>6, <1>7, <1>8, <1>9, <1>10 DEF ExportStateName

LEMMA ExportAcceptAdvances ==
  ASSUME NEW f, IsFrame(f), f.state \in ExportStateName, NEW d \in DeclarationSet, Held(f, d),
         NEW t, NEW n
  PROVE  /\ Advances(f, d, t, ExportAcceptChild(f, n)) /\ Advances(f, d, t, ExportOnEof(f))
<1>1. ~d.broken BY DEF DeclarationSet
<1>2. f.state \notin ImportStateName BY DEF ExportStateName, ImportStateName
<1>3. /\ Advances(f, d, t, Stay(f))
      /\ \A on : Advances(f, d, t, Stay(TurnOn(f, on)))
      /\ \A m : Advances(f, d, t, Complete(f, m))
      /\ \A e : Advances(f, d, t, Throw(e))
      /\ \A g : Advances(f, d, t, NullOpt(g))
      /\ Advances(f, d, t, LogicError)
  BY <1>1, <1>2, PlainResults
<1> QED BY <1>3 DEF ExportAcceptChild, ExportAccept, NamedExportAccept, ExportOnEof

---------------------------------------------------------------------------
(* The three virtual calls.                                                *)

LEMMA ProcessAdvances ==
  ASSUME NEW f, IsFrame(f), Idle(f), NEW d \in DeclarationSet, Held(f, d), Reached(f, d), NEW t
  PROVE  Advances(f, d, t, Process(f, t))
<1>1. f.state \in StateName BY DEF IsFrame, FrameSet
<1> QED
  BY <1>1, ANullNode, TypeAdvances, SpecifierAdvances, ImportAdvances, ExportAdvances,
     ScopeAdvances DEF Process, StateName

LEMMA AcceptAdvances ==
  ASSUME NEW f, IsFrame(f), Steady(f), Awaits(f), NEW d \in DeclarationSet, Held(f, d), NEW t,
         NEW n \in AstNode,
         f.state \in ImportStateName /\ "awaiting_sub" \notin f.on => Finished(d)
  PROVE  Advances(f, d, t, AcceptChild(f, n))
<1>1. f.state \in StateName BY DEF IsFrame, FrameSet
<1> QED
  BY <1>1, TypeAdvances, SpecifierAcceptAdvances, ImportAcceptAdvances, ExportAcceptAdvances,
     ScopeAdvances DEF AcceptChild, StateName

LEMMA EofAdvances ==
  ASSUME NEW f, IsFrame(f), NEW d \in DeclarationSet, Held(f, d), Reached(f, d), NEW t
  PROVE  Advances(f, d, t, OnEof(f))
<1>1. ~d.broken BY DEF DeclarationSet
<1>2. \A g : Advances(f, d, t, NullOpt(g)) BY <1>1, AdvancesThrow
<1> QED
  BY <1>2, ANullNode, TypeAdvances, ImportEofAdvances, ExportAcceptAdvances DEF OnEof

LEMMA EofSilent == ASSUME NEW f PROVE Silent(OnEof(f))
BY SilentResults, TypeSilent DEF OnEof, ImportOnEof, ExportOnEof

(* Where an import node comes from: `import` completes with one, `export`  *)
(* hands on the one it is given.                                           *)
LEMMA ImportDelivered ==
  ASSUME NEW f, NEW t, NEW n
  PROVE  /\ f.state \in {"import", "export"} =>
              Process(f, t).act # "complete" /\ OnEof(f).act # "complete"
         /\ f.state \in {"import", "export"} => Silent(AcceptChild(f, n))
         /\ f.state = "export" /\ AcceptChild(f, n).act = "complete" =>
              AcceptChild(f, n).node.kind = n.kind
<1>1. /\ \A g : Stay(g).act = "stay" /\ NullOpt(g).act = "nullopt"
      /\ \A g, c : Push(g, c).act = "push"
      /\ \A e : Throw(e).act = "throw"
      /\ \A g, m : Complete(g, m).node = m
  BY DEF Stay, NullOpt, Push, Throw, Complete, Result
<1>2. \A g, c, b : Calling(Push(g, c), b).act = "push" /\ Reprocess(Push(g, c)).act = "push"
  BY DEF Calling, Reprocess, Push, Result
<1>3. CASE f.state = "import"
  <2>1. Process(f, t) = Reprocess(Push(f, Inherit(f, "after_import")))
    BY <1>3 DEF Process, ImportProcess, Import, TypeStateName, SpecifierStateName,
                SpecifierListName, ImportStateName, ExportStateName
  <2>2. OnEof(f) = NullOpt(f)
    BY <1>3 DEF OnEof, ImportOnEof, TypeStateName, ImportStateName, ExportStateName
  <2>3. AcceptChild(f, n) = ImportAcceptChild(f, n)
    BY <1>3 DEF AcceptChild, TypeStateName, SpecifierStateName, SpecifierListName,
                ImportStateName, ExportStateName
  <2>4. Silent(ImportAcceptChild(f, n)) BY SilentResults DEF ImportAcceptChild
  <2> QED BY <1>1, <1>2, <1>3, <2>1, <2>2, <2>3, <2>4
<1>4. CASE f.state = "export"
  <2>1. Process(f, t) = Export(f, t)
    BY <1>4 DEF Process, ExportProcess, TypeStateName, SpecifierStateName,
                SpecifierListName, ImportStateName, ExportStateName
  <2>2. Export(f, t).act # "complete" BY <1>1, <1>2 DEF Export, Visitor
  <2>3. OnEof(f) = NullOpt(f)
    BY <1>4 DEF OnEof, ExportOnEof, TypeStateName, ImportStateName, ExportStateName
  <2>4. AcceptChild(f, n) = ExportAccept(f, n)
    BY <1>4 DEF AcceptChild, ExportAcceptChild, TypeStateName, SpecifierStateName,
                SpecifierListName, ImportStateName, ExportStateName
  <2>5. Silent(ExportAccept(f, n)) BY SilentResults DEF ExportAccept
  <2>6. ExportAccept(f, n).act = "complete" => ExportAccept(f, n).node.kind = n.kind
    <3>. DEFINE m == [n EXCEPT !.exported = n.exported \/ n.kind \in Exportable]
    <3>1. m.kind = n.kind OBVIOUS
    <3>. HIDE DEF m
    <3>2. ExportAccept(f, n) = IF n.kind = "null" THEN Throw("null_dereference")
                               ELSE Complete(f, m)
      BY DEF ExportAccept, m
    <3>3. Complete(f, m).node = m /\ Throw("null_dereference").act = "throw" BY <1>1
    <3> QED BY <3>1, <3>2, <3>3
  <2> QED BY <1>1, <1>4, <2>1, <2>2, <2>3, <2>4, <2>5, <2>6
<1> QED BY <1>3, <1>4

---------------------------------------------------------------------------
(* The stack and the declaration together.                                 *)

Relied(s, d) == \A i \in 1 .. Len(s) : Steady(s[i]) /\ Held(s[i], d)
Settled(s, d) == Orderly(s) /\ Relied(s, d)
AtRest(s, d) == Idle(s[Len(s)]) /\ Reached(s[Len(s)], d)

LEMMA StaySettled ==
  ASSUME NEW s, IsStack(s), NEW d, Settled(s, d), NEW e, Grows(s[Len(s)], d, e),
         NEW g, IsFrame(g), Keeps(s[Len(s)], g), Steady(g), Held(g, e)
  PROVE  Settled([s EXCEPT ![Len(s)] = g], e)
<1>. DEFINE n == Len(s)
            u == [s EXCEPT ![n] = g]
<1>1. n \in Nat \ {0} BY StackTop
<1>2. Len(u) = n /\ u[n] = g /\ \A i \in 1 .. n - 1 : u[i] = s[i] BY ReplacedTop
<1>3. Orderly(u) BY OrderlyReplaced DEF Settled
<1>4. n \in 1 .. n BY <1>1
<1>5. \A i \in 1 .. n - 1 : i \in 1 .. n BY <1>1
<1>6. \A i \in 1 .. n - 1 : Over(s[i], s[n]) /\ Steady(s[i]) /\ Held(s[i], d)
  BY <1>4, <1>5 DEF Settled, Orderly, Relied
<1>7. \A i \in 1 .. n : i = n \/ i \in 1 .. n - 1 BY <1>1
<1>. HIDE DEF u
<1>8. \A i \in 1 .. n - 1 : Steady(u[i]) /\ Held(u[i], e) BY <1>2, <1>6 DEF Grows
<1>9. Relied(u, e) BY <1>2, <1>7, <1>8 DEF Relied
<1> QED BY <1>3, <1>9 DEF Settled, u

LEMMA PushSettled ==
  ASSUME NEW s, IsStack(s), NEW e, Settled(s, e), NEW c, Pushes(s[Len(s)], c),
         Link(s[Len(s)], c), Steady(c), Held(c, e)
  PROVE  Settled(Append(s, c), e)
<1>. DEFINE n == Len(s)
            u == Append(s, c)
<1>1. n \in Nat \ {0} BY StackTop
<1>2. Len(u) = n + 1 /\ u[n + 1] = c /\ \A i \in 1 .. n : u[i] = s[i]
  BY AppendProperties DEF IsStack, Pushes, IsFrame
<1>3. Orderly(u) BY OrderlyPushed DEF Settled
<1>4. \A i \in 1 .. n : Steady(s[i]) /\ Held(s[i], e) BY DEF Settled, Relied
<1>5. \A i \in 1 .. n + 1 : i = n + 1 \/ i \in 1 .. n BY <1>1
<1>. HIDE DEF u
<1>6. Relied(u, e) BY <1>2, <1>4, <1>5 DEF Relied
<1> QED BY <1>3, <1>6 DEF Settled, u

LEMMA PopSettled ==
  ASSUME NEW s, IsStack(s), s[Len(s)].state # "module_scope", NEW d, Settled(s, d), NEW e,
         Grows(s[Len(s)], d, e)
  PROVE  LET u == SubSeq(s, 1, Len(s) - 1)
         IN  /\ Settled(u, e)
             /\ Link(u[Len(u)], s[Len(s)]) /\ s[Len(s)].state \in MayPush(u[Len(u)].state)
<1>. DEFINE n == Len(s) - 1
            u == SubSeq(s, 1, n)
<1>1. n \in Nat \ {0} /\ Len(u) = n /\ \A i \in 1 .. n : u[i] = s[i] BY PoppedTop
<1>2. Orderly(u) BY OrderlyPopped DEF Settled
<1>3. Len(s) = n + 1 BY StackTop
<1>4. n \in 1 .. n /\ n + 1 \in 1 .. n + 1 /\ \A i \in 1 .. n : i \in 1 .. n + 1 BY <1>1
<1>5. /\ \A i \in 1 .. n : Link(s[i], s[i + 1])
      /\ \A i \in 1 .. n : s[i + 1].state \in MayPush(s[i].state)
      /\ \A j \in 1 .. Len(s) : \A i \in 1 .. j - 1 : Over(s[i], s[j])
      /\ \A i \in 1 .. Len(s) : Steady(s[i]) /\ Held(s[i], d)
  BY DEF Settled, Orderly, Relied, IsStack
<1>6. \A i \in 1 .. n : Over(s[i], s[Len(s)])
  <2>1. Len(s) \in 1 .. Len(s) /\ Len(s) - 1 = n BY <1>1, <1>3
  <2>2. \A i \in 1 .. Len(s) - 1 : Over(s[i], s[Len(s)]) BY <1>5, <2>1
  <2> QED BY <2>1, <2>2
<1>. HIDE DEF n, u
<1>7. \A i \in 1 .. n : Steady(u[i]) /\ Held(u[i], e)
  BY <1>1, <1>3, <1>4, <1>5, <1>6 DEF Grows
<1>8. Relied(u, e) BY <1>1, <1>7 DEF Relied
<1>9. Link(u[n], s[n + 1]) /\ s[n + 1].state \in MayPush(u[n].state)
  BY <1>1, <1>4, <1>5
<1>10. /\ Settled(u, e)
       /\ Link(u[Len(u)], s[Len(s)]) /\ s[Len(s)].state \in MayPush(u[Len(u)].state)
  BY <1>1, <1>2, <1>3, <1>8, <1>9 DEF Settled
<1> QED BY <1>10 DEF u, n

(* What a frame is handed with a node: one of its kinds, an import that is *)
(* complete, and where it may only be an equals form, one without require. *)
Given(b, n, d) ==
  /\ Awaits(b) /\ n.kind \in Deliverable(b)
  /\ b.state \in ImportStateName /\ "awaiting_sub" \notin b.on => Finished(d)
  /\ n.kind = "import" => Finished(d)
  /\ n.kind = "import" /\ b.state \in {"namespace", "export"} =>
       d.form = "equals" /\ "require" \notin d.has

LEMMA CompleteGiven ==
  ASSUME NEW b, NEW f, Link(b, f), f.state \in MayPush(b.state),
         NEW n, n.kind \in Delivers(f.state),
         NEW e, f.state \in ImportLink => Finished(e),
         n.kind = "import" => Finished(e),
         n.kind = "import" /\ f.state = "import" /\ "equals_only" \in f.on => EqualsOnly(e),
         n.kind = "import" /\ f.state = "export" /\ b.state \in {"namespace", "export"} =>
           EqualsOnly(e)
  PROVE  Given(b, n, e)
<1>1. Awaits(b) /\ n.kind \in Deliverable(b) BY DEF Link
<1>2. ASSUME b.state \in ImportStateName, "awaiting_sub" \notin b.on PROVE Finished(e)
  <2>1. f.state \notin {"named_import", "import_attributes"} BY <1>2 DEF Link, Hands
  <2>2. b.state # "import_attributes" BY <1>1 DEF Awaits, Leaf
  <2>3. f.state \in ImportLink
    BY <1>2, <2>1, <2>2 DEF MayPush, ImportLink, ImportStateName, SpecifierListName
  <2> QED BY <2>3
<1>3. ASSUME n.kind = "import", b.state \in {"namespace", "export"}
      PROVE  e.form = "equals" /\ "require" \notin e.has
  <2>1. f.state \in {"import", "export"} BY <1>3 DEF Delivers, TypeOperand, DeclaredKind
  <2>2. f.state = "import" => "equals_only" \in f.on BY <1>3 DEF Link, Placed
  <2>3. EqualsOnly(e) BY <1>3, <2>1, <2>2
  <2>4. Finished(e) BY <1>3
  <2> QED BY <2>3, <2>4 DEF EqualsOnly, Finished
<1> QED BY <1>1, <1>2, <1>3 DEF Given

---------------------------------------------------------------------------
(* The inductive invariant, on top of the types and the shape.             *)

Promised ==
  /\ Settled(state_stack, declaration)
  /\ pc \in {"collect_trivia", "process", "eof"} => AtRest(state_stack, declaration)
  /\ pc = "handle_complete" => Given(Top, node, declaration)
  /\ NoInternalError

LEMMA TopSettled ==
  ASSUME Inv, Settled(state_stack, declaration)
  PROVE  /\ IsFrame(Top) /\ Steady(Top) /\ Held(Top, declaration)
         /\ declaration \in DeclarationSet
         /\ Top = state_stack[Len(state_stack)]
<1>1. Len(state_stack) \in 1 .. Len(state_stack) BY StackTop DEF Inv
<1> QED BY <1>1, TopFrame DEF Settled, Relied, Inv, TreeOK

LEMMA ResultsRight ==
  ASSUME Inv, Promised
  PROVE  /\ pc = "process" => Proper(Top, Processed)
                              /\ Advances(Top, declaration, CurrentToken, Processed)
         /\ pc = "handle_complete" => Proper(Top, Accepted)
                                      /\ Advances(Top, declaration, CurrentToken, Accepted)
         /\ pc = "eof" => Proper(Top, OnEof(Top))
                          /\ Advances(Top, declaration, CurrentToken, OnEof(Top))
<1>1. /\ IsFrame(Top) /\ Steady(Top) /\ Held(Top, declaration)
      /\ declaration \in DeclarationSet
      /\ Top = state_stack[Len(state_stack)]
  BY TopSettled DEF Promised
<1>2. pc \in {"process", "eof"} => Idle(Top) /\ Reached(Top, declaration)
  BY <1>1 DEF Promised, AtRest
<1>3. pc = "handle_complete" => Given(Top, node, declaration) /\ node \in AstNode
  BY DEF Promised, Inv, TreeOK
<1>4. pc = "process" => Proper(Top, Processed)
                        /\ Advances(Top, declaration, CurrentToken, Processed)
  BY <1>1, <1>2, ProcessProper, ProcessAdvances DEF Processed
<1>5. pc = "handle_complete" => Proper(Top, Accepted)
                                /\ Advances(Top, declaration, CurrentToken, Accepted)
  BY <1>1, <1>3, AcceptProper, AcceptAdvances DEF Accepted, Given
<1>6. pc = "eof" => Proper(Top, OnEof(Top))
                    /\ Advances(Top, declaration, CurrentToken, OnEof(Top))
  BY <1>1, <1>2, EofProper, EofAdvances
<1> QED BY <1>4, <1>5, <1>6

LEMMA ResultSettles ==
  ASSUME Inv, Settled(state_stack, declaration), NEW r, Sound(Top, CurrentToken, r),
         Proper(Top, r), NEW e, e = Build(declaration, r.calls, CurrentToken),
         Advances(Top, declaration, CurrentToken, r)
  PROVE  /\ ~e.broken
         /\ r.act = "stay" => Settled(WithTop(r.frame), e) /\ AtRest(WithTop(r.frame), e)
         /\ r.act = "push" => /\ Settled(Append(WithTop(r.frame), r.child), e)
                              /\ AtRest(Append(WithTop(r.frame), r.child), e)
         /\ r.act = "complete" => /\ Settled(Below, e)
                                  /\ Link(Below[Len(Below)], Top)
                                  /\ Top.state \in MayPush(Below[Len(Below)].state)
                                  /\ Top.state \in ImportLink => Finished(e)
<1>. DEFINE s == state_stack
            u == WithTop(r.frame)
<1>1. Top = s[Len(s)] /\ IsStack(s) BY TopFrame DEF Inv
<1>2. Grows(Top, declaration, e) BY DEF Advances
<1>3. ~e.broken BY <1>2 DEF Grows
<1>4. ASSUME r.act \in {"stay", "push"}
      PROVE  /\ Settled(u, e) /\ Len(u) = Len(s) /\ u[Len(u)] = r.frame
             /\ IsStack(u)
  <2>1. IsFrame(r.frame) /\ Keeps(Top, r.frame) /\ Steady(r.frame) /\ Held(r.frame, e)
    BY <1>4 DEF Sound, Replaces, Proper, Advances
  <2>2. u = [s EXCEPT ![Len(s)] = r.frame] BY TopFrame
  <2>3. Settled([s EXCEPT ![Len(s)] = r.frame], e) BY <1>1, <1>2, <2>1, StaySettled
  <2>4. /\ Len([s EXCEPT ![Len(s)] = r.frame]) = Len(s)
        /\ [s EXCEPT ![Len(s)] = r.frame][Len(s)] = r.frame
    BY <1>1, <2>1, ReplacedTop
  <2>5. IsStack(u) BY <1>4, StackSteps
  <2> QED BY <2>2, <2>3, <2>4, <2>5
<1>5. ASSUME r.act = "stay" PROVE Settled(u, e) /\ AtRest(u, e)
  BY <1>4, <1>5 DEF Proper, Advances, AtRest
<1>6. ASSUME r.act = "push" PROVE Settled(Append(u, r.child), e) /\ AtRest(Append(u, r.child), e)
  <2>1. r.frame.state = Top.state /\ Pushes(Top, r.child) BY <1>6 DEF Sound, Replaces
  <2>2. Settled(u, e) /\ IsStack(u) /\ Pushes(u[Len(u)], r.child)
    BY <1>4, <1>6, <2>1 DEF Pushes
  <2>3. Link(u[Len(u)], r.child) /\ Steady(r.child) /\ Held(r.child, e)
        /\ Idle(r.child) /\ Reached(r.child, e)
    BY <1>4, <1>6 DEF Proper, Advances
  <2>. HIDE DEF u
  <2>4. Settled(Append(u, r.child), e) BY <2>2, <2>3, PushSettled
  <2>5. Append(u, r.child)[Len(Append(u, r.child))] = r.child
    BY <2>1, <2>2, AppendProperties DEF IsStack, Pushes, IsFrame
  <2> QED BY <2>3, <2>4, <2>5 DEF AtRest
<1>7. ASSUME r.act = "complete"
      PROVE  /\ Settled(Below, e) /\ Link(Below[Len(Below)], Top)
             /\ Top.state \in MayPush(Below[Len(Below)].state)
             /\ Top.state \in ImportLink => Finished(e)
  <2>1. Top.state # "module_scope" BY <1>7 DEF Sound
  <2>2. Below = SubSeq(s, 1, Len(s) - 1) BY TopFrame
  <2>3. Top.state \in ImportLink => Finished(e) BY <1>7 DEF Advances
  <2> QED BY <1>1, <1>2, <2>1, <2>2, <2>3, PopSettled
<1> QED BY <1>3, <1>5, <1>6, <1>7

LEMMA InitPromised == Init => Promised
<1>. SUFFICES ASSUME Init PROVE Promised OBVIOUS
<1>. DEFINE g == Frame("module_scope", {})
<1>1. g.state = "module_scope" /\ g.on = {} BY FrameFields
<1>. HIDE DEF g
<1>2. state_stack = <<g>> /\ Len(state_stack) = 1 /\ state_stack[1] = g BY DEF Init, g
<1>3. 1 .. Len(state_stack) = {1} /\ 1 .. Len(state_stack) - 1 = {} /\ 1 .. 1 - 1 = {}
  BY <1>2
<1>4. Orderly(state_stack) BY <1>2, <1>3 DEF Orderly
<1>5. g.state \notin Guarded /\ g.state \notin ImportStateName
  BY <1>1 DEF Guarded, ImportStateName
<1>6. Steady(g) /\ Idle(g) /\ Held(g, declaration) /\ Reached(g, declaration)
  BY <1>1, <1>5, Unguarded DEF Steady, Idle
<1>7. Settled(state_stack, declaration) /\ AtRest(state_stack, declaration)
  BY <1>2, <1>3, <1>4, <1>6 DEF Settled, Relied, AtRest
<1> QED BY <1>7 DEF Promised, Init, NoInternalError

(* A step that leaves the stack and the declaration alone.                 *)
LEMMA QuietPromised ==
  ASSUME Promised, UNCHANGED <<state_stack, declaration>>, pc' # "handle_complete",
         pc' \in {"collect_trivia", "process", "eof"} =>
           pc \in {"collect_trivia", "process", "eof"},
         error' = error \/ error' \notin InternalError
  PROVE  Promised'
<1>1. Settled(state_stack, declaration)' BY DEF Promised
<1>2. pc' \in {"collect_trivia", "process", "eof"} => AtRest(state_stack, declaration)'
  BY DEF Promised
<1>3. NoInternalError' BY DEF Promised, NoInternalError, InternalError
<1> QED BY <1>1, <1>2, <1>3 DEF Promised

LEMMA CollectPromised == ASSUME Promised, CollectTrivia \/ CollectDone PROVE Promised'
<1>1. /\ UNCHANGED <<state_stack, declaration, error>>
      /\ pc = "collect_trivia" /\ pc' \in {"collect_trivia", "process"}
  BY DEF CollectTrivia, CollectDone
<1> QED BY <1>1, QuietPromised

LEMMA StayPromised ==
  ASSUME Inv, Promised, ProcessStay \/ ProcessPush PROVE Promised'
<1>. DEFINE r == Processed
<1>1. /\ pc = "process" /\ declaration' = Built /\ error' = error
      /\ \/ r.act = "stay" /\ state_stack' = WithTop(r.frame)
         \/ r.act = "push" /\ state_stack' = Append(WithTop(r.frame), r.child)
  BY DEF ProcessStay, ProcessPush, Processing
<1>2. pc' \in {"collect_trivia", "process"}
  BY DEF ProcessStay, ProcessPush, Processing, Continue
<1>3. Sound(Top, CurrentToken, r) /\ Proper(Top, r)
      /\ Advances(Top, declaration, CurrentToken, r)
  BY <1>1, TopFrame, ResultsRight
<1>4. Built = Build(declaration, r.calls, CurrentToken) BY DEF Built
<1>. HIDE DEF r
<1>5. Settled(state_stack', declaration') /\ AtRest(state_stack', declaration')
  BY <1>1, <1>3, <1>4, ResultSettles DEF Promised
<1> QED BY <1>1, <1>2, <1>5 DEF Promised, NoInternalError

(* A frame that completes, under the loop, handle_complete or eof.         *)
LEMMA PopPromised ==
  ASSUME Inv, Promised, NEW r, Sound(Top, CurrentToken, r), Proper(Top, r),
         Advances(Top, declaration, CurrentToken, r), r.act = "complete",
         r.node.kind = "import" =>
           /\ r.calls = <<"none", "none">> /\ Finished(declaration)
           /\ Top.state = "export" /\ Below[Len(Below)].state \in {"namespace", "export"} =>
                EqualsOnly(declaration),
         state_stack' = Below, declaration' = Build(declaration, r.calls, CurrentToken),
         node' = r.node, pc' = "handle_complete", error' = error
  PROVE  Promised'
<1>. DEFINE e == Build(declaration, r.calls, CurrentToken)
            b == Below[Len(Below)]
<1>1. /\ Settled(Below, e) /\ Link(b, Top) /\ Top.state \in MayPush(b.state)
      /\ Top.state \in ImportLink => Finished(e)
  BY ResultSettles DEF Promised
<1>2. r.node.kind \in Delivers(Top.state) BY DEF Proper
<1>3. r.node.kind = "import" => e = declaration
  <2>1. \A d : Call(d, "none", CurrentToken) = d BY DEF Call
  <2> QED BY <2>1 DEF Build
<1>4. Held(Top, declaration) BY TopSettled DEF Promised
<1>5. Top.state = "import" /\ "equals_only" \in Top.on => EqualsOnly(declaration)
  BY <1>4 DEF Held
<1>. HIDE DEF e, b
<1>6. Given(b, r.node, e) BY <1>1, <1>2, <1>3, <1>5, CompleteGiven DEF b
<1>7. Top' = b BY DEF Top, Depth, b
<1>8. declaration' = e BY DEF e
<1> QED BY <1>1, <1>6, <1>7, <1>8 DEF Promised, NoInternalError

LEMMA CompletePromised == ASSUME Inv, Promised, ProcessComplete PROVE Promised'
<1>. DEFINE r == Processed
<1>1. /\ pc = "process" /\ r.act = "complete" /\ state_stack' = Below /\ declaration' = Built
      /\ node' = r.node /\ pc' = "handle_complete" /\ error' = error
  BY DEF ProcessComplete, Processing
<1>2. Sound(Top, CurrentToken, r) /\ Proper(Top, r)
      /\ Advances(Top, declaration, CurrentToken, r)
  BY <1>1, TopFrame, ResultsRight
<1>3. r.node.kind # "import"
  <2>1. Top.state \notin {"import", "export"} BY <1>1, ImportDelivered DEF Processed
  <2>2. r.node.kind \in Delivers(Top.state) BY <1>1, <1>2 DEF Proper
  <2> QED BY <2>1, <2>2 DEF Delivers, TypeOperand, DeclaredKind
<1>4. Built = Build(declaration, r.calls, CurrentToken) BY DEF Built
<1> QED BY <1>1, <1>2, <1>3, <1>4, PopPromised

LEMMA ThrowPromised ==
  ASSUME Inv, Promised, ProcessThrow \/ AcceptThrow PROVE Promised'
<1>1. CASE ProcessThrow
  <2>1. pc = "process" /\ UNCHANGED <<state_stack, declaration>> /\ pc' = "thrown"
    BY <1>1 DEF ProcessThrow, Raise
  <2>2. Proper(Top, Processed) /\ ~Built.broken
    BY <2>1, ResultsRight DEF Advances, Grows, Built
  <2>3. Processed.act = "throw" /\ error' = Processed.error
    BY <1>1, <2>2 DEF ProcessThrow, Raise
  <2>4. error' \notin InternalError BY <2>2, <2>3 DEF Proper
  <2> QED BY <2>1, <2>4, QuietPromised
<1>2. CASE AcceptThrow
  <2>1. pc = "handle_complete" /\ UNCHANGED <<state_stack, declaration>> /\ pc' = "thrown"
    BY <1>2 DEF AcceptThrow, Raise
  <2>2. Proper(Top, Accepted) /\ ~Stored.broken
    BY <2>1, ResultsRight DEF Advances, Grows, Stored
  <2>3. Accepted.act = "throw" /\ error' = Accepted.error
    BY <1>2, <2>2 DEF AcceptThrow, Raise
  <2>4. error' \notin InternalError BY <2>2, <2>3 DEF Proper
  <2> QED BY <2>1, <2>4, QuietPromised
<1> QED BY <1>1, <1>2

LEMMA AcceptStayPromised == ASSUME Inv, Promised, AcceptStay PROVE Promised'
<1>. DEFINE r == Accepted
<1>1. /\ pc = "handle_complete" /\ declaration' = Stored /\ error' = error
      /\ r.act = "stay" /\ state_stack' = WithTop(r.frame)
  BY DEF AcceptStay, Accepting
<1>2. pc' \in {"collect_trivia", "process", "eof"} BY DEF AcceptStay
<1>3. Sound(Top, CurrentToken, r) /\ Proper(Top, r)
      /\ Advances(Top, declaration, CurrentToken, r)
  BY <1>1, TopFrame, ResultsRight
<1>4. Stored = Build(declaration, r.calls, CurrentToken) BY DEF Stored
<1>. HIDE DEF r
<1>5. Settled(state_stack', declaration') /\ AtRest(state_stack', declaration')
  BY <1>1, <1>3, <1>4, ResultSettles DEF Promised
<1> QED BY <1>1, <1>2, <1>5 DEF Promised, NoInternalError

LEMMA AcceptCompletePromised == ASSUME Inv, Promised, AcceptComplete PROVE Promised'
<1>. DEFINE r == Accepted
<1>1. /\ pc = "handle_complete" /\ r.act = "complete" /\ state_stack' = Below
      /\ declaration' = Stored /\ node' = r.node /\ pc' = "handle_complete" /\ error' = error
  BY DEF AcceptComplete, Accepting
<1>2. Sound(Top, CurrentToken, r) /\ Proper(Top, r)
      /\ Advances(Top, declaration, CurrentToken, r)
  BY <1>1, TopFrame, ResultsRight
<1>3. Stored = Build(declaration, r.calls, CurrentToken) BY DEF Stored
<1>4. Given(Top, node, declaration) BY <1>1 DEF Promised
<1>5. ASSUME r.node.kind = "import"
      PROVE  /\ r.calls = <<"none", "none">> /\ Finished(declaration)
             /\ Top.state = "export" => node.kind = "import"
  <2>1. r.node.kind \in Delivers(Top.state) BY <1>1, <1>2 DEF Proper
  <2>2. Top.state \in {"import", "export"}
    BY <1>5, <2>1 DEF Delivers, TypeOperand, DeclaredKind
  <2>3. Silent(r) BY <2>2, ImportDelivered DEF Accepted
  <2>4. Top.state = "export" => node.kind = "import"
    BY <1>1, <1>5, ImportDelivered DEF Accepted
  <2>5. CASE Top.state = "import"
    <3>1. Steady(Top) BY TopSettled DEF Promised
    <3>2. Finished(declaration) BY <1>4, <2>5, <3>1 DEF Given, Steady, ImportStateName
    <3> QED BY <2>3, <2>5, <3>2 DEF Silent
  <2>6. CASE Top.state = "export" BY <1>4, <2>3, <2>4, <2>6 DEF Given, Silent
  <2> QED BY <2>2, <2>5, <2>6
<1>6. r.node.kind = "import" /\ Top.state = "export" => EqualsOnly(declaration)
  BY <1>4, <1>5 DEF Given, EqualsOnly
<1> QED BY <1>1, <1>2, <1>3, <1>5, <1>6, PopPromised

LEMMA EofPromised ==
  ASSUME Inv, Promised, EndOfTokens \/ EofComplete \/ EofThrow \/ Return \/ FlushThrow
  PROVE  Promised'
<1>1. CASE EndOfTokens
  <2>1. UNCHANGED <<state_stack, declaration, error>> /\ pc = "process" /\ pc' = "eof"
    BY <1>1 DEF EndOfTokens
  <2> QED BY <2>1, QuietPromised
<1>2. CASE EofThrow \/ Return \/ FlushThrow
  <2>1. /\ UNCHANGED <<state_stack, declaration>> /\ pc' \in {"thrown", "returned"}
        /\ error' \in {error, "unexpected_end_of_text", "invalid_argument"}
    BY <1>2 DEF EofThrow, Return, FlushThrow, Raise
  <2>2. error' = error \/ error' \notin InternalError BY <2>1 DEF InternalError
  <2> QED BY <2>1, <2>2, QuietPromised
<1>3. CASE EofComplete
  <2>. DEFINE r == OnEof(Top)
  <2>1. /\ pc = "eof" /\ r.act = "complete" /\ state_stack' = Below
        /\ declaration' = declaration
        /\ node' = r.node /\ pc' = "handle_complete" /\ error' = error
    BY <1>3 DEF EofComplete
  <2>2. Sound(Top, CurrentToken, r) /\ Proper(Top, r)
        /\ Advances(Top, declaration, CurrentToken, r)
    BY <2>1, TopFrame, ResultsRight
  <2>3. r.node.kind # "import"
    <3>1. Top.state \notin {"import", "export"} BY <2>1, ImportDelivered
    <3>2. r.node.kind \in Delivers(Top.state) BY <2>1, <2>2 DEF Proper
    <3> QED BY <3>1, <3>2 DEF Delivers, TypeOperand, DeclaredKind
  <2>4. Build(declaration, r.calls, CurrentToken) = declaration BY EofSilent, BuildNone
  <2> QED BY <2>1, <2>2, <2>3, <2>4, PopPromised
<1> QED BY <1>1, <1>2, <1>3

LEMMA StutterPromised == Promised /\ UNCHANGED vars => Promised'
<1>. SUFFICES ASSUME Promised, UNCHANGED vars PROVE Promised' OBVIOUS
<1>1. UNCHANGED <<state_stack, declaration, node, pc, error>> BY DEF vars
<1>2. Top' = Top BY <1>1 DEF Top, Depth
<1> QED BY <1>1, <1>2 DEF Promised, NoInternalError

LEMMA NextPromised == Inv /\ Promised /\ [Next]_vars => Promised'
<1>. SUFFICES ASSUME Inv, Promised, [Next]_vars PROVE Promised'
  OBVIOUS
<1>1. ASSUME CollectTrivia \/ CollectDone PROVE Promised' BY <1>1, CollectPromised
<1>2. ASSUME ProcessStay \/ ProcessPush PROVE Promised' BY <1>2, StayPromised
<1>3. ASSUME ProcessComplete PROVE Promised' BY <1>3, CompletePromised
<1>4. ASSUME ProcessThrow \/ AcceptThrow PROVE Promised' BY <1>4, ThrowPromised
<1>5. ASSUME AcceptStay \/ AcceptComplete PROVE Promised'
  BY <1>5, AcceptStayPromised, AcceptCompletePromised
<1>6. ASSUME EndOfTokens \/ EofComplete \/ EofThrow \/ Return \/ FlushThrow PROVE Promised'
  BY <1>6, EofPromised
<1>7. ASSUME Terminated \/ UNCHANGED vars PROVE Promised'
  BY <1>7, StutterPromised DEF Terminated
<1> QED BY <1>1, <1>2, <1>3, <1>4, <1>5, <1>6, <1>7 DEF Next

---------------------------------------------------------------------------
(* What the invariant says of a state of the parse.                        *)

LEMMA PromisedDelivers == Promised => DeliveredKind
BY DEF Promised, Given, DeliveredKind

LEMMA PromisedImport == Promised => ImportWellFormed
<1>. SUFFICES ASSUME Promised, pc = "handle_complete", node.kind = "import"
              PROVE  ImportWellFormed
  BY DEF ImportWellFormed
<1>1. Finished(declaration) BY DEF Promised, Given
<1>. DEFINE d == declaration
<1>. HIDE DEF d
<1>2. Finished(d) BY <1>1 DEF d
<1> QED BY <1>2 DEF ImportWellFormed, Finished, Bindings, d

LEMMA PromisedAmbient == Inv /\ Promised => AmbientInherited
<1>. SUFFICES ASSUME Inv, Promised,
                     NEW i \in 1 .. Depth, NEW j \in 1 .. Depth, i < j,
                     Ambient(state_stack[i]),
                     \A k \in Between(i, j) : state_stack[k].state # "export"
              PROVE  /\ state_stack[j].state # "declare"
                     /\ state_stack[j].state \in Scope => Ambient(state_stack[j])
  BY DEF AmbientInherited
<1>1. Depth \in Nat /\ Depth = Len(state_stack) BY StackTop DEF Inv, Depth
<1>2. i \in 1 .. j - 1 BY <1>1
<1>3. \A k \in i + 1 .. j - 1 : k \in Between(i, j) BY <1>1 DEF Between
<1>4. \A k \in i + 1 .. j - 1 : state_stack[k].state # "export" BY <1>3
<1>5. Shielded(state_stack[j]) BY <1>1, <1>2, <1>4 DEF Promised, Settled, Orderly
<1> QED BY <1>5 DEF Shielded

LEMMA PromisedPlaces == Inv /\ Promised => PlacedInModule
<1>. SUFFICES ASSUME Inv, Promised PROVE PlacedInModule OBVIOUS
<1>1. ASSUME NEW i \in 3 .. Depth, state_stack[i].state = "export_assignment"
      PROVE  state_stack[i - 2].state \in {"module_scope", "declare_module"}
  <2>. DEFINE s == state_stack
              p == s[i - 2]
              e == s[i - 1]
              a == s[i]
  <2>1. Depth \in Nat /\ Depth = Len(s) BY StackTop DEF Inv, Depth
  <2>2. /\ i - 2 \in 1 .. Len(s) - 1 /\ i - 1 \in 1 .. Len(s) - 1
        /\ (i - 2) + 1 = i - 1 /\ (i - 1) + 1 = i
    BY <2>1
  <2>3. \A k \in 1 .. Len(s) - 1 : Link(s[k], s[k + 1]) BY DEF Promised, Settled, Orderly
  <2>4. \A k \in 1 .. Len(s) - 1 : s[k + 1].state \in MayPush(s[k].state)
    BY DEF Inv, IsStack
  <2>5. Link(s[i - 2], s[(i - 2) + 1]) /\ Link(s[i - 1], s[(i - 1) + 1])
        /\ s[(i - 1) + 1].state \in MayPush(s[i - 1].state)
    BY <2>2, <2>3, <2>4
  <2>6. Link(p, e) /\ Link(e, a) /\ a.state \in MayPush(e.state) BY <2>2, <2>5
  <2>7. a.state = "export_assignment" BY <1>1
  <2>. HIDE DEF p, e, a
  <2>8. e.state = "export"
    BY <2>6, <2>7 DEF MayPush, ImportStateName, ImportLink, SpecifierListName, Statement
  <2>9. "module_like" \in e.on BY <2>6, <2>7 DEF Link, Placed
  <2>10. p.state \in {"module_scope", "declare_module"} BY <2>6, <2>8, <2>9 DEF Link, Placed
  <2> QED BY <2>10 DEF p
<1>2. pc = "handle_complete" /\ node.kind = "import" /\ Top.state \in {"namespace", "export"}
      => declaration.form = "equals" /\ "require" \notin declaration.has
  BY DEF Promised, Given
<1> QED BY <1>1, <1>2 DEF PlacedInModule

(* Whatever the text, in every state of a parse the frames of the stack,   *)
(* the declaration under construction, and the node that is delivered keep *)
(* what the states promise each other.                                     *)
THEOREM ParserPromises == Spec => [](Inv /\ Promised)
<1>1. Init => Inv /\ Promised BY InitInv, InitPromised
<1>2. (Inv /\ Promised) /\ [Next]_vars => (Inv /\ Promised)' BY NextInv, NextPromised
<1> QED BY <1>1, <1>2, PTL DEF Spec

(* Whatever the text, handle_complete (parser.cpp:220) never delivers a    *)
(* node of a kind the receiving state does not cast it to, nor a null one  *)
(* where the state dereferences it, at any link of a cascade.              *)
THEOREM NodesAreDelivered == Spec => []DeliveredKind
<1> QED BY ParserPromises, PromisedDelivers, PTL

(* Whatever the text, no state throws logic_error, calls std::get on the   *)
(* wrong alternative of an import or dereferences a null child.            *)
THEOREM StatesNeverFail == Spec => []NoInternalError
<1>1. Promised => NoInternalError BY DEF Promised
<1> QED BY <1>1, ParserPromises, PTL

(* Whatever the text, an import that completes is of one form, and its     *)
(* accessors show every part of it that was read.                          *)
THEOREM ImportsAreWhole == Spec => []ImportWellFormed
<1> QED BY ParserPromises, PromisedImport, PTL

(* However deep scopes nest in an ambient one, each is ambient and none is *)
(* opened by another `declare`, unless an `export` stands between.         *)
THEOREM AmbientIsInherited == Spec => []AmbientInherited
<1> QED BY ParserPromises, PromisedAmbient, PTL

(* Whatever the text, an export assignment is only parsed directly in a    *)
(* file or an ambient module, and an import in a namespace is an equals    *)
(* form without require.                                                   *)
THEOREM ExportsArePlaced == Spec => []PlacedInModule
<1> QED BY ParserPromises, PromisedPlaces, PTL

---------------------------------------------------------------------------
(* The exports of the file: its scope remembers what its children are, for *)
(* nothing but the next child changes what it remembers.                   *)

Marked(on, c) ==
  /\ \A i \in 1 .. Len(c) :
       /\ c[i].kind = "export_assignment" => "has_export_assignment" \in on
       /\ c[i].kind # "export_assignment" /\ c[i].exported => "has_named_export" \in on
  /\ \A i, j \in 1 .. Len(c) :
       c[i].kind = "export_assignment" /\ i # j => ~c[j].exported
                                               /\ c[j].kind # "export_assignment"

Remembered == Marked(state_stack[1].on, children)

LEMMA FileAtBottom ==
  ASSUME Inv
  PROVE  /\ Depth \in Nat \ {0} /\ Top = state_stack[Depth] /\ Depth = Len(state_stack)
         /\ Top.state = "module_scope" <=> Depth = 1
<1>1. Depth \in Nat \ {0} /\ Top = state_stack[Depth] /\ Depth = Len(state_stack)
  BY StackTop DEF Inv, Top, Depth
<1>2. /\ state_stack[1].state = "module_scope"
      /\ \A i \in 1 .. Depth - 1 : state_stack[i + 1].state \in MayPush(state_stack[i].state)
  BY DEF Inv, IsStack, Depth
<1>3. \A x : "module_scope" \notin MayPush(x)
  BY DEF MayPush, ImportStateName, ImportLink, SpecifierListName, Statement
<1>4. ASSUME Depth # 1 PROVE Top.state # "module_scope"
  <2>1. Depth - 1 \in 1 .. Depth - 1 /\ (Depth - 1) + 1 = Depth BY <1>1, <1>4
  <2>2. state_stack[(Depth - 1) + 1].state \in MayPush(state_stack[Depth - 1].state)
    BY <1>2, <2>1
  <2> QED BY <1>1, <1>3, <2>1, <2>2
<1> QED BY <1>1, <1>2, <1>4

(* What the three ways to change the stack do to the file scope.           *)
LEMMA BottomKept ==
  ASSUME Inv, NEW g, IsFrame(g)
  PROVE  /\ Depth # 1 \/ g = Top => WithTop(g)[1] = state_stack[1]
         /\ Depth = 1 => WithTop(g)[1] = g
         /\ \A c \in FrameSet : IsStack(WithTop(g)) => Append(WithTop(g), c)[1] = WithTop(g)[1]
         /\ Depth # 1 => Below[1] = state_stack[1]
<1>1. /\ Depth \in Nat \ {0} /\ Top = state_stack[Depth] /\ Depth = Len(state_stack)
      /\ Top.state = "module_scope" <=> Depth = 1
  BY FileAtBottom
<1>2. IsStack(state_stack) BY DEF Inv
<1>3. WithTop(g) = [state_stack EXCEPT ![Len(state_stack)] = g]
      /\ Below = SubSeq(state_stack, 1, Len(state_stack) - 1)
  BY DEF WithTop, Below, Depth
<1>. DEFINE u == WithTop(g)
<1>4. u[Depth] = g /\ \A i \in 1 .. Depth - 1 : u[i] = state_stack[i]
  BY <1>1, <1>2, <1>3, ReplacedTop
<1>5. Depth # 1 => 1 \in 1 .. Depth - 1 BY <1>1
<1>6. Depth # 1 => Below[1] = state_stack[1] BY <1>1, <1>2, <1>3, <1>5, PoppedTop
<1>. HIDE DEF u
<1>7. ASSUME NEW c \in FrameSet, IsStack(u) PROVE Append(u, c)[1] = u[1]
  <2>1. Len(u) \in Nat \ {0} /\ u \in Seq(FrameSet) BY <1>7, StackTop DEF IsStack
  <2>2. 1 \in 1 .. Len(u) BY <2>1
  <2> QED BY <2>1, <2>2, AppendProperties
<1>8. Depth # 1 \/ g = Top => u[1] = state_stack[1] BY <1>1, <1>4, <1>5
<1>9. Depth = 1 => u[1] = g BY <1>4
<1> QED BY <1>6, <1>7, <1>8, <1>9 DEF u

(* No token changes what the file scope remembers.                         *)
LEMMA FileProcess ==
  ASSUME NEW f, f.state = "module_scope", NEW t, Process(f, t).act \in {"stay", "push"}
  PROVE  Process(f, t).frame = f
<1>1. Process(f, t) = ModuleScopeVisitor(f, t, FALSE, TRUE)
  BY DEF Process, ScopeProcess, TypeStateName, SpecifierStateName, SpecifierListName,
         ImportStateName, ExportStateName
<1>2. /\ Stay(f).frame = f
      /\ \A c : Push(f, c).frame = f
      /\ \A c, b : Calling(Push(f, c), b).frame = f
      /\ \A e : Throw(e).act = "throw"
  BY DEF Stay, Push, Throw, Result, Calling
<1>3. ModuleScopeVisitor(f, t, FALSE, TRUE).act \in {"stay", "push"} =>
        ModuleScopeVisitor(f, t, FALSE, TRUE).frame = f
  BY <1>2 DEF ModuleScopeVisitor, Visitor
<1> QED BY <1>1, <1>3

(* The bookkeeping for one more child.                                     *)
LEMMA ChildMarked ==
  ASSUME NEW f, IsFrame(f), NEW n \in AstNode, n.kind \in Exportable,
         TrackExports(f, n).act = "stay", NEW c \in Seq(AstNode), Marked(f.on, c)
  PROVE  Marked(TrackExports(f, n).frame.on, Append(c, n))
<1>. DEFINE r == TrackExports(f, n)
            on == r.frame.on
            m == Len(c)
            a == Append(c, n)
<1>1. /\ \A g : Stay(g).frame = g
      /\ \A e : Throw(e).act = "throw"
  BY DEF Stay, Throw, Result
<1>2. \A x : TurnOn(f, x).on = f.on \cup x BY TurnFields
<1>3. /\ n.kind = "export_assignment" =>
           /\ "has_export_assignment" \notin f.on /\ "has_named_export" \notin f.on
           /\ on = f.on \cup {"has_export_assignment"}
      /\ n.kind # "export_assignment" /\ n.exported =>
           "has_export_assignment" \notin f.on /\ on = f.on \cup {"has_named_export"}
      /\ n.kind # "export_assignment" /\ ~n.exported => on = f.on
  <2>1. CASE n.kind = "export_assignment" BY <1>1, <1>2, <2>1 DEF TrackExports
  <2>2. CASE n.kind # "export_assignment" /\ n.exported BY <1>1, <1>2, <2>2 DEF TrackExports
  <2>3. CASE n.kind # "export_assignment" /\ ~n.exported BY <1>1, <2>3 DEF TrackExports
  <2> QED BY <2>1, <2>2, <2>3
<1>. HIDE DEF r, on
<1>4. m \in Nat BY LenProperties
<1>5. Len(a) = m + 1 /\ a[m + 1] = n /\ \A i \in 1 .. m : a[i] = c[i] BY AppendProperties
<1>. HIDE DEF m, a
<1>6. \A i \in 1 .. m + 1 : i = m + 1 \/ i \in 1 .. m BY <1>4
<1>7. /\ \A i \in 1 .. m :
           /\ c[i].kind = "export_assignment" => "has_export_assignment" \in f.on
           /\ c[i].kind # "export_assignment" /\ c[i].exported => "has_named_export" \in f.on
      /\ \A i, j \in 1 .. m :
           c[i].kind = "export_assignment" /\ i # j =>
             ~c[j].exported /\ c[j].kind # "export_assignment"
  BY DEF Marked, m
<1>8. ASSUME NEW i \in 1 .. m + 1
      PROVE  /\ a[i].kind = "export_assignment" => "has_export_assignment" \in on
             /\ a[i].kind # "export_assignment" /\ a[i].exported => "has_named_export" \in on
  <2>1. f.on \subseteq on BY <1>3 DEF AstNode
  <2>2. CASE i = m + 1 BY <1>3, <1>5, <2>2
  <2>3. CASE i # m + 1 BY <1>5, <1>6, <1>7, <2>1, <2>3
  <2> QED BY <2>2, <2>3
<1>9. ASSUME NEW i \in 1 .. m + 1, NEW j \in 1 .. m + 1, a[i].kind = "export_assignment", i # j
      PROVE  ~a[j].exported /\ a[j].kind # "export_assignment"
  <2>1. CASE i = m + 1 BY <1>3, <1>5, <1>6, <1>7, <1>9, <2>1
  <2>2. CASE j = m + 1
    <3>1. i \in 1 .. m /\ a[i] = c[i] BY <1>5, <1>6, <1>9, <2>2
    <3>2. "has_export_assignment" \in f.on BY <1>7, <1>9, <3>1
    <3> QED BY <1>3, <1>5, <2>2, <3>2
  <2>3. CASE i # m + 1 /\ j # m + 1
    <3>1. i \in 1 .. m /\ j \in 1 .. m /\ a[i] = c[i] /\ a[j] = c[j] BY <1>5, <1>6, <2>3
    <3> QED BY <1>7, <1>9, <3>1
  <2> QED BY <2>1, <2>2, <2>3
<1>10. Marked(on, a) BY <1>5, <1>8, <1>9 DEF Marked
<1> QED BY <1>10 DEF on, r, a

LEMMA InitRemembers == Init => Remembered
<1>1. Init => Len(children) = 0 /\ 1 .. Len(children) = {} BY DEF Init
<1> QED BY <1>1 DEF Remembered, Marked

LEMMA ProcessRemembers ==
  ASSUME Inv, Remembered, ProcessStay \/ ProcessPush \/ ProcessComplete PROVE Remembered'
<1>. DEFINE r == Processed
<1>1. /\ UNCHANGED children
      /\ \/ r.act = "stay" /\ state_stack' = WithTop(r.frame)
         \/ r.act = "push" /\ state_stack' = Append(WithTop(r.frame), r.child)
         \/ r.act = "complete" /\ state_stack' = Below
  BY DEF ProcessStay, ProcessPush, ProcessComplete, Processing
<1>2. Sound(Top, CurrentToken, r) BY TopFrame
<1>3. Depth = 1 <=> Top.state = "module_scope" BY FileAtBottom
<1>4. Depth = 1 /\ r.act \in {"stay", "push"} => r.frame = Top
  BY <1>3, FileProcess DEF Processed
<1>. HIDE DEF r
<1>5. state_stack'[1] = state_stack[1]
  <2>1. CASE r.act \in {"stay", "push"}
    <3>1. IsFrame(r.frame) BY <1>2, <2>1 DEF Sound, Replaces
    <3>2. IsStack(WithTop(r.frame)) BY <1>2, <2>1, StackSteps DEF Sound
    <3>3. r.act = "push" => r.child \in FrameSet BY <1>2 DEF Sound, Pushes, IsFrame
    <3> QED BY <1>1, <1>4, <2>1, <3>1, <3>2, <3>3, BottomKept
  <2>2. CASE r.act = "complete"
    <3>1. Depth # 1 BY <1>2, <1>3, <2>2 DEF Sound
    <3>2. IsFrame(Top) BY TopFrame
    <3> QED BY <1>1, <2>2, <3>1, <3>2, BottomKept
  <2> QED BY <1>1, <2>1, <2>2
<1> QED BY <1>1, <1>5 DEF Remembered

LEMMA AcceptRemembers ==
  ASSUME Inv, Promised, Remembered, AcceptStay PROVE Remembered'
<1>. DEFINE r == Accepted
<1>1. /\ r.act = "stay" /\ state_stack' = WithTop(r.frame) /\ pc = "handle_complete"
      /\ children' = IF Top.state = "module_scope" THEN Append(children, node) ELSE children
  BY DEF AcceptStay, Accepting
<1>2. Sound(Top, CurrentToken, r) /\ IsFrame(Top) BY TopFrame
<1>3. /\ Depth \in Nat \ {0} /\ Top = state_stack[Depth]
      /\ Depth = 1 <=> Top.state = "module_scope"
  BY FileAtBottom
<1>4. IsFrame(r.frame) BY <1>1, <1>2 DEF Sound, Replaces
<1>5. CASE Depth # 1
  <2>1. state_stack'[1] = state_stack[1] /\ children' = children
    BY <1>1, <1>3, <1>4, <1>5, BottomKept
  <2> QED BY <2>1 DEF Remembered
<1>6. CASE Depth = 1
  <2>1. state_stack'[1] = r.frame /\ children' = Append(children, node) /\ Top = state_stack[1]
    BY <1>1, <1>3, <1>4, <1>6, BottomKept
  <2>2. Top.state = "module_scope" BY <1>3, <1>6
  <2>3. node.kind \in Exportable BY <1>1, <2>2 DEF Promised, Given, Deliverable
  <2>4. r = TrackExports(Top, node)
    <3>1. node.kind # "null" BY <2>3 DEF Exportable
    <3>2. r = ScopeAcceptChild(Top, node)
      BY <2>2 DEF Accepted, AcceptChild, TypeStateName, SpecifierStateName,
                  SpecifierListName, ImportStateName, ExportStateName
    <3> QED BY <2>2, <3>1, <3>2 DEF ScopeAcceptChild, ModuleScopeAccept
  <2>5. node \in AstNode /\ children \in Seq(AstNode) BY DEF Inv, TreeOK
  <2>6. Marked(Top.on, children) BY <2>1 DEF Remembered
  <2>. HIDE DEF r
  <2>7. Marked(r.frame.on, Append(children, node))
    BY <1>1, <1>2, <2>3, <2>4, <2>5, <2>6, ChildMarked
  <2> QED BY <2>1, <2>7 DEF Remembered
<1> QED BY <1>5, <1>6

LEMMA PopRemembers ==
  ASSUME Inv, Remembered, AcceptComplete \/ EofComplete PROVE Remembered'
<1>1. UNCHANGED children /\ state_stack' = Below BY DEF AcceptComplete, EofComplete
<1>2. Depth # 1
  <2>1. CASE EofComplete
    <3>1. Depth > 1 /\ Depth \in Nat BY <2>1, FileAtBottom DEF EofComplete
    <3> QED BY <3>1
  <2>2. CASE AcceptComplete
    <3>1. Accepted.act = "complete" BY <2>2 DEF AcceptComplete
    <3>2. Sound(Top, CurrentToken, Accepted) BY TopFrame
    <3> QED BY <3>1, <3>2, FileAtBottom DEF Sound
  <2> QED BY <2>1, <2>2
<1>3. IsFrame(Top) BY TopFrame
<1>4. state_stack'[1] = state_stack[1] BY <1>1, <1>2, <1>3, BottomKept
<1> QED BY <1>1, <1>4 DEF Remembered

LEMMA NextRemembers == Inv /\ Promised /\ Remembered /\ [Next]_vars => Remembered'
<1>. SUFFICES ASSUME Inv, Promised, Remembered, [Next]_vars PROVE Remembered'
  OBVIOUS
<1>1. ASSUME ProcessStay \/ ProcessPush \/ ProcessComplete PROVE Remembered'
  BY <1>1, ProcessRemembers
<1>2. ASSUME AcceptStay PROVE Remembered' BY <1>2, AcceptRemembers
<1>3. ASSUME AcceptComplete \/ EofComplete PROVE Remembered' BY <1>3, PopRemembers
<1>4. ASSUME \/ CollectTrivia \/ CollectDone \/ ProcessThrow \/ EndOfTokens \/ AcceptThrow
             \/ FlushThrow \/ EofThrow \/ Return \/ Terminated \/ UNCHANGED vars
      PROVE  Remembered'
  <2>1. UNCHANGED <<state_stack, children>>
    BY <1>4 DEF CollectTrivia, CollectDone, ProcessThrow, EndOfTokens, AcceptThrow,
                FlushThrow, EofThrow, Return, Terminated, vars
  <2> QED BY <2>1 DEF Remembered
<1> QED BY <1>1, <1>2, <1>3, <1>4 DEF Next

(* Whatever the text and however many its statements, an export assignment *)
(* is the only export of a file that module_scope_state lets through.      *)
THEOREM AssignmentIsAlone == Spec => []ExportAssignmentAlone
<1>1. Init => Remembered BY InitRemembers
<1>2. (Inv /\ Promised) /\ Remembered /\ [Next]_vars => Remembered' BY NextRemembers
<1>3. Remembered => ExportAssignmentAlone BY DEF Remembered, Marked, ExportAssignmentAlone
<1> QED BY <1>1, <1>2, <1>3, ParserPromises, PTL DEF Spec

---------------------------------------------------------------------------
(* The trivia index.  What is indexed comes before what is pending, and    *)
(* both from behind the token that the iterator is at.                     *)

Ordered(q) == \A i, j \in 1 .. Len(q) : i < j => q[i].at < q[j].at
Before(q, r) == \A i \in 1 .. Len(q) : \A j \in 1 .. Len(r) : q[i].at < r[j].at
UpTo(q, last) == \A i \in 1 .. Len(q) : q[i].at <= last

InOrder(e, p, last) ==
  Ordered(e) /\ Ordered(p) /\ Before(e, p) /\ UpTo(e, last) /\ UpTo(p, last)

Latest == IF token_iter = EndOfText THEN tokens_read ELSE tokens_read - 1
Behind == InOrder(trivia_index.entries, pending_trivia, Latest)

(* Trivia, pending or indexed, as far as their place matters.              *)
Placement == EntrySet \cup [token : Trivia, at : 1 .. MaxTokens]

LEMMA PlacementAt == \A x \in Placement : x.at \in Int
BY MaxTokensAssumption DEF Placement, EntrySet

LEMMA TriviaPlaced ==
  ASSUME NEW e \in Seq(EntrySet), NEW p \in Seq([token : Trivia, at : 1 .. MaxTokens])
  PROVE  e \in Seq(Placement) /\ p \in Seq(Placement)
<1>1. /\ EntrySet \subseteq Placement
      /\ [token : Trivia, at : 1 .. MaxTokens] \subseteq Placement
  BY DEF Placement
<1>2. e \in Seq(Placement) BY <1>1, SeqMonotonic
<1>3. p \in Seq(Placement) BY <1>1, SeqMonotonic
<1> QED BY <1>2, <1>3

LEMMA PlacesAt ==
  ASSUME NEW q \in Seq(Placement)
  PROVE  Len(q) \in Nat /\ \A i \in 1 .. Len(q) : q[i].at \in Int
<1>1. Len(q) \in Nat BY LenProperties
<1>2. \A i \in 1 .. Len(q) : q[i] \in Placement BY ElementOfSeq
<1> QED BY <1>1, <1>2, PlacementAt

LEMMA ConcatOrdered ==
  ASSUME NEW q \in Seq(Placement), NEW r \in Seq(Placement),
         Ordered(q), Ordered(r), Before(q, r)
  PROVE  /\ Ordered(q \o r)
         /\ \A u : Before(q, u) /\ Before(r, u) => Before(q \o r, u)
         /\ \A last : UpTo(q, last) /\ UpTo(r, last) => UpTo(q \o r, last)
<1>. DEFINE a == q \o r
            m == Len(q)
            n == Len(r)
<1>1. /\ Len(a) = m + n
      /\ \A i \in 1 .. m + n : a[i] = IF i <= m THEN q[i] ELSE r[i - m]
  BY ConcatProperties
<1>2. m \in Nat /\ n \in Nat BY LenProperties
<1>3. /\ \A i, j \in 1 .. m : i < j => q[i].at < q[j].at
      /\ \A i, j \in 1 .. n : i < j => r[i].at < r[j].at
      /\ \A i \in 1 .. m : \A j \in 1 .. n : q[i].at < r[j].at
  BY DEF Ordered, Before
<1>. HIDE DEF a, m, n
<1>4. ASSUME NEW i \in 1 .. m + n
      PROVE  \/ i \in 1 .. m /\ a[i] = q[i]
             \/ i > m /\ i - m \in 1 .. n /\ a[i] = r[i - m]
  BY <1>1, <1>2
<1>5. ASSUME NEW i \in 1 .. m + n, NEW j \in 1 .. m + n, i < j PROVE a[i].at < a[j].at
  <2>1. CASE i \in 1 .. m /\ a[i] = q[i]
    <3>1. CASE j \in 1 .. m /\ a[j] = q[j] BY <1>3, <1>5, <2>1, <3>1
    <3>2. CASE j > m /\ j - m \in 1 .. n /\ a[j] = r[j - m] BY <1>3, <2>1, <3>2
    <3> QED BY <1>4, <3>1, <3>2
  <2>2. CASE i > m /\ i - m \in 1 .. n /\ a[i] = r[i - m]
    <3>1. ~ (j \in 1 .. m) /\ i - m < j - m BY <1>2, <1>5, <2>2
    <3>2. j - m \in 1 .. n /\ a[j] = r[j - m] BY <1>4, <3>1
    <3> QED BY <1>3, <2>2, <3>1, <3>2
  <2> QED BY <1>4, <2>1, <2>2
<1>6. Ordered(a) BY <1>1, <1>5 DEF Ordered
<1>7. ASSUME NEW u, Before(q, u), Before(r, u) PROVE Before(a, u)
  <2>1. ASSUME NEW i \in 1 .. m + n, NEW j \in 1 .. Len(u) PROVE a[i].at < u[j].at
    BY <1>4, <1>7 DEF Before, m, n
  <2> QED BY <1>1, <2>1 DEF Before
<1>8. ASSUME NEW last, UpTo(q, last), UpTo(r, last) PROVE UpTo(a, last)
  <2>1. ASSUME NEW i \in 1 .. m + n PROVE a[i].at <= last BY <1>4, <1>8 DEF UpTo, m, n
  <2> QED BY <1>1, <2>1 DEF UpTo
<1> QED BY <1>6, <1>7, <1>8 DEF a

(* The index and what is pending, one after the other.                     *)
LEMMA BehindSorted == TriviaOK /\ Behind => IndexSorted
<1>. SUFFICES ASSUME TriviaOK, Behind PROVE IndexSorted OBVIOUS
<1>1. Ordered(trivia_index.entries \o pending_trivia)
  BY TriviaPlaced, ConcatOrdered DEF Behind, InOrder, TriviaOK
<1> QED BY <1>1 DEF IndexSorted, Ordered

LEMMA OrderLater ==
  ASSUME NEW e \in Seq(Placement), NEW p \in Seq(Placement), NEW m \in Int, NEW n \in Int,
         m <= n, InOrder(e, p, m)
  PROVE  InOrder(e, p, n)
<1>1. UpTo(e, n) BY PlacesAt DEF InOrder, UpTo
<1>2. UpTo(p, n) BY PlacesAt DEF InOrder, UpTo
<1> QED BY <1>1, <1>2 DEF InOrder

(* One more token is found to be trivia.                                   *)
LEMMA OrderCollects ==
  ASSUME NEW e \in Seq(Placement), NEW p \in Seq(Placement), NEW m \in Int,
         InOrder(e, p, m), NEW x \in Placement, x.at = m + 1
  PROVE  InOrder(e, Append(p, x), m + 1)
<1>. DEFINE n == Len(p)
            a == Append(p, x)
<1>1. /\ Len(a) = n + 1 /\ a[n + 1] = x
      /\ \A i \in 1 .. n : a[i] = p[i]
  BY AppendProperties
<1>2. /\ n \in Nat /\ \A i \in 1 .. n : p[i].at \in Int
      /\ \A i \in 1 .. Len(e) : e[i].at \in Int
  BY PlacesAt
<1>3. /\ \A i, j \in 1 .. n : i < j => p[i].at < p[j].at
      /\ \A i \in 1 .. Len(e) : \A j \in 1 .. n : e[i].at < p[j].at
      /\ \A i \in 1 .. Len(e) : e[i].at <= m
      /\ \A i \in 1 .. n : p[i].at <= m
  BY DEF InOrder, Ordered, Before, UpTo
<1>. HIDE DEF n, a
<1>4. \A i \in 1 .. n + 1 : (i \in 1 .. n /\ a[i] = p[i]) \/ (i = n + 1 /\ a[i] = x)
  BY <1>1, <1>2
<1>5. \A i \in 1 .. n : p[i].at < x.at /\ p[i].at <= m + 1
  <2>. TAKE i \in 1 .. n
  <2>1. p[i].at \in Int /\ p[i].at <= m BY <1>2, <1>3
  <2> QED BY <2>1
<1>6. \A i \in 1 .. Len(e) : e[i].at < x.at /\ e[i].at <= m + 1
  <2>. TAKE i \in 1 .. Len(e)
  <2>1. e[i].at \in Int /\ e[i].at <= m BY <1>2, <1>3
  <2> QED BY <2>1
<1>7. ASSUME NEW i \in 1 .. n + 1, NEW j \in 1 .. n + 1, i < j PROVE a[i].at < a[j].at
  <2>1. i \in 1 .. n /\ a[i] = p[i] BY <1>2, <1>4, <1>7
  <2> QED BY <1>3, <1>4, <1>5, <1>7, <2>1
<1>8. ASSUME NEW i \in 1 .. Len(e), NEW j \in 1 .. n + 1 PROVE e[i].at < a[j].at
  BY <1>3, <1>4, <1>6
<1>9. \A i \in 1 .. n + 1 : a[i].at <= m + 1
  <2>1. x.at <= m + 1 OBVIOUS
  <2> QED BY <1>4, <1>5, <2>1
<1>10. Ordered(a) /\ Before(e, a) /\ UpTo(a, m + 1) /\ UpTo(e, m + 1)
  BY <1>1, <1>6, <1>7, <1>8, <1>9 DEF Ordered, Before, UpTo
<1> QED BY <1>10 DEF InOrder, a

(* What is pending is forgotten.                                           *)
LEMMA OrderForgets ==
  ASSUME NEW e, NEW p, NEW m, InOrder(e, p, m) PROVE InOrder(e, <<>>, m)
<1>1. Len(<<>>) = 0 /\ 1 .. Len(<<>>) = {} OBVIOUS
<1> QED BY <1>1 DEF InOrder, Ordered, Before, UpTo

(* The first k of what is pending, as a, is moved to the index.            *)
LEMMA OrderEmplaces ==
  ASSUME NEW e \in Seq(Placement), NEW p \in Seq(Placement), NEW m, InOrder(e, p, m),
         NEW k \in 0 .. Len(p), NEW a \in Seq(Placement), Len(a) = k,
         \A i \in 1 .. k : a[i].at = p[i].at
  PROVE  InOrder(e \o a, SubSeq(p, k + 1, Len(p)), m)
<1>. DEFINE n == Len(p)
            r == SubSeq(p, k + 1, n)
<1>1. n \in Nat /\ k \in Nat /\ k <= n BY PlacesAt
<1>2. \A i \in 1 .. n : p[i] \in Placement BY ElementOfSeq
<1>3. \A i \in k + 1 .. n : i \in 1 .. n BY <1>1
<1>4. \A i \in k + 1 .. n : p[i] \in Placement BY <1>2, <1>3
<1>. HIDE DEF n
<1>5. /\ Len(r) = IF k + 1 <= n THEN n - (k + 1) + 1 ELSE 0
      /\ \A i \in 1 .. n - (k + 1) + 1 : r[i] = p[k + 1 + i - 1]
  BY <1>1, <1>4, SubSeqProperties
<1>6. n - (k + 1) + 1 = n - k /\ (IF k + 1 <= n THEN n - (k + 1) + 1 ELSE 0) = n - k
  BY <1>1
<1>7. \A i \in 1 .. n - k : k + 1 + i - 1 = k + i /\ k + i \in 1 .. n BY <1>1
<1>. HIDE DEF r
<1>8. Len(r) = n - k /\ \A i \in 1 .. n - k : r[i] = p[k + i] /\ k + i \in 1 .. n
  BY <1>5, <1>6, <1>7
<1>9. /\ \A i, j \in 1 .. n : i < j => p[i].at < p[j].at
      /\ \A i \in 1 .. Len(e) : \A j \in 1 .. n : e[i].at < p[j].at
      /\ \A i \in 1 .. Len(e) : e[i].at <= m
      /\ \A i \in 1 .. n : p[i].at <= m
  BY DEF InOrder, Ordered, Before, UpTo, n
<1>10. \A i \in 1 .. k : i \in 1 .. n /\ a[i].at = p[i].at BY <1>1
<1>11. Ordered(a) /\ Before(e, a) /\ UpTo(a, m)
  BY <1>9, <1>10 DEF Ordered, Before, UpTo
<1>12. Ordered(r)
  <2>1. ASSUME NEW i \in 1 .. n - k, NEW j \in 1 .. n - k, i < j PROVE r[i].at < r[j].at
    <3>1. k + i < k + j BY <1>1, <2>1
    <3> QED BY <1>8, <1>9, <3>1
  <2> QED BY <1>8, <2>1 DEF Ordered
<1>13. Before(e, r) /\ UpTo(r, m) BY <1>8, <1>9 DEF Before, UpTo
<1>14. Before(a, r)
  <2>1. ASSUME NEW i \in 1 .. k, NEW j \in 1 .. n - k PROVE a[i].at < r[j].at
    <3>1. i < k + j BY <1>1
    <3> QED BY <1>8, <1>9, <1>10, <3>1
  <2> QED BY <1>8, <2>1 DEF Before
<1>15. Ordered(e) /\ UpTo(e, m) BY DEF InOrder
<1>16. Ordered(e \o a) /\ Before(e \o a, r) /\ UpTo(e \o a, m)
  BY <1>11, <1>13, <1>14, <1>15, ConcatOrdered
<1>17. InOrder(e \o a, r, m) BY <1>12, <1>13, <1>16 DEF InOrder
<1> QED BY <1>17 DEF r, n

LEMMA LatestTyped == LexerOK => Latest \in Int
BY MaxTokensAssumption DEF LexerOK, Latest

(* The iterator never goes back, and one step takes it past one token.     *)
LEMMA LatestMoves ==
  ASSUME LexerOK, LexerOK'
  PROVE  /\ MoveIterator /\ token_iter # EndOfText => Latest' = Latest + 1
         /\ UNCHANGED lexer_vars => Latest' = Latest
         /\ AdvanceToken => Latest <= Latest'
         /\ \A r : Continue(r) => Latest <= Latest'
<1>1. Latest \in Int /\ Latest' \in Int /\ tokens_read \in Int
  BY MaxTokensAssumption DEF LexerOK, Latest
<1>2. MoveIterator /\ token_iter # EndOfText => Latest' = Latest + 1
  <2>. SUFFICES ASSUME MoveIterator, token_iter # EndOfText PROVE Latest' = Latest + 1
    OBVIOUS
  <2>1. Latest = tokens_read - 1 BY DEF Latest
  <2>2. Latest' = tokens_read
    <3>1. CASE token_iter' = EndOfText BY <3>1 DEF MoveIterator, Latest
    <3>2. CASE token_iter' # EndOfText
      <4>1. tokens_read' = tokens_read + 1 /\ Latest' = tokens_read' - 1
        BY <3>2 DEF MoveIterator, Latest
      <4> QED BY <1>1, <4>1
    <3> QED BY <3>1, <3>2
  <2> QED BY <1>1, <2>1, <2>2
<1>3. UNCHANGED lexer_vars => Latest' = Latest BY DEF lexer_vars, Latest
<1>4. AdvanceToken => Latest <= Latest'
  <2>1. AdvanceToken => (MoveIterator /\ token_iter # EndOfText) \/ UNCHANGED lexer_vars
    BY DEF AdvanceToken
  <2> QED BY <1>1, <1>2, <1>3, <2>1
<1>5. ASSUME NEW r, Continue(r) PROVE Latest <= Latest'
  <2>1. AdvanceToken \/ UNCHANGED lexer_vars BY <1>5 DEF Continue
  <2> QED BY <1>1, <1>3, <1>4, <2>1
<1> QED BY <1>2, <1>3, <1>4, <1>5

LEMMA EmplaceOrders ==
  ASSUME TriviaOK, Behind, NEW kind \in NodeKind, NEW relationship \in {"leading", "orphaned"},
         Emplace(kind, relationship)
  PROVE  InOrder(trivia_index'.entries, pending_trivia', Latest)
<1>. DEFINE e == trivia_index.entries
            p == pending_trivia
            k == Emplaceable
            a == Entries(kind, relationship)
<1>1. e \in Seq(Placement) /\ p \in Seq(Placement) BY TriviaPlaced DEF TriviaOK
<1>2. k \in 0 .. Len(p) /\ Len(p) \in Nat BY <1>1, EmplaceableSplits, LenProperties
<1>3. \A i \in 1 .. k : pending_trivia[i] \in [token : Trivia, at : 1 .. MaxTokens]
  <2>1. \A i \in 1 .. k : i \in 1 .. Len(p) BY <1>2
  <2> QED BY <2>1, ElementOfSeq DEF TriviaOK
<1>4. a = [i \in 1 .. k |-> [token |-> p[i].token, at |-> p[i].at,
                             node |-> kind, rel |-> relationship]]
  BY DEF Entries
<1>5. \A i \in 1 .. k : a[i].at = p[i].at BY <1>4
<1>6. a \in Seq(EntrySet)
  <2>1. \A i \in 1 .. k : p[i].token \in Comment /\ p[i].at \in 1 .. MaxTokens
    BY <1>2, <1>3, EmplaceableSplits DEF Trivia
  <2>2. \A i \in 1 .. k : [token |-> p[i].token, at |-> p[i].at,
                           node |-> kind, rel |-> relationship] \in EntrySet
    BY <2>1 DEF EntrySet
  <2>. HIDE DEF k
  <2> QED BY <1>2, <1>4, <2>2
<1>7. Len(a) = k BY <1>2, <1>4
<1>8. a \in Seq(Placement)
  <2>1. EntrySet \subseteq Placement BY DEF Placement
  <2> QED BY <1>6, <2>1, SeqMonotonic
<1>9. InOrder(e, p, Latest) BY DEF Behind
<1>. HIDE DEF a, k
<1>10. InOrder(e \o a, SubSeq(p, k + 1, Len(p)), Latest)
  BY <1>1, <1>2, <1>5, <1>7, <1>8, <1>9, OrderEmplaces
<1>11. trivia_index'.entries = e \o a /\ pending_trivia' = SubSeq(p, k + 1, Len(p))
  BY DEF Emplace, TriviaOK, a, k
<1> QED BY <1>10, <1>11

LEMMA FlushOrders ==
  ASSUME TriviaOK, node \in AstNode, Behind, FlushTrivia
  PROVE  InOrder(trivia_index'.entries, pending_trivia', Latest)
<1>1. CASE Flushes
  <2>1. node.kind \in NodeKind BY DEF AstNode
  <2>2. Emplace(node.kind, "leading") BY <1>1 DEF FlushTrivia
  <2> QED BY <2>1, <2>2, EmplaceOrders
<1>2. CASE ~Flushes
  <2>1. pending_trivia' = <<>> /\ trivia_index' = trivia_index BY <1>2 DEF FlushTrivia
  <2>2. InOrder(trivia_index.entries, <<>>, Latest) BY OrderForgets DEF Behind
  <2> QED BY <2>1, <2>2
<1> QED BY <1>1, <1>2

(* What is in order stays so when the iterator moves on.                   *)
LEMMA OrderKept ==
  ASSUME TriviaOK', LexerOK, LexerOK', InOrder(trivia_index'.entries, pending_trivia', Latest),
         Latest <= Latest'
  PROVE  Behind'
<1>1. trivia_index'.entries \in Seq(Placement) /\ pending_trivia' \in Seq(Placement)
  BY TriviaPlaced DEF TriviaOK
<1>2. Latest \in Int /\ Latest' \in Int BY MaxTokensAssumption DEF LexerOK, Latest
<1>3. InOrder(trivia_index'.entries, pending_trivia', Latest') BY <1>1, <1>2, OrderLater
<1> QED BY <1>3 DEF Behind

LEMMA InitBehind == Init => Behind
<1>. SUFFICES ASSUME Init PROVE Behind OBVIOUS
<1>1. pending_trivia = <<>> /\ trivia_index.entries = <<>> BY DEF Init
<1>2. Len(<<>>) = 0 /\ 1 .. Len(<<>>) = {} OBVIOUS
<1>3. InOrder(<<>>, <<>>, Latest) BY <1>2 DEF InOrder, Ordered, Before, UpTo
<1> QED BY <1>1, <1>3 DEF Behind

LEMMA CollectBehind == ASSUME Inv, Inv', Behind, CollectTrivia PROVE Behind'
<1>. DEFINE x == [token |-> token_iter, at |-> tokens_read]
<1>1. LexerOK /\ LexerOK' /\ TriviaOK BY DEF Inv
<1>2. token_iter \in Trivia /\ token_iter # EndOfText
  BY DEF CollectTrivia, Trivia, Comment, EndOfText
<1>3. /\ pending_trivia' = Append(pending_trivia, x) /\ trivia_index' = trivia_index
      /\ MoveIterator
  BY DEF CollectTrivia
<1>4. Latest' = Latest + 1 BY <1>1, <1>2, <1>3, LatestMoves
<1>5. Latest \in Int /\ x.at = Latest + 1
  <2>1. tokens_read \in Int /\ Latest = tokens_read - 1
    BY <1>1, <1>2, MaxTokensAssumption DEF LexerOK, Latest
  <2> QED BY <2>1
<1>6. x \in Placement
  <2>1. tokens_read \in 1 .. MaxTokens BY <1>1, <1>2, MaxTokensAssumption DEF LexerOK
  <2> QED BY <1>2, <2>1 DEF Placement
<1>. HIDE DEF x
<1>7. InOrder(trivia_index.entries, Append(pending_trivia, x), Latest + 1)
  BY <1>1, <1>5, <1>6, TriviaPlaced, OrderCollects DEF Behind, TriviaOK
<1> QED BY <1>3, <1>4, <1>7 DEF Behind

LEMMA NextBehind == Inv /\ Inv' /\ Behind /\ [Next]_vars => Behind'
<1>. SUFFICES ASSUME Inv, Inv', Behind, [Next]_vars PROVE Behind'
  OBVIOUS
<1>1. LexerOK /\ LexerOK' /\ TriviaOK /\ TriviaOK' /\ node \in AstNode
  BY DEF Inv, TreeOK
<1>2. Latest \in Int BY <1>1, LatestTyped
<1>3. ASSUME UNCHANGED trivia_vars, Latest <= Latest' PROVE Behind'
  <2>1. trivia_index' = trivia_index /\ pending_trivia' = pending_trivia
    BY <1>3 DEF trivia_vars
  <2>2. InOrder(trivia_index'.entries, pending_trivia', Latest) BY <2>1 DEF Behind
  <2> QED BY <1>1, <1>3, <2>2, OrderKept
<1>4. ASSUME InOrder(trivia_index'.entries, pending_trivia', Latest), UNCHANGED lexer_vars
      PROVE  Behind'
  <2>1. Latest <= Latest' BY <1>1, <1>2, <1>4, LatestMoves
  <2> QED BY <1>1, <1>4, <2>1, OrderKept
<1>5. ASSUME CollectTrivia PROVE Behind' BY <1>5, CollectBehind
<1>6. ASSUME ProcessStay \/ ProcessPush PROVE Behind'
  <2>1. UNCHANGED trivia_vars /\ Continue(Processed) BY <1>6 DEF ProcessStay, ProcessPush
  <2>2. Latest <= Latest' BY <1>1, <2>1, LatestMoves
  <2> QED BY <1>3, <2>1, <2>2
<1>7. ASSUME \/ CollectDone \/ ProcessComplete \/ ProcessThrow \/ EndOfTokens
             \/ EofComplete \/ EofThrow \/ Terminated \/ UNCHANGED vars
      PROVE  Behind'
  <2>1. UNCHANGED trivia_vars /\ UNCHANGED lexer_vars
    BY <1>7 DEF CollectDone, ProcessComplete, ProcessThrow, EndOfTokens, EofComplete,
                EofThrow, Terminated, vars, trivia_vars, lexer_vars
  <2>2. Latest <= Latest' BY <1>1, <1>2, <2>1, LatestMoves
  <2> QED BY <1>3, <2>1, <2>2
<1>8. ASSUME AcceptStay PROVE Behind'
  <2>1. FlushTrivia BY <1>8 DEF AcceptStay
  <2>2. AdvanceToken \/ UNCHANGED lexer_vars BY <1>8 DEF AcceptStay
  <2>3. InOrder(trivia_index'.entries, pending_trivia', Latest) BY <1>1, <2>1, FlushOrders
  <2>4. Latest <= Latest' BY <1>1, <1>2, <2>2, LatestMoves
  <2> QED BY <1>1, <2>3, <2>4, OrderKept
<1>9. ASSUME AcceptComplete \/ AcceptThrow PROVE Behind'
  <2>1. FlushTrivia /\ UNCHANGED lexer_vars BY <1>9 DEF AcceptComplete, AcceptThrow
  <2> QED BY <1>1, <1>4, <2>1, FlushOrders
<1>10. ASSUME FlushThrow PROVE Behind'
  <2>1. Emplace(node.kind, "leading") /\ UNCHANGED lexer_vars BY <1>10 DEF FlushThrow
  <2>2. node.kind \in NodeKind BY <1>1 DEF AstNode
  <2> QED BY <1>1, <1>4, <2>1, <2>2, EmplaceOrders
<1>11. ASSUME Return PROVE Behind'
  <2>1. UNCHANGED lexer_vars BY <1>11 DEF Return
  <2>2. InOrder(trivia_index'.entries, pending_trivia', Latest)
    <3>1. CASE trivia_index.given
      BY <1>1, <1>11, <3>1, EmplaceOrders DEF Return, NodeKind
    <3>2. CASE ~trivia_index.given
      <4>1. pending_trivia' = <<>> /\ trivia_index' = trivia_index
        BY <1>11, <3>2 DEF Return
      <4>2. InOrder(trivia_index.entries, <<>>, Latest) BY OrderForgets DEF Behind
      <4> QED BY <4>1, <4>2
    <3> QED BY <3>1, <3>2
  <2> QED BY <1>4, <2>1, <2>2
<1> QED BY <1>5, <1>6, <1>7, <1>8, <1>9, <1>10, <1>11 DEF Next

(* Whatever the text, the comments that filtered_token_index::emplace is   *)
(* given and those it will be given are in the order of the text, each     *)
(* once: finalize() has nothing to sort.                                   *)
THEOREM IndexStaysSorted == Spec => []IndexSorted
<1>1. Init => Behind BY InitBehind
<1>2. Inv /\ Inv' /\ Behind /\ [Next]_vars => Behind' BY NextBehind
<1>3. Inv /\ Behind => IndexSorted BY BehindSorted DEF Inv
<1> QED BY <1>1, <1>2, <1>3, Invariance, PTL DEF Spec

---------------------------------------------------------------------------
(* Where the newlines come from that are presented to the states.          *)

(* A state that has remembered a newline.                                  *)
Unmarked(f) == "newline_loc" \notin f.on
MultilineState == {"type_union", "type_intersection", "type_postfix", "export_assignment"}

(* A result that remembers no newline and gives none back.                 *)
Clean(r) ==
  /\ DOMAIN r = ResultField
  /\ Unmarked(r.frame) /\ Unmarked(r.child) /\ r.newline = FALSE

(* A newline is remembered by a state that stays at it; it is given back   *)
(* with the token that came behind it.                                     *)
Marks(f, t, r) ==
  /\ Unmarked(r.child)
  /\ r.act \in {"stay", "push"} /\ ~Unmarked(r.frame) =>
       t = "newline" /\ r.act = "stay" /\ f.state \in MultilineState
  /\ r.newline => ~Unmarked(f) /\ t # "newline" /\ r.act = "complete" /\ r.reprocess

LEMMA UnmarkedFrames ==
  /\ \A s, on : "newline_loc" \notin on => Unmarked(Frame(s, on))
  /\ \A s : Unmarked(Fresh(s))
  /\ \A f, s : Unmarked(Inherit(f, s))
  /\ \A b : Unmarked(NoFrame)
BY DEF Unmarked, Frame, Fresh, Inherit, NoFrame

LEMMA UnmarkedTurn ==
  ASSUME NEW f, IsFrame(f), Unmarked(f)
  PROVE  \A off, on : "newline_loc" \notin on => /\ Unmarked(Turn(f, off, on))
                                                 /\ Unmarked(TurnOn(f, on))
BY DEF Unmarked, IsFrame, FrameSet, Turn, TurnOn

LEMMA CleanResults ==
  /\ \A g : Unmarked(g) => Clean(Stay(g)) /\ Clean(NullOpt(g))
  /\ \A g, c : Unmarked(g) /\ Unmarked(c) => Clean(Push(g, c))
  /\ \A g, n : Unmarked(g) => Clean(Complete(g, n))
  /\ \A e : Clean(Throw(e))
  /\ Clean(Expected) /\ Clean(LogicError)
BY UnmarkedFrames
   DEF Clean, ResultField, Stay, Push, Complete, Throw, NullOpt, Expected, LogicError, Result

LEMMA CleanModified ==
  ASSUME NEW r, Clean(r)
  PROVE  /\ Clean(Reprocess(r))
         /\ \A c : Clean(Calling(r, c))
         /\ \A c, d : Clean(Calling2(r, c, d))
         /\ \A f, t : Unmarked(f) => Clean(Visitor(f, t, r))
BY CleanResults DEF Clean, ResultField, Reprocess, Calling, Calling2, Visitor

LEMMA CleanMarks == ASSUME NEW f, NEW t, NEW r, Clean(r) PROVE Marks(f, t, r)
BY DEF Clean, Marks

(* What a multiline state's process_content may return.                    *)
IsContent(r) ==
  /\ DOMAIN r = ResultField
  /\ Unmarked(r.child) /\ (r.act \in {"stay", "push"} => IsFrame(r.frame))

LEMMA Contents ==
  /\ \A g : IsFrame(g) => IsContent(Stay(g))
  /\ \A g, s : IsFrame(g) => IsContent(Push(g, Fresh(s)))
  /\ \A g, n : IsContent(Complete(g, n))
  /\ \A r : IsContent(r) => IsContent(Reprocess(r))
  /\ IsContent(Expected)
BY UnmarkedFrames
   DEF IsContent, ResultField, Stay, Push, Complete, Throw, Expected, Result, Reprocess

LEMMA MultilineMarks ==
  ASSUME NEW f, NEW t, NEW r, f.state \in MultilineState, IsContent(r)
  PROVE  Marks(f, t, Multiline(f, t, r))
<1>. USE DEF IsContent
<1>1. CASE t = "newline"
  <2>1. Multiline(f, t, r) = Stay(TurnOn(f, {"newline_loc"}))
    BY <1>1 DEF Multiline
  <2>2. /\ Multiline(f, t, r).act = "stay" /\ Multiline(f, t, r).child = NoFrame
        /\ Multiline(f, t, r).newline = FALSE
    BY <2>1 DEF Stay, Result
  <2>. QED BY <1>1, <2>2, UnmarkedFrames DEF Marks
<1>2. CASE t # "newline"
  <2>1. PICK given : /\ given <=> (r.act = "complete" /\ r.reprocess /\ ~Unmarked(f))
                     /\ Multiline(f, t, r) = [r EXCEPT !.newline = given,
                                               !.frame = Turn(r.frame, {"newline_loc"}, {})]
    BY <1>2 DEF Multiline, Unmarked
  <2>. DEFINE g == Turn(r.frame, {"newline_loc"}, {})
              m == [r EXCEPT !.newline = given, !.frame = g]
  <2>2. /\ m.act = r.act /\ m.child = r.child /\ m.frame = g
        /\ m.newline = given /\ m.reprocess = r.reprocess
    BY DEF ResultField
  <2>3. r.act \in {"stay", "push"} => Unmarked(g)
    BY DEF IsFrame, FrameSet, Turn, Unmarked
  <2>. QED BY <1>2, <2>1, <2>2, <2>3 DEF Marks
<1>. QED BY <1>1, <1>2

LEMMA TypeMarks ==
  ASSUME NEW f, NEW t, IsFrame(f), f.state \in TypeStateName,
         Unmarked(f) \/ f.state \in MultilineState
  PROVE  Marks(f, t, TypeProcess(f, t))
<1>. USE CleanResults, CleanModified, UnmarkedFrames, UnmarkedTurn, CleanMarks
<1>1. ASSUME Unmarked(f)
      PROVE  /\ Clean(Type(f, t)) /\ Clean(TypeHeader(f, t)) /\ Clean(TypeExpression(f, t))
             /\ Clean(TypeParameterList(f, t)) /\ Clean(TypeParameter(f, t))
             /\ Clean(TypePrimary(f, t)) /\ Clean(TypeReference(f, t))
             /\ Clean(TypeArgumentList(f, t)) /\ Clean(TypeParen(f, t))
  <2>. USE <1>1
  <2>1. Clean(Type(f, t)) BY DEF Type
  <2>2. Clean(TypeHeader(f, t)) BY DEF TypeHeader
  <2>3. Clean(TypeExpression(f, t)) BY DEF TypeExpression
  <2>4. Clean(TypeParameterList(f, t)) BY DEF TypeParameterList
  <2>5. Clean(TypeParameter(f, t)) BY DEF TypeParameter
  <2>6. Clean(TypePrimary(f, t)) BY DEF TypePrimary, FreshReference
  <2>7. Clean(TypeReference(f, t)) BY DEF TypeReference
  <2>8. Clean(TypeArgumentList(f, t)) BY DEF TypeArgumentList
  <2>9. Clean(TypeParen(f, t)) BY DEF TypeParen
  <2>. QED BY <2>1, <2>2, <2>3, <2>4, <2>5, <2>6, <2>7, <2>8, <2>9
<1>2. /\ \A on : on \subseteq {"init_done", "open_bracket"} => IsFrame(TurnOn(f, on))
      /\ IsFrame(Turn(f, {"open_bracket"}, {"base"}))
  BY KnownFlags, TurnFrame, TurnOnFrame DEF IsFlags, Replaces
<1>3. ASSUME f.state \in MultilineState, NEW separator, NEW operand
      PROVE  Marks(f, t, Separated(f, t, separator, operand))
  BY <1>2, <1>3, Contents, MultilineMarks DEF Separated
<1>4. ASSUME f.state \in MultilineState
      PROVE  Marks(f, t, TypePostfix(f, t))
  BY <1>2, <1>4, Contents, MultilineMarks DEF TypePostfix
<1>5. Unmarked(f) => Clean(Reprocess(Push(f, Fresh("type_postfix"))))
  OBVIOUS
<1>. QED
  BY <1>1, <1>3, <1>4, <1>5 DEF TypeProcess, MultilineState, TypeStateName

LEMMA SpecifierClean ==
  ASSUME NEW f, NEW t, IsFrame(f), Unmarked(f)
  PROVE  Clean(SpecifierProcess(f, t))
<1>. USE CleanResults, CleanModified, UnmarkedFrames, UnmarkedTurn
<1>1. Clean(SpecifierList(f, t)) BY DEF SpecifierList
<1>2. Clean(SpecifierItem(f, t)) BY DEF SpecifierItem
<1>3. Clean(SpecifierHead(f, t)) BY DEF SpecifierHead
<1>4. Clean(SpecifierResolveType(f, t)) BY DEF SpecifierResolveType
<1>5. Clean(SpecifierAlias(f, t)) BY DEF SpecifierAlias
<1>. QED BY <1>1, <1>2, <1>3, <1>4, <1>5 DEF SpecifierProcess

LEMMA ImportClean ==
  ASSUME NEW f, NEW t, IsFrame(f), Unmarked(f)
  PROVE  Clean(ImportProcess(f, t))
<1>. USE CleanResults, CleanModified, UnmarkedFrames, UnmarkedTurn
<1>0. /\ Unmarked(NamedImports) /\ \A s : Unmarked(s) => Clean(PushSub(f, s))
  BY DEF NamedImports, PushSub
<1>1. Clean(Import(f, t)) BY DEF Import
<1>2. Clean(AfterImport(f, t)) BY <1>0 DEF AfterImport
<1>3. Clean(AfterType(f, t)) BY <1>0 DEF AfterType
<1>4. Clean(AfterDefault(f, t)) BY DEF AfterDefault
<1>5. Clean(AfterComma(f, t)) BY <1>0 DEF AfterComma
<1>6. Clean(ExpectFrom(f, t)) /\ Clean(AfterFrom(f, t)) BY DEF ExpectFrom, AfterFrom
<1>7. Clean(ExpectAs(f, t)) /\ Clean(ExpectNamespaceName(f, t))
  BY DEF ExpectAs, ExpectNamespaceName
<1>8. Clean(AfterEquals(f, t)) BY DEF AfterEquals
<1>9. Clean(ExpectRequireParen(f, t)) /\ Clean(AfterRequireOpen(f, t))
  BY DEF ExpectRequireParen, AfterRequireOpen
<1>10. Clean(EndOfImport(f, t)) BY DEF EndOfImport
<1>11. Clean(AfterRequireModule(f, t)) BY <1>10 DEF AfterRequireModule
<1>12. Clean(ImportEntity(f, t)) BY <1>10 DEF ImportEntity
<1>13. Clean(AfterModuleSpec(f, t)) BY <1>0, <1>10 DEF AfterModuleSpec
<1>14. \A from, to : to # "newline_loc" => Clean(Phase(f, from, to)) BY DEF Phase
<1>15. Clean(ImportAttributes(f, t)) BY <1>14 DEF ImportAttributes
<1>. QED
  BY <1>1, <1>2, <1>3, <1>4, <1>5, <1>6, <1>7, <1>8, <1>9, <1>11, <1>12, <1>13, <1>15
     DEF ImportProcess

LEMMA ExportMarks ==
  ASSUME NEW f, NEW t, IsFrame(f), f.state \in ExportStateName,
         Unmarked(f) \/ f.state \in MultilineState
  PROVE  Marks(f, t, ExportProcess(f, t))
<1>. USE CleanResults, CleanModified, UnmarkedFrames, UnmarkedTurn, CleanMarks
<1>1. ASSUME Unmarked(f)
      PROVE  /\ Clean(Export(f, t)) /\ Clean(ExportStar(f, t)) /\ Clean(ExportStarAfterStar(f, t))
             /\ Clean(ExportStarNameState(f, t)) /\ Clean(ExportStarFrom(f, t))
             /\ \A next : Clean(ModuleSpec(f, t, next))
             /\ Clean(OptionalSemicolon(f, t)) /\ Clean(NamedExport(f, t))
  <2>. USE <1>1
  <2>1. Clean(Export(f, t)) BY DEF Export
  <2>2. Clean(ExportStar(f, t)) BY DEF ExportStar
  <2>3. Clean(ExportStarAfterStar(f, t)) BY DEF ExportStarAfterStar
  <2>4. Clean(ExportStarNameState(f, t)) BY DEF ExportStarNameState
  <2>5. Clean(ExportStarFrom(f, t)) BY DEF ExportStarFrom
  <2>6. \A next : Clean(ModuleSpec(f, t, next)) BY DEF ModuleSpec
  <2>7. Clean(OptionalSemicolon(f, t)) BY DEF OptionalSemicolon
  <2>8. Clean(NamedExport(f, t)) BY DEF NamedExport
  <2>. QED BY <2>1, <2>2, <2>3, <2>4, <2>5, <2>6, <2>7, <2>8
<1>2. ASSUME f.state \in MultilineState
      PROVE  Marks(f, t, ExportAssignment(f, t))
  <2>1. IsFrame(TurnOn(f, {"has_identifier"}))
    BY KnownFlags, TurnOnFrame DEF IsFlags, Replaces
  <2>. QED BY <1>2, <2>1, Contents, MultilineMarks DEF ExportAssignment
<1>. QED
  BY <1>1, <1>2 DEF ExportProcess, MultilineState, ExportStateName

LEMMA ScopeClean ==
  ASSUME NEW f, NEW t, IsFrame(f), Unmarked(f)
  PROVE  Clean(ScopeProcess(f, t))
<1>. USE CleanResults, CleanModified, UnmarkedFrames, UnmarkedTurn
<1>1. \A b, s, name : name # "newline_loc" => Unmarked(Frame(s, FlagIf(b, name)))
  BY DEF FlagIf
<1>2. \A a, m : Clean(ModuleScopeVisitor(f, t, a, m))
  BY <1>1 DEF ModuleScopeVisitor
<1>3. \A h, k, a, m : Unmarked(h) => Clean(BracedScope(f, t, h, k, a, m))
  BY <1>2 DEF BracedScope
<1>4. Clean(Namespace(f, t)) BY <1>3 DEF Namespace
<1>5. Clean(DeclareModule(f, t)) BY <1>3 DEF DeclareModule
<1>6. Clean(NamespaceHeader(f, t)) BY DEF NamespaceHeader
<1>7. Clean(DeclareModuleHeader(f, t)) BY DEF DeclareModuleHeader
<1>8. Clean(Declare(f, t)) BY DEF Declare
<1>9. Clean(DeclareModuleDispatch(f, t)) BY DEF DeclareModuleDispatch
<1>. QED BY <1>2, <1>4, <1>5, <1>6, <1>7, <1>8, <1>9 DEF ScopeProcess

LEMMA ProcessMarks ==
  ASSUME NEW f, NEW t, IsFrame(f), Unmarked(f) \/ f.state \in MultilineState
  PROVE  Marks(f, t, Process(f, t))
<1>1. f.state \in StateName BY DEF IsFrame, FrameSet
<1>2. CASE f.state \in TypeStateName
  <2>1. f.state \notin SpecifierStateName \cup ImportStateName \cup ExportStateName
    BY <1>2 DEF TypeStateName, ExportStateName, SpecifierStateName, SpecifierListName,
                ImportStateName
  <2>. QED BY <1>2, <2>1, TypeMarks DEF Process
<1>3. CASE f.state \in SpecifierStateName \cup ImportStateName \cup ScopeStateName
  <2>1. Unmarked(f) /\ f.state \notin TypeStateName \cup ExportStateName
    BY <1>3 DEF MultilineState, TypeStateName, ExportStateName, SpecifierStateName,
                SpecifierListName, ImportStateName, ScopeStateName
  <2>2. Clean(Process(f, t))
    BY <2>1, SpecifierClean, ImportClean, ScopeClean DEF Process
  <2>. QED BY <2>2, CleanMarks
<1>4. CASE f.state \in ExportStateName
  <2>1. f.state \notin TypeStateName \cup SpecifierStateName \cup ImportStateName
    BY <1>4 DEF TypeStateName, ExportStateName, SpecifierStateName, SpecifierListName,
                ImportStateName
  <2>. QED BY <1>4, <2>1, ExportMarks DEF Process
<1>. QED
  BY <1>1, <1>2, <1>3, <1>4 DEF StateName

LEMMA AcceptUnmarked ==
  ASSUME NEW f, NEW n, IsFrame(f), Unmarked(f)
  PROVE  Unmarked(AcceptChild(f, n).frame)
<1>. USE CleanResults, CleanModified, UnmarkedFrames, UnmarkedTurn DEF Clean
<1>1. Clean(TypeAcceptChild(f, n))
  BY DEF TypeAcceptChild, TypeAccept, TypeParameterAccept, SeparatedAccept, TypePostfixAccept,
         TypeParenAccept
<1>2. Clean(SpecifierAcceptChild(f, n))
  BY DEF SpecifierAcceptChild, SpecifierListAccept, SpecifierItemAccept
<1>3. Clean(ImportAcceptChild(f, n))
  BY DEF ImportAcceptChild
<1>4. Clean(ExportAcceptChild(f, n))
  <2>1. Clean(ExportAccept(f, n)) BY DEF ExportAccept
  <2>2. Clean(NamedExportAccept(f, n)) BY DEF NamedExportAccept
  <2>. QED BY <2>1, <2>2 DEF ExportAcceptChild
<1>5. Clean(TrackExports(f, n))
  BY DEF TrackExports
<1>6. Clean(ScopeAcceptChild(f, n))
  BY <1>5 DEF ScopeAcceptChild, ModuleScopeAccept, DeclareModuleAccept
<1>. QED BY <1>1, <1>2, <1>3, <1>4, <1>6 DEF AcceptChild

(* On the stack only the top remembers a newline.                          *)
UnmarkedBelow(s) == \A k \in 1 .. Len(s) - 1 : Unmarked(s[k])

LEMMA MarksReplaced ==
  ASSUME NEW s, IsStack(s), UnmarkedBelow(s), NEW g, IsFrame(g)
  PROVE  LET u == [s EXCEPT ![Len(s)] = g]
         IN  UnmarkedBelow(u) /\ Len(u) = Len(s) /\ u[Len(u)] = g
<1>. DEFINE u == [s EXCEPT ![Len(s)] = g]
<1>1. Len(u) = Len(s) /\ u[Len(s)] = g /\ \A i \in 1 .. Len(s) - 1 : u[i] = s[i]
  BY ReplacedTop
<1>. HIDE DEF u
<1>2. UnmarkedBelow(u) /\ Len(u) = Len(s) /\ u[Len(u)] = g BY <1>1 DEF UnmarkedBelow
<1> QED BY <1>2 DEF u

LEMMA MarksPushed ==
  ASSUME NEW s, IsStack(s), UnmarkedBelow(s), Unmarked(s[Len(s)]), NEW c, Pushes(s[Len(s)], c)
  PROVE  LET u == Append(s, c)
         IN  UnmarkedBelow(u) /\ u[Len(u)] = c
<1>. DEFINE u == Append(s, c)
            n == Len(s)
<1>1. n \in Nat \ {0} BY StackTop
<1>2. Len(u) = n + 1 /\ u[n + 1] = c /\ \A i \in 1 .. n : u[i] = s[i]
  BY AppendProperties DEF IsStack, Pushes, IsFrame
<1>3. \A i \in 1 .. n - 1 : Unmarked(s[i]) BY DEF UnmarkedBelow
<1>4. Unmarked(s[n]) OBVIOUS
<1>. HIDE DEF u, n
<1>5. \A i \in 1 .. n : i = n \/ i \in 1 .. n - 1 BY <1>1
<1>6. \A i \in 1 .. n : Unmarked(u[i]) BY <1>2, <1>3, <1>4, <1>5
<1>7. Len(u) - 1 = n BY <1>1, <1>2
<1>8. UnmarkedBelow(u) /\ u[Len(u)] = c BY <1>2, <1>6, <1>7 DEF UnmarkedBelow
<1> QED BY <1>8 DEF u

LEMMA MarksPopped ==
  ASSUME NEW s, IsStack(s), UnmarkedBelow(s), s[Len(s)].state # "module_scope"
  PROVE  LET u == SubSeq(s, 1, Len(s) - 1)
         IN  UnmarkedBelow(u) /\ Unmarked(u[Len(u)])
<1>. DEFINE u == SubSeq(s, 1, Len(s) - 1)
            n == Len(s) - 1
<1>1. n \in Nat \ {0} /\ Len(u) = n /\ \A i \in 1 .. n : u[i] = s[i] BY PoppedTop
<1>2. \A i \in 1 .. n : Unmarked(s[i]) BY DEF UnmarkedBelow
<1>. HIDE DEF u, n
<1>3. n \in 1 .. n /\ \A i \in 1 .. n - 1 : i \in 1 .. n BY <1>1
<1>4. UnmarkedBelow(u) /\ Unmarked(u[Len(u)]) BY <1>1, <1>2, <1>3 DEF UnmarkedBelow
<1> QED BY <1>4 DEF u

(* A newline is before a token only after a line break, and the token is   *)
(* one of the text once collect_trivia has passed the trivia.              *)
Presented ==
  /\ synthetic_newline => line_start
  /\ pc # "collect_trivia" =>
       token_iter \notin Trivia /\ (synthetic_newline => token_iter # EndOfText)

(* A state that remembers a newline is at the top, behind a line break.    *)
MarkedTop ==
  ~Unmarked(Top) => line_start /\ pc # "handle_complete" /\ Top.state \in MultilineState

Accounted == Presented /\ UnmarkedBelow(state_stack) /\ MarkedTop

LEMMA AccountedSuffices == Accounted => NewlineNotInvented
BY DEF Accounted, Presented, NewlineNotInvented

LEMMA InitAccounted == TranscriptInit => Accounted
<1>. SUFFICES ASSUME TranscriptInit PROVE Accounted
  OBVIOUS
<1>. DEFINE g == Frame("module_scope", {})
            u == <<g>>
<1>1. synthetic_newline = FALSE /\ pc = "collect_trivia" /\ state_stack = u
  BY DEF TranscriptInit, Init
<1>2. Unmarked(g) BY UnmarkedFrames
<1>3. Len(u) = 1 /\ u[1] = g OBVIOUS
<1>. HIDE DEF u, g
<1>4. UnmarkedBelow(u) BY <1>3 DEF UnmarkedBelow
<1>5. Unmarked(Top) BY <1>1, <1>2, <1>3 DEF Top, Depth
<1> QED BY <1>1, <1>4, <1>5 DEF Accounted, Presented, MarkedTop

(* The iterator leaves the token it moves from, even to the same token.    *)
LEMMA IteratorLeaves ==
  ASSUME LexerOK, MoveIterator, token_iter # EndOfText
  PROVE  ~ (tokens_read' = tokens_read /\ token_iter' = token_iter)
<1>1. tokens_read \in Int BY MaxTokensAssumption DEF LexerOK
<1>2. token_iter' = token_iter => tokens_read' = tokens_read + 1 BY DEF MoveIterator
<1> QED BY <1>1, <1>2

LEMMA QuietObserve == Observe /\ UNCHANGED lexer_vars => line_start' = line_start
BY DEF Observe, lexer_vars, history

(* A newline that is used up was before a token of the text.               *)
LEMMA AdvancePresented ==
  ASSUME LexerOK, Presented, AdvanceToken, Observe, pc' = "collect_trivia"
  PROVE  Presented' /\ (synthetic_newline => line_start')
<1>1. CASE synthetic_newline
  <2>1. synthetic_newline' = FALSE /\ UNCHANGED lexer_vars BY <1>1 DEF AdvanceToken
  <2> QED BY <1>1, <2>1, QuietObserve DEF Presented
<1>2. CASE ~synthetic_newline
  <2>1. synthetic_newline' = synthetic_newline BY <1>2 DEF AdvanceToken
  <2> QED BY <1>2, <2>1 DEF Presented
<1> QED BY <1>1, <1>2

LEMMA StillPresented ==
  ASSUME Presented, Observe, UNCHANGED <<lexer_vars, synthetic_newline>>, pc # "collect_trivia"
  PROVE  Presented' /\ line_start' = line_start
<1>1. line_start' = line_start BY QuietObserve DEF lexer_vars
<1>2. token_iter' = token_iter /\ synthetic_newline' = synthetic_newline BY DEF lexer_vars
<1> QED BY <1>1, <1>2 DEF Presented

LEMMA ContinuePresented ==
  ASSUME LexerOK, Presented, Observe, pc = "process", NEW r, Continue(r)
  PROVE  /\ Presented' /\ pc' # "handle_complete"
         /\ synthetic_newline => line_start'
<1>1. CASE r.reprocess
  BY <1>1, StillPresented DEF Continue, Presented
<1>2. CASE ~r.reprocess
  BY <1>2, AdvancePresented DEF Continue
<1> QED BY <1>1, <1>2

(* The result for the top of the stack.                                    *)
LEMMA TopMarks ==
  ASSUME Inv, Accounted, pc = "process"
  PROVE  /\ Marks(Top, CurrentToken, Processed)
         /\ CurrentToken = "newline" <=> synthetic_newline
<1>1. IsFrame(Top) BY TopFrame
<1>2. Unmarked(Top) \/ Top.state \in MultilineState BY DEF Accounted, MarkedTop
<1>3. Marks(Top, CurrentToken, Processed) BY <1>1, <1>2, ProcessMarks DEF Processed
<1>4. token_iter # "newline" BY DEF Accounted, Presented, Trivia, LineBreak, Comment
<1> QED BY <1>3, <1>4 DEF CurrentToken

(* MarkedTop in the next state, from the frame that is then on top.        *)
LEMMA MarkedNext ==
  ASSUME NEW g, state_stack'[Len(state_stack')] = g,
         ~Unmarked(g) => line_start' /\ pc' # "handle_complete" /\ g.state \in MultilineState
  PROVE  MarkedTop'
BY DEF MarkedTop, Top, Depth

LEMMA WithTopMarks ==
  ASSUME Inv, Accounted, NEW g, IsFrame(g)
  PROVE  UnmarkedBelow(WithTop(g)) /\ WithTop(g)[Len(WithTop(g))] = g
<1>. DEFINE u == [state_stack EXCEPT ![Len(state_stack)] = g]
<1>1. IsStack(state_stack) /\ UnmarkedBelow(state_stack) BY DEF Inv, Accounted
<1>2. UnmarkedBelow(u) /\ u[Len(u)] = g BY <1>1, MarksReplaced
<1>3. WithTop(g) = u BY TopFrame
<1>. HIDE DEF u
<1> QED BY <1>2, <1>3

LEMMA SameStackAccounted ==
  ASSUME Accounted, Presented', UNCHANGED state_stack, line_start => line_start',
         pc' # "handle_complete" \/ pc' = pc
  PROVE  Accounted'
BY DEF Accounted, MarkedTop, Top, Depth

LEMMA CollectAccounted ==
  ASSUME Inv, Accounted, Observe, CollectTrivia \/ CollectDone PROVE Accounted'
<1>1. CASE CollectTrivia
  <2>1. LexerOK /\ MoveIterator /\ token_iter \in Trivia /\ token_iter # EndOfText
    BY <1>1 DEF Inv, CollectTrivia, Trivia, Comment, EndOfText
  <2>2. line_start' = (line_start \/ token_iter \in LineBreak)
    BY <2>1, IteratorLeaves DEF Observe
  <2>3. /\ synthetic_newline' = (synthetic_newline \/ token_iter \in LineBreak)
        /\ pc' = pc /\ pc = "collect_trivia" /\ UNCHANGED state_stack
    BY <1>1 DEF CollectTrivia
  <2>4. Presented' BY <2>2, <2>3 DEF Accounted, Presented
  <2> QED BY <2>2, <2>3, <2>4, SameStackAccounted
<1>2. CASE CollectDone
  <2>1. /\ UNCHANGED lexer_vars /\ UNCHANGED state_stack /\ token_iter' = token_iter
        /\ token_iter \notin Trivia /\ pc' = "process"
        /\ synthetic_newline' = (synthetic_newline /\ token_iter # EndOfText)
    BY <1>2 DEF CollectDone, lexer_vars
  <2>2. line_start' = line_start BY <2>1, QuietObserve
  <2>3. Presented' BY <2>1, <2>2 DEF Accounted, Presented
  <2> QED BY <2>1, <2>2, <2>3, SameStackAccounted
<1> QED BY <1>1, <1>2

LEMMA ProcessStayAccounted ==
  ASSUME Inv, Accounted, Observe, ProcessStay PROVE Accounted'
<1>. DEFINE g == Processed.frame
<1>1. /\ Processed.act = "stay" /\ state_stack' = WithTop(g) /\ Continue(Processed)
      /\ pc = "process"
  BY DEF ProcessStay, Processing
<1>2. Presented' /\ pc' # "handle_complete" /\ (synthetic_newline => line_start')
  BY <1>1, ContinuePresented DEF Inv, Accounted
<1>3. IsFrame(g) BY <1>1, TopFrame DEF Sound, Replaces
<1>4. g.state = Top.state BY <1>1, TopFrame DEF Sound, Replaces
<1>5. ~Unmarked(g) => CurrentToken = "newline" /\ Top.state \in MultilineState
  BY <1>1, TopMarks DEF Marks
<1>6. ~Unmarked(g) => line_start' /\ pc' # "handle_complete" /\ g.state \in MultilineState
  BY <1>1, <1>2, <1>4, <1>5, TopMarks
<1>. HIDE DEF g
<1>7. UnmarkedBelow(state_stack') /\ state_stack'[Len(state_stack')] = g
  BY <1>1, <1>3, WithTopMarks
<1>8. MarkedTop' BY <1>6, <1>7, MarkedNext
<1> QED BY <1>2, <1>7, <1>8 DEF Accounted

LEMMA ProcessPushAccounted ==
  ASSUME Inv, Accounted, Observe, ProcessPush PROVE Accounted'
<1>. DEFINE g == Processed.frame
            c == Processed.child
            u == WithTop(g)
<1>1. /\ Processed.act = "push" /\ state_stack' = Append(u, c) /\ Continue(Processed)
      /\ pc = "process"
  BY DEF ProcessPush, Processing
<1>2. Presented' /\ pc' # "handle_complete"
  BY <1>1, ContinuePresented DEF Inv, Accounted
<1>3. IsFrame(g) /\ g.state = Top.state /\ Pushes(Top, c)
  BY <1>1, TopFrame DEF Sound, Replaces
<1>4. Unmarked(g) /\ Unmarked(c) BY <1>1, TopMarks DEF Marks
<1>5. IsStack(u) BY <1>1, TopFrame, StackSteps
<1>6. Pushes(g, c) BY <1>3 DEF Pushes
<1>. HIDE DEF g, c
<1>7. UnmarkedBelow(u) /\ u[Len(u)] = g
  BY <1>3, WithTopMarks
<1>. HIDE DEF u
<1>8. UnmarkedBelow(state_stack') /\ state_stack'[Len(state_stack')] = c
  BY <1>1, <1>4, <1>5, <1>6, <1>7, MarksPushed
<1>9. MarkedTop' BY <1>4, <1>8, MarkedNext
<1> QED BY <1>2, <1>8, <1>9 DEF Accounted

(* What is under a frame that is popped remembers nothing.                 *)
LEMMA PopAccounted ==
  ASSUME Inv, Accounted, Top.state # "module_scope", state_stack' = Below, Presented'
  PROVE  Accounted'
<1>1. UnmarkedBelow(Below) /\ Unmarked(Below[Len(Below)])
  BY TopFrame, MarksPopped DEF Inv, Accounted
<1>2. MarkedTop' BY <1>1, MarkedNext
<1> QED BY <1>1, <1>2 DEF Accounted

LEMMA ProcessCompleteAccounted ==
  ASSUME Inv, Accounted, Observe, ProcessComplete PROVE Accounted'
<1>1. /\ Processed.act = "complete" /\ state_stack' = Below /\ pc = "process"
      /\ ~AtTokenEnd /\ UNCHANGED lexer_vars /\ token_iter' = token_iter
      /\ synthetic_newline' = (synthetic_newline \/ Processed.newline)
  BY DEF ProcessComplete, Processing, lexer_vars
<1>2. Top.state # "module_scope" BY <1>1, TopFrame DEF Sound
<1>3. line_start' = line_start BY <1>1, QuietObserve
<1>4. Processed.newline => line_start /\ token_iter # EndOfText
  <2>1. Processed.newline => ~Unmarked(Top) /\ ~synthetic_newline
    BY <1>1, TopMarks DEF Marks
  <2> QED BY <1>1, <2>1 DEF Accounted, MarkedTop, AtTokenEnd
<1>5. Presented' BY <1>1, <1>3, <1>4 DEF Accounted, Presented
<1> QED BY <1>1, <1>2, <1>5, PopAccounted

LEMMA AcceptStayAccounted ==
  ASSUME Inv, Accounted, Observe, AcceptStay PROVE Accounted'
<1>. DEFINE g == Accepted.frame
<1>1. /\ Accepted.act = "stay" /\ state_stack' = WithTop(g) /\ pc = "handle_complete"
  BY DEF AcceptStay, Accepting
<1>2. Presented'
  <2>1. CASE resume \in {"eof", "reprocess"}
    BY <1>1, <2>1, StillPresented DEF AcceptStay, Accounted
  <2>2. CASE resume \notin {"eof", "reprocess"}
    BY <2>2, AdvancePresented DEF AcceptStay, Accounted, Inv
  <2> QED BY <2>1, <2>2
<1>3. IsFrame(g) BY <1>1, TopFrame DEF Sound, Replaces
<1>4. Unmarked(Top) BY <1>1 DEF Accounted, MarkedTop
<1>5. Unmarked(g) BY <1>4, TopFrame, AcceptUnmarked DEF Accepted
<1>. HIDE DEF g
<1>6. UnmarkedBelow(state_stack') /\ state_stack'[Len(state_stack')] = g
  BY <1>1, <1>3, WithTopMarks
<1>7. MarkedTop' BY <1>5, <1>6, MarkedNext
<1> QED BY <1>2, <1>6, <1>7 DEF Accounted

LEMMA PopQuietAccounted ==
  ASSUME Inv, Accounted, Observe, AcceptComplete \/ EofComplete PROVE Accounted'
<1>1. Top.state # "module_scope"
  BY TopFrame DEF AcceptComplete, EofComplete, Accepting, Sound
<1>2. /\ state_stack' = Below /\ pc # "collect_trivia"
      /\ UNCHANGED <<lexer_vars, synthetic_newline>>
  BY DEF AcceptComplete, EofComplete, Accepting
<1>3. Presented' BY <1>2, StillPresented DEF Accounted
<1> QED BY <1>1, <1>2, <1>3, PopAccounted

LEMMA QuietAccounted ==
  ASSUME Accounted, Observe,
         \/ ProcessThrow \/ EndOfTokens \/ AcceptThrow \/ FlushThrow \/ EofThrow \/ Return
         \/ Terminated
  PROVE  Accounted'
<1>1. /\ UNCHANGED <<lexer_vars, synthetic_newline>> /\ UNCHANGED state_stack
      /\ pc # "collect_trivia" /\ (pc' # "handle_complete" \/ pc' = pc)
  BY DEF ProcessThrow, EndOfTokens, AcceptThrow, FlushThrow, EofThrow, Return, Terminated,
         Raise, vars, lexer_vars
<1>2. Presented' /\ line_start' = line_start BY <1>1, StillPresented DEF Accounted
<1> QED BY <1>1, <1>2, SameStackAccounted

LEMMA StutterAccounted == Accounted /\ UNCHANGED <<vars, history>> => Accounted'
<1>. SUFFICES ASSUME Accounted, UNCHANGED vars, UNCHANGED history PROVE Accounted'
  OBVIOUS
<1>1. /\ line_start' = line_start /\ token_iter' = token_iter
      /\ synthetic_newline' = synthetic_newline /\ pc' = pc /\ UNCHANGED state_stack
  BY DEF vars, history
<1>2. Presented' BY <1>1 DEF Accounted, Presented
<1> QED BY <1>1, <1>2, SameStackAccounted

LEMMA NextAccounted ==
  Inv /\ Accounted /\ [TranscriptNext]_<<vars, history>> => Accounted'
BY CollectAccounted, ProcessStayAccounted, ProcessPushAccounted, ProcessCompleteAccounted,
   AcceptStayAccounted, PopQuietAccounted, QuietAccounted, StutterAccounted
   DEF TranscriptNext, Next

(* The history only watches: a parse that is watched is a parse.           *)
LEMMA TranscriptInvariance == TranscriptSpec => []Inv
<1>1. TranscriptInit => Inv BY InitInv DEF TranscriptInit
<1>2. Inv /\ [TranscriptNext]_<<vars, history>> => Inv'
  BY NextInv DEF TranscriptNext
<1> QED BY <1>1, <1>2, PTL DEF TranscriptSpec

(* Whatever the text, a state is presented a newline only before a token   *)
(* that stands behind a line break: what a union, intersection, array or   *)
(* export assignment state remembers of a newline and gives back           *)
(* (multiline_state) is neither presented twice nor carried past the token *)
(* that the line break is before.                                          *)
THEOREM NewlinesAreNotInvented == TranscriptSpec => []NewlineNotInvented
<1>1. TranscriptInit => Accounted BY InitAccounted
<1>2. Inv /\ Accounted /\ [TranscriptNext]_<<vars, history>> => Accounted' BY NextAccounted
<1>3. Accounted => NewlineNotInvented BY AccountedSuffices
<1> QED BY <1>1, <1>2, <1>3, TranscriptInvariance, PTL DEF TranscriptSpec
===========================================================================
