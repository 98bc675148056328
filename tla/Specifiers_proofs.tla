------------------------- MODULE Specifiers_proofs -------------------------
(***************************************************************************)
(* The specifiers of a named import or export are those that its tokens    *)
(* spell (SpecifiersAsWritten).  The invariant, ListsRead, says of each    *)
(* state what the tokens taken so far have spelled and how much of it is   *)
(* in the declaration: when the state is at the top of the stack (ReadAt), *)
(* when what was above it is delivered to it (ReadBelow), and, of the node *)
(* that is delivered, that its list is whole (NodeRead).                   *)
(***************************************************************************)
EXTENDS ParserSafety_proofs

---------------------------------------------------------------------------
(* The invariant.                                                          *)

(* The tokens taken once the token is left that handle_complete leaves.    *)
Taken ==
  IF pc = "handle_complete" /\ resume = "advance" /\ ~synthetic_newline /\ token_iter # EndOfText
  THEN Append(consumed, token_iter) ELSE consumed

(* Behind the marker, no list is open yet.                                 *)
Unopened(s) ==
  \E from \in 1 .. Len(s) :
    s[from] \in Marker /\ \A j \in from + 1 .. Len(s) : s[j] \notin Marker \cup {"open_brace"}

(* A list is open, and all that stands in it has been stored: up to the    *)
(* brace or a comma; up to an item; up to an item that starts at i.        *)
UpToComma(s, d) ==
  \E open \in 1 .. Len(s) :
    /\ OpensAt(s, open) /\ (Len(s) = open \/ s[Len(s)] = "comma")
    /\ ItemsAre(s, open, Len(s) + 1, d.specifiers)
UpToItem(s, d) ==
  \E open \in 1 .. Len(s) :
    /\ OpensAt(s, open) /\ Len(s) > open /\ s[Len(s)] # "comma"
    /\ ItemsAre(s, open, Len(s) + 1, d.specifiers)
Begun(s, open, i, specifiers) ==
  /\ OpensAt(s, open) /\ open < i /\ i <= Len(s) /\ StartsAt(s, open, i)
  /\ ItemsAre(s, open, i, specifiers)
  /\ \A j \in i .. Len(s) : s[j] \notin {"comma", "close_brace"}

(* What has been kept of the item under way is what it spells.             *)
Kept(name, type_keyword, alias) ==
  [name |-> name, type_keyword |-> type_keyword, alias |-> alias]
TypeRead(s, d) ==
  \E open \in 1 .. Len(s) :
    /\ Begun(s, open, Len(s), d.specifiers) /\ s[Len(s)] = "type"
    /\ d.current = Kept("none", "type", "none")
Modifier(s, i, n) == IF n > i THEN s[i] ELSE "none"
HeadRead(s, d) ==
  \E open, i \in 1 .. Len(s) :
    /\ Begun(s, open, i, d.specifiers) /\ Len(s) - i \in {0, 1}
    /\ d.current = Kept(s[Len(s)], Modifier(s, i, Len(s)), "none")
AsRead(s, d) ==
  \E open, i \in 1 .. Len(s) :
    /\ Begun(s, open, i, d.specifiers) /\ Len(s) - i \in {1, 2}
    /\ d.current = Kept(s[Len(s) - 1], Modifier(s, i, Len(s) - 1), "none")
AliasRead(s, d) ==
  \E open, i \in 1 .. Len(s) :
    /\ Begun(s, open, i, d.specifiers) /\ Len(s) - i \in {2, 3}
    /\ d.current = Kept(s[Len(s) - 2], Modifier(s, i, Len(s) - 2), s[Len(s)])

NamedWhole(s, d) == "named" \in d.has => Whole(s, d.specifiers)

MayOpen(f) ==
  \/ f.state \in {"import", "after_default"}
  \/ f.state \in {"after_import", "after_type", "after_comma"} /\ "post_sub" \notin f.on

(* What has been read when f is at the top and a token or the end is next. *)
ReadAt(f, s, d) ==
  /\ f.state = "export" => Unopened(s)
  /\ f.state \in ImportStateName => NamedWhole(s, d)
  /\ MayOpen(f) => Unopened(s) /\ d.specifiers = <<>> /\ "named" \notin d.has
  /\ f.state \in SpecifierListName =>
       IF "expect_specifier_or_close" \in f.on
       THEN UpToComma(s, d) /\ "expect_comma_or_close" \notin f.on ELSE UpToItem(s, d)
  /\ f.state = "specifier" =>
       IF "head_done" \in f.on THEN HeadRead(s, d) ELSE UpToComma(s, d) /\ d.current = NoSpecifier
  /\ f.state = "specifier_head" => UpToComma(s, d) /\ d.current = NoSpecifier
  /\ f.state = "specifier_resolve_type" => TypeRead(s, d)
  /\ f.state = "specifier_alias" => AsRead(s, d)
  /\ f.state = "named_export" =>
       IF "list_done" \in f.on THEN Whole(s, d.specifiers) ELSE UpToComma(s, d)
  /\ f.state \in {"named_export_module_spec", "named_export_semicolon"} => Whole(s, d.specifiers)

(* What has been read when f is at the top and what was above it is done;  *)
(* s is read, and t is with the token that is about to be left.            *)
ReadBelow(f, s, t, d) ==
  /\ f.state \in ImportStateName => NamedWhole(IF "awaiting_sub" \in f.on THEN t ELSE s, d)
  /\ f.state \in SpecifierListName => UpToItem(t, d)
  /\ f.state = "specifier" => IF "head_done" \in f.on THEN AliasRead(t, d) ELSE HeadRead(t, d)
  /\ f.state = "specifier_head" => HeadRead(t, d)
  /\ f.state = "named_export" =>
       Whole(IF "list_done" \in f.on THEN s ELSE t, d.specifiers)
  /\ f.state = "named_export_module_spec" => Whole(s, d.specifiers)
NodeRead(n, s, d) ==
  /\ n.kind = "import" => NamedWhole(s, d)
  /\ n.kind = "named_export" => Whole(s, d.specifiers)

(* Which of its two children a specifier or named export is waiting for.   *)
Second(f, g) ==
  /\ f.state = "specifier" => ("head_done" \in f.on <=> g.state = "specifier_alias")
  /\ f.state = "named_export" => ("list_done" \in f.on <=> g.state = "named_export_module_spec")
Seconds(stack) == \A k \in 1 .. Len(stack) - 1 : Second(stack[k], stack[k + 1])

ListsRead ==
  /\ consumed \in Seq(Token \cup {EndOfText})
  /\ Seconds(state_stack)
  /\ pc = "handle_complete" =>
       ReadBelow(Top, consumed, Taken, declaration) /\ NodeRead(node, consumed, declaration)
  /\ pc \in {"collect_trivia", "process", "eof"} => ReadAt(Top, consumed, declaration)

---------------------------------------------------------------------------
(* u goes on where s ends.                                                 *)
GoesOn(s, u) ==
  /\ Len(s) \in Nat /\ Len(u) \in Nat /\ Len(s) <= Len(u)
  /\ \A j \in 1 .. Len(s) : u[j] = s[j]

LEMMA AppendGoesOn ==
  ASSUME NEW S, NEW s \in Seq(S), NEW t \in S
  PROVE  LET u == Append(s, t)
         IN  u \in Seq(S) /\ GoesOn(s, u) /\ Len(u) = Len(s) + 1 /\ u[Len(s) + 1] = t
<1>. DEFINE u == Append(s, t)
            m == Len(s)
<1>1. m \in Nat /\ u \in Seq(S) BY LenProperties, AppendProperties
<1>2. Len(u) = m + 1 /\ u[m + 1] = t /\ \A i \in 1 .. m : u[i] = s[i]
  BY AppendProperties
<1>. HIDE DEF u
<1>3. Len(u) \in Nat /\ m <= Len(u) BY <1>1, <1>2
<1> QED BY <1>1, <1>2, <1>3 DEF GoesOn

LEMMA SpelledStable ==
  ASSUME NEW s, NEW u, GoesOn(s, u), NEW i \in Nat \ {0}, NEW end \in Nat,
         i < end, end <= Len(s) + 1
  PROVE  Spelled(u, i, end) = Spelled(s, i, end)
<1>. DEFINE n == IF end - i \in {2, 4} THEN i + 1 ELSE i
<1>1. n \in Nat /\ 1 <= n /\ n < end /\ i < end /\ (end - n = 3 => n + 2 < end)
  OBVIOUS
<1>2. \A j \in Nat : 1 <= j /\ j < end => u[j] = s[j] BY DEF GoesOn
<1>. HIDE DEF n
<1>3. u[n] = s[n] /\ u[i] = s[i] /\ (end - n = 3 => u[n + 2] = s[n + 2])
  BY <1>1, <1>2
<1> QED BY <1>3 DEF Spelled, n

LEMMA ItemsStable ==
  ASSUME NEW s, NEW u, GoesOn(s, u), NEW open \in Nat, NEW close \in Nat,
         close <= Len(s) + 1, NEW specifiers, ItemsAre(s, open, close, specifiers)
  PROVE  ItemsAre(u, open, close, specifiers)
<1>. DEFINE n == Len(specifiers)
<1>1. \A j \in Nat : 1 <= j /\ j < close => u[j] = s[j] BY DEF GoesOn
<1>2. \A j \in open + 1 .. close - 1 : u[j] # "close_brace"
  <2>1. \A j \in open + 1 .. close - 1 : s[j] # "close_brace" BY DEF ItemsAre
  <2> QED BY <1>1, <2>1
<1>3. Starts(u, open, close) = Starts(s, open, close)
  <2>1. \A i \in open + 1 .. close - 1 : i = open + 1 \/ u[i - 1] = s[i - 1] BY <1>1
  <2> QED BY <2>1 DEF Starts, StartsAt
<1>4. PICK at \in [1 .. n -> Starts(s, open, close)] :
        /\ \A i \in Starts(s, open, close) : \E k \in 1 .. n : at[k] = i
        /\ \A k, l \in 1 .. n : k < l => at[k] < at[l]
        /\ \A k \in 1 .. n : \E end \in at[k] + 1 .. close :
             EndsAt(s, close, at[k], end) /\ specifiers[k] = Spelled(s, at[k], end)
  BY DEF ItemsAre
<1>5. \A k \in 1 .. n : \E end \in at[k] + 1 .. close :
        EndsAt(u, close, at[k], end) /\ specifiers[k] = Spelled(u, at[k], end)
  <2>. TAKE k \in 1 .. n
  <2>. DEFINE i == at[k]
  <2>1. i \in open + 1 .. close - 1 BY <1>4 DEF Starts
  <2>2. PICK end \in i + 1 .. close :
          EndsAt(s, close, i, end) /\ specifiers[k] = Spelled(s, i, end)
    BY <1>4
  <2>. HIDE DEF i
  <2>3. i \in Nat \ {0} /\ end \in Nat /\ i < end /\ end <= close BY <2>1
  <2>4. specifiers[k] = Spelled(u, i, end)
    <3>1. end <= Len(s) + 1 BY <2>3 DEF GoesOn
    <3> QED BY <2>2, <2>3, <3>1, SpelledStable
  <2>5. EndsAt(u, close, i, end)
    <3>1. end = close \/ u[end] = s[end] BY <1>1, <2>3
    <3>2. \A j \in i .. end - 1 : u[j] = s[j] BY <1>1, <2>3
    <3> QED BY <2>2, <3>1, <3>2 DEF EndsAt
  <2> QED BY <2>4, <2>5 DEF i
<1>6. /\ at \in [1 .. n -> Starts(u, open, close)]
      /\ \A i \in Starts(u, open, close) : \E k \in 1 .. n : at[k] = i
      /\ \A k, l \in 1 .. n : k < l => at[k] < at[l]
  BY <1>3, <1>4
<1> QED BY <1>2, <1>5, <1>6 DEF ItemsAre

LEMMA NoItems ==
  ASSUME NEW s, NEW open \in Nat
  PROVE  ItemsAre(s, open, open + 1, <<>>)
<1>1. Starts(s, open, open + 1) = {} BY DEF Starts
<1>2. \A j \in open + 1 .. (open + 1) - 1 : FALSE OBVIOUS
<1>3. Len(<<>>) = 0 /\ 1 .. 0 = {} OBVIOUS
<1>4. [i \in {} |-> i] \in [1 .. Len(<<>>) -> Starts(s, open, open + 1)]
  BY <1>1, <1>3
<1> QED BY <1>1, <1>2, <1>3, <1>4 DEF ItemsAre

(* A comma behind an item starts none; it ends the item.                   *)
LEMMA CommaAdded ==
  ASSUME NEW s, NEW open \in Nat, NEW close \in Nat, open < close, s[close] = "comma",
         ~StartsAt(s, open, close), NEW specifiers, ItemsAre(s, open, close, specifiers)
  PROVE  ItemsAre(s, open, close + 1, specifiers)
<1>. DEFINE n == Len(specifiers)
            next == close + 1
<1>0. next \in Nat /\ next - 1 = close OBVIOUS
<1>1. \A j \in open + 1 .. next - 1 : s[j] # "close_brace"
  <2>1. \A j \in open + 1 .. close - 1 : s[j] # "close_brace" BY DEF ItemsAre
  <2> QED BY <2>1
<1>2. Starts(s, open, next) = Starts(s, open, close)
  <2>1. \A i : i \in open + 1 .. next - 1 <=> i \in open + 1 .. close - 1 \/ i = close
    OBVIOUS
  <2> QED BY <2>1 DEF Starts
<1>3. PICK at \in [1 .. n -> Starts(s, open, close)] :
        /\ \A i \in Starts(s, open, close) : \E k \in 1 .. n : at[k] = i
        /\ \A k, l \in 1 .. n : k < l => at[k] < at[l]
        /\ \A k \in 1 .. n : \E end \in at[k] + 1 .. close :
             EndsAt(s, close, at[k], end) /\ specifiers[k] = Spelled(s, at[k], end)
  BY DEF ItemsAre
<1>4. \A k \in 1 .. n : \E end \in at[k] + 1 .. next :
        EndsAt(s, next, at[k], end) /\ specifiers[k] = Spelled(s, at[k], end)
  <2>. TAKE k \in 1 .. n
  <2>. DEFINE i == at[k]
  <2>1. i \in open + 1 .. close - 1 BY <1>3 DEF Starts
  <2>2. PICK end \in i + 1 .. close :
          EndsAt(s, close, i, end) /\ specifiers[k] = Spelled(s, i, end)
    BY <1>3
  <2>. HIDE DEF i
  <2>3. end \in i + 1 .. next BY <2>1
  <2>4. EndsAt(s, next, i, end) BY <2>2 DEF EndsAt
  <2> QED BY <2>2, <2>3, <2>4 DEF i
<1>. HIDE DEF next
<1>5. /\ at \in [1 .. n -> Starts(s, open, next)]
      /\ \A i \in Starts(s, open, next) : \E k \in 1 .. n : at[k] = i
      /\ \A k, l \in 1 .. n : k < l => at[k] < at[l]
  BY <1>2, <1>3
<1>6. ItemsAre(s, open, next, specifiers) BY <1>1, <1>4, <1>5 DEF ItemsAre
<1> QED BY <1>6 DEF next

(* What is behind the last comma is one more item.                         *)
LEMMA ItemAdded ==
  ASSUME NEW s, NEW open \in Nat, NEW first \in Nat, NEW close \in Nat,
         open < first, first < close, StartsAt(s, open, first),
         \A j \in first .. close - 1 : s[j] \notin {"comma", "close_brace"},
         NEW S, NEW specifiers \in Seq(S), Spelled(s, first, close) \in S,
         ItemsAre(s, open, first, specifiers)
  PROVE  ItemsAre(s, open, close, Append(specifiers, Spelled(s, first, close)))
<1>. DEFINE n == Len(specifiers)
            m == n + 1
            item == Spelled(s, first, close)
            more == Append(specifiers, item)
<1>0. n \in Nat /\ m \in Nat \ {0} /\ n < m /\ n = m - 1 BY LenProperties
<1>1. Len(more) = m /\ more[m] = item /\ \A k \in 1 .. n : more[k] = specifiers[k]
  BY AppendProperties
<1>2. \A j \in open + 1 .. close - 1 : s[j] # "close_brace"
  <2>1. \A j \in open + 1 .. first - 1 : s[j] # "close_brace" BY DEF ItemsAre
  <2>2. \A j \in open + 1 .. close - 1 : j \in open + 1 .. first - 1 \/ j \in first .. close - 1
    OBVIOUS
  <2> QED BY <2>1, <2>2
<1>3. Starts(s, open, close) = Starts(s, open, first) \cup {first}
  <2>1. \A i \in open + 1 .. close - 1 :
          i \in open + 1 .. first - 1 \/ i = first \/ (i # open + 1 /\ i - 1 \in first .. close - 1)
    OBVIOUS
  <2>2. \A i \in open + 1 .. first - 1 : i \in open + 1 .. close - 1 OBVIOUS
  <2>3. first \in open + 1 .. close - 1 OBVIOUS
  <2>4. \A i : i \in Starts(s, open, close) => i \in Starts(s, open, first) \cup {first}
    BY <2>1 DEF Starts, StartsAt
  <2>5. \A i : i \in Starts(s, open, first) \cup {first} => i \in Starts(s, open, close)
    BY <2>2, <2>3 DEF Starts
  <2> QED BY <2>4, <2>5
<1>4. PICK at \in [1 .. n -> Starts(s, open, first)] :
        /\ \A i \in Starts(s, open, first) : \E k \in 1 .. n : at[k] = i
        /\ \A k, l \in 1 .. n : k < l => at[k] < at[l]
        /\ \A k \in 1 .. n : \E end \in at[k] + 1 .. first :
             EndsAt(s, first, at[k], end) /\ specifiers[k] = Spelled(s, at[k], end)
  BY DEF ItemsAre
<1>. HIDE DEF n, m, item, more
<1>. DEFINE to == [k \in 1 .. m |-> IF k = m THEN first ELSE at[k]]
<1>5. \A k \in 1 .. m : k = m \/ k \in 1 .. n BY <1>0
<1>6. m \in 1 .. m /\ \A k \in 1 .. n : k \in 1 .. m /\ k # m BY <1>0
<1>7. to[m] = first /\ \A k \in 1 .. n : to[k] = at[k] BY <1>6
<1>8. \A k \in 1 .. n : at[k] \in Starts(s, open, first) BY <1>4
<1>9. \A k \in 1 .. n : at[k] \in Nat /\ open < at[k] /\ at[k] < first BY <1>8 DEF Starts
<1>10. to \in [1 .. m -> Starts(s, open, close)]
  BY <1>3, <1>5, <1>8
<1>. HIDE DEF to
<1>11. \A i \in Starts(s, open, close) : \E k \in 1 .. m : to[k] = i
  BY <1>3, <1>4, <1>6, <1>7
<1>12. \A k, l \in 1 .. m : k < l => to[k] < to[l]
  <2>. TAKE k, l \in 1 .. m
  <2>. HAVE k < l
  <2>1. k \in 1 .. n BY <1>0
  <2>2. CASE l = m BY <2>1, <2>2, <1>7, <1>9
  <2>3. CASE l \in 1 .. n BY <2>1, <2>3, <1>4, <1>7
  <2> QED BY <1>5, <2>2, <2>3
<1>13. \A k \in 1 .. m : \E end \in to[k] + 1 .. close :
         EndsAt(s, close, to[k], end) /\ more[k] = Spelled(s, to[k], end)
  <2>. TAKE k \in 1 .. m
  <2>1. CASE k = m
    <3>1. close \in first + 1 .. close OBVIOUS
    <3>2. EndsAt(s, close, first, close) BY DEF EndsAt
    <3>3. more[m] = Spelled(s, first, close) BY <1>1 DEF item
    <3> QED BY <2>1, <3>1, <3>2, <3>3, <1>7
  <2>2. CASE k \in 1 .. n
    <3>1. PICK end \in at[k] + 1 .. first :
            EndsAt(s, first, at[k], end) /\ specifiers[k] = Spelled(s, at[k], end)
      BY <2>2, <1>4
    <3>. DEFINE i == at[k]
    <3>2. i \in Nat /\ open < i /\ i < first BY <2>2, <1>9
    <3>3. \A j \in i .. end - 1 : s[j] # "comma" BY <3>1 DEF EndsAt
    <3>4. to[k] = i /\ more[k] = Spelled(s, i, end) BY <2>2, <3>1, <1>1, <1>7
    <3>5. end \in i + 1 .. first /\ end \in Nat /\ end <= first BY <3>1, <3>2
    <3>. HIDE DEF i
    <3>6. s[end] = "comma"
      <4>1. CASE end = first
        <5>1. first # open + 1 /\ s[first - 1] = "comma" BY <3>2 DEF StartsAt
        <5>2. first - 1 \in i .. end - 1 BY <3>2, <4>1
        <5> QED BY <5>1, <5>2, <3>3
      <4>2. CASE end # first BY <4>2, <3>1 DEF EndsAt
      <4> QED BY <4>1, <4>2
    <3>7. EndsAt(s, close, i, end) BY <3>3, <3>6 DEF EndsAt
    <3>8. end \in i + 1 .. close BY <3>2, <3>5
    <3> QED BY <3>4, <3>7, <3>8
  <2> QED BY <1>5, <2>1, <2>2
<1>14. ItemsAre(s, open, close, more)
  <2>1. /\ to \in [1 .. Len(more) -> Starts(s, open, close)]
        /\ \A i \in Starts(s, open, close) : \E k \in 1 .. Len(more) : to[k] = i
    BY <1>1, <1>10, <1>11
  <2>2. \A k, l \in 1 .. Len(more) : k < l => to[k] < to[l] BY <1>1, <1>12
  <2>3. \A k \in 1 .. Len(more) : \E end \in to[k] + 1 .. close :
          EndsAt(s, close, to[k], end) /\ more[k] = Spelled(s, to[k], end)
    BY <1>1, <1>13
  <2> QED BY <1>2, <2>1, <2>2, <2>3 DEF ItemsAre
<1> QED BY <1>14 DEF more, item

LEMMA OpensStable ==
  ASSUME NEW s, NEW u, GoesOn(s, u), NEW open \in 1 .. Len(s),
         \A j \in Len(s) + 1 .. Len(u) : u[j] \notin Marker
  PROVE  OpensAt(s, open) => OpensAt(u, open)
<1>. SUFFICES ASSUME OpensAt(s, open) PROVE OpensAt(u, open)
  OBVIOUS
<1>. DEFINE m == Len(s)
            n == Len(u)
<1>1. m \in Nat /\ n \in Nat /\ m <= n /\ \A j \in 1 .. m : u[j] = s[j] BY DEF GoesOn
<1>2. PICK from \in 1 .. open - 1 :
        /\ s[from] \in Marker /\ \A j \in from + 1 .. m : s[j] \notin Marker
        /\ s[open] = "open_brace" /\ \A j \in from + 1 .. open - 1 : s[j] # "open_brace"
  BY DEF OpensAt
<1>3. \A j \in m + 1 .. n : u[j] \notin Marker OBVIOUS
<1>. HIDE DEF m, n
<1>4. open \in 1 .. m BY DEF m
<1>5. u[from] = s[from] /\ u[open] = s[open] BY <1>1, <1>4
<1>6. \A j \in from + 1 .. n : j \in m + 1 .. n \/ (j \in from + 1 .. m /\ j \in 1 .. m)
  BY <1>1
<1>7. \A j \in from + 1 .. n : u[j] \notin Marker BY <1>1, <1>2, <1>3, <1>6
<1>8. \A j \in from + 1 .. open - 1 : u[j] = s[j] BY <1>1, <1>4
<1> QED BY <1>2, <1>5, <1>7, <1>8 DEF OpensAt, n

---------------------------------------------------------------------------
(* What one more token does to what has been read.                         *)
Plain == {"comma", "close_brace"} \cup Marker

LEMMA WholeStable ==
  ASSUME NEW S, NEW s \in Seq(S), NEW t \in S \ Marker, NEW specifiers, Whole(s, specifiers)
  PROVE  Whole(Append(s, t), specifiers)
<1>. DEFINE u == Append(s, t)
<1>1. GoesOn(s, u) /\ Len(u) = Len(s) + 1 /\ u[Len(s) + 1] = t BY AppendGoesOn
<1>. HIDE DEF u
<1>2. PICK open, close \in 1 .. Len(s) :
        /\ OpensAt(s, open) /\ open < close /\ s[close] = "close_brace"
        /\ ItemsAre(s, open, close, specifiers)
  BY DEF Whole
<1>3. Len(s) \in Nat /\ u[close] = s[close] BY <1>1 DEF GoesOn
<1>4. \A j \in Len(s) + 1 .. Len(u) : u[j] \notin Marker BY <1>1, <1>3
<1>5. OpensAt(u, open) BY <1>1, <1>2, <1>4, OpensStable
<1>6. ItemsAre(u, open, close, specifiers) BY <1>1, <1>2, <1>3, ItemsStable
<1>7. open \in 1 .. Len(u) /\ close \in 1 .. Len(u) BY <1>1, <1>3
<1>8. Whole(u, specifiers) BY <1>2, <1>3, <1>5, <1>6, <1>7 DEF Whole
<1> QED BY <1>8 DEF u

LEMMA MarkerOpens ==
  ASSUME NEW S, NEW s \in Seq(S), NEW t \in S \cap Marker
  PROVE  Unopened(Append(s, t))
<1>. DEFINE u == Append(s, t)
            n == Len(s) + 1
<1>1. GoesOn(s, u) /\ Len(u) = n /\ u[n] = t BY AppendGoesOn
<1>2. n \in Nat \ {0} BY LenProperties
<1>. HIDE DEF u, n
<1>3. n \in 1 .. n /\ n + 1 .. n = {} BY <1>2
<1>4. Unopened(u) BY <1>1, <1>3 DEF Unopened
<1> QED BY <1>4 DEF u

LEMMA UnopenedStable ==
  ASSUME NEW S, NEW s \in Seq(S), NEW t \in S \ (Marker \cup {"open_brace"}), Unopened(s)
  PROVE  Unopened(Append(s, t))
<1>. DEFINE u == Append(s, t)
            m == Len(s)
            n == m + 1
<1>1. GoesOn(s, u) /\ Len(u) = n /\ u[n] = t BY AppendGoesOn
<1>2. m \in Nat /\ n \in Nat /\ n = m + 1 BY LenProperties
<1>3. PICK from \in 1 .. m :
        s[from] \in Marker /\ \A j \in from + 1 .. m : s[j] \notin Marker \cup {"open_brace"}
  BY DEF Unopened
<1>4. \A j \in 1 .. m : u[j] = s[j] BY <1>1 DEF GoesOn
<1>. HIDE DEF u, m, n
<1>5. from \in 1 .. n /\ \A j \in from + 1 .. n : j = n \/ (j \in from + 1 .. m /\ j \in 1 .. m)
  BY <1>2
<1>6. Unopened(u) BY <1>1, <1>3, <1>4, <1>5 DEF Unopened
<1> QED BY <1>6 DEF u

LEMMA ListOpened ==
  ASSUME NEW S, NEW s \in Seq(S), "open_brace" \in S, Unopened(s),
         NEW d, d.specifiers = <<>>
  PROVE  UpToComma(Append(s, "open_brace"), d)
<1>. DEFINE u == Append(s, "open_brace")
            m == Len(s)
            n == m + 1
<1>1. GoesOn(s, u) /\ Len(u) = n /\ u[n] = "open_brace" BY AppendGoesOn
<1>2. m \in Nat /\ n \in Nat /\ n = m + 1 BY LenProperties
<1>3. PICK from \in 1 .. m :
        s[from] \in Marker /\ \A j \in from + 1 .. m : s[j] \notin Marker \cup {"open_brace"}
  BY DEF Unopened
<1>4. \A j \in 1 .. m : u[j] = s[j] BY <1>1 DEF GoesOn
<1>. HIDE DEF u, m, n
<1>5. from \in 1 .. n - 1 /\ u[from] \in Marker BY <1>2, <1>3, <1>4
<1>6. \A j \in from + 1 .. n : u[j] \notin Marker
  <2>1. \A j \in from + 1 .. n : j = n \/ (j \in from + 1 .. m /\ j \in 1 .. m) BY <1>2
  <2>2. "open_brace" \notin Marker BY DEF Marker
  <2> QED BY <1>1, <1>3, <1>4, <2>1, <2>2
<1>7. \A j \in from + 1 .. n - 1 : u[j] # "open_brace"
  <2>1. \A j \in from + 1 .. n - 1 : j \in from + 1 .. m /\ j \in 1 .. m BY <1>2
  <2> QED BY <1>3, <1>4, <2>1
<1>8. OpensAt(u, n) BY <1>1, <1>5, <1>6, <1>7 DEF OpensAt
<1>9. ItemsAre(u, n, Len(u) + 1, d.specifiers) BY <1>1, <1>2, NoItems
<1>10. n \in 1 .. Len(u) BY <1>1, <1>2
<1>11. UpToComma(u, d) BY <1>1, <1>8, <1>9, <1>10 DEF UpToComma
<1> QED BY <1>11 DEF u

(* What is stored so far is stable.                                        *)
LEMMA OpenList ==
  ASSUME NEW S, NEW s \in Seq(S), NEW t \in S \ Marker, NEW open \in 1 .. Len(s),
         OpensAt(s, open), NEW close \in 1 .. Len(s) + 1, NEW specifiers,
         ItemsAre(s, open, close, specifiers)
  PROVE  LET u == Append(s, t)
         IN  /\ Len(s) \in Nat /\ Len(u) = Len(s) + 1 /\ u[Len(s) + 1] = t
             /\ \A j \in 1 .. Len(s) : u[j] = s[j]
             /\ open \in 1 .. Len(u) /\ OpensAt(u, open) /\ ItemsAre(u, open, close, specifiers)
<1>. DEFINE u == Append(s, t)
<1>1. GoesOn(s, u) /\ Len(u) = Len(s) + 1 /\ u[Len(s) + 1] = t BY AppendGoesOn
<1>2. Len(s) \in Nat /\ \A j \in 1 .. Len(s) : u[j] = s[j] BY <1>1 DEF GoesOn
<1>. HIDE DEF u
<1>3. \A j \in Len(s) + 1 .. Len(u) : u[j] \notin Marker BY <1>1, <1>2
<1>4. OpensAt(u, open) BY <1>1, <1>3, OpensStable
<1>5. close \in Nat /\ close <= Len(s) + 1 /\ open \in Nat /\ open \in 1 .. Len(u)
  BY <1>1, <1>2
<1>6. ItemsAre(u, open, close, specifiers) BY <1>1, <1>5, ItemsStable
<1>7. /\ Len(s) \in Nat /\ Len(u) = Len(s) + 1 /\ u[Len(s) + 1] = t
      /\ \A j \in 1 .. Len(s) : u[j] = s[j]
      /\ open \in 1 .. Len(u) /\ OpensAt(u, open) /\ ItemsAre(u, open, close, specifiers)
  BY <1>1, <1>2, <1>4, <1>5, <1>6
<1> QED BY <1>7 DEF u

LEMMA ListClosed ==
  ASSUME NEW S, NEW s \in Seq(S), "close_brace" \in S, NEW d, UpToComma(s, d) \/ UpToItem(s, d)
  PROVE  Whole(Append(s, "close_brace"), d.specifiers)
<1>. DEFINE u == Append(s, "close_brace")
            n == Len(s) + 1
<1>1. PICK open \in 1 .. Len(s) : OpensAt(s, open) /\ ItemsAre(s, open, n, d.specifiers)
  BY DEF UpToComma, UpToItem
<1>2. "close_brace" \notin Marker BY DEF Marker
<1>3. Len(s) \in Nat BY LenProperties
<1>4. n \in 1 .. n /\ open \in 1 .. n /\ open < n BY <1>3
<1>5. /\ Len(u) = n /\ u[n] = "close_brace"
      /\ OpensAt(u, open) /\ ItemsAre(u, open, n, d.specifiers)
  BY <1>1, <1>2, <1>4, OpenList
<1>. HIDE DEF u, n
<1>6. Whole(u, d.specifiers) BY <1>4, <1>5 DEF Whole
<1> QED BY <1>6 DEF u

LEMMA CommaRead ==
  ASSUME NEW S, NEW s \in Seq(S), "comma" \in S, NEW d, UpToItem(s, d)
  PROVE  UpToComma(Append(s, "comma"), d)
<1>. DEFINE u == Append(s, "comma")
            m == Len(s)
            n == m + 1
<1>1. PICK open \in 1 .. m :
        /\ OpensAt(s, open) /\ m > open /\ s[m] # "comma" /\ ItemsAre(s, open, n, d.specifiers)
  BY DEF UpToItem
<1>2. "comma" \notin Marker BY DEF Marker
<1>3. m \in Nat BY LenProperties
<1>4. n \in 1 .. n /\ open \in 1 .. n BY <1>3
<1>5. /\ Len(u) = n /\ u[n] = "comma" /\ \A j \in 1 .. m : u[j] = s[j]
      /\ OpensAt(u, open) /\ ItemsAre(u, open, n, d.specifiers)
  BY <1>1, <1>2, <1>4, OpenList
<1>6. n - 1 = m /\ m \in 1 .. m /\ open < n /\ open + 1 # n /\ n \in Nat /\ open \in Nat
  BY <1>1, <1>3
<1>. HIDE DEF u, n, m
<1>7. ~StartsAt(u, open, n) BY <1>1, <1>5, <1>6 DEF StartsAt
<1>8. ItemsAre(u, open, n + 1, d.specifiers) BY <1>5, <1>6, <1>7, CommaAdded
<1>9. UpToComma(u, d) BY <1>4, <1>5, <1>8 DEF UpToComma
<1> QED BY <1>9 DEF u

(* An item begins behind the brace or a comma, and goes on.                *)
LEMMA ItemBegins ==
  ASSUME NEW S, NEW s \in Seq(S), NEW t \in S \ Plain, NEW d, UpToComma(s, d)
  PROVE  LET u == Append(s, t)
         IN  /\ Len(u) \in Nat /\ u[Len(u)] = t
             /\ \E open \in 1 .. Len(u) : Begun(u, open, Len(u), d.specifiers)
<1>. DEFINE u == Append(s, t)
            m == Len(s)
            n == m + 1
<1>1. PICK open \in 1 .. m :
        /\ OpensAt(s, open) /\ (m = open \/ s[m] = "comma") /\ ItemsAre(s, open, n, d.specifiers)
  BY DEF UpToComma
<1>2. t \notin Marker /\ t \notin {"comma", "close_brace"} BY DEF Plain
<1>3. m \in Nat BY LenProperties
<1>4. n \in 1 .. n /\ open \in 1 .. n BY <1>3
<1>5. /\ Len(u) = n /\ u[n] = t /\ \A j \in 1 .. m : u[j] = s[j]
      /\ OpensAt(u, open) /\ ItemsAre(u, open, n, d.specifiers)
  BY <1>1, <1>2, <1>4, OpenList
<1>6. n - 1 = m /\ m \in 1 .. m /\ open < n /\ n \in Nat /\ n <= n /\ (m = open => n = open + 1)
  BY <1>1, <1>3
<1>. HIDE DEF u, n, m
<1>7. StartsAt(u, open, n) BY <1>1, <1>5, <1>6 DEF StartsAt
<1>8. \A j \in n .. n : u[j] \notin {"comma", "close_brace"} BY <1>2, <1>5, <1>6
<1>9. Begun(u, open, n, d.specifiers) BY <1>5, <1>6, <1>7, <1>8 DEF Begun
<1>10. /\ Len(u) \in Nat /\ u[Len(u)] = t
       /\ \E o \in 1 .. Len(u) : Begun(u, o, Len(u), d.specifiers)
  BY <1>4, <1>5, <1>6, <1>9
<1> QED BY <1>10 DEF u

LEMMA ItemGoesOn ==
  ASSUME NEW S, NEW s \in Seq(S), NEW t \in S \ Plain, NEW open \in 1 .. Len(s),
         NEW i \in 1 .. Len(s), NEW specifiers, Begun(s, open, i, specifiers)
  PROVE  LET u == Append(s, t)
         IN  /\ Len(s) \in Nat /\ Len(u) = Len(s) + 1 /\ u[Len(u)] = t
             /\ \A j \in 1 .. Len(s) : u[j] = s[j]
             /\ open \in 1 .. Len(u) /\ i \in 1 .. Len(u) /\ Begun(u, open, i, specifiers)
<1>. DEFINE u == Append(s, t)
            m == Len(s)
            n == m + 1
<1>1. /\ OpensAt(s, open) /\ open < i /\ StartsAt(s, open, i) /\ ItemsAre(s, open, i, specifiers)
      /\ \A j \in i .. m : s[j] \notin {"comma", "close_brace"}
  BY DEF Begun
<1>2. t \notin Marker /\ t \notin {"comma", "close_brace"} BY DEF Plain
<1>3. m \in Nat BY LenProperties
<1>4. i \in 1 .. n BY <1>3
<1>5. /\ Len(u) = n /\ u[n] = t /\ \A j \in 1 .. m : u[j] = s[j]
      /\ open \in 1 .. n /\ OpensAt(u, open) /\ ItemsAre(u, open, i, specifiers)
  BY <1>1, <1>2, <1>4, OpenList
<1>6. i <= n /\ i - 1 \in 1 .. m /\ \A j \in i .. n : j = n \/ (j \in i .. m /\ j \in 1 .. m)
  BY <1>1, <1>3
<1>. HIDE DEF u, n, m
<1>7. StartsAt(u, open, i) BY <1>1, <1>5, <1>6 DEF StartsAt
<1>8. \A j \in i .. n : u[j] \notin {"comma", "close_brace"} BY <1>1, <1>2, <1>5, <1>6
<1>9. Begun(u, open, i, specifiers) BY <1>1, <1>5, <1>6, <1>7, <1>8 DEF Begun
<1>10. /\ m \in Nat /\ Len(u) = m + 1 /\ u[Len(u)] = t /\ \A j \in 1 .. m : u[j] = s[j]
       /\ open \in 1 .. Len(u) /\ i \in 1 .. Len(u) /\ Begun(u, open, i, specifiers)
  BY <1>3, <1>4, <1>5, <1>9 DEF n
<1> QED BY <1>10 DEF u, m

(* A specifier's name, modifier, `as` and alias.                           *)
LEMMA NameBegins ==
  ASSUME NEW S, NEW s \in Seq(S), NEW t \in S \ Plain, NEW d, NEW e, UpToComma(s, d),
         e.specifiers = d.specifiers, e.current = Kept(t, "none", "none")
  PROVE  HeadRead(Append(s, t), e)
<1>. DEFINE u == Append(s, t)
            n == Len(u)
<1>1. /\ n \in Nat /\ u[n] = t
      /\ \E open \in 1 .. n : Begun(u, open, n, d.specifiers)
  BY ItemBegins
<1>. HIDE DEF u
<1>2. PICK open \in 1 .. n : Begun(u, open, n, d.specifiers) BY <1>1
<1>3. n \in 1 .. n /\ n - n = 0 /\ ~ n > n BY <1>1, <1>2
<1>. HIDE DEF n
<1>4. Modifier(u, n, n) = "none" BY <1>3 DEF Modifier
<1>5. HeadRead(u, e) BY <1>1, <1>2, <1>3, <1>4 DEF HeadRead, n
<1> QED BY <1>5 DEF u

LEMMA TypeBegins ==
  ASSUME NEW S, NEW s \in Seq(S), "type" \in S, NEW d, NEW e, UpToComma(s, d),
         e.specifiers = d.specifiers, e.current = Kept("none", "type", "none")
  PROVE  TypeRead(Append(s, "type"), e)
<1>. DEFINE u == Append(s, "type")
<1>1. "type" \notin Plain BY DEF Plain, Marker
<1>2. /\ u[Len(u)] = "type"
      /\ \E open \in 1 .. Len(u) : Begun(u, open, Len(u), d.specifiers)
  BY <1>1, ItemBegins
<1>. HIDE DEF u
<1>3. TypeRead(u, e) BY <1>2 DEF TypeRead
<1> QED BY <1>3 DEF u

LEMMA TypeIsName ==
  ASSUME NEW S, NEW s \in Seq(S), NEW d, NEW e, TypeRead(s, d),
         e.specifiers = d.specifiers, e.current = Kept("type", "none", "none")
  PROVE  HeadRead(s, e)
<1>. DEFINE n == Len(s)
<1>1. n \in Nat BY LenProperties
<1>2. PICK open \in 1 .. n : Begun(s, open, n, d.specifiers) /\ s[n] = "type" BY DEF TypeRead
<1>3. n \in 1 .. n /\ n - n = 0 /\ ~ n > n BY <1>1, <1>2
<1>. HIDE DEF n
<1>4. Modifier(s, n, n) = "none" BY <1>3 DEF Modifier
<1> QED BY <1>2, <1>3, <1>4 DEF HeadRead, n

LEMMA TypeIsModifier ==
  ASSUME NEW S, NEW s \in Seq(S), NEW t \in S \ Plain, NEW d, NEW e, TypeRead(s, d),
         e.specifiers = d.specifiers, e.current = Kept(t, "type", "none")
  PROVE  HeadRead(Append(s, t), e)
<1>. DEFINE u == Append(s, t)
            m == Len(s)
            n == Len(u)
<1>1. PICK open \in 1 .. m : Begun(s, open, m, d.specifiers) /\ s[m] = "type" BY DEF TypeRead
<1>2. m \in Nat /\ m \in 1 .. m BY <1>1, LenProperties
<1>3. /\ n = m + 1 /\ u[n] = t /\ \A j \in 1 .. m : u[j] = s[j]
      /\ open \in 1 .. n /\ m \in 1 .. n /\ Begun(u, open, m, d.specifiers)
  BY <1>1, <1>2, ItemGoesOn
<1>. HIDE DEF u, m, n
<1>4. n > m /\ n - m = 1 BY <1>2, <1>3
<1>5. Modifier(u, m, n) = "type" BY <1>1, <1>2, <1>3, <1>4 DEF Modifier
<1>6. HeadRead(u, e) BY <1>3, <1>4, <1>5 DEF HeadRead, n
<1> QED BY <1>6 DEF u

LEMMA AsFollows ==
  ASSUME NEW S, NEW s \in Seq(S), "as" \in S, NEW d, HeadRead(s, d)
  PROVE  AsRead(Append(s, "as"), d)
<1>. DEFINE u == Append(s, "as")
            m == Len(s)
            n == Len(u)
<1>1. PICK open \in 1 .. m, i \in 1 .. m :
        /\ Begun(s, open, i, d.specifiers) /\ m - i \in {0, 1}
        /\ d.current = Kept(s[m], Modifier(s, i, m), "none")
  BY DEF HeadRead
<1>2. "as" \notin Plain BY DEF Plain, Marker
<1>3. /\ m \in Nat /\ n = m + 1 /\ \A j \in 1 .. m : u[j] = s[j]
      /\ open \in 1 .. n /\ i \in 1 .. n /\ Begun(u, open, i, d.specifiers)
  BY <1>1, <1>2, ItemGoesOn
<1>. HIDE DEF u, m, n
<1>4. n - 1 = m /\ n - i \in {1, 2} /\ m \in 1 .. m BY <1>1, <1>3
<1>5. u[m] = s[m] /\ Modifier(u, i, m) = Modifier(s, i, m) BY <1>3, <1>4 DEF Modifier
<1>6. AsRead(u, d) BY <1>1, <1>3, <1>4, <1>5 DEF AsRead, n
<1> QED BY <1>6 DEF u

LEMMA AliasFollows ==
  ASSUME NEW S, NEW s \in Seq(S), NEW t \in S \ Plain, NEW d, NEW e, AsRead(s, d),
         e.specifiers = d.specifiers, e.current = [d.current EXCEPT !.alias = t]
  PROVE  AliasRead(Append(s, t), e)
<1>. DEFINE u == Append(s, t)
            m == Len(s)
            n == Len(u)
<1>1. PICK open \in 1 .. m, i \in 1 .. m :
        /\ Begun(s, open, i, d.specifiers) /\ m - i \in {1, 2}
        /\ d.current = Kept(s[m - 1], Modifier(s, i, m - 1), "none")
  BY DEF AsRead
<1>2. e.current = Kept(s[m - 1], Modifier(s, i, m - 1), t) BY <1>1 DEF Kept
<1>3. /\ m \in Nat /\ n = m + 1 /\ u[n] = t /\ \A j \in 1 .. m : u[j] = s[j]
      /\ open \in 1 .. n /\ i \in 1 .. n /\ Begun(u, open, i, d.specifiers)
  BY <1>1, ItemGoesOn
<1>. HIDE DEF u, m, n
<1>4. n - 2 = m - 1 /\ n - i \in {2, 3} /\ m - 1 \in 1 .. m BY <1>1, <1>3
<1>5. u[m - 1] = s[m - 1] /\ Modifier(u, i, m - 1) = Modifier(s, i, m - 1)
  BY <1>3, <1>4 DEF Modifier
<1>6. e.current = Kept(u[n - 2], Modifier(u, i, n - 2), u[n]) BY <1>2, <1>3, <1>4, <1>5
<1>7. AliasRead(u, e) BY <1>3, <1>4, <1>6 DEF AliasRead, n
<1> QED BY <1>7 DEF u

(* The specifier that store_specifier appends.                             *)
AsStored(current) ==
  [current EXCEPT !.name = Normalize(current.name), !.alias = Normalize(current.alias)]
Stores(d, e) == e.specifiers = Append(d.specifiers, AsStored(d.current))

LEMMA KeptFields ==
  ASSUME NEW S, NEW r \in [name : S, type_keyword : S, alias : S]
  PROVE  r = Kept(r.name, r.type_keyword, r.alias)
BY DEF Kept

LEMMA KeptStored ==
  ASSUME NEW a, NEW b, NEW c
  PROVE  AsStored(Kept(a, b, c)) = Kept(Normalize(a), b, Normalize(c))
<1>. DEFINE current == Kept(a, b, c)
            x == Normalize(current.name)
            y == Normalize(current.alias)
            u == [current EXCEPT !.name = x, !.alias = y]
            S == {a, b, c, x, y}
<1>1. current.name = a /\ current.alias = c /\ current.type_keyword = b BY DEF Kept
<1>2. x = Normalize(a) /\ y = Normalize(c) BY <1>1
<1>. HIDE DEF x, y
<1>3. current \in [name : S, type_keyword : S, alias : S] /\ x \in S /\ y \in S BY DEF Kept
<1>. HIDE DEF S, current
<1>4. /\ u \in [name : S, type_keyword : S, alias : S]
      /\ u.name = x /\ u.alias = y /\ u.type_keyword = current.type_keyword
  BY <1>3
<1>. HIDE DEF u
<1>5. u = Kept(x, b, y) BY <1>1, <1>4, KeptFields
<1>6. AsStored(current) = Kept(x, b, y) BY <1>5 DEF AsStored, u, x, y
<1> QED BY <1>2, <1>6 DEF current

LEMMA ItemStored ==
  ASSUME NEW S, NEW s \in Seq(S), NEW d, NEW e, d.specifiers \in Seq(Specifier),
         d.current \in Specifier, HeadRead(s, d) \/ AliasRead(s, d), Stores(d, e)
  PROVE  UpToItem(s, e)
<1>. DEFINE m == Len(s)
            n == m + 1
            item == AsStored(d.current)
<1>1. m \in Nat /\ n \in Nat /\ n = m + 1 BY LenProperties
<1>2. Normalize("none") = "none" BY DEF Normalize, Identifier
<1>3. \E open, i \in 1 .. m : Begun(s, open, i, d.specifiers) /\ item = Spelled(s, i, n)
  <2>1. CASE HeadRead(s, d)
    <3>1. PICK open \in 1 .. m, i \in 1 .. m :
            /\ Begun(s, open, i, d.specifiers) /\ m - i \in {0, 1}
            /\ d.current = Kept(s[m], Modifier(s, i, m), "none")
      BY <2>1 DEF HeadRead
    <3>2. item = Kept(Normalize(s[m]), Modifier(s, i, m), "none")
      BY <3>1, <1>2, KeptStored
    <3>. HIDE DEF item, m, n
    <3>3. CASE m = i
      <4>1. n - i = 1 /\ ~ m > i BY <1>1, <3>3
      <4>2. Spelled(s, i, n) = Kept(Normalize(s[i]), "none", "none")
        BY <4>1 DEF Spelled, Kept
      <4> QED BY <3>1, <3>2, <3>3, <4>1, <4>2 DEF Modifier
    <3>4. CASE m = i + 1
      <4>1. n - i = 2 /\ n - m = 1 /\ m > i BY <1>1, <3>4
      <4>2. Spelled(s, i, n) = Kept(Normalize(s[m]), s[i], "none")
        BY <3>4, <4>1 DEF Spelled, Kept
      <4> QED BY <3>1, <3>2, <4>1, <4>2 DEF Modifier
    <3>5. m = i \/ m = i + 1 BY <1>1, <3>1
    <3> QED BY <3>3, <3>4, <3>5
  <2>2. CASE AliasRead(s, d)
    <3>1. PICK open \in 1 .. m, i \in 1 .. m :
            /\ Begun(s, open, i, d.specifiers) /\ m - i \in {2, 3}
            /\ d.current = Kept(s[m - 2], Modifier(s, i, m - 2), s[m])
      BY <2>2 DEF AliasRead
    <3>2. item = Kept(Normalize(s[m - 2]), Modifier(s, i, m - 2), Normalize(s[m]))
      BY <3>1, KeptStored
    <3>. HIDE DEF item, m, n
    <3>3. CASE m = i + 2
      <4>1. n - i = 3 /\ m - 2 = i /\ ~ m - 2 > i BY <1>1, <3>3
      <4>2. Spelled(s, i, n) = Kept(Normalize(s[i]), "none", Normalize(s[m]))
        BY <3>3, <4>1 DEF Spelled, Kept
      <4> QED BY <3>1, <3>2, <4>1, <4>2 DEF Modifier
    <3>4. CASE m = i + 3
      <4>1. n - i = 4 /\ n - (i + 1) = 3 /\ (i + 1) + 2 = m /\ m - 2 = i + 1 /\ m - 2 > i
        BY <1>1, <3>4
      <4>2. Spelled(s, i, n) = Kept(Normalize(s[i + 1]), s[i], Normalize(s[m]))
        BY <4>1 DEF Spelled, Kept
      <4> QED BY <3>1, <3>2, <4>1, <4>2 DEF Modifier
    <3>5. m = i + 2 \/ m = i + 3 BY <1>1, <3>1
    <3> QED BY <3>3, <3>4, <3>5
  <2> QED BY <2>1, <2>2
<1>4. PICK open \in 1 .. m, i \in 1 .. m :
        Begun(s, open, i, d.specifiers) /\ item = Spelled(s, i, n)
  BY <1>3
<1>5. /\ OpensAt(s, open) /\ open < i /\ StartsAt(s, open, i)
      /\ ItemsAre(s, open, i, d.specifiers)
      /\ \A j \in i .. m : s[j] \notin {"comma", "close_brace"}
  BY <1>4 DEF Begun
<1>6. open \in Nat /\ i \in Nat /\ i < n /\ n - 1 = m /\ m > open /\ m \in i .. m
  BY <1>1, <1>5
<1>7. \E T : d.specifiers \in Seq(T) /\ item \in T
  <2>. DEFINE T == Specifier \cup {item}
  <2>1. d.specifiers \in Seq(T)
    <3>. HIDE DEF item
    <3> QED BY ElementOfSeq, SeqDef
  <2> QED BY <2>1
<1>8. PICK T : d.specifiers \in Seq(T) /\ item \in T BY <1>7
<1>9. e.specifiers = Append(d.specifiers, item) BY DEF Stores
<1>. HIDE DEF item, m, n
<1>10. \A j \in i .. n - 1 : s[j] \notin {"comma", "close_brace"} BY <1>5, <1>6
<1>11. ItemsAre(s, open, n, e.specifiers)
  BY <1>4, <1>5, <1>6, <1>8, <1>9, <1>10, <1>1, ItemAdded
<1> QED BY <1>5, <1>6, <1>11 DEF UpToItem, m, n

---------------------------------------------------------------------------
(* What the results of the states make of what has been read: s before and *)
(* u after.                                                                *)

(* The tokens that have been taken once a result is acted on.              *)
Seen(s, t, r) == IF r.reprocess \/ t = "newline" THEN s ELSE Append(s, t)

Reads(f, s, u, d, t, r) ==
  LET e == Build(d, r.calls, t)
  IN  /\ r.act = "stay" => ReadAt(r.frame, u, e)
      /\ r.act = "push" => ReadAt(r.child, u, e) /\ Second(r.frame, r.child)
      /\ r.act = "complete" =>
           /\ NodeRead(r.node, s, e)
           /\ \A b : f.state \in MayPush(b.state) /\ Link(b, f) /\ Second(b, f) =>
                ReadBelow(b, s, u, e)

(* The calls of an import, but for the one that begins a list.             *)
ImportCall ==
  {"set_type_keyword", "set_default_binding", "set_namespace_name", "set_module_specifier",
   "set_attributes_keyword", "add_attribute", "set_equals_name", "init_require",
   "set_require_module_specifier", "add_entity_identifier"}
Lists(d, e) == e.specifiers = d.specifiers /\ ("named" \in e.has => "named" \in d.has)

LEMMA ImportCallLists ==
  ASSUME NEW d \in DeclarationSet, NEW t
  PROVE  /\ \A c \in ImportCall \cup {"none"} : Lists(d, Build(d, <<c, "none">>, t))
         /\ Build(d, <<"init_named_imports", "none">>, t).specifiers = d.specifiers
         /\ Build(d, <<"set_type_keyword", "init_named_imports">>, t).specifiers = d.specifiers
<1>1. /\ \A p : Has(d, p).specifiers = d.specifiers /\ Has(d, p).has = d.has \cup {p}
      /\ Broken(d).specifiers = d.specifiers /\ Broken(d).has = d.has
      /\ \A form : /\ [d EXCEPT !.form = form].specifiers = d.specifiers
                   /\ [d EXCEPT !.form = form].has = d.has
  BY DEF Has, Broken, DeclarationSet
<1>2. EnsureFrom(d).specifiers = d.specifiers /\ EnsureFrom(d).has = d.has
  BY <1>1 DEF EnsureFrom
<1>. DEFINE R == [form : Form, has : SUBSET Part, attribute_values : SUBSET Constant,
                  specifiers : Seq(Specifier), current : Specifier, broken : BOOLEAN]
            Same(e) == e \in R /\ e.specifiers = d.specifiers
<1>3. /\ d \in R /\ EnsureFrom(d) \in R /\ Has(d, "type_keyword") \in R
      /\ \A e \in R : EnsureNamed(e) \in R /\ EnsureNamed(e).specifiers = e.specifiers
  <2>1. d \in R BY DEF DeclarationSet
  <2>2. \A e \in R : EnsureFrom(e) \in R /\ EnsureFrom(e).specifiers = e.specifiers
    BY DEF EnsureFrom, Broken, Form
  <2>3. \A e \in R, p \in Part : Has(e, p) \in R /\ Has(e, p).specifiers = e.specifiers
    BY DEF Has
  <2>4. \A e \in R : Broken(e) \in R /\ Broken(e).specifiers = e.specifiers BY DEF Broken
  <2>5. "named" \in Part /\ "type_keyword" \in Part BY DEF Part
  <2>. HIDE DEF R
  <2>6. \A e \in R : EnsureNamed(e) \in R /\ EnsureNamed(e).specifiers = e.specifiers
    BY <2>2, <2>3, <2>4, <2>5 DEF EnsureNamed
  <2> QED BY <2>1, <2>2, <2>3, <2>5, <2>6
<1>4. ASSUME NEW e \in R, NEW p, p # "named"
      PROVE  Lists(e, Has(e, p))
  BY <1>4 DEF Lists, Has
<1>5. /\ Lists(d, Call(d, "set_type_keyword", t)) /\ Lists(d, Call(d, "set_attributes_keyword", t))
  BY <1>3, <1>4 DEF Call
<1>6. Lists(d, Call(d, "set_default_binding", t))
  <2>1. Lists(EnsureFrom(d), Has(EnsureFrom(d), "default_binding")) BY <1>3, <1>4
  <2> QED BY <1>2, <2>1 DEF Call, Lists
<1>7. Lists(d, Call(d, "set_namespace_name", t))
  <2>. DEFINE e == EnsureFrom(d)
              has == (e.has \ {"named"}) \cup {"namespace_name"}
  <2>1. e \in R /\ e.specifiers = d.specifiers BY <1>2, <1>3
  <2>. HIDE DEF e
  <2>2. "named" \notin has OBVIOUS
  <2>. HIDE DEF has
  <2>3. [e EXCEPT !.has = has].specifiers = d.specifiers /\ [e EXCEPT !.has = has].has = has
    BY <2>1
  <2>4. Lists(d, [e EXCEPT !.has = has]) BY <2>2, <2>3 DEF Lists
  <2> QED BY <2>4 DEF Call, SetNamespaceName, e, has
<1>8. Lists(d, Call(d, "set_module_specifier", t))
  <2>1. \A form \in Form : [d EXCEPT !.form = form] \in R BY <1>3
  <2>2. "side_effect" \in Form BY DEF Form
  <2>3. /\ Lists(d, Has(d, "module_specifier"))
        /\ Lists([d EXCEPT !.form = "side_effect"],
                 Has([d EXCEPT !.form = "side_effect"], "module_specifier"))
    BY <1>3, <1>4, <2>1, <2>2
  <2> QED BY <1>1, <2>3 DEF Call, SetModuleSpecifier, Lists
<1>9. Lists(d, Call(d, "add_attribute", t))
  BY <1>3 DEF Call, AddAttribute, Lists
<1>10. /\ Lists(d, Call(d, "set_equals_name", t)) /\ Lists(d, Call(d, "init_require", t))
       /\ Lists(d, Call(d, "set_require_module_specifier", t))
       /\ Lists(d, Call(d, "add_entity_identifier", t))
  BY <1>1
     DEF Call, EnsureEquals, EnsureRequire, SetRequireModuleSpecifier, AddEntityIdentifier, Lists
<1>11. \A c \in ImportCall \cup {"none"} : Lists(d, Call(d, c, t))
  <2>1. Lists(d, Call(d, "none", t)) BY DEF Call, Lists
  <2> QED BY <1>5, <1>6, <1>7, <1>8, <1>9, <1>10, <2>1 DEF ImportCall
<1>12. /\ Call(d, "init_named_imports", t).specifiers = d.specifiers
       /\ Call(Call(d, "set_type_keyword", t), "init_named_imports", t).specifiers = d.specifiers
  BY <1>1, <1>3 DEF Call
<1>13. Build(d, <<"set_type_keyword", "init_named_imports">>, t) =
         Call(Call(d, "set_type_keyword", t), "init_named_imports", t)
  BY DEF Build
<1> QED BY <1>11, <1>12, <1>13, BuildOne

(* A result of an import state that goes on with the chain, and one that   *)
(* opens a list.                                                           *)
Takes(f, t) == t \notin Marker /\ (MayOpen(f) => t # "open_brace")
FollowingCalls == {<<c, "none">> : c \in ImportCall \cup {"none"}}
OpeningCalls == {<<"init_named_imports", "none">>, <<"set_type_keyword", "init_named_imports">>}
Follows(f, t, r) ==
  /\ r.calls \in FollowingCalls
  /\ r.reprocess \/ Takes(f, t)
  /\ r.act \in {"stay", "push", "complete"}
  /\ r.act = "stay" => r.frame.state = f.state /\ (MayOpen(r.frame) => MayOpen(f))
  /\ r.act = "push" => /\ r.frame.state = f.state /\ r.child.state \in ImportStateName
                       /\ MayOpen(r.child) => MayOpen(f)
  /\ r.act = "complete" => r.node = NullNode
Opens(f, t, r) ==
  /\ MayOpen(f) /\ t = "open_brace" /\ ~r.reprocess
  /\ r.act = "push" /\ r.frame.state = f.state /\ r.child = NamedImports
  /\ r.calls \in OpeningCalls
Goes(f, t, r) == r.act = "throw" \/ Follows(f, t, r) \/ Opens(f, t, r)

LEMMA GoesOnwards ==
  ASSUME NEW f, NEW t
  PROVE  /\ Goes(f, t, Expected)
         /\ \A g : g.state = f.state /\ (MayOpen(g) => MayOpen(f)) =>
              \A c \in ImportCall :
                Takes(f, t) => Goes(f, t, Stay(g)) /\ Goes(f, t, Calling(Stay(g), c))
         /\ \A g : g.state = f.state =>
              \A h : h.state \in ImportStateName /\ (MayOpen(h) => MayOpen(f)) =>
                \A c \in ImportCall :
                  /\ Takes(f, t) => Goes(f, t, Push(g, h)) /\ Goes(f, t, Calling(Push(g, h), c))
                  /\ Goes(f, t, Reprocess(Push(g, h)))
         /\ \A g : /\ Takes(f, t) => Goes(f, t, Complete(g, NullNode))
                   /\ Goes(f, t, Reprocess(Complete(g, NullNode)))
         /\ \A g : g.state = f.state /\ MayOpen(f) /\ t = "open_brace" =>
              LET q == Push(g, NamedImports)
              IN  /\ Goes(f, t, Calling(q, "init_named_imports"))
                  /\ Goes(f, t, Calling2(q, "set_type_keyword", "init_named_imports"))
<1>1. Expected.act = "throw" BY DEF Expected, Throw, Result
<1>2. \A g : /\ Stay(g).act = "stay" /\ Stay(g).frame = g /\ Stay(g).calls = <<"none", "none">>
             /\ DOMAIN Stay(g) = ResultField
  BY DEF Stay, Result, ResultField
<1>3. \A g, h : /\ Push(g, h).act = "push" /\ Push(g, h).frame = g /\ Push(g, h).child = h
                /\ Push(g, h).calls = <<"none", "none">> /\ Push(g, h).reprocess = FALSE
                /\ DOMAIN Push(g, h) = ResultField
  BY DEF Push, Result, ResultField
<1>4. \A g, n : /\ Complete(g, n).act = "complete" /\ Complete(g, n).node = n
                /\ Complete(g, n).calls = <<"none", "none">>
                /\ DOMAIN Complete(g, n) = ResultField
  BY DEF Complete, Result, ResultField
<1>5. ASSUME NEW r, DOMAIN r = ResultField
      PROVE  /\ /\ Reprocess(r).act = r.act /\ Reprocess(r).frame = r.frame
                /\ Reprocess(r).child = r.child /\ Reprocess(r).node = r.node
                /\ Reprocess(r).calls = r.calls /\ Reprocess(r).reprocess = TRUE
             /\ \A c : /\ Calling(r, c).act = r.act /\ Calling(r, c).frame = r.frame
                       /\ Calling(r, c).child = r.child /\ Calling(r, c).node = r.node
                       /\ Calling(r, c).calls = <<c, "none">>
                       /\ Calling(r, c).reprocess = r.reprocess
  BY <1>5 DEF Reprocess, Calling, ResultField
<1>0. /\ <<"none", "none">> \in FollowingCalls
      /\ \A c \in ImportCall : <<c, "none">> \in FollowingCalls
      /\ <<"init_named_imports", "none">> \in OpeningCalls
      /\ <<"set_type_keyword", "init_named_imports">> \in OpeningCalls
  BY DEF FollowingCalls, OpeningCalls
<1>6. ASSUME NEW g, g.state = f.state, MayOpen(g) => MayOpen(f), NEW c \in ImportCall, Takes(f, t)
      PROVE  Follows(f, t, Stay(g)) /\ Follows(f, t, Calling(Stay(g), c))
  <2>. DEFINE q == Stay(g)
  <2>1. /\ q.act = "stay" /\ q.frame = g /\ q.calls \in FollowingCalls
        /\ DOMAIN q = ResultField
    BY <1>0, <1>2
  <2>. HIDE DEF q
  <2>2. /\ Calling(q, c).act = "stay" /\ Calling(q, c).frame = g
        /\ Calling(q, c).calls \in FollowingCalls
    BY <1>0, <1>5, <2>1
  <2>3. Follows(f, t, q) BY <1>6, <2>1 DEF Follows
  <2>4. Follows(f, t, Calling(q, c)) BY <1>6, <2>2 DEF Follows
  <2> QED BY <2>3, <2>4 DEF q
<1>7. ASSUME NEW g, g.state = f.state, NEW h, h.state \in ImportStateName,
             MayOpen(h) => MayOpen(f), NEW c \in ImportCall
      PROVE  /\ Takes(f, t) => Follows(f, t, Push(g, h)) /\ Follows(f, t, Calling(Push(g, h), c))
             /\ Follows(f, t, Reprocess(Push(g, h)))
  <2>. DEFINE q == Push(g, h)
              Pushed(r) == /\ r.act = "push" /\ r.frame = g /\ r.child = h
                           /\ r.calls \in FollowingCalls
  <2>1. Pushed(q) /\ DOMAIN q = ResultField BY <1>0, <1>3
  <2>. HIDE DEF q
  <2>2. Pushed(Calling(q, c)) BY <1>0, <1>5, <2>1
  <2>3. Pushed(Reprocess(q)) /\ Reprocess(q).reprocess = TRUE BY <1>5, <2>1
  <2>4. \A r : Pushed(r) /\ (r.reprocess \/ Takes(f, t)) => Follows(f, t, r)
    BY <1>7 DEF Follows
  <2>. HIDE DEF Pushed
  <2> QED BY <2>1, <2>2, <2>3, <2>4 DEF q
<1>8. ASSUME NEW g
      PROVE  /\ Takes(f, t) => Follows(f, t, Complete(g, NullNode))
             /\ Follows(f, t, Reprocess(Complete(g, NullNode)))
  <2>. DEFINE q == Complete(g, NullNode)
              Ended(r) == r.act = "complete" /\ r.node = NullNode /\ r.calls \in FollowingCalls
  <2>1. Ended(q) /\ DOMAIN q = ResultField BY <1>0, <1>4
  <2>. HIDE DEF q
  <2>2. Ended(Reprocess(q)) /\ Reprocess(q).reprocess = TRUE BY <1>5, <2>1
  <2>3. \A r : Ended(r) /\ (r.reprocess \/ Takes(f, t)) => Follows(f, t, r) BY DEF Follows
  <2>. HIDE DEF Ended
  <2> QED BY <2>1, <2>2, <2>3 DEF q
<1>9. ASSUME NEW g, g.state = f.state, MayOpen(f), t = "open_brace"
      PROVE  LET q == Push(g, NamedImports)
             IN  /\ Opens(f, t, Calling(q, "init_named_imports"))
                 /\ Opens(f, t, Calling2(q, "set_type_keyword", "init_named_imports"))
  <2>. DEFINE q == Push(g, NamedImports)
              Pushed(r) == r.act = "push" /\ r.frame = g /\ r.child = NamedImports
                           /\ r.reprocess = FALSE
  <2>1. Pushed(q) /\ DOMAIN q = ResultField BY <1>3
  <2>. HIDE DEF q
  <2>2. \A c : Pushed(Calling(q, c)) /\ Calling(q, c).calls = <<c, "none">>
    BY <2>1 DEF Calling, ResultField
  <2>3. \A b, c : Pushed(Calling2(q, b, c)) /\ Calling2(q, b, c).calls = <<b, c>>
    BY <2>1 DEF Calling2, ResultField
  <2>4. \A r : Pushed(r) /\ r.calls \in OpeningCalls => Opens(f, t, r) BY <1>9 DEF Opens
  <2>. HIDE DEF Pushed
  <2> QED BY <1>0, <2>2, <2>3, <2>4 DEF q
<1> QED BY <1>1, <1>6, <1>7, <1>8, <1>9 DEF Goes

LEMMA ImportGoes ==
  ASSUME NEW f, IsFrame(f), f.state \in ImportStateName, NEW t, NEW d, Held(f, d)
  PROVE  Goes(f, t, ImportProcess(f, t))
<1>. DEFINE Initial == {"after_import", "after_type", "after_default", "after_comma"}
            Child == IF MayOpen(f) THEN ImportLink ELSE ImportLink \ Initial
<1>1. /\ t \in Constant \cup Identifier => Takes(f, t)
      /\ t \in {"newline", "asterisk", "from", "as", "comma", "eq", "open_paren", "close_paren",
                "semicolon", "dot", "assert", "with", "close_brace", "colon"} => Takes(f, t)
      /\ t = "open_brace" /\ ~MayOpen(f) => Takes(f, t)
  BY DEF Takes, Constant, Identifier, Marker
<1>2. ImportCall # {} BY DEF ImportCall
<1>3. ASSUME NEW s \in Child, NEW h \in {Fresh(s), Inherit(f, s)}
      PROVE  h.state \in ImportStateName /\ (MayOpen(h) => MayOpen(f))
  <2>1. h.state = s BY FrameFields DEF Inherit
  <2>2. s \in ImportLink /\ (s \in Initial => MayOpen(f)) OBVIOUS
  <2> QED BY <2>1, <2>2 DEF MayOpen, ImportLink
<1>4. ASSUME NEW s \in Child, NEW h \in {Fresh(s), Inherit(f, s)}
      PROVE  /\ Takes(f, t) => Goes(f, t, Push(f, h))
             /\ Goes(f, t, Reprocess(Push(f, h)))
             /\ \A c \in ImportCall : Takes(f, t) => Goes(f, t, Calling(Push(f, h), c))
  BY <1>2, <1>3, GoesOnwards
<1>5. Goes(f, t, Expected) BY GoesOnwards
<1>6. ASSUME NEW q, Goes(f, t, q) PROVE Goes(f, t, Visitor(f, t, q))
  <2>1. t = "newline" => Goes(f, t, Stay(f)) BY <1>1, <1>2, GoesOnwards
  <2> QED BY <1>6, <2>1 DEF Visitor
<1>7. MayOpen(f) /\ t = "open_brace" =>
        /\ Goes(f, t, Calling(PushSub(f, NamedImports), "init_named_imports"))
        /\ Goes(f, t, Calling2(PushSub(f, NamedImports), "set_type_keyword", "init_named_imports"))
  <2>1. TurnOn(f, {"awaiting_sub"}).state = f.state BY TurnFields
  <2> QED BY <2>1, GoesOnwards DEF PushSub
<1>. USE DEF ImportLink, ImportStateName, ImportCall
<1>8. CASE f.state = "import"
  <2>1. MayOpen(f) BY <1>8 DEF MayOpen
  <2>2. "after_import" \in Child BY <2>1
  <2>. HIDE DEF Child
  <2> QED BY <1>4, <1>8, <2>2 DEF ImportProcess, Import
<1>9. CASE f.state = "after_import" /\ "post_sub" \notin f.on
  <2>1. MayOpen(f) BY <1>9 DEF MayOpen
  <2>2. {"after_default", "after_module_spec", "after_type", "expect_as"} \subseteq Child BY <2>1
  <2>. HIDE DEF Child
  <2>3. Goes(f, t, AfterImport(f, t))
    BY <1>1, <1>4, <1>5, <1>6, <1>7, <1>9, <2>1, <2>2 DEF AfterImport, Identifier
  <2> QED BY <1>9, <2>3 DEF ImportProcess
<1>10. CASE f.state = "after_type" /\ "post_sub" \notin f.on
  <2>1. MayOpen(f) BY <1>10 DEF MayOpen
  <2>2. {"after_default", "expect_as", "after_from", "after_comma", "after_equals"} \subseteq Child
    BY <2>1
  <2>. HIDE DEF Child
  <2>3. Goes(f, t, AfterType(f, t))
    BY <1>1, <1>4, <1>5, <1>6, <1>7, <1>10, <2>1, <2>2 DEF AfterType, Identifier
  <2> QED BY <1>10, <2>3 DEF ImportProcess
<1>11. CASE f.state = "after_default"
  <2>1. MayOpen(f) BY <1>11 DEF MayOpen
  <2>2. {"after_from", "after_comma", "after_equals"} \subseteq Child BY <2>1
  <2>. HIDE DEF Child
  <2>3. Goes(f, t, AfterDefault(f, t))
    BY <1>1, <1>4, <1>5, <1>6, <1>11, <2>2 DEF AfterDefault
  <2> QED BY <1>11, <2>3 DEF ImportProcess
<1>12. CASE f.state = "after_comma" /\ "post_sub" \notin f.on
  <2>1. MayOpen(f) BY <1>12 DEF MayOpen
  <2>2. "expect_as" \in Child BY <2>1
  <2>. HIDE DEF Child
  <2>3. Goes(f, t, AfterComma(f, t))
    BY <1>1, <1>4, <1>5, <1>6, <1>7, <1>12, <2>1, <2>2 DEF AfterComma
  <2> QED BY <1>12, <2>3 DEF ImportProcess
<1>13. {"expect_from", "after_from", "expect_as", "expect_namespace_name", "after_equals",
        "expect_require_paren", "after_require_open", "after_require_module", "import_entity",
        "after_module_spec"} \subseteq Child
  OBVIOUS
<1>. HIDE DEF Child
<1>14. CASE f.state \in {"after_import", "after_type", "after_comma"} /\ "post_sub" \in f.on
  <2>1. Goes(f, t, Reprocess(Push(f, Fresh("expect_from")))) BY <1>4, <1>13
  <2>2. f.state = "after_import" => "equals_only" \notin f.on BY <1>14 DEF Held
  <2> QED BY <1>14, <2>1, <2>2 DEF ImportProcess, AfterImport, AfterType, AfterComma
<1>15. CASE f.state \in {"expect_from", "after_from", "expect_as", "expect_namespace_name"}
  <2>1. /\ Goes(f, t, ExpectFrom(f, t)) /\ Goes(f, t, AfterFrom(f, t))
        /\ Goes(f, t, ExpectAs(f, t)) /\ Goes(f, t, ExpectNamespaceName(f, t))
    BY <1>1, <1>4, <1>5, <1>6, <1>13 DEF ExpectFrom, AfterFrom, ExpectAs, ExpectNamespaceName
  <2> QED BY <1>15, <2>1 DEF ImportProcess
<1>16. CASE f.state \in {"after_equals", "expect_require_paren", "after_require_open"}
  <2>1. /\ Goes(f, t, AfterEquals(f, t)) /\ Goes(f, t, ExpectRequireParen(f, t))
        /\ Goes(f, t, AfterRequireOpen(f, t))
    BY <1>1, <1>4, <1>5, <1>6, <1>13
       DEF AfterEquals, ExpectRequireParen, AfterRequireOpen, Identifier
  <2> QED BY <1>16, <2>1 DEF ImportProcess
<1>17. ASSUME f.state \in {"after_require_module", "import_entity", "after_module_spec",
                          "import_attributes"},
              NEW off, NEW on, Takes(f, t)
       PROVE  /\ Goes(f, t, Stay(Turn(f, off, on))) /\ Goes(f, t, Stay(TurnOn(f, on)))
              /\ \A c \in ImportCall : Goes(f, t, Calling(Stay(Turn(f, off, on)), c))
  <2>1. \A g : g.state = f.state => ~MayOpen(g) BY <1>17 DEF MayOpen
  <2>2. Turn(f, off, on).state = f.state /\ TurnOn(f, on).state = f.state BY TurnFields
  <2> QED BY <1>2, <1>17, <2>1, <2>2, GoesOnwards
<1>18. /\ Takes(f, t) => Goes(f, t, Complete(f, NullNode))
       /\ Goes(f, t, Reprocess(Complete(f, NullNode)))
  BY GoesOnwards
<1>19. Goes(f, t, EndOfImport(f, t)) BY <1>1, <1>5, <1>18 DEF EndOfImport
<1>20. CASE f.state = "after_require_module"
  <2>1. Goes(f, t, AfterRequireModule(f, t))
    BY <1>1, <1>5, <1>6, <1>17, <1>19, <1>20 DEF AfterRequireModule
  <2> QED BY <1>20, <2>1 DEF ImportProcess
<1>21. CASE f.state = "import_entity"
  <2>1. Goes(f, t, ImportEntity(f, t))
    BY <1>1, <1>5, <1>6, <1>17, <1>19, <1>21 DEF ImportEntity
  <2> QED BY <1>21, <2>1 DEF ImportProcess
<1>22. CASE f.state = "after_module_spec"
  <2>. DEFINE h == Frame("import_attributes", {"expect_open_brace"})
  <2>1. h.state = "import_attributes" /\ TurnOn(f, {"awaiting_sub"}).state = f.state
    BY FrameFields, TurnFields
  <2>. HIDE DEF h
  <2>2. h.state \in ImportStateName /\ ~MayOpen(h) BY <2>1 DEF MayOpen
  <2>3. Takes(f, t) => Goes(f, t, Calling(PushSub(f, h), "set_attributes_keyword"))
    BY <2>1, <2>2, GoesOnwards DEF PushSub
  <2>4. Goes(f, t, AfterModuleSpec(f, t))
    BY <1>1, <1>5, <1>17, <1>18, <1>19, <1>22, <2>3 DEF AfterModuleSpec, h
  <2> QED BY <1>22, <2>4 DEF ImportProcess
<1>23. CASE f.state = "import_attributes"
  <2>1. ~MayOpen(f) BY <1>23 DEF MayOpen
  <2>2. \A from, to : Takes(f, t) =>
          Goes(f, t, Phase(f, from, to)) /\ Goes(f, t, Calling(Phase(f, from, to), "add_attribute"))
    BY <1>17, <1>23 DEF Phase
  <2>3. Goes(f, t, ImportAttributes(f, t))
    BY <1>1, <1>5, <1>6, <1>18, <2>1, <2>2 DEF ImportAttributes
  <2> QED BY <1>23, <2>3 DEF ImportProcess
<1> QED
  BY <1>8, <1>9, <1>10, <1>11, <1>12, <1>14, <1>15, <1>16, <1>20, <1>21, <1>22, <1>23

(* What the other frames of a chain are told by an import's.               *)
LEMMA ImportReadAt ==
  ASSUME NEW f, f.state \in ImportStateName, NEW s, NEW d, NamedWhole(s, d),
         MayOpen(f) => Unopened(s) /\ d.specifiers = <<>> /\ "named" \notin d.has
  PROVE  ReadAt(f, s, d)
BY DEF ReadAt, ImportStateName, SpecifierListName

LEMMA ImportReadBelow ==
  ASSUME NEW f, f.state \in ImportStateName, NEW b, f.state \in MayPush(b.state),
         NEW s, NEW u, NEW d, NamedWhole(s, d), NamedWhole(u, d)
  PROVE  ReadBelow(b, s, u, d)
<1>1. b.state \notin SpecifierStateName \cup {"named_export", "named_export_module_spec"}
  BY DEF MayPush, ImportLink, ImportStateName, SpecifierStateName, SpecifierListName, Statement
<1> QED BY <1>1 DEF ReadBelow, SpecifierStateName

LEMMA ImportReads ==
  ASSUME NEW f, IsFrame(f), f.state \in ImportStateName, NEW d \in DeclarationSet,
         NEW S, NEW s \in Seq(S), NEW t \in S, ReadAt(f, s, d),
         NEW r, Goes(f, t, r), NEW u, u = Seen(s, t, r)
  PROVE  Reads(f, s, u, d, t, r)
<1>. DEFINE e == Build(d, r.calls, t)
<1>1. /\ NamedWhole(s, d)
      /\ MayOpen(f) => Unopened(s) /\ d.specifiers = <<>> /\ "named" \notin d.has
  BY DEF ReadAt
<1>2. CASE Follows(f, t, r)
  <2>1. Lists(d, e) BY <1>2, ImportCallLists DEF Follows, FollowingCalls
  <2>2. u = s \/ (Takes(f, t) /\ u = Append(s, t)) BY <1>2 DEF Follows, Seen
  <2>. HIDE DEF e
  <2>3. NamedWhole(s, e) BY <1>1, <2>1 DEF NamedWhole, Lists
  <2>4. NamedWhole(u, e) BY <2>2, <2>3, WholeStable DEF NamedWhole, Takes
  <2>5. MayOpen(f) => Unopened(u) /\ e.specifiers = <<>> /\ "named" \notin e.has
    BY <1>1, <2>1, <2>2, UnopenedStable DEF Lists, Takes
  <2>6. ASSUME NEW g, g.state \in ImportStateName, MayOpen(g) => MayOpen(f)
        PROVE  ReadAt(g, u, e)
    BY <2>4, <2>5, <2>6, ImportReadAt
  <2>7. r.act = "stay" => ReadAt(r.frame, u, e) BY <1>2, <2>6 DEF Follows
  <2>8. r.act = "push" => ReadAt(r.child, u, e) /\ Second(r.frame, r.child)
    BY <1>2, <2>6 DEF Follows, Second, ImportStateName
  <2>9. r.act = "complete" => NodeRead(r.node, s, e)
    BY <1>2, NodeFields DEF Follows, NodeRead
  <2>10. \A b : f.state \in MayPush(b.state) => ReadBelow(b, s, u, e)
    BY <2>3, <2>4, ImportReadBelow
  <2> QED BY <2>7, <2>8, <2>9, <2>10 DEF Reads, e
<1>3. CASE Opens(f, t, r)
  <2>1. u = Append(s, "open_brace") /\ "open_brace" \in S BY <1>3 DEF Opens, Seen
  <2>2. e.specifiers = <<>> BY <1>1, <1>3, ImportCallLists DEF Opens, OpeningCalls
  <2>. HIDE DEF e
  <2>3. UpToComma(u, e) BY <1>1, <1>3, <2>1, <2>2, ListOpened DEF Opens
  <2>. DEFINE c == NamedImports
  <2>4. c.state = "named_import" /\ c.on = {"expect_specifier_or_close"}
    BY FrameFields DEF NamedImports
  <2>. HIDE DEF c
  <2>5. ReadAt(c, u, e)
    BY <2>3, <2>4 DEF ReadAt, MayOpen, ImportStateName, SpecifierListName
  <2>6. Second(r.frame, c) BY <1>3 DEF Opens, Second, ImportStateName
  <2> QED BY <1>3, <2>5, <2>6 DEF Reads, e, Opens, c
<1>4. CASE r.act = "throw" BY <1>4 DEF Reads
<1> QED BY <1>2, <1>3, <1>4 DEF Goes

LEMMA ImportAcceptReads ==
  ASSUME NEW f, IsFrame(f), f.state \in ImportStateName, Awaits(f), NEW d, Held(f, d),
         NEW t, NEW s, NEW u, ReadBelow(f, s, u, d), NEW n
  PROVE  Reads(f, s, u, d, t, ImportAcceptChild(f, n))
<1>1. /\ \A g : Stay(g).act = "stay" /\ Stay(g).frame = g
      /\ \A g, m : Complete(g, m).act = "complete" /\ Complete(g, m).node = m
  BY DEF Stay, Complete, Result
<1>2. /\ \A g : Build(d, Stay(g).calls, t) = d
      /\ \A g, m : Build(d, Complete(g, m).calls, t) = d
  BY SilentResults, BuildNone
<1>3. CASE "awaiting_sub" \in f.on
  <2>. DEFINE g == Turn(f, {"awaiting_sub"}, {"post_sub"})
  <2>1. g.state = f.state /\ "post_sub" \in g.on BY TurnFields
  <2>. HIDE DEF g
  <2>2. f.state \in {"after_import", "after_type", "after_comma", "after_module_spec"}
    BY <1>3 DEF Held
  <2>3. NamedWhole(u, d) BY <1>3 DEF ReadBelow
  <2>4. ~MayOpen(g) BY <2>1, <2>2 DEF MayOpen
  <2>5. ReadAt(g, u, d) BY <2>1, <2>3, <2>4, ImportReadAt
  <2>6. Reads(f, s, u, d, t, Stay(g)) BY <1>1, <1>2, <2>5 DEF Reads
  <2> QED BY <1>3, <2>2, <2>6 DEF ImportAcceptChild, g
<1>4. CASE "awaiting_sub" \notin f.on
  <2>1. NamedWhole(s, d) BY <1>4 DEF ReadBelow
  <2>2. f.state # "import_attributes" BY DEF Awaits, Leaf
  <2>3. ASSUME NEW m, m.kind \in {"null", "import"}
        PROVE  Reads(f, s, u, d, t, Complete(f, m))
    <3>1. NodeRead(m, s, d) BY <2>1, <2>3 DEF NodeRead
    <3>2. ASSUME NEW b, f.state \in MayPush(b.state), Link(b, f)
          PROVE  ReadBelow(b, s, u, d)
      <4>1. b.state \notin SpecifierStateName \cup {"named_export", "named_export_module_spec"}
        BY <3>2
           DEF MayPush, ImportLink, ImportStateName, SpecifierStateName, SpecifierListName,
               Statement
      <4>2. b.state \in ImportStateName => "awaiting_sub" \notin b.on
        BY <2>2, <3>2 DEF Link, Hands, ImportStateName
      <4> QED BY <2>1, <4>1, <4>2 DEF ReadBelow, SpecifierStateName
    <3> QED BY <1>1, <1>2, <3>1, <3>2 DEF Reads
  <2>4. Reads(f, s, u, d, t, Complete(f, Node("import")))
        /\ Reads(f, s, u, d, t, Complete(f, NullNode))
    BY <2>3, NodeFields
  <2> QED BY <1>4, <2>2, <2>4 DEF ImportAcceptChild
<1> QED BY <1>3, <1>4

(* Specifiers.                                                             *)
LEMMA SpecifierCallReads ==
  ASSUME NEW d \in DeclarationSet, NEW t
  PROVE  /\ \A c \in {"new_specifier", "specifier_type", "specifier_name",
                    "specifier_demote_type", "specifier_alias"} :
              Call(d, c, t).specifiers = d.specifiers
         /\ Call(d, "new_specifier", t).current = NoSpecifier
         /\ Call(d, "specifier_alias", t).current = [d.current EXCEPT !.alias = t]
         /\ Stores(d, Call(d, "store_specifier", t))
<1>1. \A c \in {"new_specifier", "specifier_type", "specifier_name",
                "specifier_demote_type", "specifier_alias"} :
        Call(d, c, t).specifiers = d.specifiers
  BY SpecifierCall
<1>2. \A x : [d EXCEPT !.current = x].current = x BY DEF DeclarationSet
<1>3. Call(d, "new_specifier", t).current = NoSpecifier BY <1>2 DEF Call
<1>4. Call(d, "specifier_alias", t).current = [d.current EXCEPT !.alias = t]
  BY <1>2 DEF Call
<1>5. Stores(d, Call(d, "store_specifier", t))
  <2>. DEFINE e == IF d.form = "export" THEN d ELSE EnsureNamed(d)
              item == AsStored(d.current)
              R == [form : Form, has : SUBSET Part, attribute_values : SUBSET Constant,
                    specifiers : Seq(Specifier), current : Specifier, broken : BOOLEAN]
  <2>1. e \in R /\ e.specifiers = d.specifiers
    BY DEF EnsureNamed, EnsureFrom, Has, Broken, DeclarationSet, Form, Part
  <2>2. Call(d, "store_specifier", t) =
          [e EXCEPT !.specifiers = Append(e.specifiers, item), !.current = NoSpecifier]
    BY DEF Call, StoreSpecifier, AsStored
  <2>. HIDE DEF e, item
  <2>3. \A q : [e EXCEPT !.specifiers = q, !.current = NoSpecifier].specifiers = q BY <2>1
  <2>. HIDE DEF R
  <2> QED BY <2>1, <2>2, <2>3 DEF Stores, item
<1> QED BY <1>1, <1>3, <1>4, <1>5

LEMMA KeptCalls ==
  ASSUME NEW d \in DeclarationSet, NEW t, NEW a, NEW b, d.current = Kept(a, b, "none")
  PROVE  /\ Call(d, "specifier_type", t).current = Kept(a, "type", "none")
         /\ Call(d, "specifier_name", t).current = Kept(t, b, "none")
         /\ Call(d, "specifier_demote_type", t).current = Kept(b, "none", "none")
<1>1. \A x : [d EXCEPT !.current = x].current = x BY DEF DeclarationSet
<1>2. /\ Call(d, "specifier_type", t).current = [d.current EXCEPT !.type_keyword = "type"]
      /\ Call(d, "specifier_name", t).current = [d.current EXCEPT !.name = t]
  BY <1>1 DEF Call
<1>3. \A x : /\ [Kept(a, b, "none") EXCEPT !.type_keyword = x] = Kept(a, x, "none")
             /\ [Kept(a, b, "none") EXCEPT !.name = x] = Kept(x, b, "none")
  BY DEF Kept
<1>4. Call(d, "specifier_demote_type", t).current = Kept(b, "none", "none")
  <2>. DEFINE e == Call(d, "specifier_demote_type", t)
  <2>1. e.current \in [name : {a, b, "none"}, type_keyword : {a, b, "none"}, alias : {a, b, "none"}]
        /\ e.current.name = b /\ e.current.type_keyword = "none" /\ e.current.alias = "none"
    <3>1. /\ Kept(a, b, "none").name = a /\ Kept(a, b, "none").type_keyword = b
          /\ Kept(a, b, "none").alias = "none"
      BY DEF Kept
    <3> QED BY <3>1 DEF Call, DemoteType, DeclarationSet, Specifier
  <2>. HIDE DEF e
  <2>2. e.current = Kept(b, "none", "none") BY <2>1, KeptFields
  <2> QED BY <2>2 DEF e
<1> QED BY <1>2, <1>3, <1>4

(* The results by how they are built.                                      *)
LEMMA ReadsResults ==
  ASSUME NEW f, NEW s, NEW u, NEW d, NEW t
  PROVE  /\ \A g : ReadAt(g, u, d) => Reads(f, s, u, d, t, Stay(g))
         /\ \A g, c : ReadAt(c, u, d) /\ Second(g, c) => Reads(f, s, u, d, t, Push(g, c))
         /\ \A g, n : /\ NodeRead(n, s, d)
                      /\ \A b : f.state \in MayPush(b.state) /\ Link(b, f) /\ Second(b, f) =>
                           ReadBelow(b, s, u, d)
                      => Reads(f, s, u, d, t, Complete(g, n))
         /\ \A e : Reads(f, s, u, d, t, Throw(e))
         /\ Reads(f, s, u, d, t, Expected)
         /\ \A g : Reads(f, s, u, d, t, NullOpt(g))
<1>1. /\ \A g : Stay(g).act = "stay" /\ Stay(g).frame = g /\ Build(d, Stay(g).calls, t) = d
      /\ \A g, c : /\ Push(g, c).act = "push" /\ Push(g, c).frame = g /\ Push(g, c).child = c
                   /\ Build(d, Push(g, c).calls, t) = d
      /\ \A g, n : /\ Complete(g, n).act = "complete" /\ Complete(g, n).node = n
                   /\ Build(d, Complete(g, n).calls, t) = d
      /\ \A e : Throw(e).act = "throw"
      /\ \A g : NullOpt(g).act = "nullopt"
  <2>1. /\ \A g : Stay(g).act = "stay" /\ Stay(g).frame = g
        /\ \A g, c : Push(g, c).act = "push" /\ Push(g, c).frame = g /\ Push(g, c).child = c
        /\ \A g, n : Complete(g, n).act = "complete" /\ Complete(g, n).node = n
        /\ \A e : Throw(e).act = "throw"
        /\ \A g : NullOpt(g).act = "nullopt"
    BY DEF Stay, Push, Complete, Throw, NullOpt, Result
  <2> QED BY <2>1, SilentResults, BuildNone
<1>2. \A g : ReadAt(g, u, d) => Reads(f, s, u, d, t, Stay(g)) BY <1>1 DEF Reads
<1>3. \A g, c : ReadAt(c, u, d) /\ Second(g, c) => Reads(f, s, u, d, t, Push(g, c))
  BY <1>1 DEF Reads
<1>4. ASSUME NEW g, NEW n, NodeRead(n, s, d),
             \A b : f.state \in MayPush(b.state) /\ Link(b, f) /\ Second(b, f) =>
               ReadBelow(b, s, u, d)
      PROVE  Reads(f, s, u, d, t, Complete(g, n))
  BY <1>1, <1>4 DEF Reads
<1>5. (\A e : Reads(f, s, u, d, t, Throw(e))) /\ (\A g : Reads(f, s, u, d, t, NullOpt(g)))
  BY <1>1 DEF Reads
<1> QED BY <1>2, <1>3, <1>4, <1>5 DEF Expected

LEMMA ReadsModified ==
  ASSUME NEW f, NEW s, NEW u, NEW d, NEW t, NEW r, Silent(r)
  PROVE  /\ Reads(f, s, u, d, t, r) => Reads(f, s, u, d, t, Reprocess(r))
         /\ \A c : Reads(f, s, u, Call(d, c, t), t, r) =>
              /\ Reads(f, s, u, d, t, Calling(r, c))
              /\ Reads(f, s, u, d, t, Calling(Reprocess(r), c))
<1>1. ASSUME NEW c, NEW q \in {r, Reprocess(r)}
      PROVE  /\ Calling(q, c).act = r.act /\ Calling(q, c).frame = r.frame
             /\ Calling(q, c).child = r.child /\ Calling(q, c).node = r.node
             /\ Calling(q, c).calls = <<c, "none">>
  BY DEF Calling, Reprocess, Silent, ResultField
<1>2. /\ Reprocess(r).act = r.act /\ Reprocess(r).frame = r.frame /\ Reprocess(r).node = r.node
      /\ Reprocess(r).child = r.child /\ Reprocess(r).calls = r.calls
  BY DEF Reprocess, Silent, ResultField
<1>3. Reads(f, s, u, d, t, r) => Reads(f, s, u, d, t, Reprocess(r)) BY <1>2 DEF Reads
<1>4. ASSUME NEW c, Reads(f, s, u, Call(d, c, t), t, r), NEW q \in {r, Reprocess(r)}
      PROVE  Reads(f, s, u, d, t, Calling(q, c))
  <2>. DEFINE e == Call(d, c, t)
              p == Calling(q, c)
  <2>1. /\ p.act = r.act /\ p.frame = r.frame /\ p.child = r.child /\ p.node = r.node
        /\ Build(d, p.calls, t) = e /\ Build(e, r.calls, t) = e
    BY <1>1, BuildOne, BuildNone DEF Silent
  <2>. HIDE DEF e, p
  <2>2. Reads(f, s, u, e, t, r) BY <1>4 DEF e
  <2>3. Reads(f, s, u, d, t, p) BY <2>1, <2>2 DEF Reads
  <2> QED BY <2>3 DEF p
<1> QED BY <1>3, <1>4

LEMMA ReprocessResults ==
  /\ \A g : ~Stay(g).reprocess
  /\ \A g, h : ~Push(g, h).reprocess /\ ~Complete(g, h).reprocess
  /\ \A g, h, c : ~Calling(Push(g, h), c).reprocess /\ ~Calling(Complete(g, h), c).reprocess
  /\ \A g, h : Reprocess(Push(g, h)).reprocess /\ Reprocess(Complete(g, h)).reprocess
  /\ \A g, h, c : /\ Calling(Reprocess(Push(g, h)), c).reprocess
                  /\ Calling(Reprocess(Complete(g, h)), c).reprocess
BY DEF Calling, Reprocess, Stay, Push, Complete, Result

LEMMA ListReads ==
  ASSUME NEW f, IsFrame(f), f.state \in SpecifierListName, NEW d \in DeclarationSet,
         NEW S, NEW s \in Seq(S), NEW t \in S, ReadAt(f, s, d), NEW r, r = SpecifierList(f, t)
  PROVE  Reads(f, s, Seen(s, t, r), d, t, r)
<1>1. IF "expect_specifier_or_close" \in f.on
      THEN UpToComma(s, d) /\ "expect_comma_or_close" \notin f.on ELSE UpToItem(s, d)
  BY DEF ReadAt
<1>2. \A g \in {f, Turn(f, {"expect_comma_or_close"}, {"expect_specifier_or_close"})} :
        g.state = f.state
  BY TurnFields
<1>3. CASE t = "newline"
  <2>1. r = Stay(f) BY <1>3 DEF SpecifierList
  <2>2. Seen(s, t, r) = s BY <1>3 DEF Seen
  <2> QED BY <2>1, <2>2, ReadsResults
<1>4. CASE t = "close_brace"
  <2>1. r = Complete(f, NullNode) BY <1>4 DEF SpecifierList
  <2>. DEFINE u == Append(s, t)
  <2>2. Seen(s, t, r) = u BY <1>4, <2>1, ReprocessResults DEF Seen
  <2>3. Whole(u, d.specifiers) BY <1>1, <1>4, ListClosed
  <2>. HIDE DEF u
  <2>4. NodeRead(NullNode, s, d) BY NodeFields DEF NodeRead
  <2>5. ASSUME NEW b, f.state \in MayPush(b.state), Link(b, f), Second(b, f)
        PROVE  ReadBelow(b, s, u, d)
    <3>1. b.state \notin SpecifierStateName \cup {"named_export_module_spec"}
      BY <2>5
         DEF MayPush, ImportLink, ImportStateName, SpecifierStateName, SpecifierListName,
         Statement
    <3>2. b.state \in ImportStateName => "awaiting_sub" \in b.on
      <4>1. f.state = "export_specifier_list" => b.state \notin ImportStateName
        BY <2>5 DEF MayPush, ImportLink, ImportStateName, Statement
      <4> QED BY <2>5, <4>1 DEF Link, Hands, SpecifierListName
    <3>3. b.state = "named_export" => "list_done" \notin b.on
      BY <2>5 DEF Second, SpecifierListName
    <3> QED BY <2>3, <3>1, <3>2, <3>3 DEF ReadBelow, SpecifierStateName, NamedWhole
  <2> QED BY <2>1, <2>2, <2>4, <2>5, ReadsResults
<1>5. CASE t \notin {"newline", "close_brace"} /\ "expect_specifier_or_close" \in f.on
  <2>0. r = Calling(Reprocess(Push(f, Frame("specifier", {}))), "new_specifier")
    BY <1>1, <1>5 DEF SpecifierList
  <2>. DEFINE c == Frame("specifier", {})
              e == Call(d, "new_specifier", t)
              q == Push(f, c)
  <2>1. r = Calling(Reprocess(q), "new_specifier") BY <2>0
  <2>2. Seen(s, t, r) = s BY <2>1, ReprocessResults DEF Seen
  <2>3. e.specifiers = d.specifiers /\ e.current = NoSpecifier BY SpecifierCallReads
  <2>4. c.state = "specifier" /\ c.on = {} BY FrameFields
  <2>5. Silent(q) BY SilentResults
  <2>. HIDE DEF e, c
  <2>6. UpToComma(s, e) BY <1>1, <1>5, <2>3 DEF UpToComma
  <2>7. ReadAt(c, s, e)
    BY <2>3, <2>4, <2>6 DEF ReadAt, MayOpen, ImportStateName, SpecifierListName
  <2>8. Second(f, c) BY DEF Second, SpecifierListName
  <2>9. Reads(f, s, s, e, t, q) BY <2>7, <2>8, ReadsResults
  <2>. HIDE DEF q
  <2>10. Reads(f, s, s, d, t, Calling(Reprocess(q), "new_specifier"))
    BY <2>5, <2>9, ReadsModified DEF e
  <2> QED BY <2>1, <2>2, <2>10
<1>6. CASE t = "comma" /\ "expect_comma_or_close" \in f.on /\ "expect_specifier_or_close" \notin f.on
  <2>. DEFINE g == Turn(f, {"expect_comma_or_close"}, {"expect_specifier_or_close"})
              u == Append(s, "comma")
  <2>1. r = Stay(g) BY <1>6 DEF SpecifierList
  <2>2. Seen(s, t, r) = u BY <1>6, <2>1, ReprocessResults DEF Seen
  <2>3. UpToComma(u, d) BY <1>1, <1>6, CommaRead
  <2>4. g.state = f.state /\ g.on = (f.on \ {"expect_comma_or_close"}) \cup {"expect_specifier_or_close"}
    BY TurnFields
  <2>. HIDE DEF g, u
  <2>5. ReadAt(g, u, d)
    BY <2>3, <2>4 DEF ReadAt, MayOpen, ImportStateName, SpecifierListName
  <2> QED BY <2>1, <2>2, <2>5, ReadsResults
<1>7. CASE /\ t \notin {"newline", "close_brace"} /\ "expect_specifier_or_close" \notin f.on
           /\ ~(t = "comma" /\ "expect_comma_or_close" \in f.on)
  <2>1. r = Expected BY <1>7 DEF SpecifierList
  <2> QED BY <2>1, ReadsResults
<1> QED BY <1>3, <1>4, <1>5, <1>6, <1>7

LEMMA SpecifierPlain == SpecifierName \cap Plain = {} /\ Identifier \cap Plain = {}
BY DEF SpecifierName, Identifier, Constant, Plain, Marker

LEMMA NoneKept == NoSpecifier = Kept("none", "none", "none")
BY DEF NoSpecifier, Kept

(* What a completed part of a specifier leaves to the frame below it.      *)
LEMMA PartDone ==
  ASSUME NEW f, NEW s, NEW u, NEW d, NEW t, NEW c, NEW g,
         \A b : f.state \in MayPush(b.state) /\ Second(b, f) => ReadBelow(b, s, u, Call(d, c, t))
  PROVE  /\ Reads(f, s, u, d, t, Calling(Complete(g, NullNode), c))
         /\ Reads(f, s, u, d, t, Calling(Reprocess(Complete(g, NullNode)), c))
<1>. DEFINE e == Call(d, c, t)
            q == Complete(g, NullNode)
<1>1. NodeRead(NullNode, s, e) BY NodeFields DEF NodeRead
<1>. HIDE DEF e
<1>2. \A b : f.state \in MayPush(b.state) /\ Link(b, f) /\ Second(b, f) => ReadBelow(b, s, u, e)
  BY DEF e
<1>3. Reads(f, s, u, e, t, q) BY <1>1, <1>2, ReadsResults
<1>4. Silent(q) BY SilentResults
<1>. HIDE DEF q
<1>5. Reads(f, s, u, d, t, Calling(q, c)) /\ Reads(f, s, u, d, t, Calling(Reprocess(q), c))
  BY <1>3, <1>4, ReadsModified DEF e
<1> QED BY <1>5 DEF q

LEMMA BelowSpecifier ==
  ASSUME NEW b, NEW s, NEW u, NEW d
  PROVE  /\ "specifier" \in MayPush(b.state) /\ UpToItem(u, d) => ReadBelow(b, s, u, d)
         /\ \A f : /\ f.state = "specifier_head" /\ f.state \in MayPush(b.state) /\ Second(b, f)
                   /\ HeadRead(u, d)
                   => ReadBelow(b, s, u, d)
         /\ \A f : /\ f.state = "specifier_alias" /\ f.state \in MayPush(b.state) /\ Second(b, f)
                   /\ AliasRead(u, d)
                   => ReadBelow(b, s, u, d)
         /\ "specifier_resolve_type" \in MayPush(b.state) /\ HeadRead(u, d) =>
              ReadBelow(b, s, u, d)
<1>1. /\ "specifier" \in MayPush(b.state) => b.state \in SpecifierListName
      /\ "specifier_head" \in MayPush(b.state) => b.state = "specifier"
      /\ "specifier_alias" \in MayPush(b.state) => b.state = "specifier"
      /\ "specifier_resolve_type" \in MayPush(b.state) => b.state = "specifier_head"
  BY DEF MayPush, ImportLink, ImportStateName, SpecifierStateName, SpecifierListName,
         Statement
<1>2. /\ b.state \in SpecifierListName /\ UpToItem(u, d) => ReadBelow(b, s, u, d)
      /\ b.state = "specifier_head" /\ HeadRead(u, d) => ReadBelow(b, s, u, d)
  BY DEF ReadBelow, SpecifierListName, ImportStateName
<1>3. /\ b.state = "specifier" /\ "head_done" \notin b.on /\ HeadRead(u, d) => ReadBelow(b, s, u, d)
      /\ b.state = "specifier" /\ "head_done" \in b.on /\ AliasRead(u, d) => ReadBelow(b, s, u, d)
  BY DEF ReadBelow, SpecifierListName, ImportStateName
<1>4. \A f : b.state = "specifier" /\ Second(b, f) =>
        ("head_done" \in b.on <=> f.state = "specifier_alias")
  BY DEF Second
<1> QED BY <1>1, <1>2, <1>3, <1>4

LEMMA ItemReads ==
  ASSUME NEW f, f.state = "specifier", NEW d \in DeclarationSet, IsFrame(f),
         NEW S, NEW s \in Seq(S), NEW t \in S, ReadAt(f, s, d), NEW r, r = SpecifierItem(f, t)
  PROVE  Reads(f, s, Seen(s, t, r), d, t, r)
<1>1. IF "head_done" \in f.on THEN HeadRead(s, d) ELSE UpToComma(s, d) /\ d.current = NoSpecifier
  BY DEF ReadAt
<1>2. CASE t = "newline"
  <2>1. r = Stay(f) BY <1>2 DEF SpecifierItem
  <2>2. Seen(s, t, r) = s BY <1>2 DEF Seen
  <2> QED BY <2>1, <2>2, ReadsResults
<1>3. CASE t # "newline" /\ "head_done" \notin f.on
  <2>. DEFINE c == Frame("specifier_head", {})
  <2>1. r = Reprocess(Push(f, c)) BY <1>3 DEF SpecifierItem
  <2>2. Seen(s, t, r) = s BY <2>1, ReprocessResults DEF Seen
  <2>3. c.state = "specifier_head" /\ c.on = {} BY FrameFields
  <2>. HIDE DEF c
  <2>4. ReadAt(c, s, d)
    BY <1>1, <1>3, <2>3 DEF ReadAt, MayOpen, ImportStateName, SpecifierListName
  <2>5. Second(f, c) BY <1>3, <2>3 DEF Second
  <2>6. Reads(f, s, s, d, t, Push(f, c)) BY <2>4, <2>5, ReadsResults
  <2>7. Reads(f, s, s, d, t, Reprocess(Push(f, c))) BY <2>6, ReadsModified, SilentResults
  <2> QED BY <2>1, <2>2, <2>7
<1>4. CASE t = "as" /\ "head_done" \in f.on
  <2>. DEFINE c == Frame("specifier_alias", {})
              u == Append(s, "as")
  <2>1. r = Push(f, c) BY <1>4 DEF SpecifierItem
  <2>2. Seen(s, t, r) = u BY <1>4, <2>1, ReprocessResults DEF Seen
  <2>3. c.state = "specifier_alias" /\ c.on = {} BY FrameFields
  <2>4. AsRead(u, d) BY <1>1, <1>4, AsFollows
  <2>. HIDE DEF c, u
  <2>5. ReadAt(c, u, d)
    BY <2>3, <2>4 DEF ReadAt, MayOpen, ImportStateName, SpecifierListName
  <2>6. Second(f, c) BY <1>4, <2>3 DEF Second
  <2> QED BY <2>1, <2>2, <2>5, <2>6, ReadsResults
<1>5. CASE t \in {"comma", "close_brace"} /\ "head_done" \in f.on
  <2>1. r = Calling(Reprocess(Complete(f, NullNode)), "store_specifier")
    BY <1>5 DEF SpecifierItem
  <2>2. Seen(s, t, r) = s BY <2>1, ReprocessResults DEF Seen
  <2>. DEFINE e == Call(d, "store_specifier", t)
  <2>3. Stores(d, e) BY SpecifierCallReads
  <2>4. d.specifiers \in Seq(Specifier) /\ d.current \in Specifier BY DEF DeclarationSet
  <2>. HIDE DEF e
  <2>5. UpToItem(s, e) BY <1>1, <1>5, <2>3, <2>4, ItemStored
  <2>6. \A b : f.state \in MayPush(b.state) => ReadBelow(b, s, s, e)
    BY <2>5, BelowSpecifier
  <2>7. Reads(f, s, s, d, t, r) BY <2>1, <2>6, PartDone DEF e
  <2> QED BY <2>2, <2>7
<1>6. CASE t \notin {"newline", "as", "comma", "close_brace"} /\ "head_done" \in f.on
  <2>1. r = Expected BY <1>6 DEF SpecifierItem
  <2> QED BY <2>1, ReadsResults
<1> QED BY <1>2, <1>3, <1>4, <1>5, <1>6

LEMMA HeadReads ==
  ASSUME NEW f, f.state = "specifier_head", NEW d \in DeclarationSet,
         NEW S, NEW s \in Seq(S), NEW t \in S, ReadAt(f, s, d), NEW r, r = SpecifierHead(f, t)
  PROVE  Reads(f, s, Seen(s, t, r), d, t, r)
<1>1. UpToComma(s, d) /\ d.current = Kept("none", "none", "none") BY NoneKept DEF ReadAt
<1>2. CASE t = "newline"
  <2>1. r = Stay(f) BY <1>2 DEF SpecifierHead, Visitor
  <2>2. Seen(s, t, r) = s BY <1>2 DEF Seen
  <2> QED BY <2>1, <2>2, ReadsResults
<1>3. CASE t = "type"
  <2>. DEFINE c == Frame("specifier_resolve_type", {})
              e == Call(d, "specifier_type", t)
              u == Append(s, "type")
              q == Push(f, c)
  <2>1. r = Calling(q, "specifier_type")
    BY <1>3 DEF SpecifierHead, Visitor, SpecifierName, Identifier, Constant
  <2>2. Seen(s, t, r) = u BY <1>3, <2>1, ReprocessResults DEF Seen
  <2>3. c.state = "specifier_resolve_type" BY FrameFields
  <2>4. e.specifiers = d.specifiers /\ e.current = Kept("none", "type", "none")
    <3>1. e.specifiers = d.specifiers BY SpecifierCallReads
    <3>2. e.current = Kept("none", "type", "none") BY <1>1, KeptCalls
    <3> QED BY <3>1, <3>2
  <2>5. Silent(q) BY SilentResults
  <2>. HIDE DEF c, e
  <2>6. TypeRead(u, e) BY <1>1, <1>3, <2>4, TypeBegins
  <2>. HIDE DEF u
  <2>7. ReadAt(c, u, e)
    BY <2>3, <2>6 DEF ReadAt, MayOpen, ImportStateName, SpecifierListName
  <2>8. Second(f, c) BY DEF Second
  <2>9. Reads(f, s, u, e, t, q) BY <2>7, <2>8, ReadsResults
  <2>. HIDE DEF q
  <2>10. Reads(f, s, u, d, t, Calling(q, "specifier_type")) BY <2>5, <2>9, ReadsModified DEF e
  <2> QED BY <2>1, <2>2, <2>10
<1>4. CASE t \in SpecifierName
  <2>1. r = Calling(Complete(f, NullNode), "specifier_name")
    BY <1>4 DEF SpecifierHead, Visitor, SpecifierName, Identifier, Constant
  <2>2. t # "newline" BY <1>4 DEF SpecifierName, Identifier, Constant
  <2>. DEFINE e == Call(d, "specifier_name", t)
              u == Append(s, t)
  <2>3. Seen(s, t, r) = u BY <2>1, <2>2, ReprocessResults DEF Seen
  <2>4. e.specifiers = d.specifiers /\ e.current = Kept(t, "none", "none")
    <3>1. e.specifiers = d.specifiers BY SpecifierCallReads
    <3>2. e.current = Kept(t, "none", "none") BY <1>1, KeptCalls
    <3> QED BY <3>1, <3>2
  <2>. HIDE DEF e
  <2>5. HeadRead(u, e) BY <1>1, <1>4, <2>4, SpecifierPlain, NameBegins
  <2>. HIDE DEF u
  <2>6. \A b : f.state \in MayPush(b.state) /\ Second(b, f) => ReadBelow(b, s, u, e)
    BY <2>5, BelowSpecifier
  <2>7. Reads(f, s, u, d, t, r) BY <2>1, <2>6, PartDone DEF e
  <2> QED BY <2>3, <2>7
<1>5. CASE t \notin SpecifierName \cup {"newline", "type"}
  <2>1. r = Expected BY <1>5 DEF SpecifierHead, Visitor
  <2> QED BY <2>1, ReadsResults
<1> QED BY <1>2, <1>3, <1>4, <1>5

LEMMA ResolveReads ==
  ASSUME NEW f, f.state = "specifier_resolve_type", NEW d \in DeclarationSet,
         NEW S, NEW s \in Seq(S), NEW t \in S, ReadAt(f, s, d),
         NEW r, r = SpecifierResolveType(f, t)
  PROVE  Reads(f, s, Seen(s, t, r), d, t, r)
<1>1. TypeRead(s, d) /\ d.current = Kept("none", "type", "none") BY DEF ReadAt, TypeRead
<1>2. CASE t = "newline"
  <2>1. r = Stay(f) BY <1>2 DEF SpecifierResolveType, Visitor
  <2>2. Seen(s, t, r) = s BY <1>2 DEF Seen
  <2> QED BY <2>1, <2>2, ReadsResults
<1>3. CASE t \in {"as", "comma", "close_brace"}
  <2>1. r = Calling(Reprocess(Complete(f, NullNode)), "specifier_demote_type")
    BY <1>3 DEF SpecifierResolveType, Visitor, SpecifierName, Identifier, Constant
  <2>2. Seen(s, t, r) = s BY <2>1, ReprocessResults DEF Seen
  <2>. DEFINE e == Call(d, "specifier_demote_type", t)
  <2>3. e.specifiers = d.specifiers /\ e.current = Kept("type", "none", "none")
    <3>1. e.specifiers = d.specifiers BY SpecifierCallReads
    <3>2. e.current = Kept("type", "none", "none") BY <1>1, KeptCalls
    <3> QED BY <3>1, <3>2
  <2>. HIDE DEF e
  <2>4. HeadRead(s, e) BY <1>1, <2>3, TypeIsName
  <2>5. \A b : f.state \in MayPush(b.state) => ReadBelow(b, s, s, e)
    BY <2>4, BelowSpecifier
  <2>6. Reads(f, s, s, d, t, r) BY <2>1, <2>5, PartDone DEF e
  <2> QED BY <2>2, <2>6
<1>4. CASE t \in SpecifierName \ {"as"}
  <2>1. r = Calling(Complete(f, NullNode), "specifier_name")
    BY <1>4 DEF SpecifierResolveType, Visitor, SpecifierName, Identifier, Constant
  <2>2. t # "newline" BY <1>4 DEF SpecifierName, Identifier, Constant
  <2>. DEFINE e == Call(d, "specifier_name", t)
              u == Append(s, t)
  <2>3. Seen(s, t, r) = u BY <2>1, <2>2, ReprocessResults DEF Seen
  <2>4. e.specifiers = d.specifiers /\ e.current = Kept(t, "type", "none")
    <3>1. e.specifiers = d.specifiers BY SpecifierCallReads
    <3>2. e.current = Kept(t, "type", "none") BY <1>1, KeptCalls
    <3> QED BY <3>1, <3>2
  <2>. HIDE DEF e
  <2>5. HeadRead(u, e) BY <1>1, <1>4, <2>4, SpecifierPlain, TypeIsModifier
  <2>. HIDE DEF u
  <2>6. \A b : f.state \in MayPush(b.state) => ReadBelow(b, s, u, e)
    BY <2>5, BelowSpecifier
  <2>7. Reads(f, s, u, d, t, r) BY <2>1, <2>6, PartDone DEF e
  <2> QED BY <2>3, <2>7
<1>5. CASE t \notin SpecifierName \cup {"newline", "as", "comma", "close_brace"}
  <2>1. r = Expected BY <1>5 DEF SpecifierResolveType, Visitor
  <2> QED BY <2>1, ReadsResults
<1> QED BY <1>2, <1>3, <1>4, <1>5

LEMMA AliasReads ==
  ASSUME NEW f, f.state = "specifier_alias", NEW d \in DeclarationSet,
         NEW S, NEW s \in Seq(S), NEW t \in S, ReadAt(f, s, d), NEW r, r = SpecifierAlias(f, t)
  PROVE  Reads(f, s, Seen(s, t, r), d, t, r)
<1>1. AsRead(s, d) BY DEF ReadAt
<1>2. CASE t = "newline"
  <2>1. r = Stay(f) BY <1>2 DEF SpecifierAlias, Visitor
  <2>2. Seen(s, t, r) = s BY <1>2 DEF Seen
  <2> QED BY <2>1, <2>2, ReadsResults
<1>3. CASE t \in Identifier
  <2>1. t # "newline" BY <1>3 DEF Identifier
  <2>2. r = Calling(Complete(f, NullNode), "specifier_alias")
    BY <1>3, <2>1 DEF SpecifierAlias, Visitor
  <2>. DEFINE e == Call(d, "specifier_alias", t)
              u == Append(s, t)
  <2>3. Seen(s, t, r) = u BY <2>1, <2>2, ReprocessResults DEF Seen
  <2>4. e.specifiers = d.specifiers /\ e.current = [d.current EXCEPT !.alias = t]
    BY SpecifierCallReads
  <2>. HIDE DEF e
  <2>5. AliasRead(u, e) BY <1>1, <1>3, <2>4, SpecifierPlain, AliasFollows
  <2>. HIDE DEF u
  <2>6. \A b : f.state \in MayPush(b.state) /\ Second(b, f) => ReadBelow(b, s, u, e)
    BY <2>5, BelowSpecifier
  <2>7. Reads(f, s, u, d, t, r) BY <2>2, <2>6, PartDone DEF e
  <2> QED BY <2>3, <2>7
<1>4. CASE t \notin Identifier \cup {"newline"}
  <2>1. r = Expected BY <1>4 DEF SpecifierAlias, Visitor
  <2> QED BY <2>1, ReadsResults
<1> QED BY <1>2, <1>3, <1>4

LEMMA SpecifierReads ==
  ASSUME NEW f, IsFrame(f), f.state \in SpecifierStateName, NEW d \in DeclarationSet,
         NEW S, NEW s \in Seq(S), NEW t \in S, ReadAt(f, s, d),
         NEW r, r = SpecifierProcess(f, t)
  PROVE  Reads(f, s, Seen(s, t, r), d, t, r)
<1>1. CASE f.state \in SpecifierListName
  <2>1. r = SpecifierList(f, t) BY <1>1 DEF SpecifierProcess, SpecifierListName
  <2> QED BY <1>1, <2>1, ListReads
<1>2. CASE f.state = "specifier"
  <2>1. r = SpecifierItem(f, t) BY <1>2 DEF SpecifierProcess, SpecifierListName
  <2> QED BY <1>2, <2>1, ItemReads
<1>3. CASE f.state = "specifier_head"
  <2>1. r = SpecifierHead(f, t) BY <1>3 DEF SpecifierProcess, SpecifierListName
  <2> QED BY <1>3, <2>1, HeadReads
<1>4. CASE f.state = "specifier_resolve_type"
  <2>1. r = SpecifierResolveType(f, t) BY <1>4 DEF SpecifierProcess, SpecifierListName
  <2> QED BY <1>4, <2>1, ResolveReads
<1>5. CASE f.state = "specifier_alias"
  <2>1. r = SpecifierAlias(f, t) BY <1>5 DEF SpecifierProcess, SpecifierListName
  <2> QED BY <1>5, <2>1, AliasReads
<1> QED BY <1>1, <1>2, <1>3, <1>4, <1>5 DEF SpecifierStateName

LEMMA SpecifierAcceptReads ==
  ASSUME NEW f, IsFrame(f), f.state \in SpecifierStateName, Awaits(f), NEW d \in DeclarationSet,
         NEW t, NEW s, NEW S, NEW u \in Seq(S), ReadBelow(f, s, u, d), NEW n
  PROVE  Reads(f, s, u, d, t, SpecifierAcceptChild(f, n))
<1>1. CASE f.state \in SpecifierListName
  <2>. DEFINE g == Turn(f, {"expect_specifier_or_close"}, {"expect_comma_or_close"})
  <2>1. g.state = f.state /\ "expect_specifier_or_close" \notin g.on BY TurnFields
  <2>2. UpToItem(u, d) BY <1>1 DEF ReadBelow
  <2>. HIDE DEF g
  <2>3. ReadAt(g, u, d)
    BY <1>1, <2>1, <2>2 DEF ReadAt, MayOpen, ImportStateName, SpecifierListName
  <2>4. Reads(f, s, u, d, t, Stay(g)) BY <2>3, ReadsResults
  <2> QED
    BY <1>1, <2>4 DEF SpecifierAcceptChild, SpecifierListAccept, SpecifierListName, g
<1>2. CASE f.state = "specifier" /\ "head_done" \notin f.on
  <2>. DEFINE g == TurnOn(f, {"head_done"})
  <2>1. g.state = f.state /\ g.on = f.on \cup {"head_done"} BY TurnFields
  <2>2. HeadRead(u, d) BY <1>2 DEF ReadBelow
  <2>. HIDE DEF g
  <2>3. ReadAt(g, u, d)
    BY <1>2, <2>1, <2>2 DEF ReadAt, MayOpen, ImportStateName, SpecifierListName
  <2>4. Reads(f, s, u, d, t, Stay(g)) BY <2>3, ReadsResults
  <2> QED
    BY <1>2, <2>4 DEF SpecifierAcceptChild, SpecifierItemAccept, SpecifierListName, g
<1>3. CASE f.state = "specifier" /\ "head_done" \in f.on
  <2>. DEFINE e == Call(d, "store_specifier", t)
  <2>1. AliasRead(u, d) BY <1>3 DEF ReadBelow
  <2>2. Stores(d, e) BY SpecifierCallReads
  <2>3. d.specifiers \in Seq(Specifier) /\ d.current \in Specifier BY DEF DeclarationSet
  <2>. HIDE DEF e
  <2>4. UpToItem(u, e) BY <2>1, <2>2, <2>3, ItemStored
  <2>5. \A b : f.state \in MayPush(b.state) => ReadBelow(b, s, u, e)
    BY <1>3, <2>4, BelowSpecifier
  <2>6. Reads(f, s, u, d, t, Calling(Complete(f, NullNode), "store_specifier"))
    BY <2>5, PartDone DEF e
  <2>7. SpecifierAcceptChild(f, n) = Calling(Complete(f, NullNode), "store_specifier")
    BY <1>3 DEF SpecifierAcceptChild, SpecifierItemAccept, SpecifierListName
  <2> QED BY <2>6, <2>7
<1>4. CASE f.state = "specifier_head"
  <2>1. HeadRead(u, d) BY <1>4 DEF ReadBelow
  <2>2. \A b : f.state \in MayPush(b.state) /\ Second(b, f) => ReadBelow(b, s, u, d)
    BY <1>4, <2>1, BelowSpecifier
  <2>3. NodeRead(NullNode, s, d) BY NodeFields DEF NodeRead
  <2>4. Reads(f, s, u, d, t, Complete(f, NullNode)) BY <2>2, <2>3, ReadsResults
  <2>5. SpecifierAcceptChild(f, n) = Complete(f, NullNode)
    BY <1>4 DEF SpecifierAcceptChild, SpecifierListName
  <2> QED BY <2>4, <2>5
<1>5. f.state \notin {"specifier_resolve_type", "specifier_alias"} BY DEF Awaits, Leaf
<1> QED BY <1>1, <1>2, <1>3, <1>4, <1>5 DEF SpecifierStateName

(* The states of a list, and what is around them.                          *)
Reader ==
  SpecifierStateName \cup ImportStateName \cup
  {"export", "named_export", "named_export_module_spec", "named_export_semicolon"}

LEMMA Unread ==
  ASSUME NEW f, NEW s, NEW u, NEW d
  PROVE  /\ f.state \notin Reader => ReadAt(f, s, d)
         /\ f.state \notin Reader \ {"export", "named_export_semicolon"} => ReadBelow(f, s, u, d)
         /\ \A g : f.state \notin {"specifier", "named_export"} => Second(f, g)
<1>1. f.state \notin Reader => ReadAt(f, s, d)
  BY DEF ReadAt, Reader, SpecifierStateName, SpecifierListName, MayOpen, ImportStateName
<1>2. f.state \notin Reader \ {"export", "named_export_semicolon"} => ReadBelow(f, s, u, d)
  BY DEF ReadBelow, Reader, SpecifierStateName, SpecifierListName, ImportStateName
<1>3. \A g : f.state \notin {"specifier", "named_export"} => Second(f, g) BY DEF Second
<1> QED BY <1>1, <1>2, <1>3

(* What starts a declaration pushes its first state.                       *)
LEMMA Starting ==
  ASSUME NEW f, f.state \notin {"specifier", "named_export"}, NEW g, NEW s, NEW u, NEW d, NEW t,
         NEW c, c \in {"new_export", "new_import"},
         \A e : e.specifiers = <<>> /\ e.has = {} => ReadAt(g, u, e)
  PROVE  Reads(f, s, u, d, t, Calling(Push(f, g), c))
<1>. DEFINE e == Call(d, c, t)
            q == Push(f, g)
<1>1. e.specifiers = <<>> /\ e.has = {} BY DEF Call, NewDeclaration
<1>. HIDE DEF e
<1>2. ReadAt(g, u, e) BY <1>1
<1>3. Second(f, g) BY Unread
<1>4. Reads(f, s, u, e, t, q) BY <1>2, <1>3, ReadsResults
<1>5. Silent(q) BY SilentResults
<1>. HIDE DEF q
<1>6. Reads(f, s, u, d, t, Calling(q, c)) BY <1>4, <1>5, ReadsModified DEF e
<1> QED BY <1>6 DEF q

LEMMA ImportStarts ==
  ASSUME NEW f, f.state \notin {"specifier", "named_export"}, NEW g, g.state = "import",
         NEW s, NEW u, Unopened(u), NEW d, NEW t
  PROVE  Reads(f, s, u, d, t, Calling(Push(f, g), "new_import"))
<1>1. ASSUME NEW e, e.specifiers = <<>>, e.has = {} PROVE ReadAt(g, u, e)
  <2>1. NamedWhole(u, e) /\ "named" \notin e.has BY <1>1 DEF NamedWhole
  <2>2. g.state \in ImportStateName BY DEF ImportStateName
  <2> QED BY <1>1, <2>1, <2>2, ImportReadAt
<1> QED BY <1>1, Starting

LEMMA ExportReads ==
  ASSUME NEW f, f.state = "export", NEW d,
         NEW S, NEW s \in Seq(S), NEW t \in S, ReadAt(f, s, d), NEW r, r = Export(f, t)
  PROVE  Reads(f, s, Seen(s, t, r), d, t, r)
<1>. DEFINE u == Append(s, t)
<1>1. Unopened(s) BY DEF ReadAt
<1>2. f.state \notin {"specifier", "named_export"} OBVIOUS
<1>3. t # "newline" =>
        /\ \A c : r = Push(f, c) => Seen(s, t, r) = u
        /\ \A c, g : r = Calling(Push(f, c), g) => Seen(s, t, r) = u
  BY ReprocessResults DEF Seen
<1>4. CASE t = "newline"
  <2>1. r = Stay(f) BY <1>4 DEF Export, Visitor
  <2>2. Seen(s, t, r) = s BY <1>4 DEF Seen
  <2> QED BY <2>1, <2>2, ReadsResults
<1>5. CASE t \in {"type", "namespace", "module", "declare"} \/ (t = "eq" /\ "module_like" \in f.on)
  <2>. DEFINE Plainly == {"type", "namespace", "declare", "export_assignment"}
  <2>1. PICK c \in {Fresh(k) : k \in Plainly} : r = Push(f, c)
    BY <1>5 DEF Export, Visitor
  <2>2. c.state \in Plainly BY <2>1, FrameFields
  <2>3. c.state \notin Reader
    BY <2>2 DEF Reader, SpecifierStateName, SpecifierListName, ImportStateName
  <2>4. Seen(s, t, r) = u BY <1>3, <1>5, <2>1
  <2>5. ReadAt(c, u, d) /\ Second(f, c) BY <1>2, <2>3, Unread
  <2> QED BY <2>1, <2>4, <2>5, ReadsResults
<1>6. CASE t = "import"
  <2>. DEFINE g == Frame("import", {"equals_only"})
  <2>1. r = Calling(Push(f, g), "new_import") BY <1>6 DEF Export, Visitor
  <2>2. Seen(s, t, r) = u BY <1>3, <1>6, <2>1
  <2>3. Unopened(u) BY <1>6, MarkerOpens DEF Marker
  <2>4. g.state = "import" BY FrameFields
  <2>. HIDE DEF g, u
  <2> QED BY <1>2, <2>1, <2>2, <2>3, <2>4, ImportStarts
<1>7. CASE t = "asterisk"
  <2>. DEFINE g == Fresh("export_star")
  <2>1. r = Calling(Push(f, g), "new_export") BY <1>7 DEF Export, Visitor
  <2>2. Seen(s, t, r) = u BY <1>3, <1>7, <2>1
  <2>3. g.state = "export_star" BY FrameFields
  <2>4. g.state \notin Reader
    BY <2>3 DEF Reader, SpecifierStateName, SpecifierListName, ImportStateName
  <2>. HIDE DEF g, u
  <2>5. \A e : ReadAt(g, u, e) BY <2>4, Unread
  <2> QED BY <1>2, <2>1, <2>2, <2>5, Starting
<1>8. CASE t = "open_brace"
  <2>. DEFINE g == Fresh("named_export")
  <2>1. r = Calling(Push(f, g), "new_export") BY <1>8 DEF Export, Visitor
  <2>2. Seen(s, t, r) = u BY <1>3, <1>8, <2>1
  <2>3. g.state = "named_export" /\ g.on = {} BY FrameFields
  <2>4. \A e : e.specifiers = <<>> => UpToComma(u, e) BY <1>1, <1>8, ListOpened
  <2>. HIDE DEF g, u
  <2>5. \A e : e.specifiers = <<>> => ReadAt(g, u, e)
    BY <2>3, <2>4
       DEF ReadAt, MayOpen, SpecifierStateName, SpecifierListName, ImportStateName
  <2> QED BY <1>2, <2>1, <2>2, <2>5, Starting
<1>9. CASE /\ t \notin {"newline", "type", "namespace", "module", "declare", "import", "asterisk",
                        "open_brace"}
           /\ ~(t = "eq" /\ "module_like" \in f.on)
  <2>1. PICK k \in {"declaration_or_statement_expected", "export_default_not_at_top_level",
                    "export_assignment_not_at_top_level"} : r = Throw(k)
    BY <1>9 DEF Export, Visitor
  <2> QED BY <2>1, ReadsResults
<1> QED BY <1>4, <1>5, <1>6, <1>7, <1>8, <1>9

LEMMA ExportLists ==
  ASSUME NEW d \in DeclarationSet, NEW t
  PROVE  \A c \in {"set_semicolon", "set_module_specifier"} :
           Call(d, c, t).specifiers = d.specifiers
<1>1. Call(d, "set_semicolon", t).specifiers = d.specifiers BY DEF Call, Has, DeclarationSet
<1>2. Lists(d, Build(d, <<"set_module_specifier", "none">>, t))
  BY ImportCallLists DEF ImportCall
<1>3. Call(d, "set_module_specifier", t).specifiers = d.specifiers BY <1>2, BuildOne DEF Lists
<1> QED BY <1>1, <1>3

LEMMA BelowExport ==
  ASSUME NEW b, NEW s, NEW u, NEW d
  PROVE  /\ "named_export" \in MayPush(b.state) \/ "export" \in MayPush(b.state) =>
              ReadBelow(b, s, u, d)
         /\ \A f : /\ f.state = "named_export_module_spec" /\ f.state \in MayPush(b.state)
                   /\ Second(b, f) /\ Whole(s, d.specifiers)
                   => ReadBelow(b, s, u, d)
         /\ "named_export_semicolon" \in MayPush(b.state) /\ Whole(s, d.specifiers) =>
              ReadBelow(b, s, u, d)
<1>1. /\ "named_export" \in MayPush(b.state) => b.state = "export"
      /\ "export" \in MayPush(b.state) => b.state \in {"module_scope", "namespace", "declare_module"}
      /\ "named_export_module_spec" \in MayPush(b.state) => b.state = "named_export"
      /\ "named_export_semicolon" \in MayPush(b.state) => b.state = "named_export_module_spec"
  BY DEF MayPush, ImportLink, ImportStateName, SpecifierStateName, SpecifierListName, Statement
<1>2. b.state \in {"export", "module_scope", "namespace", "declare_module"} =>
        ReadBelow(b, s, u, d)
  BY DEF ReadBelow, SpecifierStateName, SpecifierListName, ImportStateName
<1>3. /\ b.state = "named_export" /\ "list_done" \in b.on /\ Whole(s, d.specifiers) =>
           ReadBelow(b, s, u, d)
      /\ b.state = "named_export_module_spec" /\ Whole(s, d.specifiers) => ReadBelow(b, s, u, d)
  BY DEF ReadBelow, SpecifierListName, ImportStateName
<1>4. \A f : b.state = "named_export" /\ f.state = "named_export_module_spec" /\ Second(b, f) =>
        "list_done" \in b.on
  BY DEF Second
<1> QED BY <1>1, <1>2, <1>3, <1>4

LEMMA NamedExportReads ==
  ASSUME NEW f, f.state = "named_export", IsFrame(f), NEW d \in DeclarationSet,
         NEW S, NEW s \in Seq(S), NEW t \in S, ReadAt(f, s, d), NEW r, r = NamedExport(f, t)
  PROVE  Reads(f, s, Seen(s, t, r), d, t, r)
<1>1. IF "list_done" \in f.on THEN Whole(s, d.specifiers) ELSE UpToComma(s, d) BY DEF ReadAt
<1>2. CASE t = "newline"
  <2>1. r = Stay(f) BY <1>2 DEF NamedExport
  <2>2. Seen(s, t, r) = s BY <1>2 DEF Seen
  <2> QED BY <2>1, <2>2, ReadsResults
<1>3. CASE t # "newline" /\ "list_done" \notin f.on
  <2>. DEFINE c == Frame("export_specifier_list", {"expect_specifier_or_close"})
  <2>1. r = Reprocess(Push(f, c)) BY <1>3 DEF NamedExport
  <2>2. Seen(s, t, r) = s BY <2>1, ReprocessResults DEF Seen
  <2>3. c.state = "export_specifier_list" /\ c.on = {"expect_specifier_or_close"} BY FrameFields
  <2>. HIDE DEF c
  <2>4. ReadAt(c, s, d)
    BY <1>1, <1>3, <2>3 DEF ReadAt, MayOpen, ImportStateName, SpecifierListName
  <2>5. Second(f, c) BY <1>3, <2>3 DEF Second
  <2>6. Reads(f, s, s, d, t, Push(f, c)) BY <2>4, <2>5, ReadsResults
  <2>7. Reads(f, s, s, d, t, Reprocess(Push(f, c))) BY <2>6, ReadsModified, SilentResults
  <2> QED BY <2>1, <2>2, <2>7
<1>4. CASE t = "from" /\ "list_done" \in f.on
  <2>. DEFINE c == Fresh("named_export_module_spec")
              u == Append(s, "from")
  <2>1. r = Push(f, c) BY <1>4 DEF NamedExport
  <2>2. Seen(s, t, r) = u BY <1>4, <2>1, ReprocessResults DEF Seen
  <2>3. c.state = "named_export_module_spec" BY FrameFields
  <2>4. Whole(u, d.specifiers) BY <1>1, <1>4, WholeStable DEF Marker
  <2>. HIDE DEF c, u
  <2>5. ReadAt(c, u, d)
    BY <2>3, <2>4 DEF ReadAt, MayOpen, ImportStateName, SpecifierListName
  <2>6. Second(f, c) BY <1>4, <2>3 DEF Second
  <2> QED BY <2>1, <2>2, <2>5, <2>6, ReadsResults
<1>5. ASSUME NEW e, e.specifiers = d.specifiers, NEW u, "list_done" \in f.on
      PROVE  Reads(f, s, u, e, t, Complete(f, Node("named_export")))
  <2>1. NodeRead(Node("named_export"), s, e) BY <1>1, <1>5, NodeFields DEF NodeRead
  <2>2. \A b : f.state \in MayPush(b.state) => ReadBelow(b, s, u, e) BY BelowExport
  <2> QED BY <2>1, <2>2, ReadsResults
<1>6. CASE t = "semicolon" /\ "list_done" \in f.on
  <2>. DEFINE e == Call(d, "set_semicolon", t)
              q == Complete(f, Node("named_export"))
              u == Seen(s, t, r)
  <2>1. r = Calling(q, "set_semicolon") BY <1>6 DEF NamedExport
  <2>2. e.specifiers = d.specifiers BY ExportLists
  <2>3. Silent(q) BY SilentResults
  <2>. HIDE DEF e, u
  <2>4. Reads(f, s, u, e, t, q) BY <1>5, <1>6, <2>2
  <2>. HIDE DEF q
  <2>5. Reads(f, s, u, d, t, Calling(q, "set_semicolon")) BY <2>3, <2>4, ReadsModified DEF e
  <2> QED BY <2>1, <2>5 DEF u
<1>7. CASE t \notin {"newline", "from", "semicolon"} /\ "list_done" \in f.on
  <2>. DEFINE q == Complete(f, Node("named_export"))
  <2>1. r = Reprocess(q) BY <1>7 DEF NamedExport
  <2>2. Reads(f, s, Seen(s, t, r), d, t, q) BY <1>5, <1>7
  <2>3. Silent(q) BY SilentResults
  <2>. HIDE DEF q
  <2> QED BY <2>1, <2>2, <2>3, ReadsModified
<1> QED BY <1>2, <1>3, <1>4, <1>6, <1>7

LEMMA ExportTailReads ==
  ASSUME NEW f, f.state \in {"named_export_module_spec", "named_export_semicolon"}, IsFrame(f),
         NEW d \in DeclarationSet, NEW S, NEW s \in Seq(S), NEW t \in S, ReadAt(f, s, d),
         NEW r, r = ExportProcess(f, t)
  PROVE  Reads(f, s, Seen(s, t, r), d, t, r)
<1>1. Whole(s, d.specifiers) BY DEF ReadAt
<1>2. CASE t = "newline"
  <2>1. r = Stay(f) BY <1>2 DEF ExportProcess, ModuleSpec, OptionalSemicolon, Visitor
  <2>2. Seen(s, t, r) = s BY <1>2 DEF Seen
  <2> QED BY <2>1, <2>2, ReadsResults
<1>3. CASE f.state = "named_export_module_spec" /\ t \in Constant
  <2>. DEFINE c == Fresh("named_export_semicolon")
              e == Call(d, "set_module_specifier", t)
              u == Append(s, t)
              q == Push(f, c)
  <2>1. t # "newline" /\ t \notin Marker BY <1>3 DEF Constant, Marker
  <2>2. r = Calling(q, "set_module_specifier")
    BY <1>3, <2>1 DEF ExportProcess, ModuleSpec, Visitor
  <2>3. Seen(s, t, r) = u BY <2>1, <2>2, ReprocessResults DEF Seen
  <2>4. c.state = "named_export_semicolon" BY FrameFields
  <2>5. e.specifiers = d.specifiers BY ExportLists
  <2>6. Whole(u, d.specifiers) BY <1>1, <2>1, WholeStable
  <2>7. Silent(q) BY SilentResults
  <2>. HIDE DEF c, e, u
  <2>8. ReadAt(c, u, e)
    BY <2>4, <2>5, <2>6 DEF ReadAt, MayOpen, ImportStateName, SpecifierListName
  <2>9. Second(f, c) BY <1>3, Unread
  <2>10. Reads(f, s, u, e, t, q) BY <2>8, <2>9, ReadsResults
  <2>. HIDE DEF q
  <2>11. Reads(f, s, u, d, t, Calling(q, "set_module_specifier"))
    BY <2>7, <2>10, ReadsModified DEF e
  <2> QED BY <2>2, <2>3, <2>11
<1>4. CASE f.state = "named_export_module_spec" /\ t \notin Constant \cup {"newline"}
  <2>1. r = Expected BY <1>4 DEF ExportProcess, ModuleSpec, Visitor
  <2> QED BY <2>1, ReadsResults
<1>5. CASE f.state = "named_export_semicolon" /\ t # "newline"
  <2>. DEFINE q == Complete(f, NullNode)
              u == Seen(s, t, r)
  <2>1. r = Calling(q, "set_semicolon") \/ r = Reprocess(q)
    BY <1>5 DEF ExportProcess, OptionalSemicolon, Visitor
  <2>2. ASSUME NEW e, e.specifiers = d.specifiers PROVE Reads(f, s, u, e, t, q)
    <3>1. NodeRead(NullNode, s, e) BY NodeFields DEF NodeRead
    <3>. HIDE DEF u
    <3>2. \A b : f.state \in MayPush(b.state) => ReadBelow(b, s, u, e)
      BY <1>1, <1>5, <2>2, BelowExport
    <3> QED BY <3>1, <3>2, ReadsResults
  <2>3. Silent(q) BY SilentResults
  <2>. DEFINE e == Call(d, "set_semicolon", t)
  <2>4. e.specifiers = d.specifiers BY ExportLists
  <2>. HIDE DEF q, u, e
  <2>5. Reads(f, s, u, d, t, q) /\ Reads(f, s, u, e, t, q) BY <2>2, <2>4
  <2>6. Reads(f, s, u, d, t, Reprocess(q)) /\ Reads(f, s, u, d, t, Calling(q, "set_semicolon"))
    BY <2>3, <2>5, ReadsModified DEF e
  <2> QED BY <2>1, <2>6 DEF u
<1> QED BY <1>2, <1>3, <1>4, <1>5

(* The states outside of the chains leave what has been read alone.        *)
LEMMA PlainReads ==
  ASSUME NEW f, f.state \notin Reader, NEW s, NEW u, NEW d, NEW t, NEW r,
         Sound(f, t, r), Proper(f, r), r.act = "push" => f.state \notin Scope
  PROVE  Reads(f, s, u, d, t, r)
<1>. DEFINE e == Build(d, r.calls, t)
<1>1. r.act = "stay" => ReadAt(r.frame, u, e)
  BY Unread DEF Sound, Replaces
<1>2. r.act = "push" => ReadAt(r.child, u, e) /\ Second(r.frame, r.child)
  <2>1. r.act = "push" => r.frame.state = f.state /\ r.child.state \in MayPush(f.state)
    BY DEF Sound, Replaces, Pushes
  <2>2. f.state \notin {"specifier", "named_export"}
    BY DEF Reader, SpecifierStateName, SpecifierListName
  <2>3. f.state \notin Scope => MayPush(f.state) \cap Reader = {}
    BY DEF MayPush, Reader, Scope, SpecifierStateName, SpecifierListName, ImportLink,
           ImportStateName, Statement
  <2> QED BY <2>1, <2>2, <2>3, Unread
<1>3. r.act = "complete" => NodeRead(r.node, s, e)
  <2>1. "import" \notin Delivers(f.state) /\ "named_export" \notin Delivers(f.state)
    BY DEF Delivers, TypeOperand, DeclaredKind, Reader, SpecifierStateName, SpecifierListName,
           ImportStateName
  <2> QED BY <2>1 DEF Proper, NodeRead
<1>4. ASSUME NEW b, f.state \in MayPush(b.state) PROVE ReadBelow(b, s, u, e)
  <2>1. b.state \notin Reader \ {"export", "named_export_semicolon"}
    BY <1>4
       DEF MayPush, Reader, Scope, SpecifierStateName, SpecifierListName, ImportLink,
           ImportStateName, Statement
  <2> QED BY <2>1, Unread
<1> QED BY <1>1, <1>2, <1>3, <1>4 DEF Reads, e

LEMMA ScopeVisitorReads ==
  ASSUME NEW f, f.state \in Scope, IsFrame(f), NEW d,
         NEW S, NEW s \in Seq(S), NEW t \in S, NEW ambient, NEW module_like,
         NEW r, r = ModuleScopeVisitor(f, t, ambient, module_like)
  PROVE  Reads(f, s, Seen(s, t, r), d, t, r)
<1>. DEFINE u == Append(s, t)
<1>1. f.state \notin Reader
  BY DEF Scope, Reader, SpecifierStateName, SpecifierListName, ImportStateName
<1>2. f.state \notin {"specifier", "named_export"} BY DEF Scope
<1>3. t # "newline" =>
        /\ \A c : r = Push(f, c) => Seen(s, t, r) = u
        /\ \A c, g : r = Calling(Push(f, c), g) => Seen(s, t, r) = u
  BY ReprocessResults DEF Seen
<1>4. CASE t = "newline"
  <2>1. r = Stay(f) BY <1>4 DEF ModuleScopeVisitor, Visitor
  <2>2. ReadAt(f, Seen(s, t, r), d) BY <1>1, Unread
  <2> QED BY <2>1, <2>2, ReadsResults
<1>5. CASE t = "import"
  <2>. DEFINE g == Frame("import", FlagIf(~module_like, "equals_only"))
  <2>1. r = Calling(Push(f, g), "new_import") BY <1>5 DEF ModuleScopeVisitor, Visitor
  <2>2. Seen(s, t, r) = u BY <1>3, <1>5, <2>1
  <2>3. Unopened(u) BY <1>5, MarkerOpens DEF Marker
  <2>4. g.state = "import" BY FrameFields
  <2>. HIDE DEF g, u
  <2> QED BY <1>2, <2>1, <2>2, <2>3, <2>4, ImportStarts
<1>6. CASE t = "export"
  <2>. DEFINE g == Frame("export", FlagIf(module_like, "module_like"))
  <2>1. r = Push(f, g) BY <1>6 DEF ModuleScopeVisitor, Visitor
  <2>2. Seen(s, t, r) = u BY <1>3, <1>6, <2>1
  <2>3. Unopened(u) BY <1>6, MarkerOpens DEF Marker
  <2>4. g.state = "export" BY FrameFields
  <2>. HIDE DEF g, u
  <2>5. ReadAt(g, u, d)
    BY <2>3, <2>4
       DEF ReadAt, MayOpen, SpecifierStateName, SpecifierListName, ImportStateName
  <2>6. Second(f, g) BY <1>2, Unread
  <2> QED BY <2>1, <2>2, <2>5, <2>6, ReadsResults
<1>7. ASSUME NEW c, c.state \in {"declare", "namespace", "type"}
      PROVE  Reads(f, s, Seen(s, t, r), d, t, Push(f, c))
  <2>1. c.state \notin Reader
    BY <1>7 DEF Reader, SpecifierStateName, SpecifierListName, ImportStateName
  <2>2. ReadAt(c, Seen(s, t, r), d) /\ Second(f, c) BY <1>2, <2>1, Unread
  <2> QED BY <2>2, ReadsResults
<1>8. CASE (t = "declare" /\ ~ambient) \/ t \in {"namespace", "module", "type"}
  <2>1. \/ r = Push(f, Frame("declare", {}))
        \/ r = Push(f, Frame("namespace", FlagIf(ambient, "ambient")))
        \/ r = Push(f, Frame("type", {}))
    BY <1>8 DEF ModuleScopeVisitor, Visitor
  <2> QED BY <1>7, <2>1, FrameFields
<1>9. CASE /\ t \notin {"newline", "import", "namespace", "module", "export", "type"}
           /\ ~(t = "declare" /\ ~ambient)
  <2>1. PICK k \in {"declare_in_ambient_context", "declaration_or_statement_expected"} :
          r = Throw(k)
    BY <1>9 DEF ModuleScopeVisitor, Visitor
  <2> QED BY <2>1, ReadsResults
<1> QED BY <1>4, <1>5, <1>6, <1>8, <1>9

LEMMA BracedScopeReads ==
  ASSUME NEW f, f.state \in {"namespace", "declare_module"}, IsFrame(f), NEW d,
         NEW s, NEW t, NEW r,
         NEW header, header.state \in {"namespace_header", "declare_module_header"},
         "header_done" \notin f.on => r = Reprocess(Push(TurnOn(f, {"header_done"}), header)),
         "header_done" \in f.on /\ t = "close_brace" => r = Complete(f, Node(f.state)),
         "header_done" \in f.on /\ t # "close_brace" => Reads(f, s, Seen(s, t, r), d, t, r)
  PROVE  Reads(f, s, Seen(s, t, r), d, t, r)
<1>1. CASE "header_done" \notin f.on
  <2>. DEFINE g == TurnOn(f, {"header_done"})
              u == Seen(s, t, r)
  <2>1. r = Reprocess(Push(g, header)) BY <1>1
  <2>2. g.state = f.state BY TurnFields
  <2>3. g.state \notin {"specifier", "named_export"} BY <2>2
  <2>4. header.state \notin Reader
    BY DEF Reader, SpecifierStateName, SpecifierListName, ImportStateName
  <2>. HIDE DEF g, u
  <2>5. ReadAt(header, u, d) /\ Second(g, header) BY <2>3, <2>4, Unread
  <2>6. Reads(f, s, u, d, t, Push(g, header)) BY <2>5, ReadsResults
  <2>7. Reads(f, s, u, d, t, Reprocess(Push(g, header))) BY <2>6, ReadsModified, SilentResults
  <2> QED BY <2>1, <2>7 DEF u
<1>2. CASE "header_done" \in f.on /\ t = "close_brace"
  <2>. DEFINE u == Seen(s, t, r)
  <2>1. r = Complete(f, Node(f.state)) BY <1>2
  <2>2. NodeRead(Node(f.state), s, d) BY NodeFields DEF NodeRead
  <2>. HIDE DEF u
  <2>3. ASSUME NEW b, f.state \in MayPush(b.state) PROVE ReadBelow(b, s, u, d)
    <3>1. b.state \notin Reader \ {"export", "named_export_semicolon"}
      BY <2>3
         DEF MayPush, Reader, Scope, SpecifierStateName, SpecifierListName, ImportLink,
             ImportStateName, Statement
    <3> QED BY <3>1, Unread
  <2> QED BY <2>1, <2>2, <2>3, ReadsResults DEF u
<1> QED BY <1>1, <1>2

LEMMA ScopeReads ==
  ASSUME NEW f, f.state \in Scope, IsFrame(f), NEW d, NEW S, NEW s \in Seq(S), NEW t \in S,
         NEW r, r = ScopeProcess(f, t)
  PROVE  Reads(f, s, Seen(s, t, r), d, t, r)
<1>1. CASE f.state = "module_scope"
  <2>1. r = ModuleScopeVisitor(f, t, FALSE, TRUE) BY <1>1 DEF ScopeProcess
  <2> QED BY <2>1, ScopeVisitorReads
<1>2. CASE f.state = "namespace"
  <2>. DEFINE header == Frame("namespace_header", {"expect_segment"})
  <2>1. r = BracedScope(f, t, header, "namespace", "ambient" \in f.on, FALSE)
    BY <1>2 DEF ScopeProcess, Namespace
  <2>2. header.state = "namespace_header" BY FrameFields
  <2>3. "header_done" \in f.on /\ t # "close_brace" => Reads(f, s, Seen(s, t, r), d, t, r)
    <3>1. "header_done" \in f.on /\ t # "close_brace" =>
            r = ModuleScopeVisitor(f, t, "ambient" \in f.on, FALSE)
      BY <2>1 DEF BracedScope
    <3> QED BY <3>1, ScopeVisitorReads
  <2>. HIDE DEF header
  <2>4. /\ "header_done" \notin f.on => r = Reprocess(Push(TurnOn(f, {"header_done"}), header))
        /\ "header_done" \in f.on /\ t = "close_brace" => r = Complete(f, Node(f.state))
    BY <1>2, <2>1 DEF BracedScope
  <2> QED BY <1>2, <2>2, <2>3, <2>4, BracedScopeReads
<1>3. CASE f.state = "declare_module"
  <2>. DEFINE header == Frame("declare_module_header", {})
  <2>1. r = BracedScope(f, t, header, "declare_module", TRUE, TRUE)
    BY <1>3 DEF ScopeProcess, DeclareModule
  <2>2. header.state = "declare_module_header" BY FrameFields
  <2>3. "header_done" \in f.on /\ t # "close_brace" => Reads(f, s, Seen(s, t, r), d, t, r)
    <3>1. "header_done" \in f.on /\ t # "close_brace" =>
            r = ModuleScopeVisitor(f, t, TRUE, TRUE)
      BY <2>1 DEF BracedScope
    <3> QED BY <3>1, ScopeVisitorReads
  <2>. HIDE DEF header
  <2>4. /\ "header_done" \notin f.on => r = Reprocess(Push(TurnOn(f, {"header_done"}), header))
        /\ "header_done" \in f.on /\ t = "close_brace" => r = Complete(f, Node(f.state))
    BY <1>3, <2>1 DEF BracedScope
  <2> QED BY <1>3, <2>2, <2>3, <2>4, BracedScopeReads
<1> QED BY <1>1, <1>2, <1>3 DEF Scope

---------------------------------------------------------------------------
(* The virtual calls.                                                      *)

LEMMA StatesApart ==
  /\ TypeStateName \cap SpecifierStateName = {} /\ TypeStateName \cap ImportStateName = {}
  /\ TypeStateName \cap ExportStateName = {} /\ SpecifierStateName \cap ImportStateName = {}
  /\ SpecifierStateName \cap ExportStateName = {} /\ ImportStateName \cap ExportStateName = {}
BY DEF SpecifierStateName, SpecifierListName, TypeStateName, ImportStateName, ExportStateName

LEMMA ProcessReads ==
  ASSUME NEW f, IsFrame(f), Steady(f), Idle(f), NEW d \in DeclarationSet, Held(f, d),
         NEW S, NEW s \in Seq(S), NEW t \in S, ReadAt(f, s, d), NEW r, r = Process(f, t)
  PROVE  Reads(f, s, Seen(s, t, r), d, t, r)
<1>1. CASE f.state \in SpecifierStateName
  <2>2. r = SpecifierProcess(f, t) BY <1>1, StatesApart DEF Process
  <2> QED BY <1>1, <2>2, SpecifierReads
<1>2. CASE f.state \in ImportStateName
  <2>2. r = ImportProcess(f, t) BY <1>2, StatesApart DEF Process
  <2>3. Goes(f, t, r) BY <1>2, <2>2, ImportGoes
  <2>. DEFINE u == Seen(s, t, r)
  <2>4. u = Seen(s, t, r) OBVIOUS
  <2>. HIDE DEF u
  <2>5. Reads(f, s, u, d, t, r) BY <1>2, <2>3, <2>4, ImportReads
  <2> QED BY <2>4, <2>5
<1>3. CASE f.state \in {"export", "named_export", "named_export_module_spec",
                        "named_export_semicolon"}
  <2>1. f.state \notin TypeStateName \cup SpecifierStateName \cup ImportStateName
        /\ f.state \in ExportStateName
    BY <1>3
       DEF SpecifierStateName, SpecifierListName, TypeStateName, ImportStateName,
           ExportStateName
  <2>2. r = ExportProcess(f, t) BY <1>3, <2>1 DEF Process
  <2>3. f.state = "export" => r = Export(f, t) BY <2>2 DEF ExportProcess
  <2>4. f.state = "named_export" => r = NamedExport(f, t) BY <2>2 DEF ExportProcess
  <2> QED BY <1>3, <2>2, <2>3, <2>4, ExportReads, NamedExportReads, ExportTailReads
<1>4. CASE f.state \in Scope
  <2>1. f.state \notin TypeStateName \cup SpecifierStateName \cup ImportStateName
                       \cup ExportStateName
    BY <1>4
       DEF SpecifierStateName, SpecifierListName, TypeStateName, ImportStateName,
           ExportStateName, Scope
  <2>2. r = ScopeProcess(f, t) BY <1>4, <2>1 DEF Process
  <2> QED BY <1>4, <2>2, ScopeReads
<1>5. CASE f.state \notin Reader \cup Scope
  BY <1>5, PlainReads, ProcessSound, ProcessProper
<1> QED BY <1>1, <1>2, <1>3, <1>4, <1>5 DEF Reader

LEMMA AcceptReads ==
  ASSUME NEW f, IsFrame(f), Steady(f), Awaits(f), NEW d \in DeclarationSet, Held(f, d),
         NEW t, NEW s, NEW S, NEW u \in Seq(S), ReadBelow(f, s, u, d),
         NEW n \in AstNode, n.kind \in Deliverable(f), NodeRead(n, s, d),
         NEW r, r = AcceptChild(f, n)
  PROVE  Reads(f, s, u, d, t, r)
<1>1. CASE f.state \in SpecifierStateName
  <2>2. r = SpecifierAcceptChild(f, n) BY <1>1, StatesApart DEF AcceptChild
  <2> QED BY <1>1, <2>2, SpecifierAcceptReads
<1>2. CASE f.state \in ImportStateName
  <2>2. r = ImportAcceptChild(f, n) BY <1>2, StatesApart DEF AcceptChild
  <2> QED BY <1>2, <2>2, ImportAcceptReads
<1>3. CASE f.state \in {"export", "named_export", "named_export_module_spec",
                        "named_export_semicolon"}
  <2>1. f.state \notin TypeStateName \cup SpecifierStateName \cup ImportStateName
        /\ f.state \in ExportStateName
    BY <1>3
       DEF SpecifierStateName, SpecifierListName, TypeStateName, ImportStateName,
           ExportStateName
  <2>2. r = ExportAcceptChild(f, n) BY <1>3, <2>1 DEF AcceptChild
  <2>3. CASE f.state = "export"
    <3>. DEFINE m == [n EXCEPT !.exported = n.exported \/ n.kind \in Exportable]
    <3>1. r = Throw("null_dereference") \/ r = Complete(f, m)
      BY <2>2, <2>3 DEF ExportAcceptChild, ExportAccept
    <3>2. m.kind = n.kind BY DEF AstNode
    <3>. HIDE DEF m
    <3>3. NodeRead(m, s, d) BY <3>2 DEF NodeRead
    <3>4. \A b : f.state \in MayPush(b.state) => ReadBelow(b, s, u, d) BY <2>3, BelowExport
    <3>5. Reads(f, s, u, d, t, Complete(f, m)) BY <3>3, <3>4, ReadsResults
    <3> QED BY <3>1, <3>5, ReadsResults
  <2>4. CASE f.state = "named_export" /\ "list_done" \notin f.on
    <3>. DEFINE g == TurnOn(f, {"list_done"})
    <3>1. r = Stay(g) BY <2>2, <2>4 DEF ExportAcceptChild, NamedExportAccept
    <3>2. g.state = f.state /\ g.on = f.on \cup {"list_done"} BY TurnFields
    <3>3. Whole(u, d.specifiers) BY <2>4 DEF ReadBelow
    <3>. HIDE DEF g
    <3>4. ReadAt(g, u, d)
      BY <2>4, <3>2, <3>3 DEF ReadAt, MayOpen, ImportStateName, SpecifierListName
    <3> QED BY <3>1, <3>4, ReadsResults
  <2>5. CASE f.state = "named_export" /\ "list_done" \in f.on
    <3>1. r = Complete(f, Node("named_export"))
      BY <2>2, <2>5 DEF ExportAcceptChild, NamedExportAccept
    <3>2. Whole(s, d.specifiers) BY <2>5 DEF ReadBelow
    <3>3. NodeRead(Node("named_export"), s, d) BY <3>2, NodeFields DEF NodeRead
    <3>4. \A b : f.state \in MayPush(b.state) => ReadBelow(b, s, u, d) BY <2>5, BelowExport
    <3> QED BY <3>1, <3>3, <3>4, ReadsResults
  <2>6. CASE f.state = "named_export_module_spec"
    <3>1. r = Complete(f, NullNode) BY <2>2, <2>6 DEF ExportAcceptChild
    <3>2. Whole(s, d.specifiers) BY <2>6 DEF ReadBelow
    <3>3. NodeRead(NullNode, s, d) BY NodeFields DEF NodeRead
    <3>4. \A b : f.state \in MayPush(b.state) /\ Second(b, f) => ReadBelow(b, s, u, d)
      BY <2>6, <3>2, BelowExport
    <3> QED BY <3>1, <3>3, <3>4, ReadsResults
  <2>7. f.state # "named_export_semicolon" BY DEF Awaits, Leaf
  <2> QED BY <1>3, <2>3, <2>4, <2>5, <2>6, <2>7
<1>4. CASE f.state \notin Reader
  <2>1. Sound(f, t, r) BY AcceptChildSound
  <2>2. Proper(f, r) BY AcceptProper
  <2>3. f.state \in Scope => r.act # "push"
    <3>1. ASSUME f.state \in Scope PROVE r = ScopeAcceptChild(f, n)
      BY <3>1
         DEF AcceptChild, SpecifierStateName, SpecifierListName, TypeStateName,
             ImportStateName, ExportStateName, Scope
    <3>2. /\ \A g : Stay(g).act = "stay" /\ \A e : Throw(e).act = "throw"
          /\ TrackExports(f, n).act # "push"
      BY DEF Stay, Throw, Result, TrackExports
    <3>3. f.state \in Scope => ScopeAcceptChild(f, n).act # "push"
      BY <3>2 DEF ScopeAcceptChild, ModuleScopeAccept, DeclareModuleAccept, Scope
    <3> QED BY <3>1, <3>3
  <2> QED BY <1>4, <2>1, <2>2, <2>3, PlainReads
<1> QED BY <1>1, <1>2, <1>3, <1>4 DEF Reader

LEMMA EofReads ==
  ASSUME NEW f, IsFrame(f), NEW d, NEW s, NEW t, ReadAt(f, s, d), NEW r, r = OnEof(f)
  PROVE  Reads(f, s, s, d, t, r)
<1>1. CASE r = NullOpt(f) BY <1>1, ReadsResults
<1>2. CASE f.state \in ImportStateName /\ r # NullOpt(f)
  <2>1. r = ImportOnEof(f) BY <1>2, StatesApart DEF OnEof
  <2>2. r \in {Complete(f, Node("import")), Complete(f, NullNode)} BY <1>2, <2>1 DEF ImportOnEof
  <2>3. NamedWhole(s, d) BY <1>2 DEF ReadAt
  <2>4. ASSUME NEW m, m.kind \in {"null", "import"}
        PROVE  Reads(f, s, s, d, t, Complete(f, m))
    <3>1. NodeRead(m, s, d) BY <2>3, <2>4 DEF NodeRead
    <3>2. \A b : f.state \in MayPush(b.state) => ReadBelow(b, s, s, d)
      BY <1>2, <2>3, ImportReadBelow
    <3> QED BY <3>1, <3>2, ReadsResults
  <2> QED BY <2>2, <2>4, NodeFields
<1>3. CASE f.state = "named_export" /\ r # NullOpt(f)
  <2>1. r = Complete(f, Node("named_export")) /\ "list_done" \in f.on
    BY <1>3 DEF OnEof, ExportOnEof, TypeStateName, ImportStateName, ExportStateName
  <2>2. Whole(s, d.specifiers) BY <1>3, <2>1 DEF ReadAt
  <2>3. NodeRead(Node("named_export"), s, d) BY <2>2, NodeFields DEF NodeRead
  <2>4. \A b : f.state \in MayPush(b.state) => ReadBelow(b, s, s, d) BY <1>3, BelowExport
  <2> QED BY <2>1, <2>3, <2>4, ReadsResults
<1>4. CASE f.state = "named_export_semicolon"
  <2>1. r = Complete(f, NullNode)
    BY <1>4 DEF OnEof, ExportOnEof, TypeStateName, ImportStateName, ExportStateName
  <2>2. Whole(s, d.specifiers) BY <1>4 DEF ReadAt
  <2>3. NodeRead(NullNode, s, d) BY NodeFields DEF NodeRead
  <2>4. \A b : f.state \in MayPush(b.state) => ReadBelow(b, s, s, d)
    BY <1>4, <2>2, BelowExport
  <2> QED BY <2>1, <2>3, <2>4, ReadsResults
<1>5. CASE f.state \in SpecifierStateName \cup {"export", "named_export_module_spec"}
  <2>1. r = NullOpt(f)
    BY <1>5
       DEF OnEof, ExportOnEof, TypeStateName, ImportStateName, ExportStateName,
           SpecifierStateName, SpecifierListName
  <2> QED BY <1>1, <2>1
<1>6. CASE f.state \notin Reader
  <2>1. Sound(f, t, r) BY OnEofSound
  <2>2. Proper(f, r) BY EofProper
  <2>3. r.act # "push"
    <3>1. (\A m : Complete(f, m).act = "complete") /\ NullOpt(f).act = "nullopt"
      BY DEF Complete, NullOpt, Result
    <3> QED BY <3>1 DEF OnEof, ExportOnEof, ImportOnEof, TypeOnEof, TypeEof,
                           SeparatedEof, TypePostfixEof
  <2> QED BY <1>6, <2>1, <2>2, <2>3, PlainReads
<1> QED BY <1>1, <1>2, <1>3, <1>4, <1>5, <1>6 DEF Reader

---------------------------------------------------------------------------
(* What has been read, from step to step.  On the stack, a frame that has  *)
(* pushed its second child knows it.                                       *)

LEMMA SecondsReplaced ==
  ASSUME NEW s, IsStack(s), Seconds(s), NEW g, IsFrame(g), g.state = s[Len(s)].state
  PROVE  LET u == [s EXCEPT ![Len(s)] = g]
         IN  Seconds(u) /\ Len(u) = Len(s) /\ u[Len(u)] = g
<1>. DEFINE u == [s EXCEPT ![Len(s)] = g]
            n == Len(s) - 1
<1>1. Len(u) = Len(s) /\ u[Len(s)] = g /\ \A i \in 1 .. n : u[i] = s[i]
  BY ReplacedTop
<1>2. n \in Nat /\ n + 1 = Len(s) BY StackTop
<1>3. \A i \in 1 .. n : Second(s[i], s[i + 1]) BY DEF Seconds
<1>. HIDE DEF u, n
<1>4. \A i \in 1 .. n : u[i + 1].state = s[i + 1].state
  <2>1. \A i \in 1 .. n : i + 1 = n + 1 \/ i + 1 \in 1 .. n BY <1>2
  <2>2. u[n + 1].state = s[n + 1].state BY <1>1, <1>2
  <2> QED BY <1>1, <2>1, <2>2
<1>5. \A i \in 1 .. n : Second(u[i], u[i + 1]) BY <1>1, <1>3, <1>4 DEF Second
<1>6. Len(u) - 1 = n BY <1>1 DEF n
<1>7. Seconds(u) /\ Len(u) = Len(s) /\ u[Len(u)] = g BY <1>1, <1>5, <1>6 DEF Seconds
<1> QED BY <1>7 DEF u

LEMMA SecondsPushed ==
  ASSUME NEW s, IsStack(s), Seconds(s), NEW c, Pushes(s[Len(s)], c), Second(s[Len(s)], c)
  PROVE  LET u == Append(s, c)
         IN  Seconds(u) /\ u[Len(u)] = c
<1>. DEFINE u == Append(s, c)
            n == Len(s)
<1>1. n \in Nat \ {0} BY StackTop
<1>2. Len(u) = n + 1 /\ u[n + 1] = c /\ \A i \in 1 .. n : u[i] = s[i]
  BY AppendProperties DEF IsStack, Pushes, IsFrame
<1>3. \A i \in 1 .. n - 1 : Second(s[i], s[i + 1]) BY DEF Seconds
<1>4. Second(s[n], c) OBVIOUS
<1>. HIDE DEF u, n
<1>5. \A i \in 1 .. n : i = n \/ (i \in 1 .. n - 1 /\ i + 1 \in 1 .. n) BY <1>1
<1>6. \A i \in 1 .. n : Second(u[i], u[i + 1])
  <2>1. Second(u[n], u[n + 1]) BY <1>1, <1>2, <1>4
  <2>2. \A i \in 1 .. n - 1 : Second(u[i], u[i + 1]) BY <1>2, <1>3, <1>1
  <2> QED BY <2>1, <2>2, <1>5
<1>7. Len(u) - 1 = n BY <1>1, <1>2
<1>8. Seconds(u) /\ u[Len(u)] = c BY <1>2, <1>6, <1>7 DEF Seconds
<1> QED BY <1>8 DEF u

LEMMA SecondsPopped ==
  ASSUME NEW s, IsStack(s), Seconds(s), s[Len(s)].state # "module_scope"
  PROVE  LET u == SubSeq(s, 1, Len(s) - 1)
         IN  Seconds(u) /\ Second(u[Len(u)], s[Len(s)])
<1>. DEFINE u == SubSeq(s, 1, Len(s) - 1)
            n == Len(s) - 1
<1>1. n \in Nat \ {0} /\ Len(u) = n /\ \A i \in 1 .. n : u[i] = s[i] BY PoppedTop
<1>2. \A i \in 1 .. n : Second(s[i], s[i + 1]) BY DEF Seconds
<1>3. n + 1 = Len(s) BY StackTop
<1>. HIDE DEF u, n
<1>4. n \in 1 .. n /\ \A i \in 1 .. n - 1 : i \in 1 .. n /\ i + 1 \in 1 .. n BY <1>1
<1>5. \A i \in 1 .. n - 1 : Second(u[i], u[i + 1]) BY <1>1, <1>2, <1>4
<1>6. Second(u[n], s[n + 1]) BY <1>1, <1>2, <1>4
<1>7. Seconds(u) /\ Second(u[Len(u)], s[Len(s)]) BY <1>1, <1>3, <1>5, <1>6 DEF Seconds
<1> QED BY <1>7 DEF u

LEMMA PresentedIsRead ==
  ASSUME Inv PROVE CurrentToken \in Token \cup {EndOfText}
<1>1. "newline" \in Token BY DEF Token, Trivia, LineBreak
<1>2. token_iter \in Token \cup {EndOfText} BY AlphabetAssumption DEF Inv, LexerOK
<1> QED BY <1>1, <1>2 DEF CurrentToken

(* The results of the calls on the top of the stack.                       *)
LEMMA ResultsRead ==
  ASSUME Inv, Promised, Accounted, ListsRead
  PROVE  /\ pc = "process" =>
              Reads(Top, consumed, Seen(consumed, CurrentToken, Processed), declaration,
                    CurrentToken, Processed)
         /\ pc = "handle_complete" =>
              Reads(Top, consumed, Taken, declaration, CurrentToken, Accepted)
         /\ pc = "eof" =>
              Reads(Top, consumed, consumed, declaration, CurrentToken, OnEof(Top))
<1>. DEFINE S == Token \cup {EndOfText}
<1>1. /\ IsFrame(Top) /\ Steady(Top) /\ Held(Top, declaration)
      /\ declaration \in DeclarationSet
      /\ Top = state_stack[Len(state_stack)]
  BY TopSettled DEF Promised
<1>2. pc = "process" => Idle(Top) BY <1>1 DEF Promised, AtRest
<1>3. pc = "handle_complete" =>
        Awaits(Top) /\ node.kind \in Deliverable(Top) /\ node \in AstNode
  BY DEF Promised, Inv, TreeOK, Given
<1>4. CurrentToken \in S BY PresentedIsRead
<1>5. consumed \in Seq(S) BY DEF ListsRead
<1>6. Taken \in Seq(S)
  <2>1. token_iter \in S BY AlphabetAssumption DEF Inv, LexerOK
  <2>2. Append(consumed, token_iter) \in Seq(S) BY <1>5, <2>1, AppendProperties
  <2> QED BY <1>5, <2>2 DEF Taken
<1>. HIDE DEF S
<1>7. ASSUME pc = "process"
      PROVE  Reads(Top, consumed, Seen(consumed, CurrentToken, Processed), declaration,
                   CurrentToken, Processed)
  <2>1. ReadAt(Top, consumed, declaration) BY <1>7 DEF ListsRead
  <2>2. Idle(Top) BY <1>2, <1>7
  <2>3. Processed = Process(Top, CurrentToken) BY DEF Processed
  <2> QED BY <1>1, <1>4, <1>5, <2>1, <2>2, <2>3, ProcessReads
<1>8. ASSUME pc = "handle_complete"
      PROVE  Reads(Top, consumed, Taken, declaration, CurrentToken, Accepted)
  <2>1. ReadBelow(Top, consumed, Taken, declaration) /\ NodeRead(node, consumed, declaration)
    BY <1>8 DEF ListsRead
  <2>2. Accepted = AcceptChild(Top, node) BY DEF Accepted
  <2>3. Awaits(Top) /\ node.kind \in Deliverable(Top) /\ node \in AstNode BY <1>3, <1>8
  <2> QED BY <1>1, <1>6, <2>1, <2>2, <2>3, AcceptReads
<1>9. ASSUME pc = "eof"
      PROVE  Reads(Top, consumed, consumed, declaration, CurrentToken, OnEof(Top))
  <2>1. ReadAt(Top, consumed, declaration) BY <1>9 DEF ListsRead
  <2> QED BY <1>1, <2>1, EofReads
<1> QED BY <1>7, <1>8, <1>9

(* What the history makes of a step of the iterator.                       *)
LEMMA QuietConsumed == Observe /\ UNCHANGED lexer_vars => consumed' = consumed
BY DEF Observe, lexer_vars, history

LEMMA TriviaConsumed ==
  ASSUME LexerOK, Observe, MoveIterator, token_iter \in Trivia
  PROVE  consumed' = consumed
<1>1. token_iter # EndOfText BY DEF Trivia, LineBreak, Comment, EndOfText
<1>2. ~ (tokens_read' = tokens_read /\ token_iter' = token_iter) BY <1>1, IteratorLeaves
<1> QED BY <1>2 DEF Observe

LEMMA AdvanceConsumed ==
  ASSUME LexerOK, Presented, pc # "collect_trivia", AdvanceToken, Observe
  PROVE  consumed' = IF ~synthetic_newline /\ token_iter # EndOfText
                     THEN Append(consumed, token_iter) ELSE consumed
<1>1. CASE ~synthetic_newline /\ token_iter # EndOfText
  <2>1. MoveIterator BY <1>1 DEF AdvanceToken
  <2>2. ~ (tokens_read' = tokens_read /\ token_iter' = token_iter) BY <1>1, <2>1, IteratorLeaves
  <2>3. token_iter \notin Trivia BY DEF Presented
  <2> QED BY <1>1, <2>2, <2>3 DEF Observe
<1>2. CASE synthetic_newline \/ token_iter = EndOfText
  <2>1. UNCHANGED lexer_vars BY <1>2 DEF AdvanceToken
  <2> QED BY <1>2, <2>1, QuietConsumed
<1> QED BY <1>1, <1>2

LEMMA ContinueConsumed ==
  ASSUME Inv, Accounted, pc = "process", ~AtTokenEnd, Observe, NEW r, Continue(r)
  PROVE  consumed' = Seen(consumed, CurrentToken, r)
<1>1. CurrentToken = "newline" <=> synthetic_newline BY TopMarks
<1>2. ~synthetic_newline => token_iter # EndOfText /\ CurrentToken = token_iter
  BY DEF AtTokenEnd, CurrentToken
<1>3. CASE r.reprocess
  <2>1. UNCHANGED lexer_vars BY <1>3 DEF Continue
  <2> QED BY <1>3, <2>1, QuietConsumed DEF Seen
<1>4. CASE ~r.reprocess
  <2>1. AdvanceToken BY <1>4 DEF Continue
  <2>2. consumed' = IF ~synthetic_newline /\ token_iter # EndOfText
                    THEN Append(consumed, token_iter) ELSE consumed
    BY <2>1, AdvanceConsumed DEF Inv, Accounted
  <2> QED BY <1>1, <1>2, <1>4, <2>2 DEF Seen
<1> QED BY <1>3, <1>4

LEMMA StayConsumed ==
  ASSUME Inv, Accounted, AcceptStay, Observe PROVE consumed' = Taken
<1>1. pc = "handle_complete" BY DEF AcceptStay, Accepting
<1>2. CASE resume \in {"eof", "reprocess"}
  <2>1. UNCHANGED lexer_vars BY <1>2 DEF AcceptStay
  <2> QED BY <1>2, <2>1, QuietConsumed DEF Taken
<1>3. CASE resume \notin {"eof", "reprocess"}
  <2>1. AdvanceToken BY <1>3 DEF AcceptStay
  <2>2. consumed' = IF ~synthetic_newline /\ token_iter # EndOfText
                    THEN Append(consumed, token_iter) ELSE consumed
    BY <1>1, <2>1, AdvanceConsumed DEF Inv, Accounted
  <2>3. resume = "advance" BY <1>3 DEF Inv, ControlOK, Resume
  <2> QED BY <1>1, <2>2, <2>3 DEF Taken
<1> QED BY <1>2, <1>3

(* A frame that completes leaves the token to the one that accepts last.   *)
LEMMA CompleteTaken ==
  ASSUME Inv, Accounted, ProcessComplete, Observe
  PROVE  consumed' = consumed /\ Taken' = Seen(consumed, CurrentToken, Processed)
<1>1. /\ pc = "process" /\ ~AtTokenEnd /\ UNCHANGED lexer_vars /\ token_iter' = token_iter
      /\ synthetic_newline' = (synthetic_newline \/ Processed.newline)
      /\ resume' = (IF Processed.reprocess THEN "reprocess" ELSE "advance")
      /\ pc' = "handle_complete"
  BY DEF ProcessComplete, Processing, lexer_vars
<1>2. consumed' = consumed BY <1>1, QuietConsumed
<1>3. CurrentToken = "newline" <=> synthetic_newline BY <1>1, TopMarks
<1>4. Processed.newline => Processed.reprocess BY <1>1, TopMarks DEF Marks
<1>5. ~synthetic_newline => token_iter # EndOfText /\ CurrentToken = token_iter
  BY <1>1 DEF AtTokenEnd, CurrentToken
<1>6. synthetic_newline \in BOOLEAN BY DEF Inv, LexerOK
<1>7. Processed.newline \in BOOLEAN BY TopFrame DEF Sound
<1>8. CASE Processed.reprocess BY <1>1, <1>2, <1>8 DEF Taken, Seen
<1>9. CASE ~Processed.reprocess
  <2>1. synthetic_newline' <=> synthetic_newline BY <1>1, <1>4, <1>6, <1>7, <1>9
  <2> QED BY <1>1, <1>2, <1>3, <1>5, <1>9, <2>1 DEF Taken, Seen
<1> QED BY <1>2, <1>8, <1>9

LEMMA AcceptTaken ==
  ASSUME AcceptComplete, Observe PROVE consumed' = consumed /\ Taken' = Taken
<1>1. /\ UNCHANGED lexer_vars /\ token_iter' = token_iter
      /\ synthetic_newline' = synthetic_newline /\ resume' = resume /\ pc' = pc
  BY DEF AcceptComplete, lexer_vars
<1>2. consumed' = consumed BY <1>1, QuietConsumed
<1> QED BY <1>1, <1>2 DEF Taken

LEMMA EofTaken ==
  ASSUME EofComplete, Observe PROVE consumed' = consumed /\ Taken' = consumed
<1>1. UNCHANGED lexer_vars /\ resume' = "eof" BY DEF EofComplete
<1>2. consumed' = consumed BY <1>1, QuietConsumed
<1> QED BY <1>1, <1>2 DEF Taken

---------------------------------------------------------------------------
(* ListsRead is kept by every step.                                        *)

LEMMA SeenIsRead ==
  ASSUME Inv, ListsRead, NEW r
  PROVE  Seen(consumed, CurrentToken, r) \in Seq(Token \cup {EndOfText})
<1>. DEFINE S == Token \cup {EndOfText}
<1>1. CurrentToken \in S /\ consumed \in Seq(S) BY PresentedIsRead DEF ListsRead
<1>. HIDE DEF S
<1>2. Append(consumed, CurrentToken) \in Seq(S) BY <1>1, AppendProperties
<1>3. Seen(consumed, CurrentToken, r) \in Seq(S) BY <1>1, <1>2 DEF Seen
<1> QED BY <1>3 DEF S

LEMMA TakenIsRead ==
  ASSUME Inv, ListsRead PROVE Taken \in Seq(Token \cup {EndOfText})
<1>. DEFINE S == Token \cup {EndOfText}
<1>1. token_iter \in S /\ consumed \in Seq(S)
  BY AlphabetAssumption DEF Inv, LexerOK, ListsRead
<1>. HIDE DEF S
<1>2. Append(consumed, token_iter) \in Seq(S) BY <1>1, AppendProperties
<1>3. Taken \in Seq(S) BY <1>1, <1>2 DEF Taken
<1> QED BY <1>3 DEF S

(* ListsRead in the next state, from the frame that is then on top.        *)
LEMMA ReadNext ==
  ASSUME NEW g, state_stack'[Len(state_stack')] = g, Seconds(state_stack'),
         consumed' \in Seq(Token \cup {EndOfText}), pc' # "handle_complete",
         ReadAt(g, consumed', declaration')
  PROVE  ListsRead'
<1>1. Top' = g BY DEF Top, Depth
<1>2. ReadAt(Top, consumed, declaration)' BY <1>1
<1>3. Seconds(state_stack)' OBVIOUS
<1> QED BY <1>2, <1>3 DEF ListsRead

LEMMA CompleteNext ==
  ASSUME NEW g, state_stack'[Len(state_stack')] = g, Seconds(state_stack'),
         consumed' \in Seq(Token \cup {EndOfText}), pc' = "handle_complete",
         ReadBelow(g, consumed', Taken', declaration'),
         NodeRead(node', consumed', declaration')
  PROVE  ListsRead'
<1>1. Top' = g BY DEF Top, Depth
<1>2. ReadBelow(Top, consumed, Taken, declaration)' BY <1>1
<1>3. NodeRead(node, consumed, declaration)' OBVIOUS
<1>4. Seconds(state_stack)' OBVIOUS
<1> QED BY <1>2, <1>3, <1>4 DEF ListsRead

LEMMA WithTopSeconds ==
  ASSUME Inv, ListsRead, NEW g, IsFrame(g), g.state = Top.state
  PROVE  Seconds(WithTop(g)) /\ WithTop(g)[Len(WithTop(g))] = g
<1>. DEFINE u == [state_stack EXCEPT ![Len(state_stack)] = g]
<1>1. IsStack(state_stack) /\ Seconds(state_stack) BY DEF Inv, ListsRead
<1>2. g.state = state_stack[Len(state_stack)].state BY TopFrame
<1>3. Seconds(u) /\ u[Len(u)] = g BY <1>1, <1>2, SecondsReplaced
<1>4. WithTop(g) = u BY TopFrame
<1>. HIDE DEF u
<1> QED BY <1>3, <1>4

LEMMA StayReads ==
  ASSUME Inv, ListsRead, NEW r, Sound(Top, CurrentToken, r), r.act = "stay",
         NEW e, e = Build(declaration, r.calls, CurrentToken), NEW u,
         u \in Seq(Token \cup {EndOfText}),
         Reads(Top, consumed, u, declaration, CurrentToken, r),
         state_stack' = WithTop(r.frame), declaration' = e, consumed' = u,
         pc' # "handle_complete"
  PROVE  ListsRead'
<1>. DEFINE v == WithTop(r.frame)
<1>1. IsFrame(r.frame) /\ r.frame.state = Top.state BY DEF Sound, Replaces
<1>2. ReadAt(r.frame, u, e) BY DEF Reads
<1>3. Seconds(v) /\ v[Len(v)] = r.frame BY <1>1, WithTopSeconds
<1>4. state_stack' = v OBVIOUS
<1>. HIDE DEF v
<1> QED BY <1>2, <1>3, <1>4, ReadNext

LEMMA PushReads ==
  ASSUME Inv, ListsRead, NEW r, Sound(Top, CurrentToken, r), r.act = "push",
         NEW e, e = Build(declaration, r.calls, CurrentToken), NEW u,
         u \in Seq(Token \cup {EndOfText}),
         Reads(Top, consumed, u, declaration, CurrentToken, r),
         state_stack' = Append(WithTop(r.frame), r.child), declaration' = e, consumed' = u,
         pc' # "handle_complete"
  PROVE  ListsRead'
<1>. DEFINE v == WithTop(r.frame)
            w == Append(v, r.child)
<1>1. IsFrame(r.frame) /\ r.frame.state = Top.state /\ Pushes(Top, r.child)
  BY DEF Sound, Replaces
<1>2. ReadAt(r.child, u, e) /\ Second(r.frame, r.child) BY DEF Reads
<1>3. IsStack(v) BY StackSteps
<1>4. Pushes(r.frame, r.child) BY <1>1 DEF Pushes
<1>5. state_stack' = w OBVIOUS
<1>6. Seconds(v) /\ v[Len(v)] = r.frame BY <1>1, WithTopSeconds
<1>. HIDE DEF v
<1>7. Seconds(w) /\ w[Len(w)] = r.child BY <1>2, <1>3, <1>4, <1>6, SecondsPushed
<1>. HIDE DEF w
<1> QED BY <1>2, <1>5, <1>7, ReadNext

LEMMA PopReads ==
  ASSUME Inv, Promised, ListsRead, NEW r, Sound(Top, CurrentToken, r), Proper(Top, r),
         Advances(Top, declaration, CurrentToken, r), r.act = "complete",
         NEW e, e = Build(declaration, r.calls, CurrentToken), NEW u,
         u \in Seq(Token \cup {EndOfText}), consumed \in Seq(Token \cup {EndOfText}),
         Reads(Top, consumed, u, declaration, CurrentToken, r),
         state_stack' = Below, declaration' = e, node' = r.node, pc' = "handle_complete",
         consumed' = consumed, Taken' = u
  PROVE  ListsRead'
<1>. DEFINE b == Below[Len(Below)]
<1>1. Link(b, Top) /\ Top.state \in MayPush(b.state) BY ResultSettles DEF Promised
<1>2. Top.state # "module_scope" BY DEF Sound
<1>3. IsStack(state_stack) /\ Seconds(state_stack) BY DEF Inv, ListsRead
<1>4. Seconds(Below) /\ Second(b, Top) BY <1>2, <1>3, TopFrame, SecondsPopped
<1>5. state_stack'[Len(state_stack')] = b OBVIOUS
<1>. HIDE DEF b
<1>6. NodeRead(r.node, consumed, e) /\ ReadBelow(b, consumed, u, e) BY <1>1, <1>4 DEF Reads
<1>7. ReadBelow(b, consumed', Taken', declaration') /\ NodeRead(node', consumed', declaration')
  BY <1>6
<1>8. Seconds(state_stack') BY <1>4
<1> QED BY <1>5, <1>7, <1>8, CompleteNext

(* A step that leaves the stack, the declaration and the history alone.    *)
LEMMA SameReads ==
  ASSUME ListsRead, UNCHANGED <<state_stack, declaration>>, consumed' = consumed,
         pc' # "handle_complete",
         pc' \in {"collect_trivia", "process", "eof"} =>
           pc \in {"collect_trivia", "process", "eof"}
  PROVE  ListsRead'
<1>1. Seconds(state_stack)' BY DEF ListsRead
<1>2. Top' = Top BY DEF Top, Depth
<1>3. pc' \in {"collect_trivia", "process", "eof"} => ReadAt(Top, consumed, declaration)'
  BY <1>2 DEF ListsRead
<1> QED BY <1>1, <1>3 DEF ListsRead

LEMMA InitListsRead == TranscriptInit => ListsRead
<1>. SUFFICES ASSUME TranscriptInit PROVE ListsRead
  OBVIOUS
<1>. DEFINE g == Frame("module_scope", {})
            s == <<g>>
<1>1. state_stack = s /\ consumed = <<>> /\ pc = "collect_trivia"
  BY DEF TranscriptInit, Init
<1>2. g.state = "module_scope" BY FrameFields
<1>3. Len(s) = 1 /\ s[1] = g OBVIOUS
<1>. HIDE DEF g, s
<1>4. Seconds(state_stack)
  <2>1. 1 .. Len(s) - 1 = {} BY <1>3
  <2> QED BY <1>1, <2>1 DEF Seconds
<1>5. Top = g BY <1>1, <1>3 DEF Top, Depth
<1>6. g.state \notin Reader
  BY <1>2 DEF Reader, ImportStateName, SpecifierStateName, SpecifierListName
<1>7. ReadAt(Top, consumed, declaration) BY <1>5, <1>6, Unread
<1> QED BY <1>1, <1>4, <1>7 DEF ListsRead

LEMMA CollectReads ==
  ASSUME Inv, ListsRead, Observe, CollectTrivia \/ CollectDone PROVE ListsRead'
<1>1. /\ UNCHANGED <<state_stack, declaration>>
      /\ pc = "collect_trivia" /\ pc' \in {"collect_trivia", "process"}
  BY DEF CollectTrivia, CollectDone
<1>2. CASE CollectTrivia
  <2>1. MoveIterator /\ token_iter \in Trivia BY <1>2 DEF CollectTrivia
  <2> QED BY <1>1, <2>1, TriviaConsumed, SameReads DEF Inv
<1>3. CASE CollectDone
  <2>1. UNCHANGED lexer_vars BY <1>3 DEF CollectDone
  <2> QED BY <1>1, <2>1, QuietConsumed, SameReads
<1> QED BY <1>2, <1>3

LEMMA ProcessStepReads ==
  ASSUME Inv, Promised, Accounted, ListsRead, Observe, ProcessStay \/ ProcessPush
  PROVE  ListsRead'
<1>. DEFINE r == Processed
            u == Seen(consumed, CurrentToken, Processed)
<1>1. /\ pc = "process" /\ ~AtTokenEnd /\ declaration' = Built /\ Continue(Processed)
      /\ \/ r.act = "stay" /\ state_stack' = WithTop(r.frame)
         \/ r.act = "push" /\ state_stack' = Append(WithTop(r.frame), r.child)
  BY DEF ProcessStay, ProcessPush, Processing
<1>2. pc' # "handle_complete" BY <1>1 DEF Continue
<1>3. Sound(Top, CurrentToken, r) BY TopFrame
<1>4. Built = Build(declaration, r.calls, CurrentToken) BY DEF Built
<1>5. consumed' = u BY <1>1, ContinueConsumed
<1>6. u \in Seq(Token \cup {EndOfText}) BY SeenIsRead
<1>7. Reads(Top, consumed, u, declaration, CurrentToken, r) BY <1>1, ResultsRead
<1>. HIDE DEF r, u
<1>8. CASE r.act = "stay" /\ state_stack' = WithTop(r.frame)
  BY <1>1, <1>2, <1>3, <1>4, <1>5, <1>6, <1>7, <1>8, StayReads
<1>9. CASE r.act = "push" /\ state_stack' = Append(WithTop(r.frame), r.child)
  BY <1>1, <1>2, <1>3, <1>4, <1>5, <1>6, <1>7, <1>9, PushReads
<1> QED BY <1>1, <1>8, <1>9

LEMMA ProcessCompleteReads ==
  ASSUME Inv, Promised, Accounted, ListsRead, Observe, ProcessComplete PROVE ListsRead'
<1>. DEFINE r == Processed
            u == Seen(consumed, CurrentToken, Processed)
<1>1. /\ pc = "process" /\ r.act = "complete" /\ state_stack' = Below /\ declaration' = Built
      /\ node' = r.node /\ pc' = "handle_complete"
  BY DEF ProcessComplete, Processing
<1>2. Sound(Top, CurrentToken, r) /\ Proper(Top, r)
      /\ Advances(Top, declaration, CurrentToken, r)
  BY <1>1, TopFrame, ResultsRight
<1>3. Built = Build(declaration, r.calls, CurrentToken) BY DEF Built
<1>4. consumed' = consumed /\ Taken' = u BY CompleteTaken
<1>5. u \in Seq(Token \cup {EndOfText}) /\ consumed \in Seq(Token \cup {EndOfText})
  BY SeenIsRead DEF ListsRead
<1>6. Reads(Top, consumed, u, declaration, CurrentToken, r) BY <1>1, ResultsRead
<1>. HIDE DEF r, u
<1> QED BY <1>1, <1>2, <1>3, <1>4, <1>5, <1>6, PopReads

LEMMA AcceptStepReads ==
  ASSUME Inv, Promised, Accounted, ListsRead, Observe, AcceptStay \/ AcceptComplete
  PROVE  ListsRead'
<1>. DEFINE r == Accepted
<1>1. /\ pc = "handle_complete" /\ declaration' = Stored
      /\ \/ AcceptStay /\ r.act = "stay" /\ state_stack' = WithTop(r.frame)
            /\ pc' # "handle_complete"
         \/ AcceptComplete /\ r.act = "complete" /\ state_stack' = Below
            /\ node' = r.node /\ pc' = "handle_complete"
  BY DEF AcceptStay, AcceptComplete, Accepting
<1>2. Sound(Top, CurrentToken, r) /\ Proper(Top, r)
      /\ Advances(Top, declaration, CurrentToken, r)
  BY <1>1, TopFrame, ResultsRight
<1>3. Stored = Build(declaration, r.calls, CurrentToken) BY DEF Stored
<1>4. Taken \in Seq(Token \cup {EndOfText}) /\ consumed \in Seq(Token \cup {EndOfText})
  BY TakenIsRead DEF ListsRead
<1>5. Reads(Top, consumed, Taken, declaration, CurrentToken, r) BY <1>1, ResultsRead
<1>. HIDE DEF r
<1>6. CASE /\ AcceptStay /\ r.act = "stay" /\ state_stack' = WithTop(r.frame)
           /\ pc' # "handle_complete"
  <2>1. consumed' = Taken BY <1>6, StayConsumed
  <2> QED BY <1>1, <1>2, <1>3, <1>4, <1>5, <1>6, <2>1, StayReads
<1>7. CASE /\ AcceptComplete /\ r.act = "complete" /\ state_stack' = Below
           /\ node' = r.node /\ pc' = "handle_complete"
  <2>1. consumed' = consumed /\ Taken' = Taken BY <1>7, AcceptTaken
  <2> QED BY <1>1, <1>2, <1>3, <1>4, <1>5, <1>7, <2>1, PopReads
<1> QED BY <1>1, <1>6, <1>7

LEMMA EofStepReads ==
  ASSUME Inv, Promised, Accounted, ListsRead, Observe, EofComplete PROVE ListsRead'
<1>. DEFINE r == OnEof(Top)
<1>1. /\ pc = "eof" /\ r.act = "complete" /\ state_stack' = Below
      /\ declaration' = declaration /\ node' = r.node /\ pc' = "handle_complete"
  BY DEF EofComplete
<1>2. Sound(Top, CurrentToken, r) /\ Proper(Top, r)
      /\ Advances(Top, declaration, CurrentToken, r)
  BY <1>1, TopFrame, ResultsRight
<1>3. declaration = Build(declaration, r.calls, CurrentToken) BY EofSilent, BuildNone
<1>4. consumed' = consumed /\ Taken' = consumed BY EofTaken
<1>5. consumed \in Seq(Token \cup {EndOfText}) BY DEF ListsRead
<1>6. Reads(Top, consumed, consumed, declaration, CurrentToken, r) BY <1>1, ResultsRead
<1>. HIDE DEF r
<1> QED BY <1>1, <1>2, <1>3, <1>4, <1>5, <1>6, PopReads

LEMMA QuietReads ==
  ASSUME ListsRead, Observe,
         \/ ProcessThrow \/ EndOfTokens \/ AcceptThrow \/ FlushThrow \/ EofThrow \/ Return
  PROVE  ListsRead'
<1>1. /\ UNCHANGED lexer_vars /\ UNCHANGED <<state_stack, declaration>>
      /\ pc' \in {"thrown", "returned", "eof"} /\ (pc' = "eof" => pc = "process")
  BY DEF ProcessThrow, EndOfTokens, AcceptThrow, FlushThrow, EofThrow, Return, Raise
<1> QED BY <1>1, QuietConsumed, SameReads

LEMMA StutterReads ==
  ListsRead /\ (UNCHANGED <<vars, history>> \/ (Terminated /\ Observe)) => ListsRead'
<1>. SUFFICES ASSUME ListsRead,
                     UNCHANGED <<vars, history>> \/ (Terminated /\ Observe)
              PROVE  ListsRead'
  OBVIOUS
<1>1. UNCHANGED vars /\ consumed' = consumed
  <2>1. CASE UNCHANGED <<vars, history>> BY <2>1 DEF history
  <2>2. CASE Terminated /\ Observe
    BY <2>2, QuietConsumed DEF Terminated, vars, lexer_vars
  <2> QED BY <2>1, <2>2
<1>2. /\ pc' = pc /\ resume' = resume /\ synthetic_newline' = synthetic_newline
      /\ token_iter' = token_iter /\ node' = node /\ declaration' = declaration
      /\ state_stack' = state_stack
  BY <1>1 DEF vars
<1>3. Top' = Top /\ Taken' = Taken /\ Seconds(state_stack)' = Seconds(state_stack)
  BY <1>1, <1>2 DEF Top, Depth, Taken
<1> QED BY <1>1, <1>2, <1>3 DEF ListsRead

LEMMA NextListsRead ==
  Inv /\ Promised /\ Accounted /\ ListsRead /\ [TranscriptNext]_<<vars, history>> => ListsRead'
BY CollectReads, ProcessStepReads, ProcessCompleteReads, AcceptStepReads, EofStepReads,
   QuietReads, StutterReads
   DEF TranscriptNext, Next

LEMMA ListsReadSuffices == ListsRead => SpecifiersAsWritten
BY DEF ListsRead, NodeRead, NamedWhole, SpecifiersAsWritten

(* Whatever the text, when an import with named bindings or a named export *)
(* is delivered, the specifiers it carries are those that the tokens       *)
(* between its braces spell: each item of the list has been stored exactly *)
(* once, in the order of the text, with its name, type modifier and alias. *)
THEOREM SpecifiersAreAsWritten == TranscriptSpec => []SpecifiersAsWritten
<1>1. TranscriptInit => Promised /\ Accounted /\ ListsRead
  BY InitPromised, InitAccounted, InitListsRead DEF TranscriptInit
<1>2. Inv /\ Promised /\ Accounted /\ [TranscriptNext]_<<vars, history>> => Accounted'
  BY NextAccounted
<1>3. Inv /\ Promised /\ [TranscriptNext]_<<vars, history>> => Promised'
  BY NextPromised DEF TranscriptNext
<1>4. Inv /\ Promised /\ Accounted /\ ListsRead /\ [TranscriptNext]_<<vars, history>> => ListsRead'
  BY NextListsRead
<1>5. ListsRead => SpecifiersAsWritten BY ListsReadSuffices
<1> QED BY <1>1, <1>2, <1>3, <1>4, <1>5, TranscriptInvariance, PTL DEF TranscriptSpec
===========================================================================
