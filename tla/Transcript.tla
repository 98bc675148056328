----------------------------- MODULE Transcript -----------------------------
(***************************************************************************)
(* The parser with a history of what it has taken from the text, so that   *)
(* what it accepted can be compared with a grammar.  The variables only    *)
(* observe: they occur in no guard.                                        *)
(***************************************************************************)
EXTENDS ParserSafety, SequencesExt

VARIABLES
  consumed,   \* the tokens of the text, trivia apart, that are behind token_iter
  line_start  \* whether a line break precedes token_iter

history == <<consumed, line_start>>

(* The iterator has left its token, or has stayed where it is.             *)
Observe ==
  IF tokens_read' = tokens_read /\ token_iter' = token_iter THEN UNCHANGED history
  ELSE IF token_iter \in Trivia
  THEN /\ line_start' = (line_start \/ token_iter \in LineBreak)
       /\ UNCHANGED consumed
  ELSE /\ consumed' = Append(consumed, token_iter)
       /\ line_start' = FALSE

TranscriptInit == Init /\ consumed = <<>> /\ line_start = FALSE
TranscriptNext == Next /\ Observe
TranscriptSpec == TranscriptInit /\ [][TranscriptNext]_<<vars, history>>

(* A newline is put before a token only where the text has a line break,   *)
(* and never before the end of the text: what a state remembers and gives  *)
(* back (multiline_state) is not presented a second time, nor later.       *)
NewlineNotInvented ==
  pc # "collect_trivia" /\ synthetic_newline =>
    line_start /\ token_iter \notin Trivia \cup {EndOfText}

---------------------------------------------------------------------------
(* What the specifiers between the braces of a named import or export      *)
(* mean, read off the tokens of the text.                                  *)

Marker == {"import", "export"}

(* The braces of the last import or export of s open at open.              *)
OpensAt(s, open) ==
  \E from \in 1 .. open - 1 :
    /\ s[from] \in Marker /\ \A j \in from + 1 .. Len(s) : s[j] \notin Marker
    /\ s[open] = "open_brace" /\ \A j \in from + 1 .. open - 1 : s[j] # "open_brace"

(* Where the items of a list start that stands between open and close, and *)
(* where the item that starts at i ends: a trailing comma starts none.     *)
StartsAt(s, open, i) == i = open + 1 \/ s[i - 1] = "comma"
Starts(s, open, close) == {i \in open + 1 .. close - 1 : StartsAt(s, open, i)}
EndsAt(s, close, i, end) ==
  (end = close \/ s[end] = "comma") /\ \A j \in i .. end - 1 : s[j] # "comma"

(* The specifier that the tokens from i up to end spell: [type] name, then *)
(* [as alias].                                                             *)
Spelled(s, i, end) ==
  LET n == IF end - i \in {2, 4} THEN i + 1 ELSE i
  IN  [name |-> Normalize(s[n]),
       type_keyword |-> IF n > i THEN s[i] ELSE "none",
       alias |-> IF end - n = 3 THEN Normalize(s[n + 2]) ELSE "none"]

(* Each item between open and close is spelled by one of the specifiers,   *)
(* in the order of the text.                                               *)
ItemsAre(s, open, close, specifiers) ==
  /\ \A j \in open + 1 .. close - 1 : s[j] # "close_brace"
  /\ \E at \in [1 .. Len(specifiers) -> Starts(s, open, close)] :
       /\ \A i \in Starts(s, open, close) : \E k \in 1 .. Len(specifiers) : at[k] = i
       /\ \A k, l \in 1 .. Len(specifiers) : k < l => at[k] < at[l]
       /\ \A k \in 1 .. Len(specifiers) : \E end \in at[k] + 1 .. close :
            EndsAt(s, close, at[k], end) /\ specifiers[k] = Spelled(s, at[k], end)

Whole(s, specifiers) ==
  \E open, close \in 1 .. Len(s) :
    /\ OpensAt(s, open) /\ open < close /\ s[close] = "close_brace"
    /\ ItemsAre(s, open, close, specifiers)

(* When an import with named bindings or a named export is delivered, each *)
(* item between its braces has been stored exactly once, in order, with    *)
(* the name, modifier and alias that its tokens spell, whatever names the  *)
(* items use.                                                              *)
SpecifiersAsWritten ==
  /\ pc = "handle_complete"
  /\ node.kind = "named_export" \/ (node.kind = "import" /\ "named" \in declaration.has)
  => Whole(consumed, declaration.specifiers)

---------------------------------------------------------------------------
(* Languages: sets of sentences over Alphabet, of at most n tokens.  A     *)
(* bound variable that ranges over {e} has TLC evaluate e once.            *)

Word(t) == IF t \in Alphabet THEN {<<t>>} ELSE {}
AnyOf(T) == {<<t>> : t \in T \cap Alphabet}
Optional(A) == A \cup {<<>>}
PrefixesOf(S) == UNION {Prefixes(s) : s \in S}

Then(A, B, n) ==
  UNION {{a \o b : b \in {c \in tails : Len(a) + Len(c) <= n}} : a \in A, tails \in {B}}

(* The concatenation of a sequence of languages.                           *)
All(parts, n) ==
  UNION {FoldRight(LAMBDA part, rest : Then(part, rest, n), p, {<<>>}) : p \in {parts}}

(* item (separator item)*; no list has more items than fit in n tokens.    *)
LOCAL Lists(items, separator, n) ==
  LET UpToItems[k \in 0 .. n] ==
        IF k = 0 THEN {} ELSE items \cup All(<<items, separator, UpToItems[k - 1]>>, n)
  IN  UpToItems[n \div Min({Len(s) : s \in items})]

List(item, separator, n) == UNION {Lists(items, separator, n) : items \in {item} \ {{}}}

Star(item, n) == Optional(List(item, {<<>>}, n))

---------------------------------------------------------------------------

StatementStart == {"import", "export", "type", "declare", "namespace", "module"}

(* A statement that is complete at the end of its line is not found at     *)
(* fault with the statement on the next line.                              *)
EndsAtLineBreak(texts) ==
  pc = "thrown" /\ line_start /\ token_iter \in StatementStart => consumed \notin texts

(* A parse that returns has read a text of the language, and one that      *)
(* throws at a token does so where no text of the language goes on with    *)
(* that token (texts and prefixes are those of the language).              *)
Agrees(texts, prefixes) ==
  /\ pc = "returned" => consumed \in texts
  /\ pc = "thrown" =>
       IF token_iter = EndOfText THEN consumed \notin texts
       ELSE Append(consumed, token_iter) \notin prefixes
===========================================================================
