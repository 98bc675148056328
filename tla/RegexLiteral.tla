---------------------------- MODULE RegexLiteral ----------------------------
(***************************************************************************)
(* A regular expression literal on its way through the lexer: its body and *)
(* flags are looked ahead (lexer::try_scan_regex), the body is scanned     *)
(* into a tree, and the token prints itself (regex_token::to_string).  The *)
(* printed text then takes the same way again.                             *)
(***************************************************************************)
EXTENDS RegexPrinter

CONSTANTS
  Literals, \* the texts behind the slash that opens a literal
  Versions  \* the versions of the language, numbered as in language_version

ASSUME VersionsAssumption == Versions \subseteq Nat

VARIABLES
  text,    \* the text, the opening slash included
  vers,    \* vers_
  pc,      \* what is looked at: "body", "flags", "pattern", or "end"
  skip,    \* total_skip
  wbuffer, \* the body
  flags,   \* the flags so far
  token,   \* what try_scan_regex ended with
  first    \* what it ended with the first time

lexerVars == <<text, vers, pc, skip, wbuffer, flags, token, first>>
vars == <<lexerVars, scannerVars>>

es2015 == 2
es2018 == 5
es_next == 99

None == [kind |-> "none"]
NotRegex == [kind |-> "not_regex"]
Error(code) == [kind |-> code]
Regex(d, f) == [kind |-> "regex_token", disjunction |-> d, flags |-> f]

Init ==
  /\ \E literal \in Literals : text = <<"/">> \o literal
  /\ vers \in Versions
  /\ pc = "body" /\ skip = 1 /\ wbuffer = <<>> /\ flags = {}
  /\ token = None /\ first = None
  /\ input = <<>> /\ pos = 1 /\ frames = <<>> /\ class = NoClass /\ outcome = None

(* next_code_point(first, total_skip).                                     *)
Ahead(i) == IF i + 1 <= Len(text) THEN text[i + 1] ELSE Eof

End(t) == pc' = "end" /\ token' = t /\ UNCHANGED <<text, vers, skip, wbuffer, flags, first>>

(* One iteration of the loop over the body.                                *)
ScanBody ==
  /\ pc = "body" /\ UNCHANGED scannerVars
  /\ LET c == Ahead(skip)
     IN  CASE c \in {Eof, "CR", "LF"} \/ (c = "\\" /\ Ahead(skip + 1) = Eof) -> End(NotRegex)
           [] c = "/" -> /\ pc' = "flags" /\ skip' = skip + 1
                         /\ UNCHANGED <<text, vers, wbuffer, flags, token, first>>
           [] c = "\\" /\ Ahead(skip + 1) # Eof ->
                /\ wbuffer' = wbuffer \o <<c, Ahead(skip + 1)>> /\ skip' = skip + 2
                /\ UNCHANGED <<text, vers, pc, flags, token, first>>
           [] OTHER -> /\ wbuffer' = Append(wbuffer, c) /\ skip' = skip + 1
                       /\ UNCHANGED <<text, vers, pc, flags, token, first>>

(* The letters of the flags, in the order that to_string writes them.      *)
FlagOrder == <<"i", "g", "m", "s", "u", "v", "y">>
Flag == {"i", "g", "m", "s", "u", "v", "y"}
Since(flag) == CASE flag = "s" -> es2018
                 [] flag \in {"u", "y"} -> es2015
                 [] flag = "v" -> es_next
                 [] OTHER -> 0

Alpha == {c \in Character : Code[c] \in Code["A"]..Code["Z"] \cup Code["a"]..Code["z"]}

(* One iteration of the loop over the flags.                               *)
ScanFlag ==
  /\ pc = "flags" /\ UNCHANGED scannerVars
  /\ LET c == Ahead(skip)
     IN  CASE c \in Flag /\ vers < Since(c) -> End(Error("regex_flag_unavailable"))
           [] c \in Flag /\ vers >= Since(c) /\ c = "v" /\ "u" \in flags ->
                End(Error("conflicting_regex_flags"))
           [] c \in flags /\ vers >= Since(c) /\ ~ (c = "v" /\ "u" \in flags) ->
                End(Error("duplicate_regex_flag"))
           [] c \in Flag \ flags /\ vers >= Since(c) /\ c = "u" /\ "v" \in flags ->
                End(Error("conflicting_regex_flags"))
           [] c \in Flag \ flags /\ vers >= Since(c) /\ ~ ({"u", "v"} \subseteq {c} \cup flags) ->
                /\ flags' = flags \cup {c} /\ skip' = skip + 1
                /\ UNCHANGED <<text, vers, pc, wbuffer, token, first>>
           [] c \in Alpha \ Flag -> End(Error("unknown_regex_flag"))
           [] c \in DecimalDigit -> End(NotRegex)
           [] OTHER -> FALSE

(* The first character that is no flag: the body is handed to the scanner. *)
EndFlags ==
  /\ pc = "flags" /\ Ahead(skip) \notin Alpha \cup DecimalDigit
  /\ StartScan(wbuffer)
  /\ pc' = "pattern"
  /\ UNCHANGED <<text, vers, skip, wbuffer, flags, token, first>>

ScanPattern == pc = "pattern" /\ ScanStep /\ UNCHANGED lexerVars

EmplaceToken ==
  /\ pc = "pattern" /\ ~ Scanning
  /\ End(IF outcome.kind \in ErrorCode THEN Error(outcome.kind)
                                        ELSE Regex(outcome.disjunction, flags))
  /\ UNCHANGED scannerVars

(* regex_token::to_string.                                                 *)
ToText(t) ==
  <<"/">> \o DisjunctionToString(t.disjunction) \o <<"/">>
    \o SelectSeq(FlagOrder, LAMBDA f : f \in t.flags)

(* The lexer takes //, /* and /= for other things than a literal.          *)
Reread ==
  /\ pc = "end" /\ token.kind = "regex_token" /\ first = None
  /\ first' = token /\ text' = ToText(token)
  /\ IF text'[2] \in {"/", "*", "="}
     THEN pc' = "end" /\ token' = NotRegex
     ELSE pc' = "body" /\ token' = None
  /\ skip' = 1 /\ wbuffer' = <<>> /\ flags' = {}
  /\ UNCHANGED <<vers, scannerVars>>

Done == pc = "end" /\ (token.kind # "regex_token" \/ first # None) /\ UNCHANGED vars

Next == ScanBody \/ ScanFlag \/ EndFlags \/ ScanPattern \/ EmplaceToken \/ Reread \/ Done

(* try_scan_regex and to_string run without waiting for anything.          *)
Spec == Init /\ [][Next]_vars /\ WF_vars(Next)

---------------------------------------------------------------------------

(* What a literal that begins like this one has open behind a prefix of    *)
(* its body: a reading of parentheses and brackets without a tree.         *)
Unread == [mode |-> "out", escaped |-> FALSE, depth |-> 0, groups |-> 0, classes |-> 0, stop |-> 0]

After(r, i) ==
  LET c == wbuffer[i]
      Opens(k) == i + k <= Len(wbuffer) /\ wbuffer[i + k] \in {"=", "!"}
      named == i + 2 <= Len(wbuffer) /\ SubSeq(wbuffer, i + 1, i + 2) = <<"?", "<">> /\ ~ Opens(3)
  IN  CASE r.stop # 0 -> r
        [] r.mode = "name" -> [r EXCEPT !.mode = IF c = ">" THEN "out" ELSE "name"]
        [] r.mode # "name" /\ r.escaped -> [r EXCEPT !.escaped = FALSE]
        [] r.mode # "name" /\ c = "\\" -> [r EXCEPT !.escaped = TRUE]
        [] r.mode = "in" /\ c = "]" -> [r EXCEPT !.mode = "out"]
        [] r.mode = "out" /\ c = "[" -> [r EXCEPT !.mode = "in", !.classes = @ + 1]
        [] r.mode = "out" /\ c = "(" -> [r EXCEPT !.depth = @ + 1, !.groups = @ + 1,
                                                  !.mode = IF named THEN "name" ELSE "out"]
        [] r.mode = "out" /\ c = ")" /\ r.depth = 0 -> [r EXCEPT !.stop = i]
        [] r.mode = "out" /\ c = ")" -> [r EXCEPT !.depth = @ - 1]
        [] OTHER -> r

Outline == FoldLeftDomain(After, Unread, wbuffer)

(* A body that is accepted was read to its end or to the first parenthesis *)
(* that closes nothing, and its tree has a group for each parenthesis that *)
(* opens and a class for each bracket that opens, those behind a backslash *)
(* or inside a class not counted (scan, scan_group, scan_character_class). *)
OutlineAgrees ==
  (pc = "pattern" /\ outcome.kind = "accepted") =>
    LET atoms == Atoms(outcome.disjunction)
        of(kind) == Len(SelectSeq(atoms, LAMBDA a : a.kind = kind))
    IN  /\ pos = IF Outline.stop = 0 THEN Len(wbuffer) + 1 ELSE Outline.stop
        /\ of("group") = Outline.groups /\ of("class") = Outline.classes
        /\ Outline.mode = "out" /\ (Outline.stop = 0 => Outline.depth = 0)

(* string_size is what to_string writes, but for ten characters too many   *)
(* for each group that is neither named nor special, and one for each dot. *)
SizeIsExact ==
  (pc = "end" /\ token.kind = "regex_token") =>
    LET atoms   == Atoms(token.disjunction)
        plain(a) == a.kind = "group" /\ a.type = "capturing" /\ a.name = <<>>
        dot(a)   == a.kind = "builtin" /\ a.builtin = "."
    IN  DisjunctionStringSize(token.disjunction) =
          Len(DisjunctionToString(token.disjunction))
            + 10 * Len(SelectSeq(atoms, plain)) + Len(SelectSeq(atoms, dot))

(* What is lost when a token is printed: a class that is not negated and   *)
(* whose first character is ^ looks negated, a slash in a class ends the   *)
(* literal, and an empty pattern or one that begins with = is no literal.  *)
Readable(t) ==
  LET classes == SelectSeq(Atoms(t.disjunction), LAMBDA a : a.kind = "class")
  IN  /\ ToText(t)[2] \notin {"/", "="}
      /\ \A i \in DOMAIN classes :
           LET printed == CharacterClassToString(classes[i])
           IN  printed[2] = "^" => classes[i].negated
      /\ \A i \in DOMAIN classes :
           \A j \in DOMAIN CharacterClassToString(classes[i]) :
             CharacterClassToString(classes[i])[j] # "/"

(* A token's text, put before the lexer again, gives the same token,       *)
(* exactly if it is Readable.  Which of the two kinds a lookbehind is,     *)
(* nothing is said of.                                                     *)
AsUnsided(t) == [t EXCEPT !.disjunction = Unsided(@)]
ReadsBack ==
  (pc = "end" /\ first # None) =>
    (Readable(first) <=> token.kind = first.kind /\ AsUnsided(token) = AsUnsided(first))

(* Every literal is scanned to a token, to none, or to an exception, and   *)
(* what a token printed is as well: no loop of the lexer or of the regular *)
(* expression scanner stays where it is.                                   *)
LiteralsEnd == <>[](pc = "end")
=============================================================================
