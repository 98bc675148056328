----------------------------- MODULE Spellings -----------------------------
(***************************************************************************)
(* lexer::scan over words and punctuation: which token each of them is.    *)
(* A text is a sequence of punctuation characters, blanks, line breaks and *)
(* whole words (two words never touch); a token is its class.  Templates   *)
(* and elements are not under way, so braces are tokens of their own, and  *)
(* `<` stands before nothing that an element may begin with.               *)
(***************************************************************************)
EXTENDS Naturals, SequencesExt, TLC

CONSTANTS
  Scripts,   \* the texts
  Versions   \* the language versions they are read in

VARIABLES
  script,            \* the text
  vers,              \* vers_
  place,             \* how much of it was advanced over
  pnewline,          \* pnewline_
  force_identifier,  \* force_identifier_
  resets,            \* whether the end of this call writes force_identifier_
  spelled,           \* the tokens that were returned
  misplaced          \* whether invalid_character was thrown

spellingVars == <<script, vers, place, pnewline, force_identifier, resets, spelled, misplaced>>

---------------------------------------------------------------------------
(* The words that are keywords, with the first version in which they are.  *)

es3 == 0
es5 == 1
es2015 == 2
es2022 == 9

Since(version, words) == [w \in words |-> version]

KeywordsToFinally ==
  Since(es3, {"abstract", "accessor", "any", "as", "asserts", "assert", "bigint", "boolean",
              "break", "case", "catch", "continue", "constructor", "debugger", "declare",
              "delete", "do", "else", "enum", "false", "finally"})
    @@ Since(es2015, {"async", "await", "class", "const", "default", "export", "extends"})

KeywordsToPublic ==
  Since(es3, {"for", "function", "global", "if", "implements", "in", "infer", "instanceof",
              "interface", "intrinsic", "is", "keyof", "module", "namespace", "never", "new",
              "null", "number", "object", "package", "private", "protected", "public"})
    @@ Since(es5, {"get"}) @@ Since(es2015, {"from", "import", "let", "of"})

KeywordsToYield ==
  Since(es3, {"override", "out", "readonly", "require", "return", "satisfies", "string",
              "switch", "this", "throw", "true", "try", "type", "typeof", "undefined",
              "unique", "unknown", "var", "void", "while", "with"})
    @@ Since(es5, {"set"}) @@ Since(es2015, {"static", "super", "symbol", "yield"})
    @@ Since(es2022, {"using"})

keyword_lookup == KeywordsToFinally @@ KeywordsToPublic @@ KeywordsToYield
ScriptWord == DOMAIN keyword_lookup \cup {"name"}

---------------------------------------------------------------------------
(* What each character may begin: the tokens in the order in which scan()  *)
(* comes to them, and the characters it has seen by then.                  *)

ExclamationTokens ==
  <<<<"exclamation_eq_eq", <<"!", "=", "=">>>>, <<"exclamation_eq", <<"!", "=">>>>,
    <<"exclamation", <<"!">>>>>>
PercentTokens == <<<<"percent_eq", <<"%", "=">>>>, <<"percent", <<"%">>>>>>
AmpersandTokens ==
  <<<<"ampersand_eq", <<"&", "=">>>>, <<"double_ampersand_eq", <<"&", "&", "=">>>>,
    <<"double_ampersand", <<"&", "&">>>>, <<"ampersand", <<"&">>>>>>
ParenthesisTokens == <<<<"open_paren", <<"(">>>>, <<"close_paren", <<")">>>>>>
AsteriskTokens ==
  <<<<"asterisk_eq", <<"*", "=">>>>, <<"double_asterisk_eq", <<"*", "*", "=">>>>,
    <<"double_asterisk", <<"*", "*">>>>, <<"asterisk", <<"*">>>>>>
PlusTokens ==
  <<<<"double_plus", <<"+", "+">>>>, <<"plus_eq", <<"+", "=">>>>, <<"plus", <<"+">>>>>>
CommaTokens == <<<<"comma", <<",">>>>>>
MinusTokens ==
  <<<<"double_minus", <<"-", "-">>>>, <<"minus_eq", <<"-", "=">>>>, <<"minus", <<"-">>>>>>
DotTokens == <<<<"triple_dot", <<".", ".", ".">>>>, <<"dot", <<".">>>>>>
ColonTokens == <<<<"colon", <<":">>>>, <<"semicolon", <<";">>>>>>
LessTokens ==
  <<<<"less_eq", <<"<", "=">>>>, <<"double_less_eq", <<"<", "<", "=">>>>,
    <<"double_less", <<"<", "<">>>>, <<"less", <<"<">>>>>>
EqTokens ==
  <<<<"triple_eq", <<"=", "=", "=">>>>, <<"double_eq", <<"=", "=">>>>,
    <<"eq_greater", <<"=", ">">>>>, <<"eq", <<"=">>>>>>
GreaterTokens ==
  <<<<"greater_eq", <<">", "=">>>>, <<"triple_greater_eq", <<">", ">", ">", "=">>>>,
    <<"triple_greater", <<">", ">", ">">>>>, <<"double_greater_eq", <<">", ">", "=">>>>,
    <<"double_greater", <<">", ">">>>>, <<"greater", <<">">>>>>>
QuestionTokens ==
  <<<<"question_dot", <<"?", ".">>>>, <<"double_question_eq", <<"?", "?", "=">>>>,
    <<"double_question", <<"?", "?">>>>, <<"question", <<"?">>>>>>
BracketTokens == <<<<"open_bracket", <<"[">>>>, <<"close_bracket", <<"]">>>>>>
CaretTokens == <<<<"caret_eq", <<"^", "=">>>>, <<"caret", <<"^">>>>>>
OpenBraceToken == <<<<"open_brace", <<"{">>>>>>
BarTokens ==
  <<<<"bar_eq", <<"|", "=">>>>, <<"double_bar_eq", <<"|", "|", "=">>>>,
    <<"double_bar", <<"|", "|">>>>, <<"bar", <<"|">>>>>>
CloseBraceToken == <<<<"close_brace", <<"}">>>>>>
TildeToken == <<<<"tilde", <<"~">>>>>>

Punctuators ==
  ExclamationTokens \o PercentTokens \o AmpersandTokens \o ParenthesisTokens
    \o AsteriskTokens \o PlusTokens \o CommaTokens \o MinusTokens \o DotTokens
    \o ColonTokens \o LessTokens \o EqTokens \o GreaterTokens \o QuestionTokens
    \o BracketTokens \o CaretTokens \o OpenBraceToken \o BarTokens \o CloseBraceToken
    \o TildeToken

---------------------------------------------------------------------------

SpellingIdle ==
  /\ script = <<>> /\ vers = es3 /\ place = 0 /\ pnewline = FALSE
  /\ force_identifier = FALSE /\ resets = TRUE /\ spelled = <<>> /\ misplaced = FALSE

SpellingInit ==
  /\ script \in Scripts /\ vers \in Versions /\ place = 0 /\ pnewline = FALSE
  /\ force_identifier = FALSE /\ resets = TRUE /\ spelled = <<>> /\ misplaced = FALSE

Symbol(n) == IF place + n < Len(script) THEN script[place + n + 1] ELSE "end of text"
Scanning == place < Len(script) /\ ~ misplaced

(* Mutant: the end of a call does not take back what an earlier one set.   *)
EndCallKeeps(force) ==
  /\ force_identifier' = IF resets THEN force \/ force_identifier ELSE force_identifier
  /\ resets' = TRUE

(* The end of a call: what reset_one_iteration_values does, unless it was  *)
(* told to skip.                                                           *)
EndCall(force) ==
  /\ force_identifier' = IF resets THEN force ELSE force_identifier
  /\ resets' = TRUE

ReturnToken(class, size, force) ==
  /\ spelled' = Append(spelled, [class |-> class, at |-> place, size |-> size])
  /\ place' = place + size
  /\ EndCall(force)
  /\ UNCHANGED <<script, vers, misplaced>>

NewlineToken ==
  /\ Scanning /\ Symbol(0) = "newline" /\ ~ pnewline
  /\ ReturnToken("newline", 1, FALSE) /\ pnewline' = TRUE

NewlineAgain ==
  /\ Scanning /\ Symbol(0) = "newline" /\ pnewline
  /\ place' = place + 1
  /\ UNCHANGED <<script, vers, pnewline, force_identifier, resets, spelled, misplaced>>

SkipBlank ==
  /\ Scanning /\ Symbol(0) = " "
  /\ place' = place + 1 /\ pnewline' = FALSE /\ resets' = FALSE
  /\ UNCHANGED <<script, vers, force_identifier, spelled, misplaced>>

(* `?.` is one token only before a name, or at the end of the text.        *)
Fits(row) ==
  /\ \A k \in DOMAIN row[2] : Symbol(k - 1) = row[2][k]
  /\ row[1] = "question_dot" => Symbol(2) \in ScriptWord \cup {"end of text"}

ScanPunctuator ==
  /\ Scanning
  /\ LET k == SelectInSeq(Punctuators, Fits)
     IN  k > 0 /\ ReturnToken(Punctuators[k][1], Len(Punctuators[k][2]), FALSE)
  /\ pnewline' = FALSE

ScanAt ==
  /\ Scanning /\ Symbol(0) = "@"
  /\ ReturnToken("at", 1, TRUE) /\ pnewline' = FALSE

ScanWord ==
  LET word == Symbol(0)
      keyword == /\ ~ force_identifier /\ word \in DOMAIN keyword_lookup
                 /\ vers >= keyword_lookup[word]
  IN  /\ Scanning /\ word \in ScriptWord
      /\ ReturnToken(IF keyword THEN word ELSE "identifier", 1, FALSE) /\ pnewline' = FALSE

(* A private name is an identifier, whatever its word.                     *)
ScanHash ==
  /\ Scanning /\ Symbol(0) = "#" /\ pnewline' = FALSE
  /\ \/ Symbol(1) \in ScriptWord /\ ReturnToken("identifier", 2, FALSE)
     \/ /\ Symbol(1) \notin ScriptWord /\ misplaced' = TRUE /\ EndCall(FALSE)
        /\ UNCHANGED <<script, vers, place, spelled>>

SpellingNext ==
  NewlineToken \/ NewlineAgain \/ SkipBlank \/ ScanPunctuator \/ ScanAt \/ ScanWord \/ ScanHash

SpellingDone == ~ Scanning

---------------------------------------------------------------------------

EndOf(i) == IF i = 0 THEN 0 ELSE spelled[i].at + spelled[i].size
Gap(i) == {script[k] : k \in EndOf(i - 1) + 1..spelled[i].at}
TextOf(i) == SubSeq(script, spelled[i].at + 1, EndOf(i))

(* Nothing but blanks, and line breaks that follow another, is between two *)
(* tokens.                                                                 *)
NothingBetween ==
  \A i \in DOMAIN spelled :
    /\ Gap(i) \subseteq {" ", "newline"}
    /\ (i > 1 /\ "newline" \in Gap(i)) => spelled[i - 1].class = "newline"

(* No other punctuation that is spelled by what stands there is longer,    *)
(* but for a `?.` that no name follows.                                    *)
LongestSpelling ==
  \A i \in DOMAIN spelled, row \in ToSet(Punctuators) :
    LET end == spelled[i].at + Len(row[2])
    IN  (end <= Len(script) /\ SubSeq(script, spelled[i].at + 1, end) = row[2])
          => \/ Len(row[2]) <= spelled[i].size
             \/ row[1] = "question_dot" /\ script[end + 1] \notin ScriptWord

(* `@` is to make a name of the word that follows it, for one call.        *)
BehindBlank(i) == " " \in Gap(i)
AfterAt(i) == i > 1 /\ spelled[i - 1].class = "at"

(* A call that skips a blank leaves the flag as it found it: an `@` behind *)
(* a blank does not set it, and it is not reset for as long as each token  *)
(* behind an `@` is behind a blank.                                        *)
FlagAstray(i) ==
  \/ AfterAt(i) /\ BehindBlank(i - 1)
  \/ \E j \in 1..i - 2 : /\ spelled[j].class = "at" /\ ~ BehindBlank(j)
                       /\ \A k \in j + 1..i - 1 : BehindBlank(k)

(* A word is a keyword if its version has come and no `@` is before it; but*)
(* nothing is said of a word for which a blank left the flag astray.       *)
KeywordsWhereMeant ==
  \A i \in DOMAIN spelled :
    LET word == Last(TextOf(i))
    IN  (word \in ScriptWord /\ ~ FlagAstray(i)) =>
          (spelled[i].class = word <=> /\ TextOf(i) = <<word>> /\ word # "name"
                                       /\ keyword_lookup[word] <= vers /\ ~ AfterAt(i))

(* Words and punctuation are the tokens that the text spells: nothing is   *)
(* dropped, punctuation is as long as can be, and whether a word is a      *)
(* keyword depends on the version and on the token before it.              *)
ReadAsSpelled == NothingBetween /\ LongestSpelling /\ KeywordsWhereMeant
=============================================================================
