# A verification project for tscc

tscc is a TypeScript compiler in C++. At this commit it has a lexer (`tsclex`), a parser for the
module-level part of the language (`tscparse`: imports, exports, namespaces, ambient modules and
type aliases) and a small core library (`tsccore`: UTF-8, JSON, XML, regular expressions). This
directory holds TLA+ modules that model all three, the configurations with which TLC checks them, and
proofs that TLAPS checks.

Everything is sequential: `parser::parse()` runs on its caller's thread and there is no shared
state, no I/O but the input stream, and nothing persists. What is hard here is not interleaving but
*protocol*: some sixty state classes push, complete and hand tokens to each other through a stack,
each seeing only its own members and one token, and what a file means is the result of the
conversation. A wrong decision in one state surfaces several tokens and several states later. The
lexer is a single call with some twenty scanning functions, which share a stack of contexts, an
output buffer and a position: each relies on what the one before it left in them. Below it, a
stream that gives its bytes in chunks becomes characters; above it, characters become tokens with
contents, which print themselves, and what is printed should be read back as the same token.

## 1. The system

### Components

| component | state it keeps | operations | modelled by |
|---|---|---|---|
| parser loop, `parser.cpp` | lexer iterator, `synthetic_newline_`, `pending_trivia_`, `state_stack_` | `parse`, `collect_trivia`, `advance_token`, `handle_complete`, `flush_trivia`, unwinding at the end of the text | `Parser` |
| state results, `state_result`, `parser_state`, `multiline_state` | `newline_loc_` | `stay`, `push`, `complete`, `.reprocess()`, a result's newline, default `on_eof` | `StateResult` |
| type states, `state/type_state`, `state/type` | phase flags, the node under construction | `process`, `accept_child`, `on_eof` of 13 states | `TypeStates` |
| import states, `state/import_state`, `state/import` | phase flags; one `import_node` shared by the chain through `import_node_builder` | the same, of 16 states | `ImportStates`, `Declaration` |
| specifier states, `state/specifier` | phase flags; one specifier under construction | the same, of the list, specifier, head, resolve-type, alias states | `SpecifierStates`, `Declaration` |
| export states, `state/export_state`, `state/export` | phase flags, the node | the same, of 11 states | `ExportStates`, `Declaration` |
| scope states, `module_scope_state`, `namespace_state`, `declare_module_state`, headers, `declare_state`, dispatch | header flag, ambient flag, export bookkeeping | the same, of 7 states | `ScopeStates` |
| syntax tree, `ast/` | nodes; `import_node` has two variants (`form_`, `secondary_`) | the builder's setters | `Declaration` (imports), kinds only elsewhere |
| trivia index, `trivia_index`, `filtered_token_index` | tokens with their node and relationship, `is_sorted_` | `emplace`, `finalize`, `find_at`, `find_in_range`, `find_before`, `find_after`, `all` | `TriviaIndex`, which implements `LocationIndex`; the order the parser fills it in by `Parser` |
| parse errors, `error/` | code, location, text | construction | which error it is |
| lexer, `lexer.cpp` | `gpos_`, `context_stack_`, `wbuffer_`, `pnewline_`, `force_identifier_` | `scan` and its scanners, called by the iterator | `LexerState`, `LiteralScanners`, `JsxScanners`, `Lexer`; `Characters` for what is read ahead |
| lexer's input | stream, `rbuffer_`, `buffer_offset_` | `next_code_point`, `advance` | `CodePointBuffer` |
| keyword and punctuation tables, `lexer.cpp` | `keyword_lookup`, `vers_` | the switch of `scan` | `Spellings` |
| numbers, `scan_*_number`, `constant_value_token` | digits, integers of the value | scanning, `to_string` | `NumberLiteral` |
| jsdoc tokens, `jsdoc_token.cpp` | lines of parts | constructor, `to_string` | `JsdocToken` |
| JSX text and attribute tokens, `xml.cpp` | the decoded value | `xml_decode`, `xml_encode` | `XmlText` |
| making a token, `token.hpp` | `token_`, an optional variant | `emplace_token` | `TokenContents` |
| regular expressions, `tsccore/regex`, `regex_token` | the tree | `scan`, `string_size`, `to_string`; `try_scan_regex` | `RegexScanner`, `RegexPrinter`, `RegexLiteral` |
| UTF-8, JSON strings | – | `utf8_size`, `utf8_encode`, `json_string_size`, `to_json_string` | `CodePointBuffer`, `JsdocToken` |
| other tokens, identifier tables, C types, fakes | – | – | not modelled, see section 8 |

### How they interact

`parse()` gives the current token to `state_stack_.back()->process()`. The result says whether the
state stays, pushes a child, or completes with a node (or with none), and whether the token has been
used. Completion pops the state and calls `accept_child()` of the one below, which may complete in
turn: `handle_complete` runs that cascade. Between a pop and the callback, `flush_trivia` moves the
comments collected so far into the trivia index, attached to the node being delivered, or throws them
away if there is none. Newlines leave the token stream in `collect_trivia` and come back as one
*synthetic newline* in front of the next token; a state may absorb it, remember it and hand it back
with a later result (`multiline_state`), or treat it as the end of the statement. When the text ends,
`on_eof()` of the top state says whether it may be completed there.

The parser moves the lexer's iterator, and each move is a call of `scan()`. The context on top of
`context_stack_` says which function goes on: in a template's text, a tag, an attribute's value or a
JSX text it is that construct's scanner, otherwise `scan()` itself, which also opens and closes
contexts at back ticks, tags and braces. The parser at this commit treats templates and JSX as
tokens it does not know, so the two are modelled apart: `Parser` reads any token sequence, which
includes those that `Lexer` returns. What the parser takes for granted of the lexer, locations that
ascend, is a property of `Lexer`; what it promises the index, entries in text order, is a property of
`Parser`; and the index answers rightly whatever the order (`TriviaIndex`).

The scanners read through `next_code_point`, which looks ahead any distance without moving and fills
its buffer as it goes. `Lexer` sees a text of characters; that this is what the buffer gives, for any
chunking, is `ReadAsEncoded`, but for the cases in section 6. A scanner ends by making a token in
place, and some tokens work on what they are given: a jsdoc token takes its lines apart, a JSX text
decodes references, a regular expression is scanned into a tree. `Lexer` has each of them as a choice
between acceptance and an exception (for a comment, where it has a brace that can be left open); the
module of that token says what the choice depends on.

### What is hard, and what makes it right

1. **The cascade.** `accept_child` uses `static_cast` on the node and dereferences it without a check.
   It is right only if every chain of completions that can end there delivers that kind of node.
   (`DeliveredKind`, `NoInternalError`.) The loop in `handle_complete` ends only because the file
   scope never completes (`StackShape`).
2. **Giving tokens back.** `.reprocess()` is how a state says "not mine". Two states that hand a token
   to each other, or a `stay().reprocess()`, would spin (`Terminates`).
3. **Line ends.** Who sees the newline decides where a statement ends (`ImportEndsAtLineBreak`, for
   imports), and a newline that is handed back must not be presented where there is none or twice
   (`NewlineNotInvented`). One state takes a statement's end away (section 6); no property asks for
   what that state does.
4. **Contextual keywords.** `import type from, { type as as type } from "m"`: the role of `type`, `as`
   and `from` is decided by later tokens and earlier decisions are revised (`ImportAgreement`,
   `SpecifiersAsWritten`).
5. **The shared import node.** The builder asks for the alternative of `form_` that another link
   chose: `std::get` throws if that differs, and one setter replaces the form; the accessors answer by
   the form, so that what is kept under another one is lost to the reader (`ImportWellFormed`,
   `NoInternalError`).
6. **Context that is passed down.** `ambient` and `module_like` travel by constructor argument through
   each place that pushes a scope (`AmbientInherited`, `PlacedInModule`), and the exclusion of export
   assignments spans the whole file (`ExportAssignmentAlone`).
7. **Trivia.** It is collected, kept across cascades and flushed in text order, and the index may
   throw in the middle (`IndexSorted`). The index sorts itself when it is asked, if a flag that looks
   at two neighbours says so (`SortedIsAscending`), and its lookups are binary searches
   (`ImplementsLocationIndex`).
8. **Precedence.** Five states per operand (union, intersection, operator, postfix, primary) plus
   parentheses and type arguments must accept exactly the types (`AliasGrammar`).
9. **Contexts of the lexer.** A brace or a closing tag takes off one context or two, by what stands on
   top of the stack, and templates, attributes and elements nest in each other at any depth
   (`ContextsNest`, `ScannerContext`, `TokensNest`).
10. **Progress of the lexer.** Every loop must advance on every character (`EndsOrSpins`), and a
    token's scanner must move on by what it took and no more (`TokensConsume`): `advance` checks
    nothing, and behind the end of the text nothing may be read (`StaysInText`).
11. **Lines.** Each scanner counts line breaks by itself, before or after it advances; a column is a
    difference of unsigned offsets (`LinesPassed`, `LocationsAscend`).
12. **The output buffer.** It is cleared, moved away or left as it is (`CommentIsItsOwn`).
13. **The input buffer.** A code point may straddle a chunk or the end of the buffer, while the lexer
    is looking ahead over it (`NothingLost`, `ReadAsEncoded`), and a refill that gives nothing must
    end the call (`CallsReturn`).
14. **Longest match and versions.** Some fifty punctuators are told apart by nested look-aheads, and
    whether a word is a keyword depends on the version and on a flag that may outlive its call
    (`ReadAsSpelled`).
15. **Numbers.** Five scanners share digits, separators and exponents (`NumberMeaning`), each with its
    own count of what it took (`NumberReadsBack`).
16. **Printing and reading again.** What must be escaped, and what was lost on the way in, differs
    between parts of a token (`JsdocReadsBack`, `XmlReadsBack`, `NumberReadsBack`, `ReadsBack`), and
    sizes are calculated apart from the text they announce (`SizeIsExact`, `JsonAssertion`).
17. **Regular expressions.** Brackets, braces and hyphens change roles by what is open
    (`OutlineAgrees`), and each loop has two conditions to end by (`LiteralsEnd`).
18. **Comments taken apart.** A tag or a type ends the text in progress; what stands before and behind
    must be kept (`TextKept`).

`PROJECT.json` lists these as hazards at their lines.

## 2. Modules

```
StateResult                       tokens, frames, results, Multiline, Visitor
 |- TypeStates  ScopeStates  ExportStates  ImportStates  SpecifierStates
 |- Declaration                   the import or export under construction
 `- Parser                        the loop: variables, actions, Spec, FairSpec
     `- ParserSafety              TypeOK, StackShape, safety and action properties
         |- MCParser
         |- Transcript            history of consumed tokens, languages, what specifiers mean
         |   |- TypeGrammar   - MCTypes
         |   `- ImportGrammar - MCImports (with the alphabet of `specifiers`)
         `- Results_proofs        what a result owes the parser
             `- States_proofs     the results of every state
                 `- Parser_proofs Invariance, TypesCorrect, StackKeepsShape
                     `- ParserSafety_proofs  a theorem for each safety property of
                         |        ParserSafety, and NewlineNotInvented of Transcript
                         `- Specifiers_proofs  SpecifiersAsWritten of Transcript

Locations                         line and column, their order
 |- LocationIndex                 abstract: a set of entries and the questions asked of it
 `- TriviaIndex                   the vector, is_sorted, the searches; implements LocationIndex
     |- MCIndex
     `- TriviaIndex_proofs        Sorted, IndexRefinement

Characters                        classes of characters; what is read ahead in a text
 `- LexerState                    the lexer's members, and how an action ends
     |- LiteralScanners           strings, templates, names, numbers, regular expressions
     |- JsxScanners               elements, attributes, text, closing tags
     `- Lexer                     scan() and the iterator: Init, Next, Spec, FairSpec
         `- LexerSafety           LexerTypeOK, safety and progress properties
             |- MCLexer
             `- Lexer_proofs      every safety property of the lexer

CodePoints                        characters and their code points, one of each kind
 |- RegexScanner                  regex::scan, the tree
 |   `- RegexPrinter              to_string, string_size
 |       `- RegexLiteral          try_scan_regex, regex_token   - MCRegex
 |- JsdocToken                    to_json_string; a comment's lines, tags and types
 |- XmlText                       decoding and encoding of references
 `- NumberLiteral                 numbers to every base; uses Characters for where they end
CodePointBuffer                   UTF-8; bytes, chunks, code points
Spellings                         words and punctuation
 `- TokenContents                 the last five together        - MCContents
     `- TokenContents_proofs      BufferKeepsAll
```

### State and code

| variable of `Parser` | code |
|---|---|
| `token_iter`, `tokens_read` | `token_iter_`; the token it is at, and its position in the text |
| `synthetic_newline` | `synthetic_newline_.has_value()` |
| `pending_trivia`, `trivia_index` | `pending_trivia_`, `*trivia_index_` (`given`: the pointer is not null) |
| `state_stack` | `state_stack_`: each frame is the class of the state and the set of its members that are on |
| `declaration` | the `import_node` or export node that a chain of states builds, with the specifier under way |
| `children` | the statements of the `source_file_node` |
| `pc`, `node`, `resume` | where in `parse`, `collect_trivia` or `handle_complete` control is; the node local to `handle_complete`; what its caller does next |
| `error` | the exception that left `parse()` |

Each class of states is a set of operators `XProcess(f, t)`, `XAcceptChild(f, n)`, `XOnEof(f)` that
return the result the virtual function returns, with the frame after the call. The results are records
as in `state_result`, plus the calls that the state made on the shared declaration, which
`Declaration!Build` applies. Each action of `Parser` is one iteration of a loop: `CollectTrivia` /
`CollectDone`; `ProcessStay`, `ProcessPush`, `ProcessComplete`, `ProcessThrow`, `EndOfTokens` for the
main loop; `AcceptStay`, `AcceptComplete`, `AcceptThrow`, `FlushThrow` for `handle_complete`;
`EofComplete`, `EofThrow`, `Return` for the unwinding.

| variable of `Lexer` | code |
|---|---|
| `source` | the text of `stream_`, and `source_->language_variant()` |
| `offset`, `line` | `gpos_.offset`, `gpos_.line` |
| `pnewline`, `force_identifier` | `pnewline_`, `force_identifier_` |
| `resets` | whether `resetter` in `scan()` still points to the lexer (a blank clears it) |
| `context_stack` | `context_stack_`: each entry's context, and the name of an element |
| `wbuffer` | `wbuffer_`, as the set of positions whose characters it holds |
| `pc`, `start`, `quote` | the loop that control is in, or "crashed" (see below), and the two locals that outlive one of its rounds |
| `tokens`, `error` | what the calls have returned (kind, location, text of a comment, offset after it), and the exception that ended them |

An action of the lexer is one round of one loop: `StringCharacter`, `StringEscape`, `EndString` are
the rounds of `scan_string`. `Call` is the switch at the head of `scan()`. A function that only looks
ahead before it decides is an operator of `Characters`: `NumberEnd`, `EscapeLength`, `RegexEnds`,
`ConflictMarker`, `IsElement`, each with the counts that the code computes, right or wrong.

| variables | code |
|---|---|
| `TriviaIndex`: `tokens`, `is_sorted` | `tokens_`, `is_sorted_` |
| `asked`, `found` | the last call, or the exception it ended with, and what it returned |
| `CodePointBuffer`: `stream`, `rbuffer`, `buffer_offset` | `stream_`, `rbuffer_` up to `buffer_size_`, `buffer_offset_` |
| `advanced`, `look_forward` | the bytes advanced over, and `next_code_point`'s parameter |
| `pc`, `needed`, `sn`, `into`, `nc` | where `next_code_point` is, or "undefined" (see below), the locals of `read_more`, and what was returned |
| `Spellings`: `force_identifier`, `resets`, `pnewline`, `vers` | the members, and whether the end of the call resets |
| `NumberLiteral`: `taken`, `reading`, `separator`, `digits`, `parts` | how far the scanner is, which it is, `last_was_separator`, the digits seen, and the integers that the value is calculated from |
| `JsdocToken`: `lines`, `line`, `current`, `at`, `escape`, `current_value` | `lines_` and the constructor's locals of those names |
| `XmlText`: `xml`, `offset`, `result`, `value` | the input of `xml_decode` or `xml_encode`, its `i` and `result`; the token's value |
| `TokenContents`: `holds`, `emplaced` | whether `token_` has no value, a valueless variant or a token; whether `emplace_token` was called |
| `RegexScanner`: `input`, `pos`, `frames`, `class`, `outcome` | the parameters of `scan`; the calls of `scan_disjunction` in progress, with the alternatives and terms so far; `char_class`; the tree or the exception |
| `RegexLiteral`: `skip`, `wbuffer`, `flags`, `token` | `total_skip`, `wbuffer_`, the flags, what `into` was given |

An action there is one round of a loop too: `ClassItem` is one of the loop over a class,
`CollectDigit` one of a number's, `Readsome` one of `read_more`'s. Recursion of the regular expression
scanner is a push on `frames` (`OpenGroup`) and a pop (`CloseGroup`). After a token is made,
`PrintToken`, `EndEncode`, `PrintNumber` and `Reread` put what it prints back before the same code. For
a jsdoc token that is the whole text of `to_string`, with the `/**` and `*/` around it, of which the
lexer makes lines again (`LinesOf`) or finds no jsdoc comment, or none that ends (`BeginsJsdoc`,
`Closed`).

### Abstractions of the lexer

- In `Lexer` a text is a sequence of code points, each standing for its class; a character of
  several bytes is one step. Which names are keywords, which values of escapes are refused, and which
  bodies of regular expressions or character references are, is a choice. Digits keep their value
  where a count depends on it. `CodePointBuffer`, `Spellings`, `RegexLiteral`, `XmlText` and
  `NumberLiteral` model what is behind those choices, except for escapes in strings and names.
- The modules over `CodePoints` know one character of each kind that their code tells apart, with its
  code point: a letter of a tag, a blank beyond ASCII, a code point of two units, and so on.
  `std::isalpha` of a value beyond a byte is undefined, and either answer is possible.
- `advance` (lexer.hpp:161-164) does not check that the buffer holds what it skips. From an offset
  behind the buffer's bytes `read_more` computes `rbuffer_.size() - buffer_offset_`, an underflow, and
  passes it to `memmove` (lexer.cpp:539-540): undefined behaviour. In `Lexer` this ends the run at the
  end of a text (`ReadBehind`, "crashed"), and in `NumberLiteral` too (`SuffixBehind`). `Lexer` has the
  whole text in the buffer; that the same happens in the middle of a text, when a byte that is skipped
  unread has not come yet, is in `CodePointBuffer` (`MoveBehind`, and `FirstBehind` where bytes came,
  but too few, so that one outside the buffer is read; both "undefined"). There `Advance` may skip up
  to `MaxUnread` bytes that were not looked at.
- What `readsome` gives is any number of the bytes that there are and that there is room for.
- Of a decimal number the integers are modelled from which `decimal_value` is calculated, not the
  floating point number. `size_t`, `char32_t` and the 32 bits of a hexadecimal number wrap at
  constants.
- A token's references to nodes and relationships, and std::sort's algorithm, are abstracted: sorting
  yields any ascending arrangement, because it is not stable.
- An exception ends the scan. What it leaves in the members is not modelled: no caller in the
  repository goes on after one.
- The uninitialised `quote_start` at the end of a template (lexer.cpp:835-840) is a choice between the
  back tick and anything else.
- Lines are counted up to one more than a text can have, so that a loop that counts for ever has
  finitely many states.

### Abstractions of the parser

- A token is the name of its class. Constants are either strings or not; the twelve type keywords are
  one class, `true` and `false` another; `other` is every class that no state names. Spelling and
  location are dropped: no decision of a state depends on them.
- A comment carries its position in the text, because the index is about order.
- All type nodes have one kind, as `ast_node::kind` has; a type's operands are "one or more".
- `children` is kept for the file only: what a namespace or an ambient module does with a child is to
  store it, apart from the export bookkeeping, which is modelled.
- `emplace` that throws leaves the tokens it has moved in the index; the rest stays pending. No code
  runs after it on that parser.
- The observer of the parser (`parser_observer`) is told of steps and decides nothing. `consume_token`,
  `expect_token`, `try_consume_modifier` and `parse_modifiers` have no caller.

## 3. Runs

The text is *any* sequence over the run's alphabet, at most `MaxTokens` long, chosen token by token as
the iterator moves, so that a run covers every text and every prefix at which a parse can fail.
A parse goes deeper only by reading tokens, so its behaviours are finite without further bounds;
`MaxTokens` and `Alphabet` are the only ones. Deadlock is checked in every run; a finished parse
stutters by `Terminated`.

| run | bound | properties | what it shows |
|---|---|---|---|
| `text` | every token class but comments, 5 tokens | `TypeOK` `StackShape` `DeliveredKind` `NoInternalError` `Terminates` | no sequence of tokens reaches the "impossible" branches or keeps the loop busy |
| `scopes` | 11 classes with newlines, 10 tokens: two scopes with an export assignment inside, or three; with and without an index | `AmbientInherited` `PlacedInModule` `ExportAssignmentAlone` | context is passed down, forms stand where they may, the export assignment excludes others in both orders |
| `types` | 19 classes, 9 tokens: six for the type, enough for a nested type argument, an array of a parenthesised union, and a parameter with variance, constraint and default | `AliasGrammar` | the thirteen states accept the language of `TypeGrammar` and reject at the first token that does not fit, but for aliases that end in a name (below) |
| `imports` | 18 classes, 9 tokens: default and named bindings together, a require, an attribute | `ImportAgreement` `ImportWellFormed` | the chain accepts the language of `ImportGrammar`; the node is in one legal alternative, and the accessors show all of it |
| `specifiers` | 10 classes, 10 tokens: an import of a specifier with modifier and alias, or of two with one of them; an export of two with a modifier each and an alias for one | `SpecifiersAsWritten` | the stored specifiers are those written, however keywords are used as names |
| `trivia` | 10 classes with comments and newlines, 7 tokens, with and without an index | `IndexSorted` `NewlineNotInvented` `ImportEndsAtLineBreak` | order of the index, and where statements end |
| `index` | two lines of two columns, four entries, any order of calls | `SortedIsAscending` `ImplementsLocationIndex` | the lazily sorted vector answers as a set of entries would |
| `lexer` | the texts below | `LexerTypeOK` `ContextsNest` `ScannerContext` `TokensNest` `TokensConsume` `StaysInText` `LocationsAscend` `LinesPassed` `EndsOrSpins` | contexts nest and suit their scanners, brackets match, tokens consume, the text is left at four known places only, lines are counted where they break, and scanning ends but at four known places |
| `contents` | the inputs below | `NothingLost` `ReadAsSpelled` `ReadAsEncoded` `TextKept` `JsdocReadsBack` `XmlReadsBack` `NumberMeaning` `NumberReadsBack` `CallsReturn` | from bytes to tokens with contents, and back |
| `regex` | literals of up to four pieces of four families (groups and alternatives, classes, escapes and quantifiers, others), flags of up to three letters; the first and the last version; `size_t` up to 31 | `OutlineAgrees` `SizeIsExact` `ReadsBack` `LiteralsEnd` | the tree has the shape of the text, sizes and texts agree, and what is printed reads back, the side of a lookbehind apart |
| `stale_buffer` | 21 texts: a comment behind two tokens | `CommentIsItsOwn` (violated) | finding 1 |
| `json_size` | the inputs of `contents` | `JsonAssertion` (violated) | finding 2 |

`TypeGrammar` and `ImportGrammar` are written as sets of sentences (concatenation, alternatives,
lists), not as state machines, so that agreement with them is not a restatement. `Agrees` has two
halves: a parse that returns has read a sentence, and one that throws does so at the first token with
which no sentence continues. Where the states are deliberately more liberal than TypeScript, the
grammar says so in a comment: a type parameter's default may precede its constraint, any constant
may be a module specifier, and so on (section 6).

Where the code contradicts what the repository says of it, no property demands the contradiction. The
case is left out of the property, and listed in section 6: an alias that ends with the text and with a
name (`AliasGrammar` has it among its sentences, and says nothing when it is refused: it may be
accepted or not), the side of a lookbehind (`ReadsBack` compares trees without it, `Unsided`), and words
for which a blank let the flag of `@` survive, or kept it from being set (`ReadAsSpelled`,
`FlagAstray`).

The lexer's texts are built from fragments, not characters, so that short texts reach deep states.
Three families: constructs (up to three of 14 fragments that open and close templates, elements,
attributes and braces; up to four in a template; up to three in a tag; and whole elements with up to
three fragments in the tag and two in the text), literals (up to three of 14 fragments that begin,
continue and break numbers, names, strings and regular expressions, escapes of up to three, and
templates broken off behind a backslash), and lines (up to three of 13 fragments: line breaks, comments,
continuations, a shebang, conflict markers; and jsdoc comments of up to three of four pieces, with
braces). Contexts are thus stacked five deep. The scan of a text is almost deterministic, so that
each text costs little, and the whole run has some 180 000 states.

The inputs of `contents` are of five kinds, one in each behaviour. *Sources*: up to three code points
of one to four bytes, the smallest and the largest of one to six bytes with a neighbour, and stray
bytes in front of them, over a buffer of 7 bytes in place of 4096: every way in which a chunk or the
buffer's end cuts a code point of up to four bytes, at every distance of looking ahead, and with one
byte (`MaxUnread`) skipped or not at each advance. *Scripts*:
families of punctuation that share characters, up to four of them (the longest punctuator has four),
each keyword behind nothing, `@`, `#` and `@` with a blank, and up to five of `@`, blanks, newlines and
a word, in versions es3, es5, es2015 and es2022 (those in which a keyword is introduced). *Comments*:
a line of up to three of eleven pieces, or four of five, two lines of up to two and three pieces, and
three with an empty one between, of these the ones that the lexer hands over (`FromTheLexer`).
*Texts* of an element: up to three of ten pieces or five of five, and numeric references behind which
another follows; `char32_t` wraps at 2^21 in place of 2^32, still above the last code point.
*Numbers*: up to four of eleven characters, exponents of up to four, and hexadecimal digits of up to
four where the value wraps at 2^8 in place of 2^32. In `regex`, 31 for the largest `size_t` lets a
quantifier of two digits overflow; four pieces are enough for two groups with an alternative, a range
with escaped ends, and a quantifier with both bounds. In `index`, four entries on two lines of two
columns give equal locations, entries between the ends of a reversed range, and orders that a
comparison with the first entry alone would take for ascending.

`ImplementsLocationIndex` is a refinement: `entries <- Range(tokens)`, and an abstract lookup answers
from the set, without a vector or an order. `OutlineAgrees` counts parentheses and brackets of the text without a
tree; `Reading` is a reading of a comment of that kind, and `ReadAsSpelled` looks at nothing but the
script and the tokens. The properties
about reading back say *exactly* when it succeeds where they can (`ReadsBack`: if and only if
`Readable`); the exceptions are listed in section 6. `NumberReadsBack` also ties `NumberLiteral` to
`Characters!NumberEnd`, so that `Lexer`, which knows no values, ends numbers where the scanners do.

`TokensNest` is written over the returned tokens alone: there is a function from the opening tokens
onto the closing ones that gives each a token of the right kind behind it, and no two pairs overlap; it
knows nothing of the context stack. `LinesPassed` counts the line breaks of the text behind the offset. `EndsOrSpins`
names the four places where the lexer is known to hang (`Spins`), so that it would notice a fifth; and
`StaysInText` the four kinds of text at whose end the offset is known to leave it, from where the run
ends "crashed", so that a fifth would be noticed as well.

**Fairness.** `FairSpec` is `Spec /\ WF_vars(Next)`: `parse()` is one call that runs until it
returns or throws. No other fairness is needed, and none is assumed of the text, which may end or go
on. The lexer's `FairSpec` is the same: a loop over its iterator runs until the end or an exception.
A loop of the lexer that does not advance is a step that changes nothing, or nothing but the line
count; weak fairness does not let it be left, because no other step is enabled there. `RegexLiteral`
has the same fairness. `TokenContents` assumes less: a call of `next_code_point` that has begun goes on
until it returns (`BufferFairness`, weak fairness of `GoesOn`, its rounds), because it waits
for nobody; that a lexer calls it again, or ever advances, is not assumed. `readsome` may give one
byte at a time, and the calls still return.

## 4. Proofs

`Parser_proofs` proves for every `Alphabet` and every `MaxTokens`, from the three named assumptions on
the constants (the alphabet is a set of tokens, the length a natural number, the index option a set of
booleans):

- `Invariance`: `Spec => []Inv`, the inductive invariant;
- `TypesCorrect`: `Spec => []TypeOK`;
- `StackKeepsShape`: `Spec => []StackShape`: the bottom of the stack is the file scope, and each frame
  was pushed by the one below it; hence the assertion of `handle_complete` (parser.cpp:224) holds for
  texts of every length.

The argument has two levels. A result is `Sound` (`Results_proofs`) if the frame it leaves is of the
same state with known members, the child it pushes is one that the state may push, only states other
than the file scope complete, the node is a node, and the calls it makes store tokens their members
can hold. One lemma per state class shows that each of its results is sound; these are in
`States_proofs`. `Parser_proofs` then shows that an action applied to sound results preserves `Inv`, one lemma
per action over lemmas on replacing, pushing and popping the top of the stack and on building the
declaration.

`TypeOK /\ StackShape` is almost inductive. What it lacks is that a token at the iterator has been
counted (`LexerOK`): without it `pending_trivia` could take an entry at place 0. And the declaration
is typed with `broken = FALSE`: the step that breaks it is the step that throws, which leaves the old
one in place; the lemmas therefore go through `Draft`, where `broken` may be either.

`ParserSafety_proofs` proves, from the same three assumptions, every safety property of `ParserSafety`
and one of the parser with its history (`Transcript`):

- `ParserPromises`: `Spec => [](Inv /\ Promised)`, the inductive invariant of the next five;
- `NodesAreDelivered` (`DeliveredKind`), `StatesNeverFail` (`NoInternalError`), `ImportsAreWhole`
  (`ImportWellFormed`), `AmbientIsInherited` (`AmbientInherited`), `ExportsArePlaced`
  (`PlacedInModule`);
- `AssignmentIsAlone` (`ExportAssignmentAlone`) and `IndexStaysSorted` (`IndexSorted`);
- `NewlinesAreNotInvented`: `TranscriptSpec => []NewlineNotInvented`.

None of the five is inductive. That a node is of a kind its receiver casts it to is a promise that the
receiver made when it pushed the frame; that an import is whole when it is delivered is the work of up
to fifteen links. `Promised` says what frames owe each other (`Settled`) and how far they have come:

- `Orderly` relates frames. `Link(f, c)` holds of each frame and the one above it: `f` has a child to
  wait for (`Awaits`: the members that say which), `c` delivers only what `f` accepts, scopes pass on
  that they are ambient, `export` and `import` know which forms are legal where they stand, and a link
  of an import waits for its own list or clause only (`Hands`). `Over(f, h)` holds of each frame and
  *every* frame above it, because an import and a specifier are completed from far above; the third
  part carries an ambient scope over any number of frames that are no `export`.
- `Relied` relates each frame to the declaration under construction: `Held(f, d)` is what the frame
  relies on while those above it work on `d` (a link that waits for its named list finds a from-form
  with `named` when the list is done). It is kept because `Over` says which frames can be above, and
  those make only calls under which it is stable (`Grows`).
- `AtRest` is about the top frame while it is given tokens: `Reached(f, d)` says how much of the import
  has been read when each link is reached, and `Idle` that it waits for nobody.
- `Given` is about `handle_complete`: what is delivered, to whom, with which declaration.

As before, one lemma per class of states shows that its results are `Proper` (frames) and that they
`Advance` the declaration; `ResultSettles` carries this over to the stack, and one lemma per group of
actions to the invariant. `Promised` was model-checked on the six alphabets of the parser's runs
before it was proved.

For the exports, `Remembered` adds that the two flags of the file scope are what its children are;
nothing else writes them, because the file scope is at the bottom and is on top only when it is alone.
For the index, `Behind` adds that entries come before pending trivia and both from behind the token at
the iterator (`Latest`); what `emplace` takes is a prefix of what is pending.

A newline goes a longer way: `collect_trivia` turns a line break into a synthetic token, a union, an
intersection, an array type or an export assignment remembers it (`newline_loc`) and gives it back when
it ends at the token behind, `handle_complete` makes it a synthetic token again, and the states below
are asked in turn. That this ends with a break of the text before the token at hand needs what
`Accounted` says: a synthetic newline stands behind a line break and before a token of the text; only
the frame on *top* can remember one, it is of one of those four states, it is behind a line break, and
during `handle_complete` there is none. So a state can neither go to sleep under a child with a newline
and give it back later, nor give back one that is still being presented. `Marks` is what each result
owes for it: who stays at a newline remembers it, every other result forgets it, and it is given back
only by completing at a token that is not itself a newline and is processed again. `TranscriptSpec`
implies `Spec` step by step, so `Inv` is at hand. `Accounted` was model-checked on an alphabet of types,
exports, scopes and line breaks before it was proved.

`Specifiers_proofs` proves, from the same three assumptions:

- `SpecifiersAreAsWritten`: `TranscriptSpec => []SpecifiersAsWritten`.

What is between the braces is defined by positions in the history: where the braces of the last
`import` or `export` open (`OpensAt`), where each item starts and ends, and what it spells (`Spelled`).
That the list is `Whole` says that there is a strictly increasing assignment of the items' positions to
the stored specifiers which misses none: nothing is stored twice, dropped or put in another order. No
recursion over the list is needed, and so the prover can reason about it.

The declaration is whole only at the end, and what is true before depends on which state is at work.
`ListsRead` says it for each of them, in three places:

- `ReadAt`, of the top frame when a token is next: the specifiers stored so far are those of the text up to
  a comma or brace (`UpToComma`) or up to an item (`UpToItem`); a `type` that may be a name or a modifier
  is kept as a modifier (`TypeRead`); a name, with the modifier that the tokens in front of it spell
  (`HeadRead`), with `as` behind it (`AsRead`); for the links of an import, that no list is open yet
  (`Unopened`) or that it is whole.
- `ReadBelow`, of the frame that a completed child is delivered to. A child completes at a token that
  it has taken or gives back, and handle_complete moves the iterator only at the end of the cascade: hence
  `Taken`, the tokens that will have been consumed then. A list whose child completes at the closing
  brace speaks of `Taken`, a link at which the whole import ends of `consumed`.
- `NodeRead`, of the node that is delivered, which passes through `export` and the scopes.

A specifier and a named export wait for two children in turn and know by a flag which has completed;
`Seconds` relates that flag to the frame above, for every frame of the stack. One lemma per state shows
what its results make of this (`Reads`), over lemmas on what one more token does to a list: a comma ends
an item, an item begins, its words follow one another, the item that is stored is the one that was
spelled (`ItemStored`). The rest follows the actions, with `Promised` for the frame that a pop uncovers
and `Accounted` for the newlines, which are presented but not consumed. `ListsRead` was model-checked on
the alphabet of the run `specifiers` before it was proved.

`Lexer_proofs` proves for every set of texts of any length, from the one assumption on the constant
(`SourcesAssumption`: texts are sequences of characters, in one of the two variants):

- `LexerInvariance`: `Spec => []LexInv`, the inductive invariant;
- `ContextsAlwaysNest`: `Spec => []ContextsNest`: the assertions of `scan_jsx_text_part` hold;
- `ScannersInContext`: `Spec => []ScannerContext`: no scanner runs on another one's context.

Every action does one of five things with the context stack: it leaves the stack and the scanner
(`Keeps`), ends the run with an exception or by reading behind the end, returns with the stack as it
was, pushes a context that may stand on the top one, or pops one or two. One lemma per move shows that
it preserves `LexInv`; the rest of the proof sorts the actions into moves. `ContextsNest` alone is not
inductive: that a push is a legal one follows from the context on top, and which action can run with
it from `ScannerContext`. The two together, with the shape of the stack (`IsStack`), are.

- `TokensAlwaysConsume`: `Spec => []TokensConsume`: no call returns the same text twice;
- `LocationsAlwaysAscend`: `Spec => []LocationsAscend`: locations ascend, as the parser relies on;
- `LinesAreCounted`: `Spec => []LinesPassed`: no column underflows, no line is counted twice;
- `LexerTypes`: `Spec => []LexerTypeOK`.

These rest on what is read ahead. A lemma for each operator of `Characters` shows that what it reads
ends behind where it began and not behind the text: a run, a number with its fraction, exponent and
suffix, an escape, a comment, a line, a conflict marker, a regular expression, the name of an element.
The operators take the first position with a property, so the lemmas rest on one fact, that a set of
numbers that is not empty has a least one. (`RegexStop` is the least position that ends a regular
expression and is not `Escaped` for the same reason.) With them every action is one of three moves of
the position: a loop reads on (`Reads`), a token is returned (`Gives`), or, only where `Spins` says so,
the lexer looks at the same character again (`LooksAgain`).

None of the three properties is inductive. `ReadInv` adds what they rest on:

- `HasRead`: some loops return without reading on (a name at the character behind it, a chunk of a
  template at its end); each of them has then read something since the last token ended.
- `Ascends`: the location at the offset, and that at which a loop of a name or a string began, are not
  before the last token's; and the lines counted are no more than the breaks passed.

`Ascends` fails for good where the lexer counts the same line break for ever (a break before an
attribute's value), and from there on nothing is read any more: the invariant is `Spins \/ Ascends`,
with the rest kept in both cases. It was model-checked on the texts of the run `lexer` before it was
proved.

- `TokensAlwaysNest`: `Spec => []TokensNest`: what tokens open, tokens close, and they nest.

This relates two records of the same thing, one of which is forgotten: contexts are popped, tokens stay.
`Balanced` says how the two agree in the middle of a text: some opening tokens have their closing
ones (`Pairs`); the others are, in order, the openers of the contexts that a token opened, of the kind
that the context calls for; and no pair surrounds one of these. Nested braces, attributes and texts of
elements are contexts that no token opened (`Silent`); a closing brace of an attribute's value and a
closing tag take one of them along. Every action is one of three moves of stack and tokens: a token
that is no bracket, or none, while a silent context may come or go (`Alone`); an opening token with its
context (`Opens`); a closing token with its context and the silent ones around it (`Closes`). That the
kinds fit needs `LexInv`, which says which context is on top when a scanner runs. At the end no context
is left (`EndsOutside`), so that no token is. `Balanced` was model-checked on the texts of the run
`lexer` before it was proved.

`TriviaIndex_proofs` proves for every set of places and kinds and every number of entries, from the
three assumptions on the constants:

- `Sorted`: `Spec => []SortedIsAscending`, so that no binary search runs over a vector out of order;
- `IndexRefinement`: `Spec => ImplementsLocationIndex`.

The invariant is `TypeOK`, `DistinctRefs` (each entry has an identity of its own) and
`SortedIsAscending`. `emplace` looks at two neighbours only: that an ascending vector stays ascending
needs transitivity of the order. Sorting leaves the set of entries, and their identities, as they
were; the bounds that the binary searches return exist, because the vector is finite, and split it
into entries before and behind the location; the lemma of each lookup shows that this is the abstract
answer. That a reversed range is refused exactly when entries lie strictly between its ends is
`ReversedRange`.

`TokenContents_proofs` proves for every set of texts, every size of the buffer and every number of bytes
that are skipped unread, from the assumptions that the size is positive, that the number is a natural
one and that a text is written in bytes:

- `BufferKeepsAll`: `Spec => []NothingLost`: no byte of a text is lost or doubled between the stream
  and what the lexer advances over, whatever chunks `readsome` gives and however far it looks ahead, for
  as long as the offset is in the buffer.

The equation of buffer, stream and text is kept by refilling because a prefix of the stream in front
of the rest of it is the stream. It is kept by advancing only if the bytes advanced over are in the
buffer. Otherwise the offset is behind the buffer and stays there (`Overtaken`): nothing moves it
back, because the next refill is undefined. For all other states the invariant adds what has been
seen: at each place `pc` of `next_code_point`, how far it has looked (`LookedAt`). While `read_more`
runs, the missing bytes are counted in `needed`, so that the first byte and those that have come are
still there when it returns, after the bytes have been moved. A byte of 0xfe or 0xff, which is
returned as a size, breaks `LookedAt`; hence the precondition.

Only model-checked: `Terminates`, `EndsOrSpins`, `LiteralsEnd` and `CallsReturn` (liveness, and so out
of the prover's reach); `StaysInText`; the properties of the regular expressions (their trees are printed by
recursion, in modules that no theorem may use) and of the tokens' contents (which fold over sequences,
as does `ReadAsEncoded`); agreement with the grammars, whose sentences are built by recursion over the
length; and the property that compares the history of consumed tokens with such sentences
(`ImportEndsAtLineBreak`).

## 5. Findings

1. **A comment begins with other tokens' text** (`stale_buffer`). `scan_multiline_comment`
   (lexer.cpp:1081) appends to `wbuffer_` without clearing it, and strings, keywords, private names
   and regular expressions leave their text there: the comment of `'a'/* a*/` reads `a a`. By
   multi_line_comment_tests.cpp:57-61 a comment's text is its own.
2. **A character between U+0100 and U+FFFF is written twice** (`json_size`). Behind the single `\uXXXX`
   `to_json_string` has no `continue` (json.cpp:138-149) and goes on to write a surrogate pair:
   eighteen characters where `json_string_size` counted six, past the end of the string, against
   `assert(wr + (quote_char ? 1 : 0) == size)` (json.cpp:178). A jsdoc comment with such a character
   reaches it when it is printed, or, in a tag's name, when it is made.

## 6. Other divergences met while modelling

They are recorded here and modelled as the code has them; no run is spent on them, and where the
repository says otherwise no property asks for what the code does.

In the parser:

- A type alias that ends in a name is not ended by a line break: `type_reference_state` absorbs the
  newline with `stay()` and does not remember it (type_reference_state.cpp:36), while
  type_state.hpp:32-33 promises "`;` or ASI". `type A = Foo` and a line break is refused at the next
  statement, and at the end of the text, because the state has no `on_eof`. `AliasGrammar` leaves
  this open.
- A line break in front of a node makes a parse with an index throw: newlines are collected as trivia
  (parser.cpp:158), and `emplace` refuses them with `std::invalid_argument`
  (filtered_token_index.hpp:68).
- `export namespace` inside an ambient scope is not ambient: `export_state` pushes
  `namespace_state(token, false)` (export_state.cpp:71), where namespace_state.hpp:46 says the argument
  is "whether the enclosing context is ambient"; `declare` is then accepted inside it.

- Comments are dropped: `flush_trivia(nullptr)` clears `pending_trivia_` (parser.cpp:207), and headers,
  lists and chain links complete without a node. parser.hpp:98 says trivia is flushed to the index.
- `declare module` and its name on two lines: the newline counts as "not a string", so
  `declare_module_dispatch_state` commits to a namespace.
- Module specifiers, attribute keys and values accept any constant, numbers included, where
  import_node.hpp:130-133 speaks of a string literal; `-` in a type accepts a string.
- `{ type type }` is refused by the head state, and so is `import type from from "m"`.
- A type parameter's default may stand before its constraint.
- `>>` closes no two lists: the lexer's token is not split.
- A comment inside a node is indexed as leading the node that completes next.
- `export = a` and another export may stand on one line with no semicolon between them.
- `has_default_export_` is never set; docs/architecture.md says nodes store all consumed tokens, while
  punctuation is dropped.

In the lexer:

- It hangs at a `\r` without `\n` in a template (line 889), at a `/` without `>` in a tag (1616),
  at a line break before an attribute's value, and behind a blank there at the end of the text
  (1681: in `<a b= ` the loop tests the blank it read last, because `next_code_point` leaves its
  argument alone; jsx_tests.cpp:385-400 ask for an exception of tags that are broken off).
- It reads behind the end of the text, which is undefined (lexer.hpp:161-164, lexer.cpp:539-540; see
  section 2): a string that ends in a backslash and `\r` (lexer.cpp:809), a template that ends in a
  backslash (903), a legacy octal at the end, `01` or `017` (2830), and an escape in a name near the end,
  whose digits are advanced over twice (2159, with 2192 and 2209). In the middle of a text the same
  places do so when the stream has not yet given the character that they skip.
- A backslash and `\r` in a string drop the character behind the `\r`, and count no line.
- An escape in a template is read from its backslash on, so that it is never one, and the
  character behind it is dropped.
- `\x41` and `\12` take too few characters, because the count of what was skipped is not added;
  `'\0_'` throws.
- `/**/` is taken for a jsdoc comment, and is unterminated (lexer.cpp:2770-2787, 1081-1128).
- `017;` takes the `;` too: the first digit is counted twice. A `9` is no hexadecimal digit.
- A `_` behind the digits of a hexadecimal or binary number is only noticed at the end of the text.
- An escape in a name empties what stood before it.
- A line comment or conflict marker with nothing behind it does not count its line break.
- A blank between two line breaks makes two newline tokens of them.
- An attribute without a value must have a blank and another attribute behind it; `<br/>` without a
  blank is no element; `\r\n` in a JSX text is kept as it is, where a template's becomes `\n`.
- An attribute's value that begins with neither a quote nor `{` opens an expression without it.
- After `@` and a blank, no name is a keyword until a token that no blank precedes; an `@` behind a
  blank does not force a name, because the end of that call resets nothing. By lexer.hpp:240 the
  flag is for a name "after special token", and by lexer.cpp:2419 it is reset after every call.
  `ReadAsSpelled` leaves these words out.
- A template that the text breaks off at its beginning may be closed instead of refused (`quote_start`
  is read uninitialised), and a chunk before `${` has no location.
- `a / b / c` is scanned as a regular expression: what stands before the slash is not considered.
- The tables of identifier characters (private/unicode_tables.cpp) hold the two ends of each range,
  but lexer.cpp:2280-2354 look for the character itself: only the ends are found.
- `?.` before `[`, `(` or `#` is a question mark and a dot.
- Numbers: the sign of an exponent of several digits behind a fraction goes into the first digit only
  (lexer.cpp:1344: `1.5e-12` is read as `1.5e-8`); a hexadecimal number is cut off at 32 bits; one
  with a separator in front of another character than a digit is taken with it.
- The input buffer: where one byte of a sequence is missing, as many are asked for as follow the first
  one, whatever is there already, so that a code point at the end of the text that a chunk cuts may
  fall apart into bytes. A look-ahead of `buffer_size_` or more looks like the end of the text; a
  regular expression longer than that is none. The bytes 0xfe and 0xff are returned as a *size*
  (lexer.cpp:567-602 announces none for them).
- `emplace_token` that throws leaves a valueless variant in a token whose `undefined()` is false
  (token.hpp:266-274, 289).

In regular expressions:

- The two lookbehinds are printed as each other (group.cpp:111-116; regex_tests.cpp:747-770 read
  `(?<=` as positive). `ReadsBack` leaves the side open.
- Printed without an escape: a `^` at the start of a class that is not negated, and a `/` in a class.
  An empty pattern, or one that begins with `=`, prints as something that is no literal.
- `string_size` counts ten characters too many for each plain capturing group and one for each `.`.
- `a)b`: what stands behind a parenthesis that closes nothing is not read, and accepted.
- The bounds of a quantifier wrap, and the largest value means "no bound".
- `regex_error` is no error of the lexer, and passes through the iterator as it is. `regex_token`'s
  `!=` ignores the flags.

In tokens' contents:

- jsdoc: an unclosed `{` ends in `std::out_of_range` (jsdoc_token.cpp:282); a backslash doubles the
  character behind it; `{}` loses its brace; `trim_right` looks at the low byte of a character. Empty
  strings, strings that begin a line with `*`, and tags that trimming uncovers do not read back. A token
  of one empty line prints as `/**/` (jsdoc_token.cpp:326-351), which is unterminated.
- `to_json_string` escapes no backslash.
- A numeric character reference is collected in a `char32_t` that wraps (xml.cpp:66-88), so that one
  too large for Unicode may be read as another character.

## 7. Plan

1. *Done.* The parser with all its states; type invariant and stack shape proved.
2. *Done.* The lexer: all scanners, contexts, lines and progress; nesting of contexts proved.
3. *Done.* The trivia index: every operation, the abstract index and the refinement, both proved.
4. *Done.* The lexer's input, with UTF-8; words and punctuation; numbers; jsdoc, XML and JSON;
   regular expressions, scanned, printed and scanned again; `NothingLost` proved.
5. **An abstract parser**: a file as a sequence of statements that are opened, filled and delivered,
   each exactly once; `Parser` shown to implement it.
6. *Done.* Proofs of every safety property of the parser and of the lexer, and that specifiers are
   as written. *Open*: the step of the abstract parser's refinement.
7. **Escapes in strings and names**: the code points they stand for, as `NumberLiteral` does for
   numbers.

## 8. Not modelled

- **Identifier tables** (`private/unicode_tables.cpp`): data. The lookup in them is described in
  section 6; the modules have characters that are in a name and characters that are not.
- **Values of escapes**, and the rounding of `decimal_value`: data that no state depends on.
- **Tokens** (`tsclex/tokens`) other than those in section 1: value classes, one per token, with a
  spelling and no protocol.
- **C interface types, fakes**: declarations and test doubles.
- **Source locations of nodes and error texts**: no state's decision depends on them.
- **The syntax tree's accessors** but those of `import_node`: each returns a member.
- **Liveness, `ENABLED`, induction over data** (what a recursive definition computes for every input)
  cannot be proved with the installed provers; they stay with TLC.
