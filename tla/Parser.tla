------------------------------- MODULE Parser -------------------------------
(***************************************************************************)
(* tscc::parse::parser: the loop that feeds the lexer's tokens to the top  *)
(* of a stack of parser states until the text ends or a state throws.      *)
(*                                                                         *)
(* Each action is one iteration of one of the loops of parse(),            *)
(* collect_trivia() and handle_complete(); pc says which.  The text is any *)
(* sequence of at most MaxTokens tokens of Alphabet: the lexer is external *)
(* and its next token is chosen when the iterator moves.                   *)
(***************************************************************************)
EXTENDS TypeStates, SpecifierStates, ImportStates, ExportStates, ScopeStates,
        Declaration, Naturals, FiniteSets

CONSTANTS
  Alphabet,   \* the token classes that may occur in the text
  MaxTokens,  \* the length of the longest text
  IndexGiven  \* whether the caller gives a trivia index: TRUE, FALSE or both

ASSUME AlphabetAssumption  == Alphabet \subseteq Token
ASSUME MaxTokensAssumption == MaxTokens \in Nat
ASSUME IndexAssumption     == IndexGiven \subseteq BOOLEAN

VARIABLES
  token_iter,         \* the token the lexer's iterator is at, or EndOfText
  tokens_read,        \* how many tokens the iterator has reached
  synthetic_newline,  \* whether a line break is to be processed before it
  pending_trivia,     \* trivia collected and not yet flushed, with its place
  trivia_index,       \* whether an index was given, and what is emplaced in it
  state_stack,        \* the frames, the file scope first
  declaration,        \* the import or export under construction
  children,           \* the statements of the file scope
  pc,                 \* where parse() is, see Location
  node,               \* the node that handle_complete is about to deliver
  resume,             \* where handle_complete returns to
  error               \* the exception that ended parse(), or "none"

vars == <<token_iter, tokens_read, synthetic_newline, pending_trivia,
          trivia_index, state_stack, declaration, children, pc, node, resume,
          error>>
lexer_vars == <<token_iter, tokens_read>>
trivia_vars == <<pending_trivia, trivia_index>>

Location == {"collect_trivia", "process", "handle_complete", "eof", "returned", "thrown"}
Resume   == {"advance", "reprocess", "eof"}

StateName == TypeStateName \cup SpecifierStateName \cup ImportStateName
             \cup ExportStateName \cup ScopeStateName

---------------------------------------------------------------------------
(* The virtual calls on the state at the top of the stack.                 *)

Process(f, t) ==
  CASE f.state \in TypeStateName      -> TypeProcess(f, t)
    [] f.state \in SpecifierStateName -> SpecifierProcess(f, t)
    [] f.state \in ImportStateName    -> ImportProcess(f, t)
    [] f.state \in ExportStateName    -> ExportProcess(f, t)
    [] OTHER                          -> ScopeProcess(f, t)

AcceptChild(f, n) ==
  CASE f.state \in TypeStateName      -> TypeAcceptChild(f, n)
    [] f.state \in SpecifierStateName -> SpecifierAcceptChild(f, n)
    [] f.state \in ImportStateName    -> ImportAcceptChild(f, n)
    [] f.state \in ExportStateName    -> ExportAcceptChild(f, n)
    [] OTHER                          -> ScopeAcceptChild(f, n)

OnEof(f) ==
  CASE f.state \in TypeStateName   -> TypeOnEof(f)
    [] f.state \in ImportStateName -> ImportOnEof(f)
    [] f.state \in ExportStateName -> ExportOnEof(f)
    [] OTHER                       -> NullOpt(f)

Depth == Len(state_stack)
Top == state_stack[Depth]
(* Mutant: a completed state is popped twice.                              *)
BelowTwo == SubSeq(state_stack, 1, Depth - 2)

Below == SubSeq(state_stack, 1, Depth - 1)
WithTop(f) == [state_stack EXCEPT ![Depth] = f]

---------------------------------------------------------------------------
(* Tokens.                                                                 *)

NextToken == IF tokens_read < MaxTokens THEN Alphabet \cup {EndOfText} ELSE {EndOfText}
CurrentToken == IF synthetic_newline THEN "newline" ELSE token_iter
AtTokenEnd == ~synthetic_newline /\ token_iter = EndOfText

MoveIterator ==
  /\ token_iter' \in NextToken
  /\ tokens_read' = IF token_iter' = EndOfText THEN tokens_read ELSE tokens_read + 1

(* advance_token: a synthetic newline is used up before the real token.    *)
AdvanceToken ==
  IF synthetic_newline THEN synthetic_newline' = FALSE /\ UNCHANGED lexer_vars
  ELSE IF token_iter # EndOfText THEN MoveIterator /\ UNCHANGED synthetic_newline
  ELSE UNCHANGED <<synthetic_newline, lexer_vars>>

(* What follows a result: give the token back, or advance and collect.     *)
Continue(r) ==
  IF r.reprocess
  THEN pc' = "process" /\ UNCHANGED <<synthetic_newline, lexer_vars>>
  ELSE pc' = "collect_trivia" /\ AdvanceToken

---------------------------------------------------------------------------

Init ==
  /\ token_iter \in IF MaxTokens > 0 THEN Alphabet \cup {EndOfText} ELSE {EndOfText}
  /\ tokens_read = IF token_iter = EndOfText THEN 0 ELSE 1
  /\ synthetic_newline = FALSE
  /\ pending_trivia = <<>>
  /\ trivia_index \in [given : IndexGiven, entries : {<<>>}]
  /\ state_stack = <<Frame("module_scope", {})>>
  /\ declaration = NewDeclaration("none")
  /\ children = <<>>
  /\ pc = "collect_trivia"
  /\ node = NullNode
  /\ resume = "advance"
  /\ error = "none"

(* collect_trivia: comments and newlines leave the stream; what breaks the *)
(* line leaves a synthetic newline, unless the text ends.                  *)
CollectTrivia ==
  /\ pc = "collect_trivia"
  /\ token_iter \in Trivia
  /\ pending_trivia' = Append(pending_trivia, [token |-> token_iter, at |-> tokens_read])
  /\ synthetic_newline' = (synthetic_newline \/ token_iter \in LineBreak)
  /\ MoveIterator
  /\ UNCHANGED <<trivia_index, state_stack, declaration, children, pc, node,
                 resume, error>>

CollectDone ==
  /\ pc = "collect_trivia"
  /\ token_iter \notin Trivia
  /\ synthetic_newline' = (synthetic_newline /\ token_iter # EndOfText)
  /\ pc' = "process"
  /\ UNCHANGED <<lexer_vars, trivia_vars, state_stack, declaration, children,
                 node, resume, error>>

---------------------------------------------------------------------------
(* One iteration of the main loop of parse().                              *)

Processed == Process(Top, CurrentToken)
Built == Build(declaration, Processed.calls, CurrentToken)

Raise(e) == pc' = "thrown" /\ error' = e

Processing == pc = "process" /\ ~AtTokenEnd /\ ~Built.broken

ProcessStay ==
  /\ Processing /\ Processed.act = "stay"
  /\ state_stack' = WithTop(Processed.frame)
  /\ declaration' = Built
  /\ Continue(Processed)
  /\ UNCHANGED <<trivia_vars, children, node, resume, error>>

ProcessPush ==
  /\ Processing /\ Processed.act = "push"
  /\ state_stack' = Append(WithTop(Processed.frame), Processed.child)
  /\ declaration' = Built
  /\ Continue(Processed)
  /\ UNCHANGED <<trivia_vars, children, node, resume, error>>

(* handle_complete, up to its loop.                                        *)
ProcessComplete ==
  /\ Processing /\ Processed.act = "complete"
  /\ state_stack' = Below
  /\ declaration' = Built
  /\ synthetic_newline' = (synthetic_newline \/ Processed.newline)
  /\ node' = Processed.node
  /\ resume' = IF Processed.reprocess THEN "reprocess" ELSE "advance"
  /\ pc' = "handle_complete"
  /\ UNCHANGED <<lexer_vars, trivia_vars, children, error>>

ProcessThrow ==
  /\ pc = "process" /\ ~AtTokenEnd
  /\ Processed.act = "throw" \/ Built.broken
  /\ Raise(IF Built.broken THEN "bad_variant_access" ELSE Processed.error)
  /\ UNCHANGED <<lexer_vars, synthetic_newline, trivia_vars, state_stack,
                 declaration, children, node, resume>>

EndOfTokens ==
  /\ pc = "process" /\ AtTokenEnd
  /\ pc' = "eof"
  /\ UNCHANGED <<lexer_vars, synthetic_newline, trivia_vars, state_stack,
                 declaration, children, node, resume, error>>

---------------------------------------------------------------------------
(* One iteration of the loop of handle_complete: flush_trivia, then the    *)
(* state that is now on top accepts the node.                              *)

(* filtered_token_index::emplace refuses a newline; what came before it is *)
(* in the index by then.                                                   *)
Emplaceable ==
  Cardinality({n \in 1 .. Len(pending_trivia) :
                 \A i \in 1 .. n : pending_trivia[i].token # "newline"})
Refused == Emplaceable < Len(pending_trivia)

Entries(kind, relationship) ==
  [i \in 1 .. Emplaceable |->
     [token |-> pending_trivia[i].token, at |-> pending_trivia[i].at,
      node |-> kind, rel |-> relationship]]

Emplace(kind, relationship) ==
  /\ trivia_index' = [trivia_index EXCEPT !.entries = @ \o Entries(kind, relationship)]
  /\ pending_trivia' = SubSeq(pending_trivia, Emplaceable + 1, Len(pending_trivia))

Flushes == trivia_index.given /\ node.kind # "null"

(* Mutant: what has been indexed is still pending afterwards.              *)
FlushTriviaKeeps ==
  IF Flushes
  THEN /\ ~Refused
       /\ trivia_index' = [trivia_index EXCEPT !.entries = @ \o Entries(node.kind, "leading")]
       /\ UNCHANGED pending_trivia
  ELSE pending_trivia' = <<>> /\ UNCHANGED trivia_index

FlushTrivia ==
  IF Flushes THEN ~Refused /\ Emplace(node.kind, "leading")
  ELSE pending_trivia' = <<>> /\ UNCHANGED trivia_index

Accepted == AcceptChild(Top, node)
Stored == Build(declaration, Accepted.calls, CurrentToken)

Accepting == pc = "handle_complete" /\ ~Stored.broken

AcceptStay ==
  /\ Accepting /\ Accepted.act = "stay"
  /\ FlushTrivia
  /\ state_stack' = WithTop(Accepted.frame)
  /\ declaration' = Stored
  /\ children' = IF Top.state = "module_scope" THEN Append(children, node) ELSE children
  /\ node' = NullNode
  /\ CASE resume = "eof"       -> pc' = "eof" /\ UNCHANGED <<synthetic_newline, lexer_vars>>
       [] resume = "reprocess" -> pc' = "process" /\ UNCHANGED <<synthetic_newline, lexer_vars>>
       [] OTHER                -> pc' = "collect_trivia" /\ AdvanceToken
  /\ UNCHANGED <<resume, error>>

AcceptComplete ==
  /\ Accepting /\ Accepted.act = "complete"
  /\ FlushTrivia
  /\ state_stack' = Below
  /\ declaration' = Stored
  /\ node' = Accepted.node
  /\ UNCHANGED <<lexer_vars, synthetic_newline, children, pc, resume, error>>

AcceptThrow ==
  /\ pc = "handle_complete"
  /\ Accepted.act = "throw" \/ Stored.broken
  /\ FlushTrivia
  /\ Raise(IF Stored.broken THEN "bad_variant_access" ELSE Accepted.error)
  /\ UNCHANGED <<lexer_vars, synthetic_newline, state_stack, declaration,
                 children, node, resume>>

FlushThrow ==
  /\ pc = "handle_complete" /\ Flushes /\ Refused
  /\ Emplace(node.kind, "leading")
  /\ Raise("invalid_argument")
  /\ UNCHANGED <<lexer_vars, synthetic_newline, state_stack, declaration,
                 children, node, resume>>

---------------------------------------------------------------------------
(* The end of the text: unwind the states that may end here, flush.        *)

EofComplete ==
  /\ pc = "eof" /\ Depth > 1
  /\ LET r == OnEof(Top)
     IN  r.act = "complete" /\ node' = r.node
  /\ state_stack' = Below
  /\ resume' = "eof"
  /\ pc' = "handle_complete"
  /\ UNCHANGED <<lexer_vars, synthetic_newline, trivia_vars, declaration,
                 children, error>>

EofThrow ==
  /\ pc = "eof" /\ Depth > 1 /\ OnEof(Top).act = "nullopt"
  /\ Raise("unexpected_end_of_text")
  /\ UNCHANGED <<lexer_vars, synthetic_newline, trivia_vars, state_stack,
                 declaration, children, node, resume>>

Return ==
  /\ pc = "eof" /\ Depth = 1
  /\ IF trivia_index.given THEN Emplace("null", "orphaned")
     ELSE pending_trivia' = <<>> /\ UNCHANGED trivia_index
  /\ IF trivia_index.given /\ Refused THEN Raise("invalid_argument")
     ELSE pc' = "returned" /\ UNCHANGED error
  /\ UNCHANGED <<lexer_vars, synthetic_newline, state_stack, declaration,
                 children, node, resume>>

Terminated == pc \in {"returned", "thrown"} /\ UNCHANGED vars

Next ==
  \/ CollectTrivia \/ CollectDone
  \/ ProcessStay \/ ProcessPush \/ ProcessComplete \/ ProcessThrow \/ EndOfTokens
  \/ AcceptStay \/ AcceptComplete \/ AcceptThrow \/ FlushThrow
  \/ EofComplete \/ EofThrow \/ Return
  \/ Terminated

Spec == Init /\ [][Next]_vars

(* parse() is one sequential call: nothing but its caller's thread runs it. *)
FairSpec == Spec /\ WF_vars(Next)
===========================================================================
