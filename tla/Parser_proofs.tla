--------------------------- MODULE Parser_proofs ---------------------------
(***************************************************************************)
(* The parser loop keeps its variables in their types and its stack in     *)
(* shape.  Every step either replaces the top frame by one of the same     *)
(* state, pushes a frame that the top may push, or pops a frame that is    *)
(* not the file scope; the soundness of the states' results, from the      *)
(* module extended here, says that these are the only cases.               *)
(***************************************************************************)
EXTENDS States_proofs, FiniteSetTheorems, SequenceTheorems

---------------------------------------------------------------------------
(* The states' results.                                                    *)

LEMMA ProcessSound ==
  ASSUME NEW f, NEW t, IsFrame(f) PROVE Sound(f, t, Process(f, t))
<1>1. f.state \in StateName BY DEF IsFrame, FrameSet
<1> QED
  BY <1>1, TypeProcessSound, SpecifierProcessSound, ImportProcessSound, ExportProcessSound,
     ScopeProcessSound DEF Process, StateName

LEMMA AcceptChildSound ==
  ASSUME NEW f, NEW t, IsFrame(f), NEW n \in AstNode
  PROVE  Sound(f, t, AcceptChild(f, n))
<1>1. f.state \in StateName BY DEF IsFrame, FrameSet
<1> QED
  BY <1>1, TypeAcceptChildSound, SpecifierAcceptChildSound, ImportAcceptChildSound,
     ExportAcceptChildSound, ScopeAcceptChildSound DEF AcceptChild, StateName

LEMMA OnEofSound ==
  ASSUME NEW f, NEW t, IsFrame(f) PROVE Sound(f, t, OnEof(f))
BY TypeOnEofSound, ImportOnEofSound, ExportOnEofSound, SoundNullOpt DEF OnEof

---------------------------------------------------------------------------
(* The declaration under construction.                                     *)

(* A declaration, with the outcome of the last call.                       *)
Draft == [form : Form, has : SUBSET Part, attribute_values : SUBSET Constant,
          specifiers : Seq(Specifier), current : Specifier, broken : BOOLEAN]

LEMMA PartNames ==
  /\ "none" \in Form /\ "from" \in Form /\ "side_effect" \in Form /\ "equals" \in Form
  /\ "export" \in Form
  /\ "type_keyword" \in Part /\ "default_binding" \in Part /\ "namespace_name" \in Part
  /\ "named" \in Part /\ "module_specifier" \in Part /\ "attributes_keyword" \in Part
  /\ "require" \in Part /\ "require_module_specifier" \in Part /\ "entity_name" \in Part
  /\ "as_name" \in Part /\ "semicolon" \in Part
BY DEF Form, Part

LEMMA HasTyped ==
  ASSUME NEW d \in Draft, NEW p \in Part
  PROVE  Has(d, p) \in Draft /\ Broken(d) \in Draft
BY DEF Draft, Has, Broken

LEMMA FormTyped ==
  ASSUME NEW d \in Draft, NEW form \in Form
  PROVE  [d EXCEPT !.form = form] \in Draft
BY DEF Draft

LEMMA EnsureTyped ==
  ASSUME NEW d \in Draft
  PROVE  /\ EnsureFrom(d) \in Draft /\ EnsureEquals(d) \in Draft
         /\ EnsureNamed(d) \in Draft /\ EnsureRequire(d) \in Draft
<1>1. EnsureFrom(d) \in Draft
  BY HasTyped, FormTyped, PartNames DEF EnsureFrom
<1>2. EnsureEquals(d) \in Draft
  BY HasTyped, FormTyped, PartNames DEF EnsureEquals
<1>3. EnsureNamed(d) \in Draft
  BY <1>1, HasTyped, PartNames DEF EnsureNamed
<1>4. EnsureRequire(d) \in Draft
  BY HasTyped, PartNames DEF EnsureRequire
<1> QED BY <1>1, <1>2, <1>3, <1>4

LEMMA SpecifierTyped ==
  ASSUME NEW s \in Specifier
  PROVE  /\ NoSpecifier \in Specifier
         /\ [s EXCEPT !.type_keyword = "type"] \in Specifier
         /\ \A n \in Name : [s EXCEPT !.name = n] \in Specifier
         /\ [s EXCEPT !.name = s.type_keyword, !.type_keyword = "none"] \in Specifier
         /\ \A a \in Identifier : [s EXCEPT !.alias = a] \in Specifier
         /\ [s EXCEPT !.name = Normalize(s.name), !.alias = Normalize(s.alias)] \in Specifier
BY DEF Specifier, NoSpecifier, Name, SpecifierName, Normalize, Identifier

LEMMA CurrentTyped ==
  ASSUME NEW d \in Draft, NEW s \in Specifier
  PROVE  [d EXCEPT !.current = s] \in Draft
BY DEF Draft

LEMMA StoreTyped == ASSUME NEW d \in Draft PROVE StoreSpecifier(d) \in Draft
<1>. DEFINE e == IF d.form = "export" THEN d ELSE EnsureNamed(d)
            s == [d.current EXCEPT !.name = Normalize(d.current.name),
                                   !.alias = Normalize(d.current.alias)]
<1>1. e \in Draft BY EnsureTyped
<1>2. s \in Specifier /\ NoSpecifier \in Specifier
  BY SpecifierTyped DEF Draft
<1>3. StoreSpecifier(d) = [e EXCEPT !.specifiers = Append(e.specifiers, s),
                                    !.current = NoSpecifier]
  BY DEF StoreSpecifier
<1>. HIDE DEF e, s
<1>4. Append(e.specifiers, s) \in Seq(Specifier)
  BY <1>1, <1>2, AppendProperties DEF Draft
<1>5. \A q \in Seq(Specifier) :
        [e EXCEPT !.specifiers = q, !.current = NoSpecifier] \in Draft
  BY <1>1, <1>2 DEF Draft
<1> QED BY <1>3, <1>4, <1>5

(* The calls that write the members of the specifier at work.              *)
LEMMA SpecifierCallTyped ==
  ASSUME NEW d \in Draft, NEW t
  PROVE  /\ [d EXCEPT !.current = NoSpecifier] \in Draft
         /\ [d EXCEPT !.current.type_keyword = "type"] \in Draft
         /\ t \in SpecifierName => [d EXCEPT !.current.name = t] \in Draft
         /\ t \in Identifier => [d EXCEPT !.current.alias = t] \in Draft
         /\ DemoteType(d) \in Draft
<1>1. d.current \in Specifier BY DEF Draft
<1>2. [d EXCEPT !.current = NoSpecifier] \in Draft
  BY <1>1, SpecifierTyped, CurrentTyped
<1>3. [d EXCEPT !.current.type_keyword = "type"] \in Draft
  BY <1>1, SpecifierTyped, CurrentTyped
<1>4. t \in SpecifierName => [d EXCEPT !.current.name = t] \in Draft
  BY <1>1, SpecifierTyped, CurrentTyped DEF Name
<1>5. t \in Identifier => [d EXCEPT !.current.alias = t] \in Draft
  BY <1>1, SpecifierTyped, CurrentTyped
<1>6. DemoteType(d) \in Draft
  <2>1. [d.current EXCEPT !.name = d.current.type_keyword, !.type_keyword = "none"]
          \in Specifier
    BY <1>1, SpecifierTyped
  <2>2. DemoteType(d) = [d EXCEPT !.current = [d.current EXCEPT
          !.name = d.current.type_keyword, !.type_keyword = "none"]]
    BY DEF DemoteType, Draft
  <2> QED BY <2>1, <2>2, CurrentTyped
<1> QED BY <1>2, <1>3, <1>4, <1>5, <1>6

LEMMA CallTyped ==
  ASSUME NEW d \in Draft, NEW c, NEW t, CallFits(c, t)
  PROVE  Call(d, c, t) \in Draft
<1>1. \A form \in Form : NewDeclaration(form) \in Draft
  BY SpecifierTyped, EmptySeq DEF NewDeclaration, Draft, Specifier, NoSpecifier, Name
<1>2. SetNamespaceName(d) \in Draft
  BY EnsureTyped, PartNames DEF SetNamespaceName, Draft
<1>3. SetModuleSpecifier(d) \in Draft
  BY HasTyped, FormTyped, PartNames DEF SetModuleSpecifier
<1>4. SetRequireModuleSpecifier(d) \in Draft /\ AddEntityIdentifier(d) \in Draft
  BY HasTyped, PartNames DEF SetRequireModuleSpecifier, AddEntityIdentifier
<1>5. t \in Constant => AddAttribute(d, t) \in Draft
  BY DEF AddAttribute, Draft
<1> QED
  BY <1>1, <1>2, <1>3, <1>4, <1>5, PartNames, HasTyped, EnsureTyped, StoreTyped,
     SpecifierCallTyped DEF Call, CallFits

LEMMA BuildTyped ==
  ASSUME NEW d \in DeclarationSet, NEW f, NEW t, NEW r, Sound(f, t, r),
         ~Build(d, r.calls, t).broken
  PROVE  Build(d, r.calls, t) \in DeclarationSet
<1>1. d \in Draft BY DEF Draft, DeclarationSet
<1>2. Build(d, r.calls, t) \in Draft
  BY <1>1, CallTyped DEF Build, Sound
<1>. HIDE DEF Build
<1>3. \A x \in Draft : ~x.broken => x \in DeclarationSet
  BY DEF Draft, DeclarationSet
<1> QED BY <1>2, <1>3

---------------------------------------------------------------------------
(* The stack.                                                              *)

(* StackShape for a sequence of frames, with its type.                     *)
IsStack(s) ==
  /\ s \in Seq(FrameSet) \ {<<>>}
  /\ s[1].state = "module_scope"
  /\ \A i \in 1 .. Len(s) - 1 : s[i + 1].state \in MayPush(s[i].state)

LEMMA StackTop ==
  ASSUME NEW s, IsStack(s)
  PROVE  Len(s) \in Nat \ {0} /\ IsFrame(s[Len(s)])
BY EmptySeq, ElementOfSeq DEF IsStack, IsFrame

(* The three things a step does to the stack.                              *)
LEMMA ReplaceTop ==
  ASSUME NEW s, IsStack(s), NEW g, Replaces(s[Len(s)], g)
  PROVE  IsStack([s EXCEPT ![Len(s)] = g])
<1>1. Len(s) \in Nat \ {0} BY StackTop
<1>2. /\ [s EXCEPT ![Len(s)] = g] \in Seq(FrameSet)
      /\ Len([s EXCEPT ![Len(s)] = g]) = Len(s)
      /\ \A j \in 1 .. Len(s) :
           [s EXCEPT ![Len(s)] = g][j] = IF j = Len(s) THEN g ELSE s[j]
  BY <1>1, ExceptSeq DEF IsStack, Replaces, IsFrame
<1>3. \A j \in 1 .. Len(s) : [s EXCEPT ![Len(s)] = g][j].state = s[j].state
  BY <1>2 DEF Replaces
<1>. DEFINE u == [s EXCEPT ![Len(s)] = g]
<1>4. u # <<>> BY <1>1, <1>2, EmptySeq
<1>5. u \in Seq(FrameSet) /\ Len(u) = Len(s) BY <1>2
<1>6. \A j \in 1 .. Len(s) : u[j].state = s[j].state BY <1>3
<1>. HIDE DEF u
<1>7. IsStack(u) BY <1>1, <1>4, <1>5, <1>6 DEF IsStack
<1> QED BY <1>7 DEF u

LEMMA PushOnTop ==
  ASSUME NEW s, IsStack(s), NEW c, Pushes(s[Len(s)], c)
  PROVE  IsStack(Append(s, c))
<1>1. Len(s) \in Nat \ {0} BY StackTop
<1>2. /\ Append(s, c) \in Seq(FrameSet)
      /\ Append(s, c) # <<>>
      /\ Len(Append(s, c)) = Len(s) + 1
      /\ \A i \in 1 .. Len(s) : Append(s, c)[i] = s[i]
      /\ Append(s, c)[Len(s) + 1] = c
  BY AppendProperties DEF IsStack, Pushes, IsFrame
<1>. DEFINE u == Append(s, c)
<1>. HIDE DEF u
<1>3. \A i \in 1 .. Len(u) - 1 : u[i + 1].state \in MayPush(u[i].state)
  BY <1>1, <1>2 DEF IsStack, Pushes, u
<1> QED BY <1>1, <1>2, <1>3 DEF IsStack, u

(* Only the file scope can be alone on the stack.                          *)
LEMMA PopTop ==
  ASSUME NEW s, IsStack(s), s[Len(s)].state # "module_scope"
  PROVE  IsStack(SubSeq(s, 1, Len(s) - 1))
<1>1. Len(s) \in Nat \ {0, 1} BY StackTop DEF IsStack
<1>2. \A i \in 1 .. Len(s) - 1 : s[i] \in FrameSet
  BY <1>1, ElementOfSeq DEF IsStack
<1>. DEFINE n == Len(s) - 1
            u == SubSeq(s, 1, n)
<1>3. n \in Nat \ {0} BY <1>1
<1>. HIDE DEF n
<1>4. u \in Seq(FrameSet) /\ Len(u) = n /\ \A i \in 1 .. n : u[i] = s[i]
  <2>1. \A i \in 1 .. n : s[i] \in FrameSet BY <1>2 DEF n
  <2>2. /\ u \in Seq(FrameSet)
        /\ Len(u) = IF 1 <= n THEN n - 1 + 1 ELSE 0
        /\ \A i \in 1 .. n - 1 + 1 : u[i] = s[1 + i - 1]
    BY <1>3, <2>1, SubSeqProperties
  <2>. HIDE DEF u
  <2>3. (IF 1 <= n THEN n - 1 + 1 ELSE 0) = n /\ n - 1 + 1 = n BY <1>3
  <2>4. \A i \in 1 .. n : 1 + i - 1 = i BY <1>3
  <2> QED BY <1>3, <2>2, <2>3, <2>4
<1>. HIDE DEF u
<1>5. u # <<>> BY <1>3, <1>4, EmptySeq
<1>6. IsStack(u)
  <2>1. \A i \in 1 .. n - 1 : i \in 1 .. n /\ i + 1 \in 1 .. n /\ i \in 1 .. Len(s) - 1
    BY <1>1, <1>3 DEF n
  <2>2. \A i \in 1 .. n - 1 : u[i + 1].state \in MayPush(u[i].state)
    BY <1>4, <2>1 DEF IsStack
  <2>3. u[1].state = "module_scope" BY <1>3, <1>4 DEF IsStack
  <2> QED BY <1>4, <1>5, <2>2, <2>3 DEF IsStack
<1> QED BY <1>6 DEF u, n

---------------------------------------------------------------------------
(* The inductive invariant, by groups of variables.                        *)

(* A token at the iterator has been counted.                               *)
LexerOK ==
  /\ token_iter \in Alphabet \cup {EndOfText}
  /\ tokens_read \in 0 .. MaxTokens
  /\ synthetic_newline \in BOOLEAN
  /\ token_iter # EndOfText => tokens_read > 0

TriviaOK ==
  /\ pending_trivia \in Seq([token : Trivia, at : 1 .. MaxTokens])
  /\ trivia_index \in [given : BOOLEAN, entries : Seq(EntrySet)]

TreeOK ==
  /\ declaration \in DeclarationSet
  /\ children \in Seq(AstNode)
  /\ node \in AstNode

ControlOK == pc \in Location /\ resume \in Resume /\ error \in Error

Inv == LexerOK /\ TriviaOK /\ IsStack(state_stack) /\ TreeOK /\ ControlOK

LEMMA InvImplies == Inv => TypeOK /\ StackShape
<1>. SUFFICES ASSUME Inv PROVE TypeOK /\ StackShape
  OBVIOUS
<1>1. TypeOK
  BY DEF Inv, TypeOK, LexerOK, TriviaOK, TreeOK, ControlOK, IsStack
<1>2. StackShape
  BY StackTop DEF Inv, IsStack, StackShape, Depth
<1> QED BY <1>1, <1>2

LEMMA InitInv == Init => Inv
<1>. SUFFICES ASSUME Init PROVE Inv
  OBVIOUS
<1>1. LexerOK
  <2>1. token_iter \in Alphabet \cup {EndOfText} /\ (MaxTokens = 0 => token_iter = EndOfText)
    <3>1. CASE MaxTokens > 0 BY <3>1 DEF Init
    <3>2. CASE ~(MaxTokens > 0) BY <3>2 DEF Init
    <3> QED BY <3>1, <3>2, MaxTokensAssumption
  <2>2. tokens_read = IF token_iter = EndOfText THEN 0 ELSE 1 BY DEF Init
  <2>3. synthetic_newline \in BOOLEAN BY DEF Init
  <2> QED BY <2>1, <2>2, <2>3, MaxTokensAssumption DEF LexerOK
<1>2. TriviaOK BY IndexAssumption, EmptySeq DEF Init, TriviaOK
<1>3. IsStack(state_stack)
  <2>1. IsFrame(Frame("module_scope", {})) /\ Frame("module_scope", {}).state = "module_scope"
    BY NewFrame, NoFlags DEF StateName, ScopeStateName
  <2>. DEFINE u == <<Frame("module_scope", {})>>
  <2>2. u \in Seq(FrameSet) /\ Len(u) = 1 /\ u[1] = Frame("module_scope", {})
    BY <2>1 DEF IsFrame
  <2>. HIDE DEF u
  <2>3. IsStack(u) BY <2>1, <2>2, EmptySeq DEF IsStack
  <2> QED BY <2>3 DEF Init, u
<1>4. TreeOK
  <2>1. NewDeclaration("none") \in DeclarationSet
    BY EmptySeq DEF NewDeclaration, DeclarationSet, Form, Specifier, NoSpecifier, Name
  <2> QED BY <2>1, ANullNode, EmptySeq DEF Init, TreeOK
<1>5. ControlOK BY DEF Init, ControlOK, Location, Resume, Error
<1> QED BY <1>1, <1>2, <1>3, <1>4, <1>5 DEF Inv

---------------------------------------------------------------------------
(* The lexer's variables.                                                  *)

LEMMA IteratorMoves ==
  ASSUME LexerOK, MoveIterator
  PROVE  /\ token_iter' \in Alphabet \cup {EndOfText}
         /\ tokens_read' \in 0 .. MaxTokens
         /\ token_iter' # EndOfText => tokens_read' > 0
BY MaxTokensAssumption DEF LexerOK, MoveIterator, NextToken

LEMMA TokenAdvances == ASSUME LexerOK, AdvanceToken PROVE LexerOK'
<1>1. CASE synthetic_newline
  BY <1>1 DEF LexerOK, AdvanceToken, lexer_vars
<1>2. CASE ~synthetic_newline /\ token_iter # EndOfText
  BY <1>2, IteratorMoves DEF LexerOK, AdvanceToken
<1>3. CASE ~synthetic_newline /\ token_iter = EndOfText
  BY <1>3 DEF LexerOK, AdvanceToken, lexer_vars
<1> QED BY <1>1, <1>2, <1>3

LEMMA LexerStays == LexerOK /\ UNCHANGED <<lexer_vars, synthetic_newline>> => LexerOK'
BY DEF LexerOK, lexer_vars

---------------------------------------------------------------------------
(* The trivia.                                                             *)

(* What emplace takes from pending_trivia is its comments up to the first  *)
(* newline.                                                                *)
LEMMA EmplaceableSplits ==
  ASSUME TriviaOK
  PROVE  /\ Emplaceable \in 0 .. Len(pending_trivia)
         /\ \A i \in 1 .. Emplaceable : pending_trivia[i].token # "newline"
<1>. DEFINE all == 1 .. Len(pending_trivia)
            good == {n \in all : \A i \in 1 .. n : pending_trivia[i].token # "newline"}
<1>1. Len(pending_trivia) \in Nat BY LenProperties DEF TriviaOK
<1>2. \A n \in Nat : IsFiniteSet(1 .. n) /\ Cardinality(1 .. n) = n
  <2>. TAKE n \in Nat
  <2>1. IsFiniteSet(1 .. n) /\ Cardinality(1 .. n) = IF 1 > n THEN 0 ELSE n - 1 + 1
    BY FS_Interval
  <2>2. (IF 1 > n THEN 0 ELSE n - 1 + 1) = n OBVIOUS
  <2> QED BY <2>1, <2>2
<1>3. IsFiniteSet(good) /\ Cardinality(good) <= Len(pending_trivia)
  <2>1. IsFiniteSet(all) /\ Cardinality(all) = Len(pending_trivia) BY <1>1, <1>2
  <2>2. good \subseteq all OBVIOUS
  <2> QED BY <2>1, <2>2, FS_Subset
<1>4. Cardinality(good) \in 0 .. Len(pending_trivia)
  <2>1. \A c, n \in Nat : c <= n => c \in 0 .. n OBVIOUS
  <2>2. Cardinality(good) \in Nat BY <1>3, FS_CardinalityType
  <2> HIDE DEF good
  <2> QED BY <1>1, <1>3, <2>1, <2>2
<1>5. ASSUME NEW i \in 1 .. Cardinality(good), pending_trivia[i].token = "newline"
      PROVE  FALSE
  <2>1. good \subseteq 1 .. i - 1
    BY <1>1, <1>4, <1>5
  <2>2. IsFiniteSet(1 .. i - 1) /\ Cardinality(1 .. i - 1) = i - 1
    <3>1. i - 1 \in Nat BY <1>4
    <3> QED BY <1>2, <3>1
  <2>3. Cardinality(good) <= i - 1
    BY <2>1, <2>2, FS_Subset
  <2> QED BY <1>4, <2>3
<1> QED BY <1>4, <1>5 DEF Emplaceable

LEMMA EmplaceTyped ==
  ASSUME TriviaOK, NEW kind \in NodeKind, NEW relationship \in {"leading", "orphaned"},
         Emplace(kind, relationship)
  PROVE  TriviaOK'
<1>. DEFINE pending == [token : Trivia, at : 1 .. MaxTokens]
            entries == Entries(kind, relationship)
<1>1. Emplaceable \in Nat /\ Len(pending_trivia) \in Nat /\ Emplaceable <= Len(pending_trivia)
  BY EmplaceableSplits, LenProperties DEF TriviaOK
<1>2. \A i \in 1 .. Len(pending_trivia) : pending_trivia[i] \in pending
  BY ElementOfSeq DEF TriviaOK
<1>3. entries \in Seq(EntrySet)
  <2>1. \A i \in 1 .. Emplaceable : pending_trivia[i].token \in Comment
                                 /\ pending_trivia[i].at \in 1 .. MaxTokens
    BY <1>1, <1>2, EmplaceableSplits DEF Trivia
  <2>2. \A i \in 1 .. Emplaceable :
          [token |-> pending_trivia[i].token, at |-> pending_trivia[i].at,
           node |-> kind, rel |-> relationship] \in EntrySet
    BY <2>1 DEF EntrySet
  <2> QED BY <1>1, <2>2 DEF Entries
<1>. HIDE DEF entries
<1>4. trivia_index.entries \o entries \in Seq(EntrySet)
  BY <1>3, ConcatProperties DEF TriviaOK
<1>5. SubSeq(pending_trivia, Emplaceable + 1, Len(pending_trivia)) \in Seq(pending)
  BY <1>1, <1>2, SubSeqProperties
<1> QED BY <1>4, <1>5 DEF TriviaOK, Emplace, entries

LEMMA FlushTyped ==
  ASSUME TriviaOK, node \in AstNode, FlushTrivia PROVE TriviaOK'
<1>1. CASE Flushes
  BY <1>1, EmplaceTyped DEF FlushTrivia, AstNode
<1>2. CASE ~Flushes
  BY <1>2, EmptySeq DEF FlushTrivia, TriviaOK
<1> QED BY <1>1, <1>2

LEMMA TriviaStays == TriviaOK /\ UNCHANGED trivia_vars => TriviaOK'
BY DEF TriviaOK, trivia_vars

---------------------------------------------------------------------------
(* The actions.  Lines that all of them need: what is at the top of the    *)
(* stack and what the result of calling it is.                             *)

LEMMA TopFrame ==
  ASSUME Inv
  PROVE  /\ IsFrame(Top)
         /\ Top = state_stack[Len(state_stack)]
         /\ \A g : WithTop(g) = [state_stack EXCEPT ![Len(state_stack)] = g]
         /\ Below = SubSeq(state_stack, 1, Len(state_stack) - 1)
         /\ Sound(Top, CurrentToken, Processed)
         /\ Sound(Top, CurrentToken, Accepted)
         /\ Sound(Top, CurrentToken, OnEof(Top))
<1>1. IsFrame(Top) /\ Top = state_stack[Len(state_stack)]
  BY StackTop DEF Inv, Top, Depth
<1>2. Sound(Top, CurrentToken, Processed)
  BY <1>1, ProcessSound DEF Processed
<1>3. Sound(Top, CurrentToken, Accepted)
  BY <1>1, AcceptChildSound DEF Accepted, Inv, TreeOK
<1>4. Sound(Top, CurrentToken, OnEof(Top)) BY <1>1, OnEofSound
<1> QED BY <1>1, <1>2, <1>3, <1>4 DEF WithTop, Below, Depth

(* The stack after a result that stays, pushes or completes.               *)
LEMMA StackSteps ==
  ASSUME Inv, NEW r, Sound(Top, CurrentToken, r)
  PROVE  /\ r.act \in {"stay", "push"} => IsStack(WithTop(r.frame))
         /\ r.act = "push" => IsStack(Append(WithTop(r.frame), r.child))
         /\ r.act = "complete" => IsStack(Below)
<1>1. ASSUME r.act \in {"stay", "push"} PROVE IsStack(WithTop(r.frame))
  <2>1. Replaces(state_stack[Len(state_stack)], r.frame)
    BY <1>1, TopFrame DEF Sound
  <2>2. IsStack([state_stack EXCEPT ![Len(state_stack)] = r.frame])
    BY <2>1, ReplaceTop DEF Inv
  <2> QED BY <2>2 DEF WithTop, Depth
<1>2. ASSUME r.act = "push" PROVE IsStack(Append(WithTop(r.frame), r.child))
  <2>. DEFINE u == WithTop(r.frame)
  <2>1. IsStack(u) BY <1>1, <1>2
  <2>2. r.frame \in FrameSet /\ r.frame.state = Top.state
    BY <1>2 DEF Sound, Replaces, IsFrame
  <2>3. Len(u) = Len(state_stack) /\ u[Len(u)] = r.frame
    <3>1. state_stack \in Seq(FrameSet) /\ Len(state_stack) \in 1 .. Len(state_stack)
      BY StackTop DEF Inv, IsStack
    <3>2. u = [state_stack EXCEPT ![Len(state_stack)] = r.frame] BY TopFrame
    <3> QED BY <2>2, <3>1, <3>2, ExceptSeq
  <2>4. Pushes(u[Len(u)], r.child)
    BY <1>2, <2>2, <2>3 DEF Sound, Pushes
  <2>. HIDE DEF u
  <2>5. IsStack(Append(u, r.child)) BY <2>1, <2>4, PushOnTop
  <2> QED BY <2>5 DEF u
<1>3. ASSUME r.act = "complete" PROVE IsStack(Below)
  BY <1>3, TopFrame, PopTop DEF Sound, Inv
<1> QED BY <1>1, <1>2, <1>3

LEMMA CollectTriviaInv == ASSUME Inv, CollectTrivia PROVE Inv'
<1>. USE DEF CollectTrivia
<1>1. LexerOK'
  BY IteratorMoves DEF Inv, LexerOK
<1>2. TriviaOK'
  <2>1. token_iter # EndOfText BY DEF Trivia, Comment, EndOfText
  <2>2. tokens_read \in 1 .. MaxTokens
    BY <2>1, MaxTokensAssumption DEF Inv, LexerOK
  <2>3. [token |-> token_iter, at |-> tokens_read] \in [token : Trivia, at : 1 .. MaxTokens]
    BY <2>2
  <2> QED BY <2>3, AppendProperties DEF Inv, TriviaOK
<1> QED BY <1>1, <1>2 DEF Inv, TreeOK, ControlOK

LEMMA CollectDoneInv == ASSUME Inv, CollectDone PROVE Inv'
<1>. USE DEF CollectDone
<1>1. LexerOK' BY DEF Inv, LexerOK, lexer_vars
<1>2. ControlOK' BY DEF Inv, ControlOK, Location
<1> QED BY <1>1, <1>2, TriviaStays DEF Inv, TreeOK

LEMMA BuiltTyped ==
  ASSUME Inv
  PROVE  /\ ~Built.broken => Built \in DeclarationSet
         /\ ~Stored.broken => Stored \in DeclarationSet
BY TopFrame, BuildTyped DEF Inv, TreeOK, Built, Stored

LEMMA ContinueTyped ==
  ASSUME LexerOK, NEW r, Continue(r) PROVE LexerOK' /\ pc' \in Location
<1>1. CASE r.reprocess BY <1>1, LexerStays DEF Continue, Location, lexer_vars
<1>2. CASE ~r.reprocess BY <1>2, TokenAdvances DEF Continue, Location
<1> QED BY <1>1, <1>2

LEMMA ProcessStayInv == ASSUME Inv, ProcessStay PROVE Inv'
<1>. USE DEF ProcessStay, Processing
<1>1. LexerOK' /\ pc' \in Location BY ContinueTyped DEF Inv
<1>2. IsStack(state_stack') BY TopFrame, StackSteps
<1>3. TreeOK' BY BuiltTyped DEF Inv, TreeOK
<1> QED BY <1>1, <1>2, <1>3, TriviaStays DEF Inv, ControlOK

LEMMA ProcessPushInv == ASSUME Inv, ProcessPush PROVE Inv'
<1>. USE DEF ProcessPush, Processing
<1>1. LexerOK' /\ pc' \in Location BY ContinueTyped DEF Inv
<1>2. IsStack(state_stack') BY TopFrame, StackSteps
<1>3. TreeOK' BY BuiltTyped DEF Inv, TreeOK
<1> QED BY <1>1, <1>2, <1>3, TriviaStays DEF Inv, ControlOK

LEMMA ProcessCompleteInv == ASSUME Inv, ProcessComplete PROVE Inv'
<1>. USE DEF ProcessComplete, Processing
<1>1. LexerOK' BY TopFrame DEF Inv, LexerOK, Sound, lexer_vars
<1>2. IsStack(state_stack') BY TopFrame, StackSteps
<1>3. TreeOK' BY TopFrame, BuiltTyped DEF Inv, TreeOK, Sound
<1>4. ControlOK' BY DEF Inv, ControlOK, Location, Resume
<1> QED BY <1>1, <1>2, <1>3, <1>4, TriviaStays DEF Inv

LEMMA ProcessThrowInv == ASSUME Inv, ProcessThrow PROVE Inv'
<1>. USE DEF ProcessThrow
<1>1. error' \in Error /\ pc' \in Location
  BY TopFrame DEF Sound, Raise, Error, Location
<1> QED BY <1>1, LexerStays, TriviaStays DEF Inv, TreeOK, ControlOK, lexer_vars

LEMMA EndOfTokensInv == ASSUME Inv, EndOfTokens PROVE Inv'
<1>. USE DEF EndOfTokens
<1>1. ControlOK' BY DEF Inv, ControlOK, Location
<1> QED BY <1>1, LexerStays, TriviaStays DEF Inv, TreeOK, lexer_vars

LEMMA AcceptStayInv == ASSUME Inv, AcceptStay PROVE Inv'
<1>. USE DEF AcceptStay, Accepting
<1>1. LexerOK' /\ pc' \in Location
  <2>1. CASE resume \in {"eof", "reprocess"}
    BY <2>1, LexerStays DEF Inv, Location, lexer_vars
  <2>2. CASE resume \notin {"eof", "reprocess"}
    BY <2>2, TokenAdvances DEF Inv, Location
  <2> QED BY <2>1, <2>2
<1>2. TriviaOK' BY FlushTyped DEF Inv, TreeOK
<1>3. IsStack(state_stack') BY TopFrame, StackSteps
<1>4. TreeOK'
  <2>1. children' \in Seq(AstNode) BY AppendProperties DEF Inv, TreeOK
  <2> QED BY <2>1, BuiltTyped, ANullNode DEF Inv, TreeOK
<1> QED BY <1>1, <1>2, <1>3, <1>4 DEF Inv, ControlOK

LEMMA AcceptCompleteInv == ASSUME Inv, AcceptComplete PROVE Inv'
<1>. USE DEF AcceptComplete, Accepting
<1>1. TriviaOK' BY FlushTyped DEF Inv, TreeOK
<1>2. IsStack(state_stack') BY TopFrame, StackSteps
<1>3. TreeOK' BY TopFrame, BuiltTyped DEF Inv, TreeOK, Sound
<1> QED BY <1>1, <1>2, <1>3, LexerStays DEF Inv, ControlOK, lexer_vars

LEMMA AcceptThrowInv == ASSUME Inv, AcceptThrow PROVE Inv'
<1>. USE DEF AcceptThrow
<1>1. TriviaOK' BY FlushTyped DEF Inv, TreeOK
<1>2. error' \in Error /\ pc' \in Location
  BY TopFrame DEF Sound, Raise, Error, Location
<1> QED BY <1>1, <1>2, LexerStays DEF Inv, TreeOK, ControlOK, lexer_vars

LEMMA FlushThrowInv == ASSUME Inv, FlushThrow PROVE Inv'
<1>. USE DEF FlushThrow
<1>1. TriviaOK' BY EmplaceTyped DEF Inv, TreeOK, AstNode
<1>2. error' \in Error /\ pc' \in Location BY DEF Raise, Error, Location
<1> QED BY <1>1, <1>2, LexerStays DEF Inv, TreeOK, ControlOK, lexer_vars

LEMMA EofCompleteInv == ASSUME Inv, EofComplete PROVE Inv'
<1>. USE DEF EofComplete
<1>1. OnEof(Top).act = "complete" /\ node' = OnEof(Top).node OBVIOUS
<1>2. IsStack(state_stack') BY <1>1, TopFrame, StackSteps
<1>3. TreeOK' BY <1>1, TopFrame DEF Inv, TreeOK, Sound
<1>4. ControlOK' BY DEF Inv, ControlOK, Location, Resume
<1> QED BY <1>2, <1>3, <1>4, LexerStays, TriviaStays DEF Inv, lexer_vars

LEMMA EofThrowInv == ASSUME Inv, EofThrow PROVE Inv'
<1>. USE DEF EofThrow
<1>1. error' \in Error /\ pc' \in Location BY DEF Raise, Error, Location
<1> QED BY <1>1, LexerStays, TriviaStays DEF Inv, TreeOK, ControlOK, lexer_vars

LEMMA ReturnInv == ASSUME Inv, Return PROVE Inv'
<1>. USE DEF Return
<1>1. TriviaOK'
  <2>1. CASE trivia_index.given
    BY <2>1, EmplaceTyped DEF Inv, NodeKind
  <2>2. CASE ~trivia_index.given
    BY <2>2, EmptySeq DEF Inv, TriviaOK
  <2> QED BY <2>1, <2>2
<1>2. error' \in Error /\ pc' \in Location
  BY DEF Inv, ControlOK, Raise, Error, Location
<1> QED BY <1>1, <1>2, LexerStays DEF Inv, TreeOK, ControlOK, lexer_vars

LEMMA StutterInv == Inv /\ UNCHANGED vars => Inv'
BY DEF vars, Inv, LexerOK, TriviaOK, TreeOK, ControlOK

LEMMA NextInv == Inv /\ [Next]_vars => Inv'
<1>. SUFFICES ASSUME Inv, [Next]_vars PROVE Inv'
  OBVIOUS
<1>1. ASSUME CollectTrivia \/ CollectDone PROVE Inv'
  BY <1>1, CollectTriviaInv, CollectDoneInv
<1>2. ASSUME ProcessStay \/ ProcessPush \/ ProcessComplete \/ ProcessThrow \/ EndOfTokens
      PROVE  Inv'
  BY <1>2, ProcessStayInv, ProcessPushInv, ProcessCompleteInv, ProcessThrowInv, EndOfTokensInv
<1>3. ASSUME AcceptStay \/ AcceptComplete \/ AcceptThrow \/ FlushThrow PROVE Inv'
  BY <1>3, AcceptStayInv, AcceptCompleteInv, AcceptThrowInv, FlushThrowInv
<1>4. ASSUME EofComplete \/ EofThrow \/ Return PROVE Inv'
  BY <1>4, EofCompleteInv, EofThrowInv, ReturnInv
<1>5. ASSUME Terminated \/ UNCHANGED vars PROVE Inv'
  BY <1>5, StutterInv DEF Terminated
<1> QED BY <1>1, <1>2, <1>3, <1>4, <1>5 DEF Next

---------------------------------------------------------------------------
(* The theorems.                                                           *)

(* In every state of a parse, whatever the text, the iterator, the trivia, *)
(* the stack, the tree and the control of parse() satisfy Inv.             *)
THEOREM Invariance == Spec => []Inv
<1> QED BY InitInv, NextInv, PTL DEF Spec

(* parse() keeps every variable in its type: whatever the text, the index  *)
(* holds comments only, no import is left with a wrong alternative of its  *)
(* variant, and only the listed exceptions leave the loop.                 *)
THEOREM TypesCorrect == Spec => []TypeOK
<1> QED BY Invariance, InvImplies, PTL

(* Whatever the text, the file scope stays at the bottom of state_stack_   *)
(* and every frame was pushed by the one below it, so that handle_complete *)
(* (parser.cpp:224) never finds an empty stack.                            *)
THEOREM StackKeepsShape == Spec => []StackShape
<1> QED BY Invariance, InvImplies, PTL
===========================================================================
