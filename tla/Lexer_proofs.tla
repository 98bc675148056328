---------------------------- MODULE Lexer_proofs ----------------------------
(***************************************************************************)
(* The safety properties of the lexer, for every set of texts.             *)
(*                                                                         *)
(* The first part proves ContextsNest and ScannerContext, and forgets the  *)
(* text: each action is one of five moves on the context stack (Keeps,     *)
(* Leaves, Returns, Pushes, Pops), and each move keeps LexInv.             *)
(*                                                                         *)
(* The second part proves TokensConsume, LocationsAscend and LinesPassed,  *)
(* and forgets the stack: what each scanner reads ends behind where it     *)
(* began (the lemmas on Characters), each action is one of three moves of  *)
(* the position (Reads, Gives, LooksAgain), and each move keeps ReadInv.   *)
(* The third part adds the types of the other members.                     *)
(*                                                                         *)
(* The fourth part proves TokensNest, and relates the tokens to the stack: *)
(* each context that a token opened has its opening token, unmatched so    *)
(* far, in the order of the stack (Balanced). Each action is one of three  *)
(* moves of both (Alone, Opens, Closes), and each move keeps InBalance.    *)
(***************************************************************************)
EXTENDS LexerSafety, FiniteSetTheorems, WellFoundedInduction, TLAPS

(* The stack is a sequence; of what, the argument does not need.           *)
IsStack == \E S : context_stack \in Seq(S)

LexInv == IsStack /\ ContextsNest /\ ScannerContext

(* The loops of each scanner.                                              *)
CodeLoop      == {"scan", "string", "identifier", "private_identifier"}
TemplateLoop  == {"template_start", "template"}
ElementLoop   == {"jsx_element", "jsx_name", "jsx_name_ended"}
AttributeLoop == {"jsx_attribute", "jsx_attribute_space", "jsx_value"}
TextLoop      == {"jsx_text_start", "jsx_text"}
Loops == {CodeLoop, TemplateLoop, ElementLoop, AttributeLoop, TextLoop}

---------------------------------------------------------------------------
(* The moves.                                                              *)

(* A loop goes on in the same scanner.                                     *)
Keeps ==
  /\ \E loop \in Loops : pc \in loop /\ pc' \in loop
  /\ UNCHANGED <<context_stack, error>>

(* No scanner goes on: an exception is thrown, or the text's end is passed.*)
Leaves ==
  /\ pc' \in {"thrown", "suffix", "crashed"}
  /\ error' # "assertion" \/ UNCHANGED error
  /\ UNCHANGED context_stack

(* A call returns.                                                         *)
Returns == pc' = "call" /\ UNCHANGED <<context_stack, error>>

Pushes(c, name) ==
  /\ pc' = "call" /\ UNCHANGED error
  /\ Push(c, name)
  /\ IF Depth = 0 THEN c \in {"in_template_literal", "in_jsx_element"}
                  ELSE c \in MayStandIn(Top)

Pops ==
  /\ pc' = "call" /\ UNCHANGED error
  /\ \/ Depth >= 1 /\ context_stack' = SubSeq(context_stack, 1, Depth - 1)
     \/ Depth >= 2 /\ context_stack' = SubSeq(context_stack, 1, Depth - 2)

---------------------------------------------------------------------------

(* A stack that nests, with something pushed that may stand there, nests.  *)
LEMMA PushNests ==
  ASSUME NEW c, NEW name, LexInv, Pushes(c, name)
  PROVE  LexInv'
<1> USE DEF LexInv, Pushes, Push
<1>1. PICK S : context_stack \in Seq(S)
  BY DEF IsStack
<1>2. /\ context_stack' = Append(context_stack, [context |-> c, name |-> name])
      /\ IF Depth = 0 THEN c \in {"in_template_literal", "in_jsx_element"}
                      ELSE c \in MayStandIn(Top)
  OBVIOUS
<1> DEFINE e == [context |-> c, name |-> name]
           T == S \cup {e}
<1>3. context_stack \in Seq(T) /\ e \in T
  BY <1>1
<1> HIDE DEF T
<1>4. context_stack' \in Seq(T)
  BY <1>2, <1>3
<1>5. Depth \in Nat /\ Len(context_stack') = Depth + 1
  BY <1>2, <1>3 DEF Depth
<1>6. \A k \in 1..Depth : context_stack'[k] = context_stack[k]
  BY <1>2, <1>3 DEF Depth
<1>7. context_stack'[Depth + 1] = e
  BY <1>2, <1>3 DEF Depth
<1>8. e.context = c
  OBVIOUS
<1> HIDE DEF e
<1>9. IsStack'
  BY <1>4 DEF IsStack
<1>10. ContextsNest'
  <2>1. (Depth > 0 => ContextAt(1) \in {"in_template_literal", "in_jsx_element"})'
    <3>1. CASE Depth = 0
      BY <3>1, <1>2, <1>7, <1>8 DEF ContextAt
    <3>2. CASE Depth > 0
      BY <3>2, <1>5, <1>6 DEF ContextsNest, ContextAt
    <3> QED
      BY <3>1, <3>2, <1>5
  <2>2. ASSUME NEW k \in 1..Depth
        PROVE  (context_stack')[k + 1].context \in MayStandIn((context_stack')[k].context)
    <3>1. CASE k = Depth
      BY <3>1, <1>2, <1>5, <1>6, <1>7, <1>8 DEF Top
    <3>2. CASE k # Depth
      <4>1. k \in 1..Depth - 1 /\ k + 1 \in 1..Depth
        BY <3>2, <1>5
      <4> QED
        BY <4>1, <1>6, <2>2 DEF ContextsNest, ContextAt
    <3> QED
      BY <3>1, <3>2
  <2>3. error' # "assertion"
    BY DEF ContextsNest
  <2>4. (Depth' - 1) = Depth
    BY <1>5 DEF Depth
  <2> QED
    BY <2>1, <2>2, <2>3, <2>4 DEF ContextsNest, ContextAt, MayStandIn
<1>11. ScannerContext'
  BY DEF ScannerContext
<1> QED
  BY <1>9, <1>10, <1>11

(* So does every prefix of a stack that nests.                             *)
LEMMA PrefixNests ==
  ASSUME LexInv, Pops
  PROVE  LexInv'
<1> USE DEF LexInv, Pops
<1>1. PICK S : context_stack \in Seq(S)
  BY DEF IsStack
<1>2. Depth \in Nat
  BY <1>1 DEF Depth
<1>3. PICK n \in 0..Depth : context_stack' = SubSeq(context_stack, 1, n)
  BY <1>2
<1>4. /\ context_stack' \in Seq(S) /\ Len(context_stack') = n
      /\ \A k \in 1..n : context_stack'[k] = context_stack[k]
  BY <1>1, <1>2, <1>3 DEF Depth
<1>5. IsStack'
  BY <1>4 DEF IsStack
<1>6. ContextsNest'
  <2>1. (Depth > 0 => ContextAt(1) \in {"in_template_literal", "in_jsx_element"})'
    BY <1>3, <1>4 DEF ContextsNest, ContextAt, Depth
  <2>2. ASSUME NEW k \in 1..n - 1
        PROVE  (context_stack')[k + 1].context \in MayStandIn((context_stack')[k].context)
    <3>1. k \in 1..Depth - 1 /\ k \in 1..n /\ k + 1 \in 1..n
      BY <1>2, <1>3, <2>2
    <3> QED
      BY <3>1, <1>4 DEF ContextsNest, ContextAt
  <2>3. error' # "assertion"
    BY DEF ContextsNest
  <2> QED
    BY <2>1, <2>2, <2>3, <1>4 DEF ContextsNest, ContextAt, Depth, MayStandIn
<1>7. ScannerContext'
  BY DEF ScannerContext
<1> QED
  BY <1>5, <1>6, <1>7

(* Nothing is pushed or popped: the scanner's context is the one it had.   *)
LEMMA KeepingNests ==
  ASSUME LexInv, Keeps \/ Leaves \/ Returns
  PROVE  LexInv'
<1>1. CASE Keeps
  <2>1. IsStack' /\ ContextsNest'
    BY <1>1 DEF Keeps, LexInv, IsStack, ContextsNest, ContextAt, MayStandIn, Depth
  <2>2. ScannerContext'
    BY <1>1 DEF Keeps, LexInv, ScannerContext, Loops, CodeLoop, TemplateLoop, ElementLoop,
                   AttributeLoop, TextLoop, InContext, Depth, Top
  <2> QED
    BY <2>1, <2>2 DEF LexInv
<1>2. CASE Leaves \/ Returns
  BY <1>2 DEF Leaves, Returns, LexInv, IsStack, ContextsNest, ContextAt, MayStandIn, Depth,
              ScannerContext
<1> QED
  BY <1>1, <1>2

---------------------------------------------------------------------------
(* What the invariant says of the context on top, as the actions need it.  *)

LEMMA StackTop ==
  ASSUME LexInv
  PROVE  /\ Depth \in Nat
         /\ Depth > 0 => Top \in Context
         /\ Depth = 1 => Top \in {"in_template_literal", "in_jsx_element"}
         /\ Depth >= 2 => Top \in MayStandIn(context_stack[Depth - 1].context)
<1>1. Depth \in Nat
  BY DEF LexInv, IsStack, Depth
<1>2. Depth = 1 => Top \in {"in_template_literal", "in_jsx_element"}
  BY <1>1 DEF LexInv, ContextsNest, ContextAt, Top
<1>3. Depth >= 2 => Top \in MayStandIn(context_stack[Depth - 1].context)
  <2>1. Depth >= 2 => Depth - 1 \in 1..Depth - 1 /\ (Depth - 1) + 1 = Depth
    BY <1>1
  <2> QED
    BY <2>1 DEF LexInv, ContextsNest, ContextAt, Top
<1>4. \A outer : MayStandIn(outer) \subseteq Context
  BY DEF MayStandIn, Context
<1>5. Depth > 0 => Top \in Context
  BY <1>1, <1>2, <1>3, <1>4 DEF Context
<1> QED
  BY <1>1, <1>2, <1>3, <1>5

LEMMA Standing ==
  /\ \A outer \in Code : {"in_nested_brace", "in_template_literal", "in_jsx_element"}
                            \subseteq MayStandIn(outer)
  /\ "in_template_expression" \in MayStandIn("in_template_literal")
  /\ {"in_jsx_attribute", "in_jsx_text"} \subseteq MayStandIn("in_jsx_element")
  /\ "in_jsx_expression" \in MayStandIn("in_jsx_attribute")
  /\ {"in_jsx_expression", "in_jsx_element"} \subseteq MayStandIn("in_jsx_text")
BY DEF MayStandIn, Code

(* A call of scan() enters the scanner of the context on top.              *)
LEMMA CallNests ==
  ASSUME LexInv, Call
  PROVE  LexInv'
<1>1. IsStack' /\ ContextsNest'
  BY DEF Call, GoOn, LexInv, IsStack, ContextsNest, ContextAt, MayStandIn, Depth
<1>2. ScannerContext'
  BY StackTop DEF Call, GoOn, ScannerContext, InContext, Depth, Top, Code, Context
<1> QED
  BY <1>1, <1>2 DEF LexInv

(* What stutters keeps the invariant.                                      *)
LEMMA StutterNests ==
  ASSUME LexInv, UNCHANGED vars
  PROVE  LexInv'
BY DEF vars, outcome, LexInv, IsStack, ContextsNest, ContextAt, MayStandIn, Depth,
       ScannerContext, InContext, Top

---------------------------------------------------------------------------
(* The actions of each module.                                             *)

(* Strings, templates, names, numbers and regular expressions.             *)
LEMMA LiteralNests ==
  ASSUME LexInv, ScanLiteral
  PROVE  LexInv'
<1> USE DEF Keeps, Leaves, Returns, Loops, CodeLoop, TemplateLoop, ElementLoop,
            AttributeLoop, TextLoop, GoOn, Throw, Fail, Return, ReturnToken
<1>1. CASE OpenString
  <2>1. Keeps
    BY <1>1 DEF OpenString
  <2> QED
    BY <2>1, KeepingNests
<1>2. CASE StringCharacter
  <2>1. Keeps
    BY <1>2 DEF StringCharacter
  <2> QED
    BY <2>1, KeepingNests
<1>3. CASE StringContinuation
  <2>1. Keeps
    BY <1>3 DEF StringContinuation
  <2> QED
    BY <2>1, KeepingNests
<1>4. CASE StringEscape
  <2>1. Keeps \/ Leaves
    BY <1>4 DEF StringEscape
  <2> QED
    BY <2>1, KeepingNests
<1>5. CASE EndString
  <2>1. Returns \/ Leaves
    BY <1>5 DEF EndString
  <2> QED
    BY <2>1, KeepingNests
<1>6. CASE EndTemplate
  <2>1. Pops
    BY <1>6, StackTop DEF Pops, LexInv, ScannerContext, InContext, EndTemplate, Pop, Below
  <2> QED
    BY <2>1, PrefixNests
<1>7. CASE OpenTemplateExpression
  <2>1. pc = "template_start"
    BY <1>7 DEF OpenTemplateExpression
  <2>2. Depth # 0 /\ "in_template_expression" \in MayStandIn(Top)
    BY <2>1, StackTop, Standing DEF LexInv, ScannerContext, InContext
  <2>3. Pushes("in_template_expression", <<>>)
    BY <1>7, <2>2 DEF Pushes, OpenTemplateExpression
  <2> QED
    BY <2>3, PushNests
<1>8. CASE OpenTemplateChunk
  <2>1. Keeps
    BY <1>8 DEF OpenTemplateChunk
  <2> QED
    BY <2>1, KeepingNests
<1>9. CASE TemplateCharacter
  <2>1. Keeps
    BY <1>9 DEF TemplateCharacter
  <2> QED
    BY <2>1, KeepingNests
<1>10. CASE TemplateSpin
  BY <1>10, StutterNests DEF TemplateSpin
<1>11. CASE EndTemplateChunk
  <2>1. Returns
    BY <1>11 DEF EndTemplateChunk
  <2> QED
    BY <2>1, KeepingNests
<1>12. CASE UnterminatedTemplate
  <2>1. Leaves
    BY <1>12 DEF UnterminatedTemplate
  <2> QED
    BY <2>1, KeepingNests
<1>13. CASE IdentifierCharacter
  <2>1. Keeps
    BY <1>13 DEF IdentifierCharacter, InIdentifier
  <2> QED
    BY <2>1, KeepingNests
<1>14. CASE IdentifierEscape
  <2>1. Keeps \/ Leaves
    BY <1>14 DEF IdentifierEscape, InIdentifier
  <2> QED
    BY <2>1, KeepingNests
<1>15. CASE InvalidIdentifier
  <2>1. Leaves
    BY <1>15 DEF InvalidIdentifier
  <2> QED
    BY <2>1, KeepingNests
<1>16. CASE EndIdentifier
  <2>1. Returns
    BY <1>16 DEF EndIdentifier
  <2> QED
    BY <2>1, KeepingNests
<1>17. CASE ScanNumber
  <2>1. Returns \/ Leaves
    BY <1>17 DEF ScanNumber
  <2> QED
    BY <2>1, KeepingNests
<1>18. CASE ScanRegex
  <2>1. Returns \/ Leaves
    BY <1>18 DEF ScanRegex
  <2> QED
    BY <2>1, KeepingNests
<1> QED
  BY <1>1, <1>2, <1>3, <1>4, <1>5, <1>6, <1>7, <1>8, <1>9, <1>10, <1>11, <1>12, <1>13, <1>14,
     <1>15, <1>16, <1>17, <1>18 DEF ScanLiteral

(* Elements, attributes and text.                                          *)
LEMMA JsxNests ==
  ASSUME LexInv, ScanJsx
  PROVE  LexInv'
<1> USE DEF Keeps, Leaves, Returns, Loops, CodeLoop, TemplateLoop, ElementLoop,
            AttributeLoop, TextLoop, GoOn, Throw, Fail, Return, ReturnToken
<1>1. CASE ElementSpace
  <2>1. Keeps
    BY <1>1 DEF ElementSpace
  <2> QED
    BY <2>1, KeepingNests
<1>2. CASE ElementSpin
  BY <1>2, StutterNests DEF ElementSpin
<1>3. CASE EndElementPart
  <2>1. pc = "jsx_element"
    BY <1>3 DEF EndElementPart
  <2>2. Depth # 0 /\ "in_jsx_text" \in MayStandIn(Top)
    BY <2>1, StackTop, Standing DEF LexInv, ScannerContext, InContext
  <2>3. Depth >= 1
    BY <2>2, StackTop
  <2>4. Pops \/ Pushes("in_jsx_text", <<>>)
    BY <1>3, <2>2, <2>3 DEF Pops, Pushes, EndElementPart, Pop, Below
  <2> QED
    BY <2>4, PushNests, PrefixNests
<1>4. CASE InvalidElement
  <2>1. Leaves
    BY <1>4 DEF InvalidElement
  <2> QED
    BY <2>1, KeepingNests
<1>5. CASE OpenAttributeName
  <2>1. Keeps
    BY <1>5 DEF OpenAttributeName
  <2> QED
    BY <2>1, KeepingNests
<1>6. CASE AttributeNameCharacter
  <2>1. Keeps
    BY <1>6 DEF AttributeNameCharacter
  <2> QED
    BY <2>1, KeepingNests
<1>7. CASE AttributeNameSpace
  <2>1. Keeps
    BY <1>7 DEF AttributeNameSpace, InAttributeName
  <2> QED
    BY <2>1, KeepingNests
<1>8. CASE EndAttributeName
  <2>1. Depth # 0 /\ "in_jsx_attribute" \in MayStandIn(Top)
    BY <1>8, StackTop, Standing
       DEF LexInv, ScannerContext, InContext, EndAttributeName, InAttributeName
  <2>2. Pushes("in_jsx_attribute", <<>>) \/ Returns
    BY <1>8, <2>1 DEF Pushes, EndAttributeName
  <2> QED
    BY <2>2, PushNests, KeepingNests
<1>9. CASE InvalidAttributeName
  <2>1. Leaves
    BY <1>9 DEF InvalidAttributeName
  <2> QED
    BY <2>1, KeepingNests
<1>10. CASE AttributeSpace
  <2>1. Keeps
    BY <1>10 DEF AttributeSpace
  <2> QED
    BY <2>1, KeepingNests
<1>11. CASE AttributeSpin
  <2>1. Keeps \/ UNCHANGED vars
    BY <1>11 DEF AttributeSpin
  <2> QED
    BY <2>1, KeepingNests, StutterNests
<1>12. CASE OpenAttributeValue
  <2>1. Keeps
    BY <1>12 DEF OpenAttributeValue
  <2> QED
    BY <2>1, KeepingNests
<1>13. CASE OpenAttributeExpression
  <2>1. pc \in {"jsx_attribute", "jsx_attribute_space"}
    BY <1>13 DEF OpenAttributeExpression
  <2>2. Depth # 0 /\ "in_jsx_expression" \in MayStandIn(Top)
    BY <2>1, StackTop, Standing DEF LexInv, ScannerContext, InContext
  <2>3. Pushes("in_jsx_expression", <<>>)
    BY <1>13, <2>2 DEF Pushes, OpenAttributeExpression
  <2> QED
    BY <2>3, PushNests
<1>14. CASE AttributeValueCharacter
  <2>1. Keeps
    BY <1>14 DEF AttributeValueCharacter
  <2> QED
    BY <2>1, KeepingNests
<1>15. CASE EndAttributeValue
  <2>1. pc = "jsx_value"
    BY <1>15 DEF EndAttributeValue
  <2>2. Depth >= 1
    BY <2>1, StackTop DEF LexInv, ScannerContext, InContext
  <2>3. Leaves \/ Pops
    BY <1>15, <2>2 DEF Pops, EndAttributeValue, Pop, Below
  <2> QED
    BY <2>3, KeepingNests, PrefixNests
<1>16. CASE OpenTextExpression
  <2>1. pc = "jsx_text_start"
    BY <1>16 DEF OpenTextExpression
  <2>2. Depth # 0 /\ "in_jsx_expression" \in MayStandIn(Top)
    BY <2>1, StackTop, Standing DEF LexInv, ScannerContext, InContext
  <2>3. Pushes("in_jsx_expression", <<>>)
    BY <1>16, <2>2 DEF Pushes, OpenTextExpression
  <2> QED
    BY <2>3, PushNests
<1>17. CASE CloseElement
  <2>1. Pops
    BY <1>17, StackTop DEF Pops, CloseElement
  <2> QED
    BY <2>1, PrefixNests
<1>18. CASE InvalidClosingTag
  <2>1. Depth >= 2 /\ context_stack[Depth - 1].context = "in_jsx_element"
    BY <1>18, StackTop
       DEF LexInv, ScannerContext, InContext, MayStandIn, Code, InvalidClosingTag, AtClosingTag
  <2>2. Leaves
    BY <1>18, <2>1 DEF InvalidClosingTag
  <2> QED
    BY <2>2, KeepingNests
<1>19. CASE NestedElement
  <2>1. Depth # 0 /\ "in_jsx_element" \in MayStandIn(Top)
    BY <1>19, StackTop, Standing DEF LexInv, ScannerContext, InContext, NestedElement
  <2>2. Leaves \/ Pushes("in_jsx_element", Word(text, offset + 1, ElementNameEnd(text, offset)))
    BY <1>19, <2>1 DEF Pushes, NestedElement, StartElement
  <2> QED
    BY <2>2, PushNests, KeepingNests
<1>20. CASE OpenText
  <2>1. Keeps
    BY <1>20 DEF OpenText
  <2> QED
    BY <2>1, KeepingNests
<1>21. CASE TextCharacter
  <2>1. Keeps
    BY <1>21 DEF TextCharacter
  <2> QED
    BY <2>1, KeepingNests
<1>22. CASE EndText
  <2>1. Returns \/ Leaves
    BY <1>22 DEF EndText
  <2> QED
    BY <2>1, KeepingNests
<1> QED
  BY <1>1, <1>2, <1>3, <1>4, <1>5, <1>6, <1>7, <1>8, <1>9, <1>10, <1>11, <1>12, <1>13, <1>14,
     <1>15, <1>16, <1>17, <1>18, <1>19, <1>20, <1>21, <1>22 DEF ScanJsx

(* scan() itself.                                                          *)
LEMMA ScanNests ==
  ASSUME LexInv, Scan
  PROVE  LexInv'
<1> USE DEF Keeps, Leaves, Returns, Loops, CodeLoop, TemplateLoop, ElementLoop,
            AttributeLoop, TextLoop, GoOn, Throw, Fail, Return, ReturnToken
<1>1. CASE Call
  BY <1>1, CallNests
<1>2. CASE EndOfText
  <2>1. Leaves \/ (pc' = "end" /\ UNCHANGED <<context_stack, error>>)
    BY <1>2 DEF EndOfText
  <2>2. CASE pc' = "end" /\ UNCHANGED <<context_stack, error>>
    BY <2>2 DEF LexInv, IsStack, ContextsNest, ContextAt, MayStandIn, Depth, ScannerContext
  <2> QED
    BY <2>1, <2>2, KeepingNests
<1>3. CASE Shebang
  <2>1. Returns \/ Leaves
    BY <1>3 DEF Shebang
  <2> QED
    BY <2>1, KeepingNests
<1>4. CASE LineBreak
  <2>1. Keeps \/ Returns
    BY <1>4 DEF LineBreak
  <2> QED
    BY <2>1, KeepingNests
<1>5. CASE Blank
  <2>1. Keeps
    BY <1>5 DEF Blank
  <2> QED
    BY <2>1, KeepingNests
<1>6. CASE OpenTemplate
  <2>1. Depth # 0 => "in_template_literal" \in MayStandIn(Top)
    BY <1>6, StackTop, Standing DEF LexInv, ScannerContext, InContext, OpenTemplate
  <2>2. Pushes("in_template_literal", <<>>)
    BY <1>6, <2>1 DEF Pushes, OpenTemplate
  <2> QED
    BY <2>2, PushNests
<1>7. CASE LineComment
  <2>1. Returns
    BY <1>7 DEF LineComment
  <2> QED
    BY <2>1, KeepingNests
<1>8. CASE MultilineComment
  <2>1. Returns \/ Leaves
    BY <1>8 DEF MultilineComment
  <2> QED
    BY <2>1, KeepingNests
<1>9. CASE ScanConflictMarker
  <2>1. Returns
    BY <1>9 DEF ScanConflictMarker
  <2> QED
    BY <2>1, KeepingNests
<1>10. CASE ScanElement
  <2>1. Depth # 0 => "in_jsx_element" \in MayStandIn(Top)
    BY <1>10, StackTop, Standing DEF LexInv, ScannerContext, InContext, ScanElement
  <2>2. Pushes("in_jsx_element", Word(text, offset + 1, ElementNameEnd(text, offset)))
    BY <1>10, <2>1 DEF Pushes, ScanElement, StartElement
  <2> QED
    BY <2>2, PushNests
<1>11. CASE ScanOperator
  <2>1. Returns
    BY <1>11 DEF ScanOperator
  <2> QED
    BY <2>1, KeepingNests
<1>12. CASE OpenBrace
  <2>1. CASE InContext(Code)
    <3>1. Depth # 0 /\ "in_nested_brace" \in MayStandIn(Top)
      BY <2>1, Standing DEF InContext
    <3>2. Pushes("in_nested_brace", <<>>)
      BY <1>12, <2>1, <3>1 DEF Pushes, OpenBrace
    <3> QED
      BY <3>2, PushNests
  <2>2. CASE ~InContext(Code)
    <3>1. Returns
      BY <1>12, <2>2 DEF OpenBrace
    <3> QED
      BY <3>1, KeepingNests
  <2> QED
    BY <2>1, <2>2
<1>13. CASE CloseBrace
  <2>1. InContext(Code) => Depth >= 1
    BY StackTop DEF InContext
  <2>2. InContext({"in_template_expression",
     "in_jsx_expression"}) \/ InContext({"in_nested_brace"})
          => Depth >= 1
    BY StackTop DEF InContext
  <2>3. Returns \/ Pops
    BY <1>13, <2>1, <2>2 DEF Pops, EndsAttribute, CloseBrace, Pop, Below
  <2> QED
    BY <2>3, KeepingNests, PrefixNests
<1>14. CASE AtSign
  <2>1. Returns
    BY <1>14 DEF AtSign
  <2> QED
    BY <2>1, KeepingNests
<1>15. CASE Hash
  <2>1. Keeps \/ Leaves
    BY <1>15 DEF Hash, OpenIdentifier
  <2> QED
    BY <2>1, KeepingNests
<1>16. CASE ScanIdentifier
  <2>1. Keeps
    BY <1>16 DEF ScanIdentifier, OpenIdentifier
  <2> QED
    BY <2>1, KeepingNests
<1> QED
  BY <1>1, <1>2, <1>3, <1>4, <1>5, <1>6, <1>7, <1>8, <1>9, <1>10, <1>11, <1>12, <1>13, <1>14,
     <1>15, <1>16 DEF Scan

---------------------------------------------------------------------------
(* Together with the first state, the moves give the invariant.            *)

LEMMA InitNests == Init => LexInv
BY DEF Init, LexInv, IsStack, ContextsNest, ContextAt, Depth, ScannerContext

LEMMA NextNests == LexInv /\ [Next]_vars => LexInv'
<1> SUFFICES ASSUME LexInv, [Next]_vars
             PROVE  LexInv'
  OBVIOUS
<1>1. CASE Scan
  BY <1>1, ScanNests
<1>2. CASE ScanLiteral
  BY <1>2, LiteralNests
<1>3. CASE ScanJsx
  BY <1>3, JsxNests
<1>4. CASE Ended
  BY <1>4, StutterNests DEF Ended
<1>5. CASE ReadBehind
  <2>1. Leaves
    BY <1>5 DEF ReadBehind, Leaves
  <2> QED
    BY <2>1, KeepingNests
<1>6. CASE UNCHANGED vars
  BY <1>6, StutterNests
<1> QED
  BY <1>1, <1>2, <1>3, <1>4, <1>5, <1>6 DEF Next

THEOREM LexerInvariance == Spec => []LexInv
BY InitNests, NextNests, PTL DEF Spec

(* On every text, the context stack nests as templates, elements,          *)
(* attributes and braces do, and the assertions of scan_jsx_text_part hold.*)
THEOREM ContextsAlwaysNest == Spec => []ContextsNest
<1>1. LexInv => ContextsNest
  BY DEF LexInv
<1> QED
  BY <1>1, LexerInvariance, PTL

(* On every text, each scanner runs, from its first character to its last, *)
(* on the context that it was written for.                                 *)
THEOREM ScannersInContext == Spec => []ScannerContext
<1>1. LexInv => ScannerContext
  BY DEF LexInv
<1> QED
  BY <1>1, LexerInvariance, PTL

---------------------------------------------------------------------------
(* How far a scanner reads.                                                *)

(* A non-empty set of numbers has a least one.                             *)
LEMMA LeastNumber ==
  ASSUME NEW T \in SUBSET Nat, T # {}
  PROVE  \E x \in T : \A y \in T : x <= y
<1>1. PICK x \in T : \A y \in T : <<y, x>> \notin OpToRel(<, Nat)
  BY NatLessThanWellFounded, WFMin
<1>2. \A y \in T : ~ (y < x)
  BY <1>1 DEF OpToRel
<1> QED
  BY <1>2

(* The operators have one to four characters, and each character that      *)
(* begins one is one.                                                      *)
IsOperatorStart(a) == a # Eof /\ <<a>> \in Operator
HasOperatorShape(o) == IsOperatorStart(o[1]) /\ Len(o) \in 1..4

LEMMA TupleShape ==
  ASSUME NEW a, IsOperatorStart(a)
  PROVE  /\ HasOperatorShape(<<a>>)
         /\ \A b : HasOperatorShape(<<a, b>>)
         /\ \A b, c : HasOperatorShape(<<a, b, c>>)
         /\ \A b, c, d : HasOperatorShape(<<a, b, c, d>>)
<1>1. /\ <<a>>[1] = a /\ Len(<<a>>) = 1
      /\ \A b : <<a, b>>[1] = a /\ Len(<<a, b>>) = 2
      /\ \A b, c : <<a, b, c>>[1] = a /\ Len(<<a, b, c>>) = 3
      /\ \A b, c, d : <<a, b, c, d>>[1] = a /\ Len(<<a, b, c, d>>) = 4
  OBVIOUS
<1> QED
  BY <1>1 DEF HasOperatorShape

LEMMA SingleOperators ==
  /\ IsOperatorStart("!") /\ IsOperatorStart("%") /\ IsOperatorStart("&") /\ IsOperatorStart("*")
  /\ IsOperatorStart("+") /\ IsOperatorStart("-") /\ IsOperatorStart(".") /\ IsOperatorStart("/")
  /\ IsOperatorStart("<") /\ IsOperatorStart("=") /\ IsOperatorStart(">") /\ IsOperatorStart("?")
  /\ IsOperatorStart("^") /\ IsOperatorStart("|") /\ IsOperatorStart(",") /\ IsOperatorStart(":")
<1>1. \A c \in {"!", "%", "&", "*", "+", "-", ".", "/", "<", "=", ">", "?", "^", "|", ",", ":"} :
        <<c>> \in Operator
  BY ZenonT(30) DEF Operator
<1> QED
  BY <1>1 DEF IsOperatorStart, Eof

LEMMA OperatorShape == \A o \in Operator : HasOperatorShape(o)
BY SingleOperators, TupleShape, ZenonT(60) DEF Operator

LEMMA EofIsNoCharacter == Eof \notin Char
<1>1. Eof \notin OperatorStart
  BY OperatorShape DEF OperatorStart, HasOperatorShape, IsOperatorStart
<1>2. Eof \notin IdentifierPart \cup Space \cup Quote \cup {"backtick", "\\", "{", "}", "@", "#", "other"}
  BY DEF Eof, IdentifierPart, IdentifierStart, Letter, Digit, Octal, Binary, Space, Quote
<1> QED
  BY <1>1, <1>2 DEF Char

(* The end is what stands behind a text, and nothing else is.              *)
LEMMA EofIsBehind ==
  ASSUME NEW t \in Seq(Char), NEW i \in Nat
  PROVE  /\ i < Len(t) => At(t, i) \in Char
         /\ At(t, i) = Eof <=> i >= Len(t)
BY EofIsNoCharacter DEF At

LEMMA LongestHasLength ==
  ASSUME NEW F, F # {}, \A o \in F : Len(o) \in 1..4
  PROVE  Len(CHOOSE o \in F : \A p \in F : Len(p) <= Len(o)) \in 1..4
<1> DEFINE size(o) == Len(o)
<1>1. \A o \in F : size(o) \in 1..4
  BY Zenon
<1> HIDE DEF size
<1>2. \E o \in F : \A p \in F : size(p) <= size(o)
  <2>1. CASE \E o \in F : size(o) = 4
    BY <2>1, <1>1
  <2>2. CASE ~(\E o \in F : size(o) = 4) /\ (\E o \in F : size(o) = 3)
    BY <2>2, <1>1
  <2>3. CASE (\A o \in F : size(o) \in 1..2) /\ (\E o \in F : size(o) = 2)
    BY <2>3
  <2>4. CASE \A o \in F : size(o) = 1
    BY <2>4
  <2> QED
    BY <2>1, <2>2, <2>3, <2>4, <1>1
<1>3. (CHOOSE o \in F : \A p \in F : size(p) <= size(o)) \in F
  BY <1>2, Zenon
<1> QED
  BY <1>3, Zenon DEF size

LEMMA OperatorAdvances ==
  ASSUME NEW t \in Seq(Char), NEW i \in Nat, At(t, i) \in OperatorStart
  PROVE  OperatorLength(t, i) \in 1..4
<1> DEFINE fits == {o \in Operator : \A k \in 1..Len(o) : At(t, i + k - 1) = o[k]}
<1>1. <<At(t, i)>> \in fits
  <2>1. PICK o \in Operator : At(t, i) = o[1]
    BY DEF OperatorStart
  <2>2. <<At(t, i)>> \in Operator
    BY <2>1, OperatorShape DEF HasOperatorShape, IsOperatorStart
  <2>3. \A k \in 1..Len(<<At(t, i)>>) : k = 1 /\ i + k - 1 = i
    OBVIOUS
  <2>4. <<At(t, i)>>[1] = At(t, i)
    OBVIOUS
  <2> QED
    BY <2>2, <2>3, <2>4
<1>2. \A o \in fits : Len(o) \in 1..4
  BY OperatorShape DEF HasOperatorShape
<1>3. \/ OperatorLength(t, i) = 2
      \/ OperatorLength(t, i) = Len(CHOOSE o \in fits : \A p \in fits : Len(p) <= Len(o))
  BY DEF OperatorLength
<1> HIDE DEF fits
<1>4. fits # {}
  BY <1>1
<1>5. Len(CHOOSE o \in fits : \A p \in fits : Len(p) <= Len(o)) \in 1..4
  BY <1>2, <1>4, LongestHasLength, Zenon
<1>6. 2 \in 1..4
  OBVIOUS
<1> QED
  BY <1>3, <1>5, <1>6, Zenon

(* A run ends at the first character that is not of it.                    *)
LEMMA RunGoesOn ==
  ASSUME NEW t \in Seq(Char), NEW i \in Nat, NEW S
  PROVE  /\ RunEnd(t, i, S) \in Nat /\ RunEnd(t, i, S) >= i
         /\ i <= Len(t) => RunEnd(t, i, S) <= Len(t)
         /\ Eof \notin S => At(t, RunEnd(t, i, S)) \notin S
<1> DEFINE stops == {j \in i..Len(t) : At(t, j) \notin S}
<1>1. RunEnd(t, i, S) = IF stops = {} THEN i ELSE CHOOSE j \in stops : \A k \in stops : j <= k
  BY DEF RunEnd
<1>2. stops \in SUBSET Nat /\ \A j \in stops : j >= i /\ j <= Len(t) /\ At(t, j) \notin S
  OBVIOUS
<1>3. stops = {} /\ Eof \notin S => At(t, i) \notin S
  <2>1. CASE i <= Len(t)
    <3>1. At(t, Len(t)) = Eof /\ Len(t) \in i..Len(t)
      BY <2>1, EofIsBehind
    <3> QED
      BY <3>1
  <2>2. CASE i > Len(t)
    BY <2>2, EofIsBehind
  <2> QED
    BY <2>1, <2>2
<1> HIDE DEF stops
<1>4. stops # {} => \E j \in stops : \A k \in stops : j <= k
  BY <1>2, LeastNumber
<1>5. stops # {} => RunEnd(t, i, S) \in stops
  BY <1>1, <1>4
<1>6. stops = {} => RunEnd(t, i, S) = i
  BY <1>1
<1>7. CASE stops = {}
  BY <1>7, <1>6, <1>3
<1>8. CASE stops # {}
  BY <1>8, <1>5, <1>2
<1> QED
  BY <1>7, <1>8

---------------------------------------------------------------------------
(* What the lexer reads ahead ends where it began or behind, or is refused.*)

Onward(i, end) == end = Refused \/ (end \in Nat /\ end >= i)

LEMMA OnwardFurther ==
  ASSUME NEW i \in Nat, NEW j \in Nat, i <= j, NEW end, Onward(j, end)
  PROVE  Onward(i, end)
BY DEF Onward

LEMMA DigitsGoOn ==
  ASSUME NEW t \in Seq(Char), NEW i \in Nat, NEW digits
  PROVE  Onward(i, DigitsEnd(t, i, digits))
<1>1. Onward(i, RunEnd(t, i, digits \cup {"_"}))
  BY RunGoesOn DEF Onward
<1>2. DigitsEnd(t, i, digits) \in {Refused, RunEnd(t, i, digits \cup {"_"})}
  BY DEF DigitsEnd
<1> QED
  BY <1>1, <1>2 DEF Onward

LEMMA OctalGoesOn ==
  ASSUME NEW t \in Seq(Char), NEW i \in Nat
  PROVE  Onward(i, OctalEnd(t, i))
<1> DEFINE j == RunEnd(t, i, Octal \cup {"_"})
<1>1. j \in Nat /\ j >= i
  BY RunGoesOn
<1>2. OctalEnd(t, i) = Refused \/ OctalEnd(t, i) = i \/ OctalEnd(t, i) = j
  <2>1. OctalEnd(t, i) = CASE At(t, i) = "_" \/ DoubledSeparator(t, i, j) -> Refused
                           [] At(t, j) \in Digit                           -> i
                           [] j > i /\ At(t, j - 1) = "_"                  -> Refused
                           [] OTHER                                        -> j
    BY DEF OctalEnd
  <2> HIDE DEF j
  <2> QED
    BY <2>1
<1> HIDE DEF j
<1> QED
  BY <1>1, <1>2 DEF Onward

LEMMA ExponentGoesOn ==
  ASSUME NEW t \in Seq(Char), NEW i \in Nat
  PROVE  Onward(i, ExponentEnd(t, i))
<1>1. Onward(i, RunEnd(t, i, Digit)) /\ Onward(i, RunEnd(t, i + 1, Digit))
  BY RunGoesOn DEF Onward
<1>2. ExponentEnd(t, i) \in {Refused, RunEnd(t, i, Digit), RunEnd(t, i + 1, Digit)}
  BY DEF ExponentEnd
<1> QED
  BY <1>1, <1>2 DEF Onward

LEMMA FractionGoesOn ==
  ASSUME NEW t \in Seq(Char), NEW i \in Nat
  PROVE  Onward(i, FractionEnd(t, i))
<1> DEFINE j == RunEnd(t, i, Digit)
<1>1. j \in Nat /\ j >= i
  BY RunGoesOn
<1>2. FractionEnd(t, i) \in {Refused, ExponentEnd(t, j + 1), j}
  BY DEF FractionEnd
<1> HIDE DEF j
<1>3. Onward(j + 1, ExponentEnd(t, j + 1))
  BY <1>1, ExponentGoesOn
<1> QED
  BY <1>1, <1>2, <1>3 DEF Onward

LEMMA SuffixGoesOn ==
  ASSUME NEW t, NEW i \in Nat, NEW end, Onward(i, end)
  PROVE  Onward(i, BigintSuffix(t, end))
BY DEF Onward, BigintSuffix, Refused

LEMMA DecimalGoesOn ==
  ASSUME NEW t \in Seq(Char), NEW i \in Nat
  PROVE  /\ Onward(i, DecimalEnd(t, i))
         /\ At(t, i) \in Digit \cup {"."} => Onward(i + 1, DecimalEnd(t, i))
<1> DEFINE j == RunEnd(t, i, Digit \cup {"_"})
<1>1. j \in Nat /\ j >= i
  BY RunGoesOn
<1>2. At(t, j) \notin Digit \cup {"_"}
  <2>1. Eof \notin Digit \cup {"_"}
    BY DEF Eof, Digit, Octal, Binary
  <2> QED
    BY <2>1, RunGoesOn
<1>3. \/ DecimalEnd(t, i) = Refused
      \/ DecimalEnd(t, i) = FractionEnd(t, j + 1)
      \/ DecimalEnd(t, i) = ExponentEnd(t, j + 1)
      \/ (At(t, j) # "." /\ DecimalEnd(t, i) = BigintSuffix(t, j))
  BY DEF DecimalEnd
<1> HIDE DEF j
<1>4. /\ Onward(j + 1, FractionEnd(t, j + 1)) /\ Onward(j + 1, ExponentEnd(t, j + 1))
      /\ Onward(j, BigintSuffix(t, j))
  <2>1. Onward(j, j)
    BY <1>1 DEF Onward
  <2> QED
    BY <1>1, <2>1, FractionGoesOn, ExponentGoesOn, SuffixGoesOn
<1>5. Onward(j + 1, DecimalEnd(t, i)) \/ (At(t, j) # "." /\ Onward(j, DecimalEnd(t, i)))
  BY <1>3, <1>4 DEF Onward
<1>6. ASSUME At(t, i) \in Digit \cup {"."}, At(t, j) # "."
      PROVE  j > i
  <2>1. j # i
    BY <1>2, <1>6
  <2> QED
    BY <1>1, <2>1
<1> QED
  BY <1>1, <1>5, <1>6 DEF Onward

LEMMA LegacyOctalGoesOn ==
  ASSUME NEW t \in Seq(Char), NEW i \in Nat
  PROVE  Onward(i + 1, LegacyOctalEnd(t, i))
<1>1. Onward(i + 1, OctalEnd(t, i + 1)) /\ Onward(i + 1, DecimalEnd(t, i + 1))
  BY OctalGoesOn, DecimalGoesOn
<1>2. CASE OctalEnd(t, i + 1) \in {Refused, i + 1}
  BY <1>1, <1>2 DEF LegacyOctalEnd, Onward
<1>3. CASE OctalEnd(t, i + 1) \notin {Refused, i + 1}
  <2>1. Onward(i + 1, OctalEnd(t, i + 1) + 1)
    BY <1>1, <1>3 DEF Onward
  <2>2. LegacyOctalEnd(t, i) = BigintSuffix(t, OctalEnd(t, i + 1) + 1)
    BY <1>3 DEF LegacyOctalEnd
  <2> QED
    BY <2>1, <2>2, SuffixGoesOn
<1> QED
  BY <1>2, <1>3

(* A number has characters, and its token stands among them.               *)
LEMMA NumberGoesOn ==
  ASSUME NEW t \in Seq(Char), NEW i \in Nat,
         At(t, i) \in Digit \/ (At(t, i) = "." /\ At(t, i + 1) \in Digit),
         NumberEnd(t, i) # Refused
  PROVE  /\ NumberEnd(t, i) \in Nat /\ NumberEnd(t, i) > i
         /\ NumberLocation(t, i) \in i..NumberEnd(t, i)
<1>1. /\ Onward(i + 2, BigintSuffix(t, DigitsEnd(t, i + 2, Hex)))
      /\ Onward(i + 2, BigintSuffix(t, DigitsEnd(t, i + 2, Binary)))
      /\ Onward(i + 2, BigintSuffix(t, OctalEnd(t, i + 2)))
  BY DigitsGoOn, OctalGoesOn, SuffixGoesOn
<1>2. CASE At(t, i) = "0" /\ At(t, i + 1) \in {"x", "b", "o"}
  <2>0. At(t, i + 1) \notin Octal
    BY <1>2 DEF Octal, Binary
  <2>1. \/ NumberEnd(t, i) = BigintSuffix(t, DigitsEnd(t, i + 2, Hex))
        \/ NumberEnd(t, i) = BigintSuffix(t, DigitsEnd(t, i + 2, Binary))
        \/ NumberEnd(t, i) = BigintSuffix(t, OctalEnd(t, i + 2))
    BY <1>2, <2>0 DEF NumberEnd
  <2>2. NumberLocation(t, i) = i + 2
    BY <1>2, <2>0 DEF NumberLocation
  <2> QED
    BY <1>1, <2>1, <2>2 DEF Onward
<1>3. CASE At(t, i) = "0" /\ At(t, i + 1) \in Octal
  <2>1. At(t, i + 1) \notin {"x", "b", "o"}
    BY <1>3 DEF Octal, Binary
  <2>2. NumberEnd(t, i) = LegacyOctalEnd(t, i)
    BY <1>3, <2>1 DEF NumberEnd
  <2>3. NumberLocation(t, i) \in {i + 1, LegacyOctalEnd(t, i)}
    BY <1>3, <2>1 DEF NumberLocation
  <2>4. Onward(i + 1, LegacyOctalEnd(t, i))
    BY LegacyOctalGoesOn
  <2> QED
    BY <2>2, <2>3, <2>4 DEF Onward
<1>4. CASE ~(At(t, i) = "0" /\ At(t, i + 1) \in {"x", "b", "o"} \cup Octal)
  <2>1. NumberEnd(t, i) = DecimalEnd(t, i) /\ NumberLocation(t, i) = i
    BY <1>4 DEF NumberEnd, NumberLocation
  <2>2. Onward(i + 1, DecimalEnd(t, i))
    BY DecimalGoesOn
  <2> QED
    BY <2>1, <2>2 DEF Onward
<1> QED
  BY <1>2, <1>3, <1>4

(* An escape is refused or takes some characters, a backslash by itself    *)
(* one.                                                                    *)
LEMMA EscapeGoesOn ==
  ASSUME NEW t \in Seq(Char), NEW i \in Nat
  PROVE  /\ \A n \in EscapeLength(t, i) : n = Refused \/ n \in Nat
         /\ At(t, i) = "\\" => EscapeLength(t, i) = {1}
<1>1. \A n \in BracedEscape(t, i) : n = Refused \/ n \in Nat
  <2> DEFINE j == RunEnd(t, i + 2, Hex)
  <2>1. j \in Nat /\ j >= i + 2
    BY RunGoesOn
  <2>2. \A n \in BracedEscape(t, i) : n = Refused \/ n = j + 1 - i
    BY DEF BracedEscape
  <2> HIDE DEF j
  <2> QED
    BY <2>1, <2>2
<1>2. \A n \in PlainEscape(t, i) : n = Refused \/ n \in {5, 11}
  BY DEF PlainEscape
<1>3. \A n \in OctalEscape(t, i) : n = Refused \/ n \in Nat
  <2> DEFINE from == IF At(t, i) = "0" THEN i ELSE i + 1
             j == RunEnd(t, from, Octal)
  <2>1. from \in Nat
    OBVIOUS
  <2>2. OctalEscape(t, i) = CASE At(t, j) = "_" -> {Refused}
                              [] j = from       -> {1}
                              [] OTHER          -> {j - from} \cup {1 : k \in 11..j - from}
    BY DEF OctalEscape
  <2> HIDE DEF from
  <2>3. j \in Nat /\ j >= from
    BY <2>1, RunGoesOn
  <2> HIDE DEF j
  <2>4. \/ OctalEscape(t, i) = {Refused} \/ OctalEscape(t, i) = {1}
        \/ OctalEscape(t, i) = {j - from} \cup {1 : k \in 11..j - from}
    BY <2>2, Zenon
  <2> QED
    BY <2>1, <2>3, <2>4
<1>4. At(t, i) = "\\" => EscapeLength(t, i) = {1}
  BY DEF EscapeLength, Eof, Octal, Binary
<1>5. CASE At(t, i) \in Octal
  <2>1. EscapeLength(t, i) = OctalEscape(t, i)
    BY <1>5 DEF EscapeLength, Eof, Octal, Binary
  <2> QED
    BY <2>1, <1>3, <1>4
<1>6. CASE At(t, i) \notin Octal
  <2>1. CASE At(t, i) \in {"u", "U"}
    <3>1. EscapeLength(t, i) = IF At(t, i + 1) = "{" THEN BracedEscape(t, i)
                               ELSE PlainEscape(t, i)
      BY <1>6, <2>1 DEF EscapeLength, Eof
    <3>2. \A n \in PlainEscape(t, i) : n = Refused \/ n \in Nat
      BY <1>2
    <3> QED
      BY <3>1, <3>2, <1>1, <1>4, Zenon
  <2>2. CASE At(t, i) \notin {"u", "U"}
    <3>1. \A n \in EscapeLength(t, i) : n \in {0, 1, 2, Refused}
      BY <1>6, <2>2 DEF EscapeLength
    <3> QED
      BY <3>1, <1>4
  <2> QED
    BY <2>1, <2>2
<1> QED
  BY <1>5, <1>6

(* The body of a regular expression stops behind its slash, and the        *)
(* literal ends behind that.                                               *)
LEMMA RegexGoesOn ==
  ASSUME NEW t \in Seq(Char), NEW i \in Nat, i < Len(t)
  PROVE  /\ RegexStop(t, i) \in Nat /\ RegexStop(t, i) > i
         /\ \A end \in RegexEnds(t, i) : end \in {Refused, Absent} \/ (end \in Nat /\ end > i)
<1> DEFINE stops == {k \in i + 1..Len(t) :
                       \/ At(t, k) \in {"/", "\r", "\n"} /\ ~Escaped(t, i, k)
                       \/ At(t, k) = Eof}
<1>1. RegexStop(t, i) = CHOOSE j \in stops : \A k \in stops : j <= k
  BY DEF RegexStop
<1>2. stops \in SUBSET Nat /\ \A k \in stops : k > i
  OBVIOUS
<1>3. stops # {}
  <2>1. Len(t) \in i + 1..Len(t) /\ At(t, Len(t)) = Eof
    BY EofIsBehind
  <2> QED
    BY <2>1
<1> HIDE DEF stops
<1>4. RegexStop(t, i) \in stops
  <2>1. \E j \in stops : \A k \in stops : j <= k
    BY <1>2, <1>3, LeastNumber
  <2> QED
    BY <1>1, <2>1
<1>5. RegexStop(t, i) \in Nat /\ RegexStop(t, i) > i
  BY <1>2, <1>4
<1>6. FlagsEnd(t, i) \in Nat /\ FlagsEnd(t, i) > i
  <2>1. RegexStop(t, i) + 1 \in Nat
    BY <1>5
  <2>2. FlagsEnd(t, i) \in Nat /\ FlagsEnd(t, i) >= RegexStop(t, i) + 1
    BY <2>1, RunGoesOn DEF FlagsEnd
  <2> QED
    BY <1>5, <2>2
<1>7. \A end \in RegexEnds(t, i) : end \in {Refused, Absent, FlagsEnd(t, i)}
  BY DEF RegexEnds
<1> QED
  BY <1>5, <1>6, <1>7

(* A line ends where it began or behind, and the next one begins behind    *)
(* its line break.                                                         *)
LEMMA LineGoesOn ==
  ASSUME NEW t \in Seq(Char), NEW i \in Nat
  PROVE  /\ LineStart(t, i) \in Nat
         /\ LineEnd(t, i) \in Nat /\ LineEnd(t, i) >= i
         /\ AfterLine(t, i) \in Nat /\ AfterLine(t, i) >= i
         /\ AfterLine(t, i) = IF At(t, LineEnd(t, i)) = "\n" THEN LineEnd(t, i) + 1
                              ELSE LineEnd(t, i)
<1>1. LineStart(t, i) \in Nat /\ LineStart(t, i) >= i
  BY RunGoesOn DEF LineStart
<1>2. LineEnd(t, i) \in Nat /\ LineEnd(t, i) >= LineStart(t, i)
  BY <1>1, RunGoesOn DEF LineEnd, FirstOf
<1> QED
  BY <1>1, <1>2 DEF AfterLine

LEMMA MarkerGoesOn ==
  ASSUME NEW t \in Seq(Char), NEW i \in Nat, ConflictMarker(t, i)
  PROVE  LabelStart(t, i) \in Nat /\ LabelStart(t, i) > i
<1>1. MarkerEnd(t, i) \in Nat /\ MarkerEnd(t, i) - i >= 7
  BY RunGoesOn DEF ConflictMarker, MarkerEnd
<1> QED
  BY <1>1 DEF LabelStart

LEMMA CommentGoesOn ==
  ASSUME NEW t \in Seq(Char), NEW i \in Nat
  PROVE  /\ CommentStart(t, i) \in Nat /\ CommentStart(t, i) > i
         /\ Onward(CommentStart(t, i), CommentEnd(t, i))
<1>1. CommentStart(t, i) \in Nat /\ CommentStart(t, i) > i
  BY DEF CommentStart
<1> DEFINE ends == {j \in CommentStart(t, i)..Len(t) : At(t, j) = "*" /\ At(t, j + 1) = "/"}
<1>2. CommentEnd(t, i) = IF ends = {} THEN Refused
                         ELSE CHOOSE j \in ends : \A k \in ends : j <= k
  BY DEF CommentEnd
<1>3. ends \in SUBSET Nat /\ \A j \in ends : j >= CommentStart(t, i)
  BY <1>1
<1> HIDE DEF ends
<1>4. CASE ends = {}
  BY <1>1, <1>2, <1>4 DEF Onward
<1>5. CASE ends # {}
  <2>1. \E j \in ends : \A k \in ends : j <= k
    BY <1>3, <1>5, LeastNumber
  <2>2. CommentEnd(t, i) \in ends
    BY <1>2, <1>5, <2>1
  <2> QED
    BY <1>1, <1>3, <2>2 DEF Onward
<1> QED
  BY <1>4, <1>5

LEMMA ElementNameGoesOn ==
  ASSUME NEW t \in Seq(Char), NEW i \in Nat, i < Len(t)
  PROVE  /\ ElementNameEnd(t, i) \in Nat /\ ElementNameEnd(t, i) > i
         /\ ElementNameEnd(t, i) <= Len(t)
         /\ Word(t, i + 1, ElementNameEnd(t, i)) \in Seq(Char)
<1>1. /\ ElementNameEnd(t, i) \in Nat /\ ElementNameEnd(t, i) >= i + 1
      /\ ElementNameEnd(t, i) <= Len(t)
  BY RunGoesOn DEF ElementNameEnd
<1>2. \A m \in Nat, n \in Nat : m >= 1 /\ n <= Len(t) => SubSeq(t, m, n) \in Seq(Char)
  OBVIOUS
<1> QED
  BY <1>1, <1>2 DEF Word

LEMMA IdentifierEscapeGoesOn ==
  ASSUME NEW t \in Seq(Char), NEW i \in Nat
  PROVE  Onward(i + 1, IdentifierEscapeEnd(t, i))
<1> DEFINE braced == At(t, i + 2) = "{"
           from == IF braced THEN i + 3 ELSE i + 2
           digits == IF braced THEN RunEnd(t, from, Hex) - from ELSE 4
           end == from + 2 * digits
<1>1. from \in Nat /\ from >= i + 2
  <2> HIDE DEF braced
  <2>1. from = i + 3 \/ from = i + 2
    OBVIOUS
  <2> QED
    BY <2>1
<1>2. digits \in Nat
  <2>1. RunEnd(t, from, Hex) \in Nat /\ RunEnd(t, from, Hex) >= from
    BY <1>1, RunGoesOn
  <2> HIDE DEF from, braced
  <2> QED
    BY <1>1, <2>1
<1>3. IdentifierEscapeEnd(t, i) \in {Refused, end, end + 1}
  BY DEF IdentifierEscapeEnd
<1> HIDE DEF braced, from, digits
<1> QED
  BY <1>1, <1>2, <1>3 DEF Onward

---------------------------------------------------------------------------
(* What has been read.                                                     *)

LastEnd == IF Returned = 0 THEN 0 ELSE Latest.end
LastAt  == IF Returned = 0 THEN NoLocation ELSE Latest.at

Located == [line : Int, column : Int, offset : Int]
PlaceAt(i) == [line |-> line.current_line_number,
               column |-> i - line.line_start_offset, offset |-> i]

Lines == [current_line_number : Nat, line_start_offset : Nat]

(* The types that reading depends on: no line begins behind the offset.    *)
Reading ==
  /\ source \in [text : Seq(Char), language_variant : {"ts", "jsx"}]
  /\ offset \in Nat /\ line \in Lines /\ line.line_start_offset <= offset
  /\ \E S : tokens \in Seq(S)
  /\ LastEnd \in Nat /\ LastAt \in Located

(* The loops that may return without reading on: each has read something   *)
(* since the call began.                                                   *)
AtReturn ==
  \/ pc \in {"identifier", "private_identifier"} /\ wbuffer # {}
  \/ pc = "jsx_name_ended"
  \/ pc = "template" /\ (C = "backtick" \/ (C = "$" /\ Peek(1) = "{"))
  \/ pc = "jsx_text" /\ C \in {"{", "<"}

HasRead == LastEnd <= offset /\ (AtReturn => LastEnd < offset)

(* The loops whose token stands where they began.                          *)
Naming == pc \in {"string", "identifier", "private_identifier", "jsx_name", "jsx_name_ended"}

(* Lines are counted as they are passed, and what is read stands behind    *)
(* what has been returned.                                                 *)
Ascends ==
  /\ line.current_line_number <= Cardinality(LineBreaksPassed)
  /\ ~Before(location, LastAt)
  /\ Naming => start \in Located /\ ~Before(start, LastAt) /\ ~Before(location, start)

ReadInv ==
  /\ Reading /\ HasRead
  /\ TokensConsume /\ LocationsAscend
  /\ Spins \/ Ascends

---------------------------------------------------------------------------
(* The moves of the position.                                              *)

IsBreak(t, k) == At(t, k) = "\n" \/ (At(t, k) = "\r" /\ At(t, k + 1) # "\n")
BreaksIn(t, i, j) == {k \in i..j - 1 : IsBreak(t, k)}

(* Lines are counted up by no more than the breaks passed, and the new one *)
(* begins between the old offset and the new one.                          *)
CountsLines ==
  \/ line' = line
  \/ \E n \in Nat, s \in offset..offset' :
       /\ n <= Cardinality(BreaksIn(text, offset, offset'))
       /\ line' = [current_line_number |-> line.current_line_number + n,
                   line_start_offset |-> s]
       /\ n = 0 => line.current_line_number > Len(text)

Moves ==
  /\ offset' \in Nat /\ offset <= offset'
  /\ CountsLines /\ UNCHANGED source

(* A loop goes on, or a scanner is entered or left by an exception.        *)
Reads ==
  /\ Moves /\ UNCHANGED tokens
  /\ offset' = offset => ~AtReturn'
  /\ Naming' => \/ Naming /\ UNCHANGED start
                \/ \E i \in offset..offset' : start' = PlaceAt(i)

(* A token is returned that stands where its loop began or at what was     *)
(* read last.                                                              *)
Stands(at) ==
  \/ at = NoLocation
  \/ Naming /\ at = start
  \/ \E i \in offset..offset' : at = PlaceAt(i)
GivesAt(at) ==
  /\ Moves /\ pc' = "call"
  /\ offset < offset' \/ AtReturn \/ Len(text) <= offset
  /\ \E kind, content :
       tokens' = Append(tokens, [kind |-> kind, at |-> at, content |-> content, end |-> offset'])
Gives == \E at : GivesAt(at) /\ Stands(at)

(* The lexer looks at the same character again.                            *)
LooksAgain ==
  /\ UNCHANGED <<source, offset, tokens, pc>>
  /\ line' \in Lines /\ line'.line_start_offset <= offset'

Steps ==
  \/ Spins /\ LooksAgain
  \/ ~Spins /\ (Reads \/ Gives)

---------------------------------------------------------------------------
(* Line breaks add up.                                                     *)

LEMMA BreaksAddUp ==
  ASSUME NEW t, NEW i \in Nat, NEW j \in Nat, i <= j
  PROVE  /\ IsFiniteSet(BreaksIn(t, i, j)) /\ Cardinality(BreaksIn(t, i, j)) \in Nat
         /\ Cardinality(BreaksIn(t, 0, i)) \in Nat
         /\ Cardinality(BreaksIn(t, 0, j))
              = Cardinality(BreaksIn(t, 0, i)) + Cardinality(BreaksIn(t, i, j))
<1>1. /\ IsFiniteSet(BreaksIn(t, i, j)) /\ IsFiniteSet(BreaksIn(t, 0, i))
  <2>1. IsFiniteSet(i..j - 1) /\ IsFiniteSet(0..i - 1)
    BY FS_Interval
  <2>2. BreaksIn(t, i, j) \in SUBSET (i..j - 1) /\ BreaksIn(t, 0, i) \in SUBSET (0..i - 1)
    BY DEF BreaksIn
  <2> QED
    BY <2>1, <2>2, FS_Subset
<1>2. BreaksIn(t, 0, j) = BreaksIn(t, 0, i) \cup BreaksIn(t, i, j)
  BY DEF BreaksIn
<1>3. BreaksIn(t, 0, i) \cap BreaksIn(t, i, j) = {}
  BY DEF BreaksIn
<1>4. /\ Cardinality(BreaksIn(t, i, j)) \in Nat /\ Cardinality(BreaksIn(t, 0, i)) \in Nat
      /\ Cardinality({}) = 0
  BY <1>1, FS_CardinalityType, FS_EmptySet
<1> DEFINE m == Cardinality(BreaksIn(t, 0, i))
           n == Cardinality(BreaksIn(t, i, j))
           o == Cardinality(BreaksIn(t, 0, i) \cap BreaksIn(t, i, j))
<1>5. Cardinality(BreaksIn(t, 0, j)) = m + n - o
  BY <1>1, <1>2, FS_Union, Zenon
<1>6. m \in Nat /\ n \in Nat /\ o = 0
  BY <1>3, <1>4
<1> HIDE DEF m, n, o
<1>7. Cardinality(BreaksIn(t, 0, j)) = m + n
  BY <1>5, <1>6
<1> QED
  BY <1>1, <1>4, <1>7 DEF m, n

(* A text has no more line breaks than characters.                         *)
LEMMA BreaksInText ==
  ASSUME NEW t \in Seq(Char), NEW i \in Nat
  PROVE  Cardinality(BreaksIn(t, 0, i)) <= Len(t)
<1>1. BreaksIn(t, 0, i) \in SUBSET (0..Len(t) - 1)
  <2>1. ASSUME NEW k \in BreaksIn(t, 0, i)
        PROVE  k \in 0..Len(t) - 1
    <3>1. k \in Nat /\ At(t, k) \in {"\n", "\r"}
      BY DEF BreaksIn, IsBreak
    <3>2. At(t, k) # Eof
      BY <3>1 DEF Eof
    <3> QED
      BY <3>1, <3>2, EofIsBehind
  <2> QED
    BY <2>1
<1>2. Len(t) \in Nat
  OBVIOUS
<1>3. \A n \in Nat : IsFiniteSet(0..n - 1) /\ Cardinality(0..n - 1) = n
  BY FS_Interval
<1> QED
  BY <1>1, <1>2, <1>3, FS_Subset

(* A line break that is passed is one that may be counted.                 *)
LEMMA BreakCounts ==
  ASSUME NEW t, NEW i \in Nat, NEW j \in Nat, NEW k \in i..j - 1, IsBreak(t, k)
  PROVE  1 <= Cardinality(BreaksIn(t, i, j))
<1>1. i <= j /\ k \in BreaksIn(t, i, j)
  BY DEF BreaksIn
<1>2. {k} \in SUBSET BreaksIn(t, i, j)
  BY <1>1
<1>3. IsFiniteSet(BreaksIn(t, i, j))
  BY <1>1, BreaksAddUp
<1>4. Cardinality({k}) = 1
  BY FS_Singleton
<1> QED
  BY <1>2, <1>3, <1>4, FS_Subset

LEMMA PassedIsBreaksIn == LineBreaksPassed = BreaksIn(text, 0, offset)
BY DEF LineBreaksPassed, BreaksIn, IsBreak

---------------------------------------------------------------------------
(* Places ascend as offsets do.                                            *)

LEMMA LocatedOrder ==
  ASSUME NEW a \in Located, NEW b \in Located, NEW c \in Located,
         ~Before(a, b), ~Before(b, c)
  PROVE  ~Before(a, c)
BY DEF Located, Before

LEMMA PlacesStand ==
  ASSUME Reading
  PROVE  /\ \A i \in Nat : PlaceAt(i) \in Located /\ LocationAt(i) = PlaceAt(i)
         /\ location = PlaceAt(offset)
         /\ \A i \in Nat, j \in Nat : i <= j => ~Before(PlaceAt(j), PlaceAt(i))
         /\ \A i \in Nat : ~Before(PlaceAt(i), NoLocation)
         /\ NoLocation \in Located
<1>1. /\ offset \in Nat
      /\ line.current_line_number \in Nat /\ line.line_start_offset \in Nat
  BY DEF Reading, Lines
<1>2. location = PlaceAt(offset)
  BY DEF location, PlaceAt
<1>3. ASSUME NEW i \in Nat
      PROVE  LocationAt(i) = PlaceAt(i)
  <2>1. location.column + i - offset = i - line.line_start_offset
    BY <1>1 DEF location
  <2>2. LocationAt(i) = [location EXCEPT !.column = i - line.line_start_offset, !.offset = i]
    BY <2>1 DEF LocationAt
  <2> QED
    BY <2>2 DEF location, PlaceAt
<1>4. \A i \in Nat : PlaceAt(i) \in Located
  BY <1>1 DEF PlaceAt, Located
<1>5. \A i \in Nat, j \in Nat : i <= j => ~Before(PlaceAt(j), PlaceAt(i))
  BY <1>1 DEF PlaceAt, Before
<1>6. \A i \in Nat : ~Before(PlaceAt(i), NoLocation)
  BY <1>1 DEF PlaceAt, Before, NoLocation
<1>7. NoLocation \in Located
  BY DEF NoLocation, Located
<1> QED
  BY <1>2, <1>3, <1>4, <1>5, <1>6, <1>7

(* A move keeps the types.                                                 *)
LEMMA MovesKeepLines ==
  ASSUME Reading, Moves
  PROVE  /\ text' = text /\ offset' \in Nat /\ offset <= offset'
         /\ line' \in Lines /\ line'.line_start_offset <= offset'
<1>1. offset \in Nat /\ offset' \in Nat /\ offset <= offset' /\ text' = text
  BY DEF Reading, Moves, text
<1>2. /\ line \in Lines /\ line.current_line_number \in Nat
      /\ line.line_start_offset \in Nat /\ line.line_start_offset <= offset
  BY DEF Reading, Lines
<1>3. CASE line' = line
  BY <1>1, <1>2, <1>3
<1>4. ASSUME NEW n \in Nat, NEW s \in offset..offset',
             line' = [current_line_number |-> line.current_line_number + n,
                      line_start_offset |-> s]
      PROVE  line' \in Lines /\ line'.line_start_offset <= offset'
  BY <1>1, <1>2, <1>4 DEF Lines
<1> QED
  BY <1>1, <1>3, <1>4 DEF Moves, CountsLines

(* It passes the line breaks that it counts, and ends behind every place   *)
(* that it has passed.                                                     *)
LEMMA MovesAscend ==
  ASSUME Reading, Moves, line.current_line_number <= Cardinality(LineBreaksPassed)
  PROVE  /\ line'.current_line_number <= Cardinality(LineBreaksPassed')
         /\ location' \in Located
         /\ \A i \in offset..offset' : ~Before(location', PlaceAt(i))
<1>1. /\ offset \in Nat /\ offset' \in Nat /\ offset <= offset' /\ text' = text
      /\ text \in Seq(Char) /\ Len(text) \in Nat
  BY MovesKeepLines DEF Reading, text
<1>2. /\ line.current_line_number \in Nat
      /\ line.line_start_offset \in Nat /\ line.line_start_offset <= offset
  BY DEF Reading, Lines
<1> DEFINE before == Cardinality(BreaksIn(text, 0, offset))
           passed == Cardinality(BreaksIn(text, offset, offset'))
           after  == Cardinality(BreaksIn(text, 0, offset'))
<1>3. /\ before \in Nat /\ passed \in Nat /\ after = before + passed
      /\ before <= Len(text)
  BY <1>1, BreaksAddUp, BreaksInText, Zenon
<1>4. Cardinality(LineBreaksPassed) = before /\ Cardinality(LineBreaksPassed') = after
  <2>1. LineBreaksPassed' = BreaksIn(text, 0, offset')
    BY <1>1 DEF LineBreaksPassed, BreaksIn, IsBreak
  <2> QED
    BY <2>1, PassedIsBreaksIn
<1>5. location' = [line |-> line'.current_line_number,
                   column |-> offset' - line'.line_start_offset, offset |-> offset']
  BY DEF location
<1>6. CountsLines
  BY DEF Moves
<1>7. \/ line' = line
      \/ \E n \in Nat, s \in offset..offset' :
           /\ n <= passed
           /\ line' = [current_line_number |-> line.current_line_number + n,
                       line_start_offset |-> s]
           /\ n = 0 => line.current_line_number > Len(text)
  BY <1>6 DEF CountsLines
<1> HIDE DEF before, passed, after
<1>8. CASE line' = line
  BY <1>1, <1>2, <1>3, <1>4, <1>5, <1>8 DEF Located, PlaceAt, Before
<1>9. ASSUME NEW n \in Nat, NEW s \in offset..offset', n <= passed,
             line' = [current_line_number |-> line.current_line_number + n,
                      line_start_offset |-> s],
             n = 0 => line.current_line_number > Len(text)
      PROVE  /\ line'.current_line_number <= Cardinality(LineBreaksPassed')
             /\ location' \in Located
             /\ \A i \in offset..offset' : ~Before(location', PlaceAt(i))
  <2>1. line.current_line_number <= before /\ n > 0
    BY <1>2, <1>3, <1>4, <1>9, <1>1
  <2>2. /\ line'.current_line_number = line.current_line_number + n
        /\ line'.line_start_offset = s
    BY <1>9
  <2>3. line'.current_line_number <= Cardinality(LineBreaksPassed')
    BY <1>2, <1>3, <1>4, <1>9, <2>1, <2>2
  <2>4. location' \in Located
    BY <1>1, <1>2, <1>5, <2>2 DEF Located
  <2>5. \A i \in offset..offset' : ~Before(location', PlaceAt(i))
    BY <1>1, <1>2, <1>5, <2>1, <2>2 DEF PlaceAt, Before
  <2> QED
    BY <2>3, <2>4, <2>5
<1> QED
  BY <1>7, <1>8, <1>9

---------------------------------------------------------------------------
(* Each move keeps the invariant.                                          *)

LEMMA ReadingOn ==
  ASSUME ReadInv, ~Spins, Reads
  PROVE  ReadInv'
<1>1. Reading /\ HasRead /\ TokensConsume /\ LocationsAscend /\ Ascends /\ Moves
  BY DEF ReadInv, Reads
<1>2. /\ tokens' = tokens /\ LastEnd' = LastEnd /\ LastAt' = LastAt
  BY DEF Reads, LastEnd, LastAt, Returned, Latest
<1>3. /\ text' = text /\ offset' \in Nat /\ offset <= offset' /\ offset \in Nat
      /\ line' \in Lines /\ line'.line_start_offset <= offset'
      /\ LastEnd \in Nat /\ LastAt \in Located
  BY <1>1, MovesKeepLines DEF Reading
<1>4. Reading'
  BY <1>1, <1>2, <1>3 DEF Reading, Moves
<1>5. HasRead'
  BY <1>1, <1>2, <1>3 DEF HasRead, Reads
<1>6. TokensConsume' /\ LocationsAscend'
  BY <1>1, <1>2, <1>3 DEF TokensConsume, LocationsAscend, Returned, Latest, Previous
<1>7. Ascends'
  <2>1. /\ line'.current_line_number <= Cardinality(LineBreaksPassed')
        /\ location' \in Located
        /\ \A i \in offset..offset' : ~Before(location', PlaceAt(i))
    BY <1>1, MovesAscend DEF Ascends
  <2>2. /\ location \in Located /\ location = PlaceAt(offset) /\ offset \in offset..offset'
        /\ \A i \in offset..offset' : PlaceAt(i) \in Located /\ ~Before(PlaceAt(i), location)
    BY <1>1, <1>3, PlacesStand
  <2>3. ~Before(location', location) /\ ~Before(location, LastAt)
    BY <1>1, <2>1, <2>2 DEF Ascends
  <2>4. ~Before(location', LastAt')
    BY <1>2, <1>3, <2>1, <2>2, <2>3, LocatedOrder
  <2>5. ASSUME Naming'
        PROVE  start' \in Located /\ ~Before(start', LastAt') /\ ~Before(location', start')
    <3>1. CASE Naming /\ start' = start
      BY <1>1, <1>2, <2>1, <2>2, <2>3, <3>1, LocatedOrder DEF Ascends
    <3>2. ASSUME NEW i \in offset..offset', start' = PlaceAt(i)
          PROVE  start' \in Located /\ ~Before(start', LastAt') /\ ~Before(location', start')
      BY <1>2, <1>3, <2>1, <2>2, <2>3, <3>2, LocatedOrder
    <3> QED
      BY <2>5, <3>1, <3>2 DEF Reads
  <2> QED
    BY <2>1, <2>4, <2>5 DEF Ascends
<1> QED
  BY <1>4, <1>5, <1>6, <1>7 DEF ReadInv

LEMMA GivingOn ==
  ASSUME ReadInv, ~Spins, Gives, offset <= Len(text)
  PROVE  ReadInv'
<1>1. Reading /\ HasRead /\ TokensConsume /\ LocationsAscend /\ Ascends
  BY DEF ReadInv
<1>2. PICK at : GivesAt(at) /\ Stands(at)
  BY DEF Gives
<1>3. Moves /\ pc' = "call"
  BY <1>2 DEF GivesAt
<1>4. /\ text' = text /\ offset' \in Nat /\ offset <= offset' /\ offset \in Nat
      /\ line' \in Lines /\ line'.line_start_offset <= offset'
      /\ LastEnd \in Nat /\ LastAt \in Located
  BY <1>1, <1>3, MovesKeepLines DEF Reading
<1>5. PICK kind, content :
        tokens' = Append(tokens, [kind |-> kind, at |-> at, content |-> content, end |-> offset'])
  BY <1>2 DEF GivesAt
<1> DEFINE given == [kind |-> kind, at |-> at, content |-> content, end |-> offset']
<1>6. given.at = at /\ given.end = offset'
  OBVIOUS
<1> HIDE DEF given
<1>7. /\ Returned \in Nat /\ Returned' = Returned + 1 /\ Latest' = given
      /\ Returned > 0 => Previous' = Latest
      /\ \E S : tokens' \in Seq(S)
  <2>1. PICK S : tokens \in Seq(S)
    BY <1>1 DEF Reading
  <2> DEFINE T == S \cup {given}
  <2>2. tokens \in Seq(T) /\ given \in T
    BY <2>1
  <2> HIDE DEF T
  <2>3. tokens' = Append(tokens, given)
    BY <1>5 DEF given
  <2>4. /\ tokens' \in Seq(T) /\ Len(tokens) \in Nat /\ Len(tokens') = Len(tokens) + 1
        /\ tokens'[Len(tokens) + 1] = given
        /\ \A k \in 1..Len(tokens) : tokens'[k] = tokens[k]
    BY <2>2, <2>3
  <2>5. Returned > 0 => Previous' = Latest
    <3>1. ASSUME Returned > 0
          PROVE  Returned \in 1..Len(tokens) /\ Returned' - 1 = Returned
      BY <2>4, <3>1 DEF Returned
    <3> QED
      BY <3>1, <2>4 DEF Previous, Latest
  <2> QED
    BY <2>4, <2>5 DEF Returned, Latest
<1>8. LastEnd' = offset' /\ LastAt' = at
  BY <1>6, <1>7 DEF LastEnd, LastAt
<1>9. /\ at \in Located /\ ~Before(location', at) /\ location' \in Located
      /\ line'.current_line_number <= Cardinality(LineBreaksPassed')
      /\ at # NoLocation => ~Before(at, LastAt)
  <2>1. /\ line'.current_line_number <= Cardinality(LineBreaksPassed')
        /\ location' \in Located
        /\ \A i \in offset..offset' : ~Before(location', PlaceAt(i))
    BY <1>1, <1>3, MovesAscend DEF Ascends
  <2>2. /\ location \in Located /\ location = PlaceAt(offset) /\ offset \in offset..offset'
        /\ \A i \in offset..offset' : PlaceAt(i) \in Located /\ ~Before(PlaceAt(i), location)
        /\ NoLocation \in Located /\ ~Before(location, NoLocation)
    BY <1>1, <1>4, PlacesStand
  <2>3. ~Before(location', location) /\ ~Before(location, LastAt)
    BY <1>1, <2>1, <2>2 DEF Ascends
  <2>4. CASE at = NoLocation
    BY <2>1, <2>2, <2>3, <2>4, LocatedOrder
  <2>5. CASE Naming /\ at = start
    BY <1>1, <1>4, <2>1, <2>2, <2>3, <2>5, LocatedOrder DEF Ascends
  <2>6. ASSUME NEW i \in offset..offset', at = PlaceAt(i)
        PROVE  at \in Located /\ ~Before(location', at) /\ ~Before(at, LastAt)
    BY <1>4, <2>1, <2>2, <2>3, <2>6, LocatedOrder
  <2> QED
    BY <1>2, <2>1, <2>4, <2>5, <2>6 DEF Stands
<1>10. Reading'
  BY <1>1, <1>3, <1>4, <1>7, <1>8, <1>9 DEF Reading, Moves
<1>11. HasRead'
  BY <1>3, <1>4, <1>8 DEF HasRead, AtReturn
<1>12. TokensConsume'
  <2>1. offset' > LastEnd \/ (offset' = LastEnd /\ LastEnd = Len(text))
    <3>1. LastEnd <= offset /\ (AtReturn => LastEnd < offset)
      BY <1>1 DEF HasRead
    <3>2. offset < offset' \/ AtReturn \/ Len(text) <= offset
      BY <1>2 DEF GivesAt
    <3>3. Len(text) \in Nat
      BY <1>1 DEF Reading, text
    <3> QED
      BY <1>4, <3>1, <3>2, <3>3
  <2>2. (IF Returned' = 1 THEN 0 ELSE Previous'.end) = LastEnd
    BY <1>7 DEF LastEnd
  <2>3. Latest'.end = offset'
    BY <1>6, <1>7
  <2> QED
    BY <1>4, <2>1, <2>2, <2>3 DEF TokensConsume
<1>13. LocationsAscend'
  <2>1. ASSUME Returned' >= 2, NoLocation \notin {Latest'.at, Previous'.at}
        PROVE  ~Before(Latest'.at, Previous'.at)
    <3>1. Returned > 0
      BY <1>7, <2>1
    <3>2. Latest'.at = at /\ Previous'.at = LastAt
      BY <1>6, <1>7, <3>1 DEF LastAt
    <3> QED
      BY <1>9, <2>1, <3>2
  <2> QED
    BY <2>1 DEF LocationsAscend
<1>14. Ascends'
  BY <1>3, <1>8, <1>9 DEF Ascends, Naming
<1> QED
  BY <1>10, <1>11, <1>12, <1>13, <1>14 DEF ReadInv

LEMMA LookingAgain ==
  ASSUME ReadInv, Spins, LooksAgain
  PROVE  ReadInv'
<1>1. /\ Reading /\ HasRead /\ TokensConsume /\ LocationsAscend
      /\ source' = source /\ offset' = offset /\ tokens' = tokens /\ pc' = pc
      /\ text' = text /\ C' = C /\ Peek(1)' = Peek(1)
  BY DEF ReadInv, LooksAgain, text, C, Peek
<1>2. LastEnd' = LastEnd /\ LastAt' = LastAt
  BY <1>1 DEF LastEnd, LastAt, Returned, Latest
<1>3. Reading'
  BY <1>1, <1>2 DEF Reading, LooksAgain
<1>4. Spins'
  BY <1>1 DEF Spins
<1>5. ~AtReturn'
  BY <1>4 DEF Spins, AtReturn
<1>6. HasRead'
  BY <1>1, <1>2, <1>5 DEF HasRead
<1>7. TokensConsume' /\ LocationsAscend'
  BY <1>1 DEF TokensConsume, LocationsAscend, Returned, Latest, Previous
<1> QED
  BY <1>3, <1>4, <1>6, <1>7 DEF ReadInv

---------------------------------------------------------------------------
(* How the steps of the scanners move the position.                        *)

LEMMA OnwardMoves ==
  ASSUME UNCHANGED <<source, line>>, offset' \in Nat, offset <= offset'
  PROVE  Moves
BY DEF Moves, CountsLines

LEMMA StayingMoves ==
  ASSUME Reading, UNCHANGED <<source, position>>
  PROVE  Moves /\ offset' = offset
BY OnwardMoves DEF Reading, position

LEMMA AdvancingMoves ==
  ASSUME Reading, UNCHANGED source, NEW n \in Nat, Advance(n)
  PROVE  Moves /\ offset' = offset + n
<1>1. offset' = offset + n /\ UNCHANGED <<source, line>> /\ offset \in Nat
  BY DEF Advance, Reading
<1> QED
  BY <1>1, OnwardMoves

(* A line is counted that begins between the offsets, and a break of it    *)
(* is passed.                                                              *)
LEMMA CountingMoves ==
  ASSUME Reading, UNCHANGED source, offset' \in Nat,
         NEW k \in offset..offset' - 1, IsBreak(text, k),
         NEW s \in offset..offset', line' = LineBegunAt(s)
  PROVE  Moves /\ offset < offset'
<1>0. offset \in Nat /\ text \in Seq(Char)
  BY DEF Reading, text
<1>1. offset < offset' /\ offset <= offset'
  <2>1. \A a \in Nat, b \in Nat : \A m \in a..b - 1 : a < b /\ a <= b
    OBVIOUS
  <2> QED
    BY <1>0, <2>1, Zenon
<1>2. 1 <= Cardinality(BreaksIn(text, offset, offset'))
  BY <1>0, BreakCounts
<1>3. Cardinality(BreaksIn(text, offset, offset')) \in Nat
  BY <1>0, <1>1, BreaksAddUp, Zenon
<1>4. line.current_line_number \in Nat
  BY DEF Reading, Lines
<1>5. CountsLines
  <2>1. CASE line.current_line_number > Len(text)
    <3>1. line' = [current_line_number |-> line.current_line_number + 0, line_start_offset |-> s]
      BY <1>4, <2>1 DEF LineBegunAt
    <3> QED
      BY <1>3, <2>1, <3>1 DEF CountsLines
  <2>2. CASE ~(line.current_line_number > Len(text))
    <3>1. line' = [current_line_number |-> line.current_line_number + 1, line_start_offset |-> s]
      BY <2>2 DEF LineBegunAt
    <3> QED
      BY <1>2, <3>1 DEF CountsLines
  <2> QED
    BY <2>1, <2>2
<1> QED
  BY <1>1, <1>5 DEF Moves

LEMMA OverLineMoves ==
  ASSUME Reading, UNCHANGED source, NEW i \in Nat, offset < i, AdvanceOverLine(i)
  PROVE  Moves /\ offset < offset'
<1>1. offset \in Nat /\ text \in Seq(Char) /\ offset' = AfterLine(text, i)
  BY DEF Reading, text, AdvanceOverLine
<1>2. /\ LineEnd(text, i) \in Nat /\ LineEnd(text, i) >= i
      /\ AfterLine(text, i) \in Nat /\ AfterLine(text, i) >= i
      /\ AfterLine(text, i) = IF At(text, LineEnd(text, i)) = "\n" THEN LineEnd(text, i) + 1
                              ELSE LineEnd(text, i)
  BY <1>1, LineGoesOn
<1>3. CASE UNCHANGED line
  BY <1>1, <1>2, <1>3, OnwardMoves
<1>4. CASE At(text, LineEnd(text, i)) = "\n" /\ line' = LineBegunAt(AfterLine(text, i))
  <2>1. /\ LineEnd(text, i) \in offset..offset' - 1 /\ offset' \in offset..offset'
        /\ IsBreak(text, LineEnd(text, i)) /\ line' = LineBegunAt(offset')
    BY <1>1, <1>2, <1>4 DEF IsBreak
  <2> QED
    BY <1>1, <1>2, <2>1, CountingMoves
<1> QED
  BY <1>3, <1>4 DEF AdvanceOverLine

---------------------------------------------------------------------------
(* Loops that go on, and calls that return.                                *)

NamesGoOn ==
  Naming' => \/ Naming /\ UNCHANGED start
             \/ \E i \in offset..offset' : start' = PlaceAt(i)

LEMMA LoopAdvances ==
  ASSUME Reading, UNCHANGED <<source, tokens>>, NEW n \in Nat \ {0}, Advance(n), NamesGoOn
  PROVE  Reads
<1>1. Moves /\ offset' = offset + n /\ offset \in Nat
  BY AdvancingMoves DEF Reading
<1> QED
  BY <1>1 DEF Reads, NamesGoOn

(* An exception reads nothing.                                             *)
LEMMA ThrowReads ==
  ASSUME Reading, UNCHANGED <<source, position, tokens>>, pc' = "thrown"
  PROVE  Reads
<1>1. Moves
  BY StayingMoves
<1> QED
  BY <1>1 DEF Reads, AtReturn, Naming

LEMMA FailReads ==
  ASSUME Reading, UNCHANGED source, NEW e, Fail(e)
  PROVE  Reads
BY ThrowReads DEF Fail, Throw

LEMMA ReturnGives ==
  ASSUME Moves, NEW kind, NEW at, NEW content, NEW forced,
         ReturnToken(kind, at, content, forced), Stands(at),
         offset < offset' \/ AtReturn \/ Len(text) <= offset
  PROVE  Gives
BY DEF Gives, GivesAt, ReturnToken

(* A token that stands where the call began.                               *)
LEMMA HereStands ==
  ASSUME Reading, offset' \in Nat, offset <= offset'
  PROVE  Stands(location)
<1>1. location = PlaceAt(offset) /\ offset \in offset..offset'
  BY PlacesStand DEF Reading
<1> QED
  BY <1>1 DEF Stands

LEMMA AheadStands ==
  ASSUME Reading, NEW i \in Nat, offset' \in Nat, offset <= i, i <= offset'
  PROVE  Stands(LocationAt(i))
<1>1. LocationAt(i) = PlaceAt(i) /\ i \in offset..offset'
  BY PlacesStand DEF Reading
<1> QED
  BY <1>1 DEF Stands

LEMMA ReturnHere ==
  ASSUME Reading, Moves, NEW kind, NEW content, NEW forced,
         ReturnToken(kind, location, content, forced),
         offset < offset' \/ AtReturn \/ Len(text) <= offset
  PROVE  Gives
<1>1. Stands(location)
  BY HereStands DEF Moves
<1> QED
  BY <1>1, ReturnGives

LEMMA ReturnAdvanced ==
  ASSUME Reading, UNCHANGED source, NEW n \in Nat \ {0}, Advance(n),
         NEW kind, NEW content, NEW forced, ReturnToken(kind, location, content, forced)
  PROVE  Gives
<1>1. Moves /\ offset < offset'
  BY AdvancingMoves DEF Reading
<1> QED
  BY <1>1, ReturnHere

LEMMA ElsewhereIsNoSpin ==
  ASSUME pc \notin {"template", "jsx_element", "jsx_attribute", "jsx_attribute_space"}
  PROVE  ~Spins
BY DEF Spins

LEMMA Forward == 1 \in Nat \ {0} /\ 2 \in Nat \ {0}
OBVIOUS

LEMMA StartHere ==
  ASSUME Reading, offset' \in Nat, offset <= offset', start' = location
  PROVE  NamesGoOn
<1>1. location = PlaceAt(offset) /\ offset \in offset..offset'
  BY PlacesStand DEF Reading
<1> QED
  BY <1>1 DEF NamesGoOn

---------------------------------------------------------------------------
(* The actions of each module are such steps.                              *)

(* Strings.                                                                *)
LEMMA StringSteps ==
  ASSUME Reading, UNCHANGED source,
         OpenString \/ StringCharacter \/ StringContinuation \/ StringEscape \/ EndString
  PROVE  ~Spins /\ (Reads \/ Gives)
<1> USE DEF GoOn, NamesGoOn, Naming
<1>0. offset \in Nat /\ text \in Seq(Char)
  BY DEF Reading, text
<1>1. CASE OpenString
  <2>1. /\ Advance(1) /\ offset' = offset + 1 /\ UNCHANGED tokens
        /\ start' = location /\ pc = "scan"
    BY <1>1 DEF OpenString, Advance
  <2>2. NamesGoOn
    BY <1>0, <2>1, StartHere
  <2> QED
    BY <2>1, <2>2, LoopAdvances, ElsewhereIsNoSpin
<1>2. CASE StringCharacter
  <2>1. Advance(1) /\ UNCHANGED tokens /\ NamesGoOn /\ pc = "string"
    BY <1>2 DEF StringCharacter
  <2> QED
    BY <2>1, LoopAdvances, ElsewhereIsNoSpin
<1>3. CASE StringContinuation
  <2>1. /\ UNCHANGED tokens /\ NamesGoOn /\ pc = "string"
        /\ Advance(3) \/ (Peek(1) = "\n" /\ AdvanceThenLine(2))
    BY <1>3 DEF StringContinuation
  <2>2. CASE Advance(3)
    BY <2>1, <2>2, LoopAdvances, ElsewhereIsNoSpin
  <2>3. CASE Peek(1) = "\n" /\ AdvanceThenLine(2)
    <3>1. /\ offset' = offset + 2 /\ line' = LineBegunAt(offset + 2) /\ offset' \in Nat
          /\ offset + 1 \in offset..offset' - 1 /\ offset + 2 \in offset..offset'
          /\ IsBreak(text, offset + 1)
      BY <1>0, <2>3 DEF AdvanceThenLine, Peek, IsBreak
    <3>2. Moves /\ offset < offset'
      BY <3>1, CountingMoves
    <3> QED
      BY <1>0, <2>1, <3>1, <3>2, ElsewhereIsNoSpin DEF Reads
  <2> QED
    BY <2>1, <2>2, <2>3
<1>4. CASE StringEscape
  <2>1. pc = "string"
    BY <1>4 DEF StringEscape
  <2>2. PICK n \in EscapeLength(text, offset + 1) :
          \/ Fail("escape")
          \/ n # Refused /\ Advance(1 + n) /\ UNCHANGED tokens /\ NamesGoOn
    BY <1>4 DEF StringEscape
  <2>3. n = Refused \/ n \in Nat
    BY <1>0, EscapeGoesOn
  <2>4. n \in Nat => 1 + n \in Nat \ {0}
    OBVIOUS
  <2> QED
    BY <2>1, <2>2, <2>3, <2>4, FailReads, LoopAdvances, ElsewhereIsNoSpin
<1>5. CASE EndString
  <2>1. /\ pc = "string"
        /\ \/ Advance(1) /\ ReturnToken("constant_value", start, {}, FALSE)
           \/ pc' = "thrown" /\ UNCHANGED <<tokens, position>>
    BY <1>5 DEF EndString, Return, Throw
  <2>2. CASE Advance(1) /\ ReturnToken("constant_value", start, {}, FALSE)
    <3>1. Moves /\ offset < offset' /\ Stands(start)
      BY <1>0, <2>1, <2>2, AdvancingMoves DEF Stands
    <3> QED
      BY <2>1, <2>2, <3>1, ReturnGives, ElsewhereIsNoSpin
  <2>3. CASE pc' = "thrown" /\ UNCHANGED <<tokens, position>>
    BY <2>1, <2>3, ThrowReads, ElsewhereIsNoSpin
  <2> QED
    BY <2>1, <2>2, <2>3
<1> QED
  BY <1>1, <1>2, <1>3, <1>4, <1>5

(* Templates.                                                              *)
LEMMA TemplateSteps ==
  ASSUME Reading, UNCHANGED source,
         \/ EndTemplate \/ OpenTemplateExpression \/ OpenTemplateChunk \/ TemplateCharacter
         \/ TemplateSpin \/ EndTemplateChunk \/ UnterminatedTemplate
  PROVE  Steps
<1> USE DEF GoOn, NamesGoOn, Naming, Steps
<1>0. offset \in Nat /\ text \in Seq(Char) /\ Len(text) \in Nat /\ text' = text
  BY DEF Reading, text
<1>1. CASE EndTemplate
  <2>1. /\ pc = "template_start" /\ C \in {"backtick", Eof}
        /\ Advance(IF C = Eof THEN 0 ELSE 1)
        /\ ReturnToken("interpolated_string_end", location, {}, FALSE)
    BY <1>1 DEF EndTemplate, Return
  <2>2. CASE C = Eof
    <3>1. Len(text) <= offset
      BY <1>0, <2>2, EofIsBehind DEF C
    <3>2. Moves
      BY <2>1, <2>2, AdvancingMoves
    <3> QED
      BY <2>1, <3>1, <3>2, ReturnHere, ElsewhereIsNoSpin
  <2>3. CASE C # Eof
    BY <2>1, <2>3, ReturnAdvanced, Forward, ElsewhereIsNoSpin
  <2> QED
    BY <2>2, <2>3
<1>2. CASE OpenTemplateExpression
  <2>1. /\ pc = "template_start" /\ Advance(2)
        /\ ReturnToken("template_start", location, {}, FALSE)
    BY <1>2 DEF OpenTemplateExpression, Return
  <2> QED
    BY <2>1, ReturnAdvanced, Forward, ElsewhereIsNoSpin
<1>3. CASE OpenTemplateChunk
  <2>1. /\ pc = "template_start" /\ pc' = "template" /\ UNCHANGED <<tokens, position>>
        /\ C # "backtick" /\ ~(C = "$" /\ Peek(1) = "{")
    BY <1>3 DEF OpenTemplateChunk
  <2>2. ~AtReturn' /\ ~Naming'
    BY <1>0, <2>1 DEF AtReturn, C, Peek, position
  <2> QED
    BY <2>1, <2>2, StayingMoves, ElsewhereIsNoSpin DEF Reads
<1>4. CASE TemplateCharacter
  <2>1. /\ pc = "template" /\ pc' = "template" /\ UNCHANGED tokens /\ NamesGoOn
        /\ \/ C \notin {"\r", "\n", "\\"} /\ Advance(1)
           \/ C = "\n" /\ LineThenAdvance(1)
           \/ C = "\r" /\ Peek(1) = "\n" /\ AdvanceThenLine(2)
           \/ C = "\\" /\ \E n \in EscapeLength(text, offset) : Advance(1 + n)
    BY <1>4 DEF TemplateCharacter
  <2>2. ~Spins
    BY <2>1 DEF Spins
  <2>3. CASE C \notin {"\r", "\n", "\\"} /\ Advance(1)
    BY <2>1, <2>2, <2>3, LoopAdvances
  <2>4. CASE C = "\n" /\ LineThenAdvance(1)
    <3>1. /\ offset' = offset + 1 /\ line' = LineBegunAt(offset) /\ offset' \in Nat
          /\ offset \in offset..offset' - 1 /\ offset \in offset..offset'
          /\ IsBreak(text, offset)
      BY <1>0, <2>4 DEF LineThenAdvance, C, IsBreak
    <3>2. Moves /\ offset < offset'
      BY <3>1, CountingMoves
    <3> QED
      BY <1>0, <2>1, <2>2, <3>1, <3>2 DEF Reads
  <2>5. CASE C = "\r" /\ Peek(1) = "\n" /\ AdvanceThenLine(2)
    <3>1. /\ offset' = offset + 2 /\ line' = LineBegunAt(offset + 2) /\ offset' \in Nat
          /\ offset + 1 \in offset..offset' - 1 /\ offset + 2 \in offset..offset'
          /\ IsBreak(text, offset + 1)
      BY <1>0, <2>5 DEF AdvanceThenLine, Peek, IsBreak
    <3>2. Moves /\ offset < offset'
      BY <3>1, CountingMoves
    <3> QED
      BY <1>0, <2>1, <2>2, <3>1, <3>2 DEF Reads
  <2>6. CASE C = "\\" /\ \E n \in EscapeLength(text, offset) : Advance(1 + n)
    <3>1. EscapeLength(text, offset) = {1}
      BY <1>0, <2>6, EscapeGoesOn DEF C
    <3>2. Advance(2)
      BY <2>6, <3>1
    <3> QED
      BY <2>1, <2>2, <3>2, LoopAdvances
  <2> QED
    BY <2>1, <2>3, <2>4, <2>5, <2>6
<1>5. CASE TemplateSpin
  <2>1. Spins
    BY <1>5 DEF TemplateSpin, Spins
  <2>2. LooksAgain
    BY <1>5 DEF TemplateSpin, LooksAgain, vars, position, outcome, Reading
  <2> QED
    BY <2>1, <2>2
<1>6. CASE EndTemplateChunk
  <2>1. /\ pc = "template" /\ UNCHANGED position /\ AtReturn
        /\ C = "backtick" \/ C = "$"
        /\ \/ ReturnToken("interpolated_string_chunk", location, {}, FALSE)
           \/ ReturnToken("interpolated_string_chunk", NoLocation, {}, FALSE)
    BY <1>6 DEF EndTemplateChunk, Return, AtReturn
  <2>2. ~Spins
    BY <2>1 DEF Spins
  <2>3. Moves
    BY <2>1, StayingMoves
  <2>4. Stands(NoLocation)
    BY DEF Stands
  <2> QED
    BY <2>1, <2>2, <2>3, <2>4, ReturnHere, ReturnGives
<1>7. CASE UnterminatedTemplate
  <2>1. pc = "template" /\ C = Eof /\ Fail("unterminated_string_literal")
    BY <1>7 DEF UnterminatedTemplate
  <2>2. ~Spins
    BY <2>1 DEF Spins, Eof
  <2> QED
    BY <2>1, <2>2, FailReads
<1> QED
  BY <1>1, <1>2, <1>3, <1>4, <1>5, <1>6, <1>7

(* Names, numbers and regular expressions.                                 *)
LEMMA NameSteps ==
  ASSUME Reading, UNCHANGED source,
         \/ IdentifierCharacter \/ IdentifierEscape \/ InvalidIdentifier \/ EndIdentifier
         \/ ScanNumber \/ ScanRegex
  PROVE  ~Spins /\ (Reads \/ Gives)
<1> USE DEF GoOn, NamesGoOn, Naming
<1>0. offset \in Nat /\ text \in Seq(Char) /\ Len(text) \in Nat
  BY DEF Reading, text
<1>1. CASE IdentifierCharacter
  <2>1. /\ pc \in {"identifier", "private_identifier"} /\ Advance(1)
        /\ UNCHANGED tokens /\ NamesGoOn
    BY <1>1 DEF IdentifierCharacter, InIdentifier
  <2> QED
    BY <2>1, LoopAdvances, ElsewhereIsNoSpin
<1>2. CASE IdentifierEscape
  <2>1. pc \in {"identifier", "private_identifier"}
    BY <1>2 DEF IdentifierEscape, InIdentifier
  <2>2. CASE Fail("invalid_character")
    BY <2>1, <2>2, FailReads, ElsewhereIsNoSpin
  <2>3. CASE ~Fail("invalid_character")
    <3>1. /\ IdentifierEscapeEnd(text, offset) # Refused
          /\ offset' = IdentifierEscapeEnd(text, offset) /\ UNCHANGED line
          /\ UNCHANGED tokens /\ NamesGoOn
      BY <1>2, <2>3 DEF IdentifierEscape, InIdentifier
    <3>2. offset' \in Nat /\ offset < offset' /\ offset <= offset'
      BY <1>0, <3>1, IdentifierEscapeGoesOn DEF Onward
    <3>3. Moves
      BY <3>1, <3>2, OnwardMoves
    <3> QED
      BY <1>0, <2>1, <3>1, <3>2, <3>3, ElsewhereIsNoSpin DEF Reads
  <2> QED
    BY <2>2, <2>3
<1>3. CASE InvalidIdentifier
  <2>1. pc \in {"identifier", "private_identifier"} /\ Fail("invalid_identifier")
    BY <1>3 DEF InvalidIdentifier, InIdentifier
  <2> QED
    BY <2>1, FailReads, ElsewhereIsNoSpin
<1>4. CASE EndIdentifier
  <2>1. /\ pc \in {"identifier", "private_identifier"} /\ UNCHANGED position
        /\ wbuffer # {}
        /\ \/ ReturnToken("identifier", start, {}, FALSE)
           \/ ReturnToken("keyword", start, {}, FALSE)
    BY <1>4 DEF EndIdentifier, InIdentifier, Return, BufferBegins
  <2>2. AtReturn /\ Stands(start) /\ Moves
    BY <2>1, StayingMoves DEF AtReturn, Stands
  <2> QED
    BY <2>1, <2>2, ReturnGives, ElsewhereIsNoSpin
<1>5. CASE ScanNumber
  <2>1. pc = "scan" /\ AtNumber
    BY <1>5 DEF ScanNumber
  <2>2. CASE Fail("number")
    BY <2>1, <2>2, FailReads, ElsewhereIsNoSpin
  <2>3. CASE ~Fail("number")
    <3>1. /\ NumberEnd(text, offset) # Refused
          /\ offset' = NumberEnd(text, offset) /\ UNCHANGED line
          /\ \/ pc' = "suffix" /\ UNCHANGED tokens
             \/ ReturnToken("constant_value", LocationAt(NumberLocation(text, offset)), {}, FALSE)
      BY <1>5, <2>3 DEF ScanNumber, Return
    <3>2. At(text, offset) \in Digit
            \/ (At(text, offset) = "." /\ At(text, offset + 1) \in Digit)
      BY <2>1 DEF AtNumber, C, Peek
    <3>3. /\ offset' \in Nat /\ offset < offset' /\ offset <= offset'
          /\ NumberLocation(text, offset) \in offset..offset'
          /\ NumberLocation(text, offset) \in Nat
      BY <1>0, <3>1, <3>2, NumberGoesOn
    <3>4. Moves /\ Stands(LocationAt(NumberLocation(text, offset)))
      BY <1>0, <3>1, <3>3, OnwardMoves, AheadStands
    <3>5. CASE pc' = "suffix" /\ UNCHANGED tokens
      BY <1>0, <2>1, <3>3, <3>4, <3>5, ElsewhereIsNoSpin DEF Reads
    <3> QED
      BY <2>1, <3>1, <3>3, <3>4, <3>5, ReturnGives, ElsewhereIsNoSpin
  <2> QED
    BY <2>2, <2>3
<1>6. CASE ScanRegex
  <2>1. pc = "scan" /\ C = "/"
    BY <1>6 DEF ScanRegex, AtRegex
  <2>2. offset < Len(text)
    <3>1. At(text, offset) # Eof
      BY <2>1 DEF C, Eof
    <3> QED
      BY <1>0, <3>1, EofIsBehind
  <2>3. PICK end \in RegexEnds(text, offset) :
          \/ Fail("regex")
          \/ /\ end # Refused
             /\ \/ Advance(1) /\ ReturnToken("operator", location, {}, FALSE)
                \/ /\ end # Absent /\ offset' = end /\ UNCHANGED line
                   /\ ReturnToken("regex", location, {}, FALSE)
    BY <1>6 DEF ScanRegex, Return
  <2>4. end \in {Refused, Absent} \/ (end \in Nat /\ end > offset)
    BY <1>0, <2>2, RegexGoesOn
  <2>5. CASE Fail("regex")
    BY <2>1, <2>5, FailReads, ElsewhereIsNoSpin
  <2>6. CASE Advance(1) /\ ReturnToken("operator", location, {}, FALSE)
    BY <2>1, <2>6, ReturnAdvanced, Forward, ElsewhereIsNoSpin
  <2>7. CASE /\ end \notin {Refused, Absent} /\ offset' = end /\ UNCHANGED line
             /\ ReturnToken("regex", location, {}, FALSE)
    <3>1. offset' \in Nat /\ offset < offset' /\ offset <= offset'
      BY <1>0, <2>4, <2>7
    <3>2. Moves
      BY <2>7, <3>1, OnwardMoves
    <3> QED
      BY <2>1, <2>7, <3>1, <3>2, ReturnHere, ElsewhereIsNoSpin
  <2> QED
    BY <2>3, <2>5, <2>6, <2>7
<1> QED
  BY <1>1, <1>2, <1>3, <1>4, <1>5, <1>6

LEMMA LiteralSteps ==
  ASSUME Reading, UNCHANGED source, ScanLiteral
  PROVE  Steps
BY StringSteps, TemplateSteps, NameSteps DEF ScanLiteral, Steps

(* A line break under the offset is counted and passed.                    *)
LEMMA BreakHere ==
  ASSUME Reading, UNCHANGED source, C = "\n", LineThenAdvance(1) \/ AdvanceThenLine(1)
  PROVE  Moves /\ offset < offset'
<1>1. offset \in Nat
  BY DEF Reading
<1>2. /\ offset' = offset + 1 /\ offset' \in Nat /\ offset \in offset..offset' - 1
      /\ offset \in offset..offset' /\ offset' \in offset..offset'
  BY <1>1 DEF LineThenAdvance, AdvanceThenLine
<1>3. IsBreak(text, offset)
  BY DEF C, IsBreak
<1>4. line' = LineBegunAt(offset) \/ line' = LineBegunAt(offset')
  BY DEF LineThenAdvance, AdvanceThenLine
<1> QED
  BY <1>2, <1>3, <1>4, CountingMoves

(* A loop goes over a character that may be a line break.                  *)
LEMMA BreakOrAdvance ==
  ASSUME Reading, UNCHANGED <<source, tokens>>, NamesGoOn,
         \/ C = "\n" /\ (LineThenAdvance(1) \/ AdvanceThenLine(1))
         \/ Advance(1)
  PROVE  Reads
<1>1. CASE C = "\n" /\ (LineThenAdvance(1) \/ AdvanceThenLine(1))
  <2>1. Moves /\ offset < offset'
    BY <1>1, BreakHere
  <2>2. offset' # offset
    BY <2>1 DEF Moves, Reading
  <2> QED
    BY <2>1, <2>2 DEF Reads, NamesGoOn
<1>2. CASE Advance(1)
  BY <1>2, Forward, LoopAdvances
<1> QED
  BY <1>1, <1>2

(* Elements, up to an attribute's name.                                    *)
LEMMA ElementSteps ==
  ASSUME Reading, UNCHANGED source,
         \/ ElementSpace \/ ElementSpin \/ EndElementPart \/ InvalidElement
         \/ OpenAttributeName \/ AttributeNameCharacter \/ AttributeNameSpace
         \/ EndAttributeName \/ InvalidAttributeName
  PROVE  Steps
<1> USE DEF GoOn, Steps
<1>0. offset \in Nat /\ text \in Seq(Char) /\ Len(text) \in Nat
  BY DEF Reading, text
<1>1. CASE ElementSpace
  <2>1. /\ pc = "jsx_element" /\ pc' = "jsx_element" /\ UNCHANGED tokens /\ C \in Space
        /\ (C = "\n" /\ LineThenAdvance(1)) \/ Advance(1)
    BY <1>1 DEF ElementSpace
  <2>2. ~Spins
    BY <2>1 DEF Spins, Space
  <2>3. NamesGoOn
    BY <2>1 DEF NamesGoOn, Naming
  <2> QED
    BY <2>1, <2>2, <2>3, BreakOrAdvance
<1>2. CASE ElementSpin
  <2>1. Spins
    BY <1>2 DEF ElementSpin, Spins
  <2>2. LooksAgain
    BY <1>2 DEF ElementSpin, LooksAgain, vars, position, outcome, Reading
  <2> QED
    BY <2>1, <2>2
<1>3. CASE EndElementPart
  <2>1. /\ pc = "jsx_element"
        /\ \/ Peek(1) = ">" /\ Advance(2) /\ ReturnToken("jsx_self_closing", location, {}, FALSE)
           \/ C = ">" /\ Advance(1) /\ ReturnToken("jsx_element_end", location, {}, FALSE)
    BY <1>3 DEF EndElementPart, Return
  <2>2. ~Spins
    BY <2>1 DEF Spins
  <2> QED
    BY <2>1, <2>2, ReturnAdvanced, Forward
<1>4. CASE InvalidElement
  <2>1. pc = "jsx_element" /\ (C # "/" \/ Peek(1) = Eof) /\ Fail("jsx_element")
    BY <1>4 DEF InvalidElement
  <2>2. ~Spins
    BY <2>1 DEF Spins
  <2> QED
    BY <2>1, <2>2, FailReads
<1>5. CASE OpenAttributeName
  <2>1. /\ pc = "jsx_element" /\ pc' = "jsx_name" /\ C \in IdentifierStart
        /\ UNCHANGED <<tokens, position>> /\ start' = location
    BY <1>5 DEF OpenAttributeName
  <2>2. ~Spins
    BY <2>1 DEF Spins, IdentifierStart, Letter
  <2>3. Moves /\ offset' = offset
    BY <2>1, StayingMoves
  <2>4. NamesGoOn
    BY <1>0, <2>1, <2>3, StartHere
  <2>5. ~AtReturn'
    BY <2>1 DEF AtReturn
  <2> QED
    BY <2>1, <2>2, <2>3, <2>4, <2>5 DEF Reads, NamesGoOn
<1>6. CASE AttributeNameCharacter
  <2>1. pc = "jsx_name" /\ Advance(1) /\ UNCHANGED tokens /\ NamesGoOn
    BY <1>6 DEF AttributeNameCharacter, NamesGoOn, Naming
  <2> QED
    BY <2>1, LoopAdvances, Forward, ElsewhereIsNoSpin
<1>7. CASE AttributeNameSpace
  <2>1. /\ pc \in {"jsx_name", "jsx_name_ended"} /\ UNCHANGED tokens /\ NamesGoOn
        /\ (C = "\n" /\ AdvanceThenLine(1)) \/ Advance(1)
    BY <1>7 DEF AttributeNameSpace, InAttributeName, NamesGoOn, Naming
  <2> QED
    BY <2>1, BreakOrAdvance, ElsewhereIsNoSpin
<1>8. CASE EndAttributeName
  <2>1. /\ pc \in {"jsx_name", "jsx_name_ended"}
        /\ ReturnToken("jsx_attribute_name", start, {}, FALSE)
        /\ Advance(1) \/ (pc = "jsx_name_ended" /\ UNCHANGED position)
    BY <1>8 DEF EndAttributeName, InAttributeName, Return
  <2>2. Stands(start)
    BY <2>1 DEF Stands, Naming
  <2>3. Moves /\ (offset < offset' \/ AtReturn)
    <3>1. CASE Advance(1)
      <4>1. Moves /\ offset' = offset + 1
        BY <3>1, Forward, AdvancingMoves
      <4> QED
        BY <1>0, <4>1
    <3>2. CASE pc = "jsx_name_ended" /\ UNCHANGED position
      BY <3>2, StayingMoves DEF AtReturn
    <3> QED
      BY <2>1, <3>1, <3>2
  <2> QED
    BY <2>1, <2>2, <2>3, ReturnGives, ElsewhereIsNoSpin
<1>9. CASE InvalidAttributeName
  <2>1. pc \in {"jsx_name", "jsx_name_ended"} /\ Fail("jsx_attribute_name")
    BY <1>9 DEF InvalidAttributeName, InAttributeName
  <2> QED
    BY <2>1, FailReads, ElsewhereIsNoSpin
<1> QED
  BY <1>1, <1>2, <1>3, <1>4, <1>5, <1>6, <1>7, <1>8, <1>9

(* Attributes.                                                             *)
LEMMA AttributeSteps ==
  ASSUME Reading, UNCHANGED source, offset <= Len(text),
         \/ AttributeSpace \/ AttributeSpin \/ OpenAttributeValue \/ OpenAttributeExpression
         \/ AttributeValueCharacter \/ EndAttributeValue
  PROVE  Steps
<1> USE DEF GoOn, Steps
<1>0. offset \in Nat /\ text \in Seq(Char) /\ Len(text) \in Nat
  BY DEF Reading, text
<1>1. CASE AttributeSpace
  <2>1. /\ pc \in {"jsx_attribute", "jsx_attribute_space"} /\ C \in Space \ {"\n"}
        /\ pc' = "jsx_attribute_space" /\ UNCHANGED tokens /\ Advance(1)
    BY <1>1 DEF AttributeSpace
  <2>2. ~Spins
    BY <1>0, <2>1, EofIsBehind DEF Spins, Space, Eof, C
  <2>3. NamesGoOn
    BY <2>1 DEF NamesGoOn, Naming
  <2> QED
    BY <2>1, <2>2, <2>3, LoopAdvances, Forward
<1>2. CASE AttributeSpin
  <2>1. Spins
    BY <1>0, <1>2, EofIsBehind DEF AttributeSpin, Spins, C
  <2>2. CASE UNCHANGED vars
    <3>1. LooksAgain
      BY <2>2 DEF LooksAgain, vars, position, outcome, Reading
    <3> QED
      BY <2>1, <3>1
  <2>3. CASE LineThenAdvance(0) /\ UNCHANGED <<pc, tokens>>
    <3>1. offset' = offset /\ line' = LineBegunAt(offset)
      BY <1>0, <2>3 DEF LineThenAdvance
    <3>2. line' \in Lines /\ line'.line_start_offset <= offset'
      BY <1>0, <3>1 DEF LineBegunAt, Lines, Reading
    <3> QED
      BY <2>1, <2>3, <3>1, <3>2 DEF LooksAgain
  <2> QED
    BY <1>2, <2>2, <2>3 DEF AttributeSpin
<1>3. CASE OpenAttributeValue
  <2>1. /\ pc \in {"jsx_attribute", "jsx_attribute_space"} /\ C \in Quote
        /\ pc' = "jsx_value" /\ UNCHANGED tokens /\ Advance(1)
    BY <1>3 DEF OpenAttributeValue
  <2>2. ~Spins
    BY <1>0, <2>1, EofIsBehind DEF Spins, Quote, Eof, C
  <2>3. NamesGoOn
    BY <2>1 DEF NamesGoOn, Naming
  <2> QED
    BY <2>1, <2>2, <2>3, LoopAdvances, Forward
<1>4. CASE OpenAttributeExpression
  <2>1. /\ pc \in {"jsx_attribute", "jsx_attribute_space"}
        /\ C \notin Space /\ (pc = "jsx_attribute_space" => C # Eof)
        /\ Advance(IF C = Eof THEN 0 ELSE 1)
        /\ ReturnToken("jsx_attribute_value_start",
                       IF C = "{" THEN LocationAt(offset + 1) ELSE location, {}, FALSE)
    BY <1>4 DEF OpenAttributeExpression, Return
  <2>2. ~Spins
    BY <1>0, <2>1, EofIsBehind DEF Spins, Space, C
  <2>3. CASE C = Eof
    <3>1. Len(text) <= offset
      BY <1>0, <2>3, EofIsBehind DEF C
    <3>2. Moves
      BY <2>1, <2>3, AdvancingMoves
    <3>3. C # "{"
      BY <2>3 DEF Eof
    <3> QED
      BY <2>1, <2>2, <3>1, <3>2, <3>3, ReturnHere
  <2>4. CASE C # Eof
    <3>1. Moves /\ offset' = offset + 1
      BY <2>1, <2>4, AdvancingMoves
    <3>2. /\ offset' \in Nat /\ offset < offset' /\ offset <= offset'
          /\ offset + 1 \in Nat /\ offset <= offset + 1 /\ offset + 1 <= offset'
      BY <1>0, <3>1
    <3>3. Stands(LocationAt(offset + 1)) /\ Stands(location)
      BY <3>2, AheadStands, HereStands
    <3> QED
      BY <2>1, <2>2, <3>1, <3>2, <3>3, ReturnGives
  <2> QED
    BY <2>3, <2>4
<1>5. CASE AttributeValueCharacter
  <2>1. pc = "jsx_value" /\ pc' = "jsx_value" /\ UNCHANGED tokens /\ Advance(1)
    BY <1>5 DEF AttributeValueCharacter
  <2>2. NamesGoOn
    BY <2>1 DEF NamesGoOn, Naming
  <2> QED
    BY <2>1, <2>2, LoopAdvances, Forward, ElsewhereIsNoSpin
<1>6. CASE EndAttributeValue
  <2>1. /\ pc = "jsx_value"
        /\ \/ Fail("jsx_attribute_value")
           \/ /\ Advance(1)
              /\ ReturnToken("jsx_attribute_value", LocationAt(offset + 1), {}, FALSE)
    BY <1>6 DEF EndAttributeValue, Return
  <2>2. CASE Fail("jsx_attribute_value")
    BY <2>1, <2>2, FailReads, ElsewhereIsNoSpin
  <2>3. CASE /\ Advance(1)
             /\ ReturnToken("jsx_attribute_value", LocationAt(offset + 1), {}, FALSE)
    <3>1. Moves /\ offset' = offset + 1
      BY <2>3, Forward, AdvancingMoves
    <3>2. /\ offset' \in Nat /\ offset < offset'
          /\ offset + 1 \in Nat /\ offset <= offset + 1 /\ offset + 1 <= offset'
      BY <1>0, <3>1
    <3>3. Stands(LocationAt(offset + 1))
      BY <3>2, AheadStands
    <3> QED
      BY <2>1, <2>3, <3>1, <3>2, <3>3, ReturnGives, ElsewhereIsNoSpin
  <2> QED
    BY <2>1, <2>2, <2>3
<1> QED
  BY <1>1, <1>2, <1>3, <1>4, <1>5, <1>6

LEMMA StartElementGives ==
  ASSUME Reading, UNCHANGED source, C = "<", StartElement
  PROVE  Gives
<1>0. offset \in Nat /\ text \in Seq(Char)
  BY DEF Reading, text
<1>1. offset < Len(text)
  <2>1. At(text, offset) # Eof
    BY DEF C, Eof
  <2> QED
    BY <1>0, <2>1, EofIsBehind
<1> DEFINE end == ElementNameEnd(text, offset)
<1>2. end \in Nat /\ offset < end /\ offset <= end /\ end <= end
  BY <1>0, <1>1, ElementNameGoesOn
<1>3. /\ offset' = end /\ UNCHANGED line
      /\ \/ ReturnToken("jsx_element_start", LocationAt(end), {}, FALSE)
         \/ ReturnToken("jsx_element_start", location, {}, FALSE)
  BY DEF StartElement, Return
<1> HIDE DEF end
<1>4. Moves
  BY <1>2, <1>3, OnwardMoves
<1>5. Stands(LocationAt(end)) /\ Stands(location)
  BY <1>2, <1>3, AheadStands, HereStands
<1> QED
  BY <1>2, <1>3, <1>4, <1>5, ReturnGives

(* Text.                                                                   *)
LEMMA TextSteps ==
  ASSUME Reading, UNCHANGED source,
         \/ OpenTextExpression \/ CloseElement \/ InvalidClosingTag \/ NestedElement
         \/ OpenText \/ TextCharacter \/ EndText
  PROVE  ~Spins /\ (Reads \/ Gives)
<1> USE DEF GoOn
<1>0. offset \in Nat /\ text \in Seq(Char) /\ Len(text) \in Nat /\ text' = text
  BY DEF Reading, text
<1>1. CASE OpenTextExpression
  <2>1. /\ pc = "jsx_text_start" /\ Advance(1)
        /\ ReturnToken("template_start", location, {}, FALSE)
    BY <1>1 DEF OpenTextExpression, Return
  <2> QED
    BY <2>1, ReturnAdvanced, Forward, ElsewhereIsNoSpin
<1>2. CASE CloseElement
  <2>1. /\ pc = "jsx_text_start" /\ offset' = TagEnd + 1 /\ UNCHANGED line
        /\ ReturnToken("jsx_element_close", LocationAt(TagEnd), {}, FALSE)
    BY <1>2 DEF CloseElement, AtClosingTag, Return
  <2>2. TagEnd \in Nat /\ offset + 2 <= TagEnd
    BY <1>0, RunGoesOn DEF TagEnd
  <2>3. /\ offset' \in Nat /\ offset < offset' /\ offset <= offset'
        /\ offset <= TagEnd /\ TagEnd <= offset'
    BY <1>0, <2>1, <2>2
  <2>4. Moves /\ Stands(LocationAt(TagEnd))
    BY <2>1, <2>2, <2>3, OnwardMoves, AheadStands
  <2> QED
    BY <2>1, <2>3, <2>4, ReturnGives, ElsewhereIsNoSpin
<1>3. CASE InvalidClosingTag
  <2>1. pc = "jsx_text_start" /\ \E e : Fail(e)
    BY <1>3 DEF InvalidClosingTag, AtClosingTag
  <2> QED
    BY <2>1, FailReads, ElsewhereIsNoSpin
<1>4. CASE NestedElement
  <2>1. /\ pc = "jsx_text_start" /\ C = "<"
        /\ Fail("invalid_identifier") \/ StartElement
    BY <1>4 DEF NestedElement
  <2> QED
    BY <2>1, FailReads, StartElementGives, ElsewhereIsNoSpin
<1>5. CASE OpenText
  <2>1. /\ pc = "jsx_text_start" /\ pc' = "jsx_text" /\ UNCHANGED <<tokens, position>>
        /\ C \notin {"{", "<"}
    BY <1>5 DEF OpenText
  <2>2. ~AtReturn' /\ ~Naming'
    BY <1>0, <2>1 DEF AtReturn, Naming, C, position
  <2> QED
    BY <2>1, <2>2, StayingMoves, ElsewhereIsNoSpin DEF Reads
<1>6. CASE TextCharacter
  <2>1. /\ pc = "jsx_text" /\ pc' = "jsx_text" /\ UNCHANGED tokens
        /\ (C = "\n" /\ LineThenAdvance(1)) \/ Advance(1)
    BY <1>6 DEF TextCharacter
  <2>2. NamesGoOn
    BY <2>1 DEF NamesGoOn, Naming
  <2> QED
    BY <2>1, <2>2, BreakOrAdvance, ElsewhereIsNoSpin
<1>7. CASE EndText
  <2>1. /\ pc = "jsx_text"
        /\ \/ Fail("jsx_text")
           \/ /\ C \in {"{", "<"} /\ UNCHANGED position
              /\ ReturnToken("jsx_text", location, {}, FALSE)
    BY <1>7 DEF EndText, Return
  <2>2. CASE Fail("jsx_text")
    BY <2>1, <2>2, FailReads, ElsewhereIsNoSpin
  <2>3. CASE /\ C \in {"{", "<"} /\ UNCHANGED position
             /\ ReturnToken("jsx_text", location, {}, FALSE)
    <3>1. AtReturn /\ Moves
      BY <2>1, <2>3, StayingMoves DEF AtReturn
    <3> QED
      BY <2>1, <2>3, <3>1, ReturnHere, ElsewhereIsNoSpin
  <2> QED
    BY <2>1, <2>2, <2>3
<1> QED
  BY <1>1, <1>2, <1>3, <1>4, <1>5, <1>6, <1>7

LEMMA JsxSteps ==
  ASSUME Reading, UNCHANGED source, offset <= Len(text), ScanJsx
  PROVE  Steps
BY ElementSteps, AttributeSteps, TextSteps DEF ScanJsx, Steps

LEMMA OpeningReads ==
  ASSUME Reading, UNCHANGED source, pc = "scan",
         NEW l, NEW from \in {offset, offset + 1}, OpenIdentifier(l, from),
         l = "identifier" \/ from = offset + 1
  PROVE  Reads
<1>1. offset \in Nat /\ from \in Nat /\ offset <= from
  BY DEF Reading
<1>2. /\ offset' = from /\ UNCHANGED <<line, tokens>> /\ pc' = l /\ wbuffer' = {}
      /\ start' = LocationAt(from)
  BY DEF OpenIdentifier, GoOn
<1>3. Moves
  BY <1>1, <1>2, OnwardMoves
<1>4. start' = PlaceAt(from) /\ from \in offset..offset'
  BY <1>1, <1>2, PlacesStand
<1>5. offset' = offset => ~AtReturn'
  <2>1. CASE l = "identifier"
    <3>1. pc' = "identifier" /\ wbuffer' = {}
      BY <1>2, <2>1
    <3> QED
      BY <3>1 DEF AtReturn
  <2>2. CASE from = offset + 1
    <3>1. offset' # offset
      BY <1>1, <1>2, <2>2
    <3> QED
      BY <3>1
  <2> QED
    BY <2>1, <2>2
<1> QED
  BY <1>2, <1>3, <1>4, <1>5 DEF Reads

(* The line breaks of a comment are counted at once.                       *)
LEMMA CommentGives ==
  ASSUME Reading, UNCHANGED source, MultilineComment
  PROVE  Reads \/ Gives
<1>0. offset \in Nat /\ text \in Seq(Char)
  BY DEF Reading, text
<1> DEFINE from == CommentStart(text, offset)
           end == CommentEnd(text, offset)
           breaks == LineBreaks(text, from, end)
<1>1. /\ from \in Nat /\ from > offset
      /\ end = Refused \/ (end \in Nat /\ end >= from)
  BY <1>0, CommentGoesOn DEF Onward
<1>2. CASE Fail("unterminated_multiline_comment")
  BY <1>2, FailReads
<1>4. CASE Fail("out_of_range")
  BY <1>4, FailReads
<1>3. CASE ~Fail("unterminated_multiline_comment") /\ ~Fail("out_of_range")
  <2>1. /\ end # Refused /\ offset' = end + 2
        /\ IF breaks = {} THEN UNCHANGED line
           ELSE \E last \in breaks :
                  /\ \A k \in breaks : k <= last
                  /\ line' = [current_line_number |-> line.current_line_number
                                                       + Cardinality(breaks),
                              line_start_offset |-> last + 1]
        /\ \E kind, content : ReturnToken(kind, LocationAt(from), content, FALSE)
    BY <1>3 DEF MultilineComment
  <2>2. /\ offset' \in Nat /\ offset < offset' /\ offset <= offset'
        /\ offset <= from /\ from <= offset'
        /\ breaks \in SUBSET (offset..offset' - 1)
    <3>1. breaks \in SUBSET (from..end - 1)
      BY DEF LineBreaks
    <3> HIDE DEF breaks, from, end
    <3>2. end \in Nat /\ end >= from
      BY <1>1, <2>1
    <3> QED
      BY <1>0, <1>1, <2>1, <3>1, <3>2
  <2>3. breaks \in SUBSET BreaksIn(text, offset, offset')
    <3>1. \A k \in breaks : IsBreak(text, k)
      BY DEF LineBreaks, IsBreak
    <3> HIDE DEF breaks
    <3> QED
      BY <2>2, <3>1 DEF BreaksIn
  <2>4. Moves
    <3>1. CASE UNCHANGED line
      BY <2>2, <3>1, OnwardMoves
    <3>2. CASE ~UNCHANGED line
      <4>0. breaks # {}
        BY <2>1, <3>2
      <4>1. PICK last \in breaks :
              line' = [current_line_number |-> line.current_line_number + Cardinality(breaks),
                       line_start_offset |-> last + 1]
        BY <2>1, <4>0
      <4>2. IsFiniteSet(BreaksIn(text, offset, offset'))
        BY <1>0, <2>2, BreaksAddUp
      <4> HIDE DEF breaks
      <4>3. IsFiniteSet(breaks) /\ Cardinality(breaks) <= Cardinality(BreaksIn(text, offset, offset'))
        BY <2>3, <4>2, FS_Subset
      <4>4. Cardinality(breaks) \in Nat /\ Cardinality(breaks) # 0
        BY <4>0, <4>3, FS_CardinalityType, FS_EmptySet
      <4>5. last \in offset..offset' - 1
        BY <2>2
      <4>6. last + 1 \in offset..offset'
        <5>1. \A a \in Nat, b \in Nat : \A m \in a..b - 1 : m + 1 \in a..b
          OBVIOUS
        <5> QED
          BY <1>0, <2>2, <4>5, <5>1, Zenon
      <4>7. CountsLines
        BY <4>1, <4>3, <4>4, <4>6 DEF CountsLines
      <4> QED
        BY <2>2, <4>7 DEF Moves
    <3> QED
      BY <3>1, <3>2
  <2>5. Stands(LocationAt(from))
    BY <1>1, <2>2, AheadStands
  <2> HIDE DEF from
  <2>6. PICK kind, content : ReturnToken(kind, LocationAt(from), content, FALSE)
    BY <2>1
  <2> QED
    BY <2>2, <2>4, <2>5, <2>6, ReturnGives
<1> QED
  BY <1>2, <1>3, <1>4

(* scan() itself.                                                          *)
LEMMA ScanSteps ==
  ASSUME Reading, UNCHANGED source, Scan
  PROVE  Steps
<1> USE DEF GoOn
<1>0. offset \in Nat /\ text \in Seq(Char) /\ Len(text) \in Nat
  BY DEF Reading, text
<1>1. CASE Call
  <2>1. /\ pc = "call" /\ UNCHANGED <<tokens, position>>
        /\ pc' \in {"template_start", "jsx_element", "jsx_attribute", "jsx_text_start", "scan"}
    BY <1>1 DEF Call
  <2>2. ~AtReturn' /\ ~Naming'
    BY <2>1 DEF AtReturn, Naming
  <2> QED
    BY <2>1, <2>2, StayingMoves, ElsewhereIsNoSpin DEF Reads, Steps
<1> SUFFICES ASSUME ~Call
             PROVE  Reads \/ Gives
  <2>1. ~Call => pc = "scan"
    BY DEF Scan, EndOfText, Shebang, LineBreak, Blank, OpenTemplate, LineComment,
           MultilineComment, ScanConflictMarker, ScanElement, ScanOperator, OpenBrace,
           CloseBrace, AtSign, Hash, ScanIdentifier
  <2> QED
    BY <1>1, <2>1, ElsewhereIsNoSpin DEF Steps
<1>2. CASE EndOfText
  <2>1. pc' \in {"end", "thrown"} /\ UNCHANGED <<tokens, position>>
    BY <1>2 DEF EndOfText, Throw
  <2>2. ~AtReturn' /\ ~Naming'
    BY <2>1 DEF AtReturn, Naming
  <2> QED
    BY <2>1, <2>2, StayingMoves DEF Reads
<1>3. CASE Shebang
  <2>1. CASE Fail("expected_command")
    BY <2>1, FailReads
  <2>2. CASE AdvanceOverLine(2) /\ ReturnToken("shebang", location, {}, FALSE)
    <3>1. 2 \in Nat /\ offset < 2
      BY <1>3 DEF Shebang, AtShebang
    <3>2. Moves /\ offset < offset'
      BY <2>2, <3>1, OverLineMoves
    <3> QED
      BY <2>2, <3>2, ReturnHere
  <2> QED
    BY <1>3, <2>1, <2>2 DEF Shebang, Return
<1>4. CASE LineBreak
  <2>1. /\ C \in {"\r", "\n"}
        /\ AdvanceThenLine(IF C = "\r" /\ Peek(1) = "\n" THEN 2 ELSE 1)
        /\ \/ pc' = "scan" /\ UNCHANGED tokens
           \/ ReturnToken("newline", location, {}, FALSE)
    BY <1>4 DEF LineBreak, Return
  <2>2. Moves /\ offset < offset'
    <3>1. CASE C = "\r" /\ Peek(1) = "\n"
      <4>1. offset' = offset + 2 /\ line' = LineBegunAt(offset + 2)
        BY <2>1, <3>1 DEF AdvanceThenLine
      <4>2. /\ offset' \in Nat /\ offset + 1 \in offset..offset' - 1
            /\ offset + 2 \in offset..offset'
        BY <1>0, <4>1
      <4>3. IsBreak(text, offset + 1)
        BY <3>1 DEF Peek, IsBreak
      <4> QED
        BY <4>1, <4>2, <4>3, CountingMoves
    <3>2. CASE ~(C = "\r" /\ Peek(1) = "\n")
      <4>1. offset' = offset + 1 /\ line' = LineBegunAt(offset + 1)
        BY <2>1, <3>2 DEF AdvanceThenLine
      <4>2. /\ offset' \in Nat /\ offset \in offset..offset' - 1
            /\ offset + 1 \in offset..offset'
        BY <1>0, <4>1
      <4>3. IsBreak(text, offset)
        BY <2>1, <3>2 DEF C, Peek, IsBreak
      <4> QED
        BY <4>1, <4>2, <4>3, CountingMoves
    <3> QED
      BY <3>1, <3>2
  <2>3. CASE pc' = "scan" /\ UNCHANGED tokens
    <3>1. ~AtReturn' /\ ~Naming'
      BY <2>3 DEF AtReturn, Naming
    <3> QED
      BY <2>2, <2>3, <3>1 DEF Reads
  <2> QED
    BY <2>1, <2>2, <2>3, ReturnHere
<1>5. CASE Blank
  <2>1. pc' = "scan" /\ UNCHANGED tokens /\ Advance(1)
    BY <1>5 DEF Blank
  <2>2. NamesGoOn
    BY <2>1 DEF NamesGoOn, Naming
  <2> QED
    BY <2>1, <2>2, Forward, LoopAdvances
<1>6. CASE OpenTemplate
  <2>1. Advance(1) /\ ReturnToken("interpolated_string_start", location, {}, FALSE)
    BY <1>6 DEF OpenTemplate, Return
  <2> QED
    BY <2>1, Forward, ReturnAdvanced
<1>7. CASE LineComment
  <2>1. /\ AdvanceOverLine(offset + 2)
        /\ ReturnToken("comment", location, LineText(text, offset + 2), FALSE)
    BY <1>7 DEF LineComment
  <2>2. offset + 2 \in Nat /\ offset < offset + 2
    BY <1>0
  <2>3. Moves /\ offset < offset'
    BY <2>1, <2>2, OverLineMoves
  <2> QED
    BY <2>1, <2>3, ReturnHere
<1>8. CASE MultilineComment
  BY <1>8, CommentGives
<1>9. CASE ScanConflictMarker
  <2>1. /\ ConflictMarker(text, offset) /\ AdvanceOverLine(LabelStart(text, offset))
        /\ ReturnToken("conflict_marker_trivia", location, {}, FALSE)
    BY <1>9 DEF ScanConflictMarker, Return
  <2>2. LabelStart(text, offset) \in Nat /\ offset < LabelStart(text, offset)
    BY <1>0, <2>1, MarkerGoesOn
  <2>3. Moves /\ offset < offset'
    BY <2>1, <2>2, OverLineMoves
  <2> QED
    BY <2>1, <2>3, ReturnHere
<1>10. CASE ScanElement
  BY <1>10, StartElementGives DEF ScanElement, MayBeElement
<1>11. CASE ScanOperator
  <2>1. /\ At(text, offset) \in OperatorStart /\ Advance(OperatorLength(text, offset))
        /\ ReturnToken("operator", location, {}, FALSE)
    BY <1>11 DEF ScanOperator, Return, C
  <2>2. OperatorLength(text, offset) \in 1..4
    BY <1>0, <2>1, OperatorAdvances
  <2>3. \A n \in 1..4 : n \in Nat \ {0}
    OBVIOUS
  <2> QED
    BY <2>1, <2>2, <2>3, ReturnAdvanced
<1>12. CASE OpenBrace
  <2>1. Advance(1) /\ ReturnToken("open_brace", location, {}, FALSE)
    BY <1>12 DEF OpenBrace, Return
  <2> QED
    BY <2>1, Forward, ReturnAdvanced
<1>13. CASE CloseBrace
  <2>1. /\ Advance(1)
        /\ \/ ReturnToken("jsx_attribute_value_end", location, {}, FALSE)
           \/ ReturnToken("template_end", location, {}, FALSE)
           \/ ReturnToken("close_brace", location, {}, FALSE)
    BY <1>13 DEF CloseBrace, Return
  <2> QED
    BY <2>1, Forward, ReturnAdvanced
<1>14. CASE AtSign
  <2>1. Advance(1) /\ ReturnToken("at", location, {}, TRUE)
    BY <1>14 DEF AtSign
  <2> QED
    BY <2>1, Forward, ReturnAdvanced
<1>15. CASE Hash
  <2>1. /\ pc = "scan"
        /\ OpenIdentifier("private_identifier", offset + 1) \/ Fail("invalid_character")
    BY <1>15 DEF Hash
  <2> QED
    BY <2>1, FailReads, OpeningReads
<1>16. CASE ScanIdentifier
  <2>1. pc = "scan" /\ OpenIdentifier("identifier", offset)
    BY <1>16 DEF ScanIdentifier
  <2> QED
    BY <2>1, OpeningReads
<1> QED
  BY <1>2, <1>3, <1>4, <1>5, <1>6, <1>7, <1>8, <1>9, <1>10, <1>11, <1>12, <1>13, <1>14,
     <1>15, <1>16 DEF Scan

---------------------------------------------------------------------------
(* Together with the first state, the steps give the invariant.            *)

LEMMA InitReads == Init => ReadInv
<1> SUFFICES ASSUME Init
             PROVE  ReadInv
  OBVIOUS
<1>1. /\ offset = 0 /\ line = [current_line_number |-> 0, line_start_offset |-> 0]
      /\ pc = "call" /\ tokens = <<>> /\ source \in Sources
  BY DEF Init
<1>2. Returned = 0 /\ LastEnd = 0 /\ LastAt = NoLocation
  BY <1>1 DEF Returned, LastEnd, LastAt
<1>3. Reading
  BY <1>1, <1>2, SourcesAssumption DEF Reading, Lines, Located, NoLocation
<1>4. HasRead
  BY <1>1, <1>2 DEF HasRead, AtReturn
<1>5. TokensConsume /\ LocationsAscend
  BY <1>2 DEF TokensConsume, LocationsAscend
<1>6. Ascends
  <2>1. LineBreaksPassed = {}
    BY <1>1 DEF LineBreaksPassed
  <2>2. Cardinality(LineBreaksPassed) = 0
    BY <2>1, FS_EmptySet
  <2>3. ~Before(location, LastAt)
    BY <1>1, <1>2 DEF location, NoLocation, Before
  <2>4. ~Naming
    BY <1>1 DEF Naming
  <2> QED
    BY <1>1, <2>2, <2>3, <2>4 DEF Ascends
<1> QED
  BY <1>3, <1>4, <1>5, <1>6 DEF ReadInv

LEMMA StutterReads ==
  ASSUME ReadInv, UNCHANGED vars
  PROVE  ReadInv'
BY DEF ReadInv, vars, position, outcome, Reading, HasRead, TokensConsume, LocationsAscend,
       Spins, Ascends, LastEnd, LastAt, Returned, Latest, Previous, AtReturn, Naming,
       LineBreaksPassed, location, text, C, Peek

LEMMA NextReads == ReadInv /\ [Next]_vars => ReadInv'
<1> SUFFICES ASSUME ReadInv, [Next]_vars
             PROVE  ReadInv'
  OBVIOUS
<1>1. CASE UNCHANGED vars
  BY <1>1, StutterReads
<1>2. CASE Ended
  BY <1>2, StutterReads DEF Ended
<1>4. CASE ReadBehind /\ UNCHANGED source
  <2>1. Reading /\ offset \in Nat /\ text \in Seq(Char) /\ Len(text) \in Nat
    BY DEF ReadInv, Reading, text
  <2>2. C = Eof
    BY <1>4, <2>1, EofIsBehind DEF ReadBehind, C
  <2>3. offset # Len(text)
    BY <1>4, <2>1 DEF ReadBehind
  <2>4. ~Spins
    BY <2>2, <2>3 DEF Spins, Eof
  <2>5. Moves
    BY <1>4, <2>1, StayingMoves DEF ReadBehind
  <2>6. Reads
    BY <1>4, <2>5 DEF ReadBehind, Reads, AtReturn, Naming
  <2> QED
    BY <2>4, <2>6, ReadingOn
<1>3. CASE offset <= Len(text) /\ (Scan \/ ScanLiteral \/ ScanJsx) /\ UNCHANGED source
  <2>1. Reading
    BY DEF ReadInv
  <2>2. Steps
    BY <1>3, <2>1, ScanSteps, LiteralSteps, JsxSteps
  <2> QED
    BY <1>3, <2>2, ReadingOn, GivingOn, LookingAgain DEF Steps
<1> QED
  BY <1>1, <1>2, <1>3, <1>4 DEF Next

THEOREM ReadInvariance == Spec => []ReadInv
BY InitReads, NextReads, PTL DEF Spec

(* On every text, a call that returns a token has moved the offset, except *)
(* at the end of the text: nothing is returned twice.                      *)
THEOREM TokensAlwaysConsume == Spec => []TokensConsume
<1>1. ReadInv => TokensConsume
  BY DEF ReadInv
<1> QED
  BY <1>1, ReadInvariance, PTL

(* On every text, the locations of the tokens ascend in lines and columns, *)
(* as the parser relies on when it files comments in a trivia index.       *)
THEOREM LocationsAlwaysAscend == Spec => []LocationsAscend
<1>1. ReadInv => LocationsAscend
  BY DEF ReadInv
<1> QED
  BY <1>1, ReadInvariance, PTL

(* On every text, a column is no underflow, and advance_line() is called   *)
(* for no more lines than line breaks were passed.                         *)
THEOREM LinesAreCounted == Spec => []LinesPassed
<1>1. ReadInv => LinesPassed
  BY DEF ReadInv, Reading, Ascends, LinesPassed
<1> QED
  BY <1>1, ReadInvariance, PTL

---------------------------------------------------------------------------
(* The types of the other members.                                         *)

Frames == Seq([context : Context, name : Seq(Char)])

Types ==
  /\ pnewline \in BOOLEAN /\ force_identifier \in BOOLEAN /\ resets \in BOOLEAN
  /\ context_stack \in Frames
  /\ wbuffer \subseteq Int
  /\ pc \in Location

LEMMA StackTypes ==
  ASSUME context_stack \in Frames
  PROVE  /\ \A c \in Context, name \in Seq(Char) :
              Append(context_stack, [context |-> c, name |-> name]) \in Frames
         /\ <<>> \in Seq(Char)
         /\ Below \in Frames
         /\ Depth >= 2 => SubSeq(context_stack, 1, Depth - 2) \in Frames
<1> DEFINE F == [context : Context, name : Seq(Char)]
<1>1. \A c \in Context, name \in Seq(Char) : [context |-> c, name |-> name] \in F
  OBVIOUS
<1>2. context_stack \in Seq(F) /\ Len(context_stack) \in Nat
  BY DEF Frames
<1>3. <<>> \in Seq(Char)
  OBVIOUS
<1> HIDE DEF F
<1>4. \A f \in F : Append(context_stack, f) \in Seq(F)
  BY <1>2
<1>5. \A n \in Int : n <= Len(context_stack) => SubSeq(context_stack, 1, n) \in Seq(F)
  BY <1>2
<1>6. Below \in Seq(F)
  BY <1>2, <1>5 DEF Below, Depth
<1>7. SubSeq(context_stack, 1, Depth - 2) \in Seq(F)
  BY <1>2, <1>5 DEF Depth
<1>8. Frames = Seq(F)
  BY DEF F, Frames
<1> QED
  BY <1>1, <1>3, <1>4, <1>6, <1>7, <1>8

LEMMA Intervals ==
  /\ \A a, b : a..b \subseteq Int
  /\ \A t, i : RegexText(t, i) \subseteq Int /\ LineText(t, i) \subseteq Int
  /\ ElementText \subseteq Int
<1>1. \A a, b : a..b \subseteq Int
  OBVIOUS
<1> QED
  BY <1>1, Zenon DEF RegexText, LineText, ElementText

LEMMA ElementTypes ==
  ASSUME Reading, Types, C = "<", StartElement
  PROVE  /\ context_stack' \in Frames /\ wbuffer' = {} /\ pc' = "call"
         /\ force_identifier' \in BOOLEAN
<1>1. text \in Seq(Char) /\ offset \in Nat
  BY DEF Reading, text
<1>2. At(text, offset) # Eof
  BY DEF C, Eof
<1>3. offset < Len(text)
  BY <1>1, <1>2 DEF At, Eof
<1> DEFINE name == Word(text, offset + 1, ElementNameEnd(text, offset))
<1>4. name \in Seq(Char)
  BY <1>1, <1>3, ElementNameGoesOn
<1>5. /\ context_stack' = Append(context_stack, [context |-> "in_jsx_element", name |-> name])
      /\ wbuffer' = {} /\ pc' = "call"
      /\ force_identifier' = IF resets THEN FALSE ELSE force_identifier
  BY DEF StartElement, Push, Return, ReturnToken
<1> HIDE DEF name
<1>6. "in_jsx_element" \in Context
  BY DEF Context
<1>7. force_identifier' \in BOOLEAN
  BY <1>5, Zenon DEF Types
<1>8. context_stack' \in Frames
  BY <1>4, <1>5, <1>6, StackTypes DEF Types
<1> QED
  BY <1>5, <1>7, <1>8

LEMMA LiteralTypes ==
  ASSUME Reading, Types, ScanLiteral
  PROVE  Types'
<1> USE DEF Types, Location, Context, GoOn, Return, ReturnToken, Throw, Fail, Push, Pop,
            position, outcome, vars
<1>0. offset \in Int
  BY DEF Reading
<1>1. CASE OpenString
  BY <1>1 DEF OpenString
<1>2. CASE StringCharacter
  BY <1>0, <1>2 DEF StringCharacter
<1>3. CASE StringContinuation
  BY <1>3 DEF StringContinuation
<1>4. CASE StringEscape
  BY <1>0, <1>4 DEF StringEscape
<1>5. CASE EndString
  BY <1>5 DEF EndString
<1>6. CASE EndTemplate
  BY StackTypes, <1>6 DEF EndTemplate
<1>7. CASE OpenTemplateExpression
  BY StackTypes, <1>7 DEF OpenTemplateExpression
<1>8. CASE OpenTemplateChunk
  BY <1>8 DEF OpenTemplateChunk
<1>9. CASE TemplateCharacter
  BY <1>0, <1>9 DEF TemplateCharacter
<1>10. CASE TemplateSpin
  BY <1>10 DEF TemplateSpin
<1>11. CASE EndTemplateChunk
  BY <1>11 DEF EndTemplateChunk
<1>12. CASE UnterminatedTemplate
  BY <1>12 DEF UnterminatedTemplate
<1>13. CASE IdentifierCharacter
  BY <1>0, <1>13 DEF IdentifierCharacter, InIdentifier
<1>14. CASE IdentifierEscape
  BY <1>0, <1>14 DEF IdentifierEscape, InIdentifier
<1>15. CASE InvalidIdentifier
  BY <1>15 DEF InvalidIdentifier
<1>16. CASE EndIdentifier
  BY <1>16 DEF EndIdentifier
<1>17. CASE ScanNumber
  BY <1>17 DEF ScanNumber
<1>18. CASE ScanRegex
  BY Intervals, <1>18 DEF ScanRegex
<1> QED
  BY <1>1, <1>2, <1>3, <1>4, <1>5, <1>6, <1>7, <1>8, <1>9, <1>10, <1>11, <1>12, <1>13, <1>14,
     <1>15, <1>16, <1>17, <1>18 DEF ScanLiteral

LEMMA JsxTypes ==
  ASSUME Reading, Types, ScanJsx
  PROVE  Types'
<1> USE DEF Types, Location, Context, GoOn, Return, ReturnToken, Throw, Fail, Push, Pop,
            position, outcome, vars
<1>0. offset \in Int
  BY DEF Reading
<1>1. CASE ElementSpace
  BY <1>1 DEF ElementSpace
<1>2. CASE ElementSpin
  BY <1>2 DEF ElementSpin
<1>3. CASE EndElementPart
  BY StackTypes, <1>3 DEF EndElementPart
<1>4. CASE InvalidElement
  BY <1>4 DEF InvalidElement
<1>5. CASE OpenAttributeName
  BY <1>5 DEF OpenAttributeName
<1>6. CASE AttributeNameCharacter
  BY <1>0, <1>6 DEF AttributeNameCharacter
<1>7. CASE AttributeNameSpace
  BY <1>7 DEF AttributeNameSpace, InAttributeName
<1>8. CASE EndAttributeName
  BY StackTypes, <1>8 DEF EndAttributeName
<1>9. CASE InvalidAttributeName
  BY <1>9 DEF InvalidAttributeName
<1>10. CASE AttributeSpace
  BY <1>10 DEF AttributeSpace
<1>11. CASE AttributeSpin
  BY <1>11 DEF AttributeSpin
<1>12. CASE OpenAttributeValue
  BY <1>12 DEF OpenAttributeValue
<1>13. CASE OpenAttributeExpression
  BY StackTypes, <1>13 DEF OpenAttributeExpression
<1>14. CASE AttributeValueCharacter
  BY <1>0, <1>14 DEF AttributeValueCharacter
<1>15. CASE EndAttributeValue
  BY StackTypes, <1>15 DEF EndAttributeValue
<1>16. CASE OpenTextExpression
  BY StackTypes, <1>16 DEF OpenTextExpression
<1>17. CASE CloseElement
  BY StackTypes, Intervals, <1>17 DEF CloseElement
<1>18. CASE InvalidClosingTag
  BY <1>18 DEF InvalidClosingTag
<1>19. CASE NestedElement
  BY ElementTypes, <1>19 DEF NestedElement
<1>20. CASE OpenText
  BY <1>20 DEF OpenText
<1>21. CASE TextCharacter
  BY <1>0, <1>21 DEF TextCharacter
<1>22. CASE EndText
  BY <1>22 DEF EndText
<1> QED
  BY <1>1, <1>2, <1>3, <1>4, <1>5, <1>6, <1>7, <1>8, <1>9, <1>10, <1>11, <1>12, <1>13, <1>14,
     <1>15, <1>16, <1>17, <1>18, <1>19, <1>20, <1>21, <1>22 DEF ScanJsx

LEMMA ScanTypes ==
  ASSUME Reading, Types, Scan
  PROVE  Types'
<1> USE DEF Types, Location, Context, GoOn, Return, ReturnToken, Throw, Fail, Push, Pop,
            position, outcome, vars
<1>0. offset \in Int
  BY DEF Reading
<1>1. CASE Call
  BY <1>1 DEF Call
<1>2. CASE EndOfText
  BY <1>2 DEF EndOfText
<1>3. CASE Shebang
  BY Intervals, <1>3 DEF Shebang
<1>4. CASE LineBreak
  BY <1>4 DEF LineBreak
<1>5. CASE Blank
  BY <1>5 DEF Blank
<1>6. CASE OpenTemplate
  BY StackTypes, <1>6 DEF OpenTemplate
<1>7. CASE LineComment
  BY <1>7 DEF LineComment
<1>8. CASE MultilineComment
  BY <1>8 DEF MultilineComment
<1>9. CASE ScanConflictMarker
  BY <1>9 DEF ScanConflictMarker
<1>10. CASE ScanElement
  BY ElementTypes, <1>10 DEF ScanElement, MayBeElement
<1>11. CASE ScanOperator
  BY Intervals, <1>11 DEF ScanOperator
<1>12. CASE OpenBrace
  BY StackTypes, <1>12 DEF OpenBrace
<1>13. CASE CloseBrace
  BY StackTypes, <1>13 DEF CloseBrace, EndsAttribute
<1>14. CASE AtSign
  BY <1>14 DEF AtSign
<1>15. CASE Hash
  BY <1>15 DEF Hash, OpenIdentifier
<1>16. CASE ScanIdentifier
  BY <1>16 DEF ScanIdentifier, OpenIdentifier
<1> QED
  BY <1>1, <1>2, <1>3, <1>4, <1>5, <1>6, <1>7, <1>8, <1>9, <1>10, <1>11, <1>12, <1>13, <1>14,
     <1>15, <1>16 DEF Scan

LEMMA NextTypes == ReadInv /\ Types /\ [Next]_vars => Types'
<1> SUFFICES ASSUME ReadInv, Types, [Next]_vars
             PROVE  Types'
  OBVIOUS
<1>1. CASE UNCHANGED vars
  BY <1>1 DEF vars, position, outcome, Types
<1>2. CASE Ended
  BY <1>2 DEF Ended, vars, position, outcome, Types
<1>3. CASE Scan \/ ScanLiteral \/ ScanJsx
  BY <1>3, ScanTypes, LiteralTypes, JsxTypes DEF ReadInv
<1>4. CASE ReadBehind
  BY <1>4 DEF ReadBehind, Types, Location
<1> QED
  BY <1>1, <1>2, <1>3, <1>4 DEF Next

(* On every text, the members of the lexer keep their types.               *)
THEOREM LexerTypes == Spec => []LexerTypeOK
<1>1. Init => Types
  <2>1. <<>> \in Frames
    BY DEF Frames
  <2> QED
    BY <2>1 DEF Init, Types, Location
<1>2. ReadInv /\ Types => LexerTypeOK
  BY DEF ReadInv, Reading, Types, Lines, Frames, LexerTypeOK
<1> QED
  BY <1>1, <1>2, ReadInvariance, NextTypes, PTL DEF Spec

---------------------------------------------------------------------------
(* The tokens and the context stack.                                       *)

Closings == {"interpolated_string_end", "template_end", "jsx_self_closing",
             "jsx_element_close", "jsx_attribute_value_end"}

(* The kind of the token that opened the k-th context, if one did.         *)
Opener(s, k) ==
  CASE s[k].context = "in_template_literal"    -> "interpolated_string_start"
    [] s[k].context = "in_template_expression" -> "template_start"
    [] s[k].context = "in_jsx_element"         -> "jsx_element_start"
    [] s[k].context = "in_jsx_expression"      ->
         IF k > 1 /\ s[k - 1].context = "in_jsx_attribute" THEN "jsx_attribute_value_start"
                                                           ELSE "template_start"
    [] OTHER                                   -> "none"

Opened(s) == {k \in 1..Len(s) : Opener(s, k) \in Openers}

(* Some opening tokens have their closing ones; at gives the others, in    *)
(* order, one for each context that a token opened; no pair surrounds one. *)
BalancedBy(ts, s, D, close, at) ==
  /\ D \subseteq OpeningIn(ts) /\ close \in [D -> ClosingIn(ts)] /\ Pairs(ts, close)
  /\ at \in [Opened(s) -> OpeningIn(ts)]
  /\ OpeningIn(ts) \ D = {at[k] : k \in Opened(s)}
  /\ \A k \in Opened(s) : ts[at[k]].kind = Opener(s, k)
  /\ \A k, l \in Opened(s) : k < l => at[k] < at[l]
  /\ \A i \in D, k \in Opened(s) : i < at[k] => close[i] < at[k]

Balanced(ts, s) == \E D, close, at : BalancedBy(ts, s, D, close, at)

(* Tokens are added one at a time.                                         *)
LEMMA ClosingKinds ==
  /\ UNION {Closers(o) : o \in Openers} = Closings
  /\ \A o : Closers(o) \subseteq Closings
  /\ Openers \cap Closings = {}
<1>1. \A o : Closers(o) \subseteq Closings
  BY DEF Closers, Closings
<1>2. /\ Closers("interpolated_string_start") = {"interpolated_string_end"}
      /\ Closers("template_start") = {"template_end"}
      /\ Closers("jsx_element_start") = {"jsx_self_closing", "jsx_element_close"}
      /\ Closers("jsx_attribute_value_start") = {"jsx_attribute_value_end"}
  BY DEF Closers
<1>3. Closings \subseteq UNION {Closers(o) : o \in Openers}
  BY <1>2 DEF Closings, Openers
<1>4. Openers \cap Closings = {}
  BY DEF Openers, Closings
<1> QED
  BY <1>1, <1>3, <1>4

LEMMA BracketsAdded ==
  ASSUME NEW S, NEW ts \in Seq(S), NEW e
  PROVE  LET u == Append(ts, e)
             n == Len(ts)
         IN  /\ n \in Nat
             /\ OpeningIn(ts) \subseteq 1..n /\ ClosingIn(ts) \subseteq 1..n
             /\ \A i \in 1..n : u[i] = ts[i]
             /\ u[n + 1] = e
             /\ OpeningIn(u) = OpeningIn(ts) \cup (IF e.kind \in Openers THEN {n + 1} ELSE {})
             /\ ClosingIn(u) = ClosingIn(ts) \cup (IF e.kind \in Closings THEN {n + 1} ELSE {})
<1> DEFINE u == Append(ts, e)
           n == Len(ts)
           T == S \cup {e}
<1>1. ts \in Seq(T) /\ e \in T
  OBVIOUS
<1> HIDE DEF T
<1>2. /\ n \in Nat /\ Len(u) = n + 1 /\ u[n + 1] = e
      /\ \A i \in 1..n : u[i] = ts[i]
  BY <1>1
<1>3. /\ OpeningIn(ts) = {i \in 1..n : ts[i].kind \in Openers}
      /\ ClosingIn(ts) = {i \in 1..n : ts[i].kind \in Closings}
      /\ OpeningIn(u) = {i \in 1..Len(u) : u[i].kind \in Openers}
      /\ ClosingIn(u) = {i \in 1..Len(u) : u[i].kind \in Closings}
  BY ClosingKinds DEF OpeningIn, ClosingIn
<1> HIDE DEF u, n
<1>4. 1..Len(u) = 1..n \cup {n + 1} /\ n + 1 \notin 1..n
  BY <1>2
<1>5. OpeningIn(u) = OpeningIn(ts) \cup (IF e.kind \in Openers THEN {n + 1} ELSE {})
  BY <1>2, <1>3, <1>4
<1>6. ClosingIn(u) = ClosingIn(ts) \cup (IF e.kind \in Closings THEN {n + 1} ELSE {})
  BY <1>2, <1>3, <1>4
<1> QED
  BY <1>2, <1>3, <1>5, <1>6 DEF u, n

LEMMA QuietToken ==
  ASSUME NEW S, NEW ts \in Seq(S), NEW s, NEW e, e.kind \notin Openers \cup Closings, Balanced(ts, s)
  PROVE  Balanced(Append(ts, e), s)
<1>1. PICK D, close, at : BalancedBy(ts, s, D, close, at)
  BY DEF Balanced
<1> DEFINE u == Append(ts, e)
           n == Len(ts)
<1>2. /\ n \in Nat
      /\ OpeningIn(ts) \subseteq 1..n /\ ClosingIn(ts) \subseteq 1..n
      /\ \A i \in 1..n : u[i] = ts[i]
      /\ OpeningIn(u) = OpeningIn(ts) /\ ClosingIn(u) = ClosingIn(ts)
  BY BracketsAdded
<1> HIDE DEF u, n
<1>3. Pairs(u, close)
  BY <1>1, <1>2 DEF Pairs, BalancedBy
<1>4. BalancedBy(u, s, D, close, at)
  BY <1>1, <1>2, <1>3 DEF BalancedBy
<1> QED
  BY <1>4 DEF Balanced, u

(* A context that no token opens or closes.                                *)
LEMMA QuietContexts ==
  ASSUME NEW ts, NEW s, NEW u, Opened(u) = Opened(s),
         \A k \in Opened(s) : Opener(u, k) = Opener(s, k), Balanced(ts, s)
  PROVE  Balanced(ts, u)
BY DEF Balanced, BalancedBy

LEMMA OpeningToken ==
  ASSUME NEW S, NEW ts \in Seq(S), NEW s, NEW e, e.kind \in Openers, Balanced(ts, s),
         NEW u, NEW d \in Int, Opened(s) \subseteq Int, \A k \in Opened(s) : k < d,
         Opened(u) = Opened(s) \cup {d}, Opener(u, d) = e.kind,
         \A k \in Opened(s) : Opener(u, k) = Opener(s, k)
  PROVE  Balanced(Append(ts, e), u)
<1>1. PICK D, close, at : BalancedBy(ts, s, D, close, at)
  BY DEF Balanced
<1> DEFINE v == Append(ts, e)
           n == Len(ts)
           af == [k \in Opened(u) |-> IF k = d THEN n + 1 ELSE at[k]]
<1>2. e.kind \notin Closings
  BY ClosingKinds
<1>3. /\ n \in Nat
      /\ OpeningIn(ts) \subseteq 1..n /\ ClosingIn(ts) \subseteq 1..n
      /\ \A i \in 1..n : v[i] = ts[i]
      /\ v[n + 1] = e
      /\ OpeningIn(v) = OpeningIn(ts) \cup {n + 1} /\ ClosingIn(v) = ClosingIn(ts)
  <2>1. /\ n \in Nat
        /\ OpeningIn(ts) \subseteq 1..n /\ ClosingIn(ts) \subseteq 1..n
        /\ \A i \in 1..n : v[i] = ts[i]
        /\ v[n + 1] = e
        /\ OpeningIn(v) = OpeningIn(ts) \cup (IF e.kind \in Openers THEN {n + 1} ELSE {})
        /\ ClosingIn(v) = ClosingIn(ts) \cup (IF e.kind \in Closings THEN {n + 1} ELSE {})
    BY BracketsAdded
  <2> HIDE DEF v, n, af
  <2> QED
    BY <1>2, <2>1
<1>4. d \notin Opened(s)
  OBVIOUS
<1>5. af[d] = n + 1 /\ \A k \in Opened(s) : af[k] = at[k]
  BY <1>4
<1>6. af \in [Opened(u) -> OpeningIn(v)]
  BY <1>1, <1>3 DEF BalancedBy
<1> HIDE DEF v, n, af
<1>7. Pairs(v, close)
  BY <1>1, <1>3 DEF Pairs, BalancedBy
<1>8. n + 1 \notin OpeningIn(ts) /\ \A i \in OpeningIn(ts) \cup ClosingIn(ts) : i \in Int /\ i < n + 1
  BY <1>3
<1>9. \A k \in Opened(s) : at[k] \in OpeningIn(ts)
  BY <1>1 DEF BalancedBy
<1>10. OpeningIn(v) \ D = {af[k] : k \in Opened(u)}
  <2>1. OpeningIn(v) \ D = (OpeningIn(ts) \ D) \cup {n + 1}
    BY <1>1, <1>3, <1>8 DEF BalancedBy
  <2>2. OpeningIn(ts) \ D = {at[k] : k \in Opened(s)}
    BY <1>1 DEF BalancedBy
  <2>3. {af[k] : k \in Opened(u)} = {at[k] : k \in Opened(s)} \cup {n + 1}
    BY <1>5
  <2> QED
    BY <2>1, <2>2, <2>3
<1>11. \A k \in Opened(u) : v[af[k]].kind = Opener(u, k)
  <2>1. \A k \in Opened(s) : v[af[k]].kind = Opener(u, k)
    BY <1>1, <1>3, <1>5, <1>9 DEF BalancedBy
  <2> QED
    BY <1>3, <1>5, <2>1
<1>12. ASSUME NEW k \in Opened(u), NEW l \in Opened(u), k < l PROVE af[k] < af[l]
  <2>1. k \in Opened(s)
    BY <1>12
  <2>2. CASE l = d
    BY <1>5, <1>8, <1>9, <2>1, <2>2
  <2>3. CASE l # d
    BY <1>1, <1>5, <1>12, <2>1, <2>3 DEF BalancedBy
  <2> QED
    BY <2>2, <2>3
<1>13. ASSUME NEW i \in D, NEW k \in Opened(u), i < af[k] PROVE close[i] < af[k]
  <2>1. CASE k = d
    <3>1. close[i] \in ClosingIn(ts)
      BY <1>1 DEF BalancedBy
    <3> QED
      BY <1>5, <1>8, <2>1, <3>1
  <2>2. CASE k # d
    BY <1>1, <1>5, <1>13, <2>2 DEF BalancedBy
  <2> QED
    BY <2>1, <2>2
<1>14. BalancedBy(v, u, D, close, af)
  BY <1>1, <1>3, <1>6, <1>7, <1>10, <1>11, <1>12, <1>13 DEF BalancedBy
<1> QED
  BY <1>14 DEF Balanced, v

LEMMA ClosingToken ==
  ASSUME NEW S, NEW ts \in Seq(S), NEW s, NEW e, Balanced(ts, s), Opened(s) \subseteq Int,
         NEW m \in Opened(s), \A k \in Opened(s) : k <= m, e.kind \in Closers(Opener(s, m)),
         NEW u, Opened(u) = Opened(s) \ {m}, \A k \in Opened(u) : Opener(u, k) = Opener(s, k)
  PROVE  Balanced(Append(ts, e), u)
<1>1. PICK D, close, at : BalancedBy(ts, s, D, close, at)
  BY DEF Balanced
<1> DEFINE v == Append(ts, e)
           n == Len(ts)
           E == D \cup {at[m]}
           c == [i \in E |-> IF i = at[m] THEN n + 1 ELSE close[i]]
           af == [k \in Opened(u) |-> at[k]]
<1>2. e.kind \in Closings /\ e.kind \notin Openers
  BY ClosingKinds
<1>3. /\ n \in Nat
      /\ OpeningIn(ts) \subseteq 1..n /\ ClosingIn(ts) \subseteq 1..n
      /\ \A i \in 1..n : v[i] = ts[i]
      /\ v[n + 1] = e
      /\ OpeningIn(v) = OpeningIn(ts) /\ ClosingIn(v) = ClosingIn(ts) \cup {n + 1}
  <2>1. /\ n \in Nat
        /\ OpeningIn(ts) \subseteq 1..n /\ ClosingIn(ts) \subseteq 1..n
        /\ \A i \in 1..n : v[i] = ts[i]
        /\ v[n + 1] = e
        /\ OpeningIn(v) = OpeningIn(ts) \cup (IF e.kind \in Openers THEN {n + 1} ELSE {})
        /\ ClosingIn(v) = ClosingIn(ts) \cup (IF e.kind \in Closings THEN {n + 1} ELSE {})
    BY BracketsAdded
  <2> HIDE DEF v, n, E, c, af
  <2> QED
    BY <1>2, <2>1
<1>4. at[m] \in OpeningIn(ts) /\ at[m] \notin D /\ ts[at[m]].kind = Opener(s, m)
  BY <1>1 DEF BalancedBy
<1>5. c[at[m]] = n + 1 /\ \A i \in D : c[i] = close[i]
  BY <1>4
<1>6. \A k \in Opened(u) : af[k] = at[k]
  OBVIOUS
<1>7. D \subseteq OpeningIn(ts) /\ \A i \in D : close[i] \in ClosingIn(ts)
  BY <1>1 DEF BalancedBy
<1>8. c \in [E -> ClosingIn(v)]
  BY <1>3, <1>7
<1>9. af \in [Opened(u) -> OpeningIn(v)]
  BY <1>1, <1>3 DEF BalancedBy
<1>10. DOMAIN c = E /\ DOMAIN close = D
  BY <1>1 DEF BalancedBy
<1>11. E = D \cup {at[m]}
  OBVIOUS
<1> HIDE DEF v, n, E, c, af
<1>12. /\ \A i \in OpeningIn(ts) \cup ClosingIn(ts) : i \in Int /\ i < n + 1
       /\ n + 1 \notin ClosingIn(ts)
  BY <1>3
<1>13. /\ \A k \in Opened(s) : at[k] \in OpeningIn(ts)
       /\ \A k, l \in Opened(s) : k < l => at[k] < at[l]
       /\ \A i \in D, k \in Opened(s) : i < at[k] => close[i] < at[k]
       /\ OpeningIn(ts) \ D = {at[k] : k \in Opened(s)}
       /\ \A k \in Opened(s) : ts[at[k]].kind = Opener(s, k)
  BY <1>1 DEF BalancedBy
<1>14. /\ ClosingIn(ts) = {close[i] : i \in D}
       /\ \A i \in D : i < close[i] /\ ts[close[i]].kind \in Closers(ts[i].kind)
       /\ \A i, j \in D : i < j /\ j < close[i] => close[j] < close[i]
  BY <1>1, <1>10 DEF BalancedBy, Pairs
<1>15. Pairs(v, c)
  <2>1. ClosingIn(v) = {c[i] : i \in E}
    BY <1>3, <1>5, <1>11, <1>14
  <2>2. ASSUME NEW i \in E PROVE i < c[i] /\ v[c[i]].kind \in Closers(v[i].kind)
    <3>1. CASE i = at[m]
      BY <1>3, <1>4, <1>5, <1>12, <3>1
    <3>2. CASE i # at[m]
      BY <1>3, <1>5, <1>7, <1>11, <1>14, <3>2
    <3> QED
      BY <3>1, <3>2
  <2>3. ASSUME NEW i \in E, NEW j \in E, i < j, j < c[i] PROVE c[j] < c[i]
    <3>1. CASE i = at[m]
      <4>1. j \in D /\ j # at[m]
        BY <1>4, <1>11, <1>12, <2>3, <3>1
      <4> QED
        BY <1>5, <1>7, <1>12, <3>1, <4>1
    <3>2. CASE i # at[m] /\ j = at[m]
      <4>1. i \in D /\ c[i] = close[i] /\ close[i] < at[m]
        BY <1>5, <1>11, <1>13, <2>3, <3>2
      <4>2. close[i] \in Int /\ at[m] \in Int
        BY <1>4, <1>7, <1>12, <4>1
      <4> QED
        BY <2>3, <3>2, <4>1, <4>2
    <3>3. CASE i # at[m] /\ j # at[m]
      BY <1>5, <1>11, <1>14, <2>3, <3>3
    <3> QED
      BY <3>1, <3>2, <3>3
  <2> QED
    BY <1>10, <2>1, <2>2, <2>3 DEF Pairs
<1>16. \A k \in Opened(u) : k \in Opened(s) /\ k < m /\ at[k] < at[m]
  BY <1>13
<1>17. OpeningIn(v) \ E = {af[k] : k \in Opened(u)}
  <2>1. OpeningIn(v) \ E = {at[k] : k \in Opened(s)} \ {at[m]}
    BY <1>3, <1>11, <1>13
  <2>2. \A k \in Opened(u) : at[k] # at[m]
    BY <1>4, <1>12, <1>16
  <2>3. {at[k] : k \in Opened(s)} \ {at[m]} = {at[k] : k \in Opened(u)}
    BY <2>2
  <2> QED
    BY <1>6, <2>1, <2>3
<1>18. \A k \in Opened(u) : v[af[k]].kind = Opener(u, k)
  BY <1>3, <1>6, <1>13, <1>16
<1>19. \A k, l \in Opened(u) : k < l => af[k] < af[l]
  BY <1>6, <1>13, <1>16
<1>20. ASSUME NEW i \in E, NEW k \in Opened(u), i < af[k] PROVE c[i] < af[k]
  <2>1. i # at[m]
    BY <1>4, <1>6, <1>12, <1>13, <1>16, <1>20
  <2> QED
    BY <1>5, <1>6, <1>11, <1>13, <1>16, <1>20, <2>1
<1>21. BalancedBy(v, u, E, c, af)
  BY <1>3, <1>4, <1>7, <1>8, <1>9, <1>11, <1>15, <1>17, <1>18, <1>19, <1>20 DEF BalancedBy
<1> QED
  BY <1>21 DEF Balanced, v

(* Contexts are added and taken off at the top.                            *)
Silent == {"in_nested_brace", "in_jsx_attribute", "in_jsx_text"}

LEMMA SilentContexts ==
  ASSUME NEW s, NEW k, s[k].context \in Silent PROVE Opener(s, k) \notin Openers
BY DEF Silent, Opener, Openers

LEMMA OpenerOf ==
  ASSUME NEW s, NEW k
  PROVE  /\ s[k].context = "in_template_literal" => Opener(s, k) = "interpolated_string_start"
         /\ s[k].context = "in_template_expression" => Opener(s, k) = "template_start"
         /\ s[k].context = "in_jsx_element" => Opener(s, k) = "jsx_element_start"
         /\ s[k].context = "in_jsx_expression" /\ k > 1 =>
              Opener(s, k) = IF s[k - 1].context = "in_jsx_attribute"
                             THEN "jsx_attribute_value_start" ELSE "template_start"
BY DEF Opener

LEMMA ContextAdded ==
  ASSUME NEW S, NEW s \in Seq(S), NEW f
  PROVE  LET u == Append(s, f)
             n == Len(s)
         IN  /\ n \in Nat /\ Opened(s) \subseteq 1..n
             /\ u[n + 1] = f /\ (n > 0 => u[n] = s[n])
             /\ \A k \in 1..n : Opener(u, k) = Opener(s, k)
             /\ Opened(u) = Opened(s) \cup (IF Opener(u, n + 1) \in Openers THEN {n + 1} ELSE {})
<1> DEFINE u == Append(s, f)
           n == Len(s)
           T == S \cup {f}
<1>1. s \in Seq(T) /\ f \in T
  OBVIOUS
<1> HIDE DEF T
<1>2. /\ n \in Nat /\ Len(u) = n + 1 /\ u[n + 1] = f
      /\ \A k \in 1..n : u[k] = s[k]
  BY <1>1
<1>3. Opened(s) = {k \in 1..n : Opener(s, k) \in Openers}
  BY DEF Opened
<1>4. Opened(u) = {k \in 1..Len(u) : Opener(u, k) \in Openers}
  BY DEF Opened
<1> HIDE DEF u, n
<1>5. \A k \in 1..n : k > 1 => k - 1 \in 1..n
  BY <1>2
<1>6. \A k \in 1..n : Opener(u, k) = Opener(s, k)
  BY <1>2, <1>5 DEF Opener
<1>7. 1..Len(u) = 1..n \cup {n + 1} /\ n + 1 \notin 1..n /\ (n > 0 => n \in 1..n)
  BY <1>2
<1>8. Opened(u) = Opened(s) \cup (IF Opener(u, n + 1) \in Openers THEN {n + 1} ELSE {})
  BY <1>3, <1>4, <1>6, <1>7
<1> QED
  BY <1>2, <1>3, <1>6, <1>7, <1>8 DEF u, n

LEMMA ContextsTaken ==
  ASSUME NEW S, NEW s \in Seq(S), NEW m \in 0..Len(s)
  PROVE  LET u == SubSeq(s, 1, m)
         IN  /\ Opened(u) = {k \in Opened(s) : k <= m}
             /\ \A k \in Opened(u) : Opener(u, k) = Opener(s, k)
<1> DEFINE u == SubSeq(s, 1, m)
           n == Len(s)
<1>1. n \in Nat /\ m \in Nat /\ m <= n
  OBVIOUS
<1>2. Len(u) = m /\ \A k \in 1..m : u[k] = s[k]
  OBVIOUS
<1>3. Opened(s) = {k \in 1..n : Opener(s, k) \in Openers}
  BY DEF Opened
<1>4. Opened(u) = {k \in 1..Len(u) : Opener(u, k) \in Openers}
  BY DEF Opened
<1> HIDE DEF u, n
<1>5. \A k \in 1..m : k > 1 => k - 1 \in 1..m
  BY <1>1
<1>6. \A k \in 1..m : Opener(u, k) = Opener(s, k)
  BY <1>2, <1>5 DEF Opener
<1>7. 1..m = {k \in 1..n : k <= m}
  BY <1>1
<1>8. Opened(u) = {k \in Opened(s) : k <= m}
  BY <1>2, <1>3, <1>4, <1>6, <1>7
<1>9. \A k \in Opened(u) : Opener(u, k) = Opener(s, k)
  BY <1>2, <1>4, <1>6
<1> QED
  BY <1>8, <1>9 DEF u

(* The moves.  A call returns a token that is no bracket, or none, while a *)
(* context that no token opens may come or go; or it returns a bracket and *)
(* opens or closes its context.                                            *)
Plain ==
  \/ UNCHANGED tokens
  \/ \E e : e.kind \notin Openers \cup Closings /\ tokens' = Append(tokens, e)

Alone ==
  /\ Plain
  /\ \/ UNCHANGED context_stack
     \/ \E f : f.context \in Silent /\ context_stack' = Append(context_stack, f)
     \/ Depth >= 1 /\ Top \in Silent /\ context_stack' = Below

Opens ==
  \E e, f :
    /\ tokens' = Append(tokens, e) /\ context_stack' = Append(context_stack, f)
    /\ \/ e.kind = "interpolated_string_start" /\ f.context = "in_template_literal"
       \/ e.kind = "template_start" /\ f.context = "in_template_expression"
       \/ e.kind = "jsx_element_start" /\ f.context = "in_jsx_element"
       \/ /\ e.kind = "template_start" /\ f.context = "in_jsx_expression"
          /\ Depth >= 1 /\ Top # "in_jsx_attribute"
       \/ /\ e.kind = "jsx_attribute_value_start" /\ f.context = "in_jsx_expression"
          /\ Depth >= 1 /\ Top = "in_jsx_attribute"

(* The k-th context is closed, with silent ones above and below it.        *)
Closes ==
  \E e : \E k \in 1..Depth : \E m \in 0..k - 1 :
    /\ tokens' = Append(tokens, e) /\ context_stack' = SubSeq(context_stack, 1, m)
    /\ e.kind \in Closers(Opener(context_stack, k))
    /\ \A i \in m + 1..Depth : i # k => context_stack[i].context \in Silent

Tokens == \E S : tokens \in Seq(S)
InBalance == Balanced(tokens, context_stack)

LEMMA AloneBalances == ASSUME Tokens, IsStack, InBalance, Alone PROVE InBalance'
<1> DEFINE s == context_stack
           u == context_stack'
<1>1. PICK S : s \in Seq(S)
  BY DEF IsStack
<1>2. Opened(u) = Opened(s) /\ \A k \in Opened(s) : Opener(u, k) = Opener(s, k)
  <2>1. CASE UNCHANGED context_stack
    BY <2>1
  <2>2. CASE \E f : f.context \in Silent /\ u = Append(s, f)
    <3>1. PICK f : f.context \in Silent /\ u = Append(s, f)
      BY <2>2
    <3> DEFINE n == Len(s)
    <3>2. /\ n \in Nat /\ Opened(s) \subseteq 1..n
          /\ u[n + 1] = f
          /\ \A k \in 1..n : Opener(u, k) = Opener(s, k)
          /\ Opened(u) = Opened(s) \cup (IF Opener(u, n + 1) \in Openers THEN {n + 1} ELSE {})
      BY <1>1, <3>1, ContextAdded
    <3> HIDE DEF s, u, n
    <3>3. Opener(u, n + 1) \notin Openers
      BY <3>1, <3>2, SilentContexts
    <3> QED
      BY <3>2, <3>3
  <2>3. CASE Depth >= 1 /\ Top \in Silent /\ u = Below
    <3> DEFINE n == Len(s)
    <3>1. n \in Nat /\ n >= 1 /\ u = SubSeq(s, 1, n - 1) /\ s[n].context \in Silent
      BY <1>1, <2>3 DEF Depth, Below, Top
    <3>2. n - 1 \in 0..n
      BY <3>1
    <3>3. /\ Opened(u) = {k \in Opened(s) : k <= n - 1}
          /\ \A k \in Opened(u) : Opener(u, k) = Opener(s, k)
      BY <1>1, <3>1, <3>2, ContextsTaken
    <3>4. Opened(s) \subseteq 1..n
      BY DEF Opened
    <3> HIDE DEF s, u, n
    <3>5. n \notin Opened(s)
      BY <3>1, SilentContexts DEF Opened
    <3>6. \A k \in 1..n : k <= n - 1 \/ k = n
      BY <3>1
    <3> QED
      BY <3>3, <3>4, <3>5, <3>6
  <2> QED
    BY <2>1, <2>2, <2>3 DEF Alone
<1>3. Balanced(tokens', s)
  <2>1. CASE UNCHANGED tokens
    BY <2>1 DEF InBalance
  <2>2. CASE \E e : e.kind \notin Openers \cup Closings /\ tokens' = Append(tokens, e)
    <3>1. PICK e : e.kind \notin Openers \cup Closings /\ tokens' = Append(tokens, e)
      BY <2>2
    <3>2. Balanced(Append(tokens, e), s)
      BY <3>1, QuietToken DEF Tokens, InBalance
    <3> QED
      BY <3>1, <3>2
  <2> QED
    BY <2>1, <2>2 DEF Alone, Plain
<1>4. Balanced(tokens', u)
  BY <1>2, <1>3, QuietContexts
<1> QED
  BY <1>4 DEF InBalance

LEMMA OpensBalances == ASSUME Tokens, IsStack, InBalance, Opens PROVE InBalance'
<1> DEFINE s == context_stack
           u == context_stack'
           n == Len(s)
<1>1. PICK S : s \in Seq(S)
  BY DEF IsStack
<1>2. PICK e, f :
        /\ tokens' = Append(tokens, e) /\ u = Append(s, f)
        /\ \/ e.kind = "interpolated_string_start" /\ f.context = "in_template_literal"
           \/ e.kind = "template_start" /\ f.context = "in_template_expression"
           \/ e.kind = "jsx_element_start" /\ f.context = "in_jsx_element"
           \/ /\ e.kind = "template_start" /\ f.context = "in_jsx_expression"
              /\ n >= 1 /\ s[n].context # "in_jsx_attribute"
           \/ /\ e.kind = "jsx_attribute_value_start" /\ f.context = "in_jsx_expression"
              /\ n >= 1 /\ s[n].context = "in_jsx_attribute"
  BY DEF Opens, Depth, Top
<1>3. /\ n \in Nat /\ Opened(s) \subseteq 1..n
      /\ u[n + 1] = f /\ (n > 0 => u[n] = s[n])
      /\ \A k \in 1..n : Opener(u, k) = Opener(s, k)
      /\ Opened(u) = Opened(s) \cup (IF Opener(u, n + 1) \in Openers THEN {n + 1} ELSE {})
  BY <1>1, <1>2, ContextAdded
<1> DEFINE d == n + 1
<1>4. /\ d - 1 = n /\ (n >= 1 => n > 0 /\ d > 1)
      /\ u[d] = f /\ (n > 0 => u[n] = s[n])
  BY <1>3
<1> HIDE DEF s, u, n, d
<1>5. Opener(u, d) = e.kind /\ e.kind \in Openers
  <2>1. e.kind \in Openers
    BY <1>2 DEF Openers
  <2>2. CASE f.context # "in_jsx_expression"
    <3>1. u[d].context = f.context
      BY <1>4
    <3> QED
      BY <1>2, <2>1, <2>2, <3>1, OpenerOf
  <2>3. CASE f.context = "in_jsx_expression"
    <3>1. d > 1 /\ u[d].context = "in_jsx_expression" /\ u[d - 1] = s[n]
      BY <1>2, <1>4, <2>3
    <3>2. Opener(u, d) = IF u[d - 1].context = "in_jsx_attribute"
                         THEN "jsx_attribute_value_start" ELSE "template_start"
      BY <3>1, OpenerOf, Zenon
    <3>3. \/ e.kind = "template_start" /\ s[n].context # "in_jsx_attribute"
          \/ e.kind = "jsx_attribute_value_start" /\ s[n].context = "in_jsx_attribute"
      BY <1>2, <2>3
    <3> QED
      BY <2>1, <3>1, <3>2, <3>3
  <2> QED
    BY <2>1, <2>2, <2>3
<1>6. Opened(u) = Opened(s) \cup {d}
  BY <1>3, <1>5 DEF d
<1>7. Opened(s) \subseteq Int /\ d \in Int /\ \A k \in Opened(s) : k < d
  BY <1>3 DEF d
<1>8. \A k \in Opened(s) : Opener(u, k) = Opener(s, k)
  BY <1>3
<1>9. Balanced(tokens, s)
  BY DEF InBalance, s
<1>10. PICK T : tokens \in Seq(T)
  BY DEF Tokens
<1>11. Balanced(Append(tokens, e), u)
  BY <1>5, <1>6, <1>7, <1>8, <1>9, <1>10, OpeningToken
<1> QED
  BY <1>2, <1>11 DEF InBalance, u

LEMMA ClosesBalances == ASSUME Tokens, IsStack, InBalance, Closes PROVE InBalance'
<1> DEFINE s == context_stack
           u == context_stack'
           n == Len(s)
<1>1. PICK S : s \in Seq(S)
  BY DEF IsStack
<1>2. PICK e :
        \E k \in 1..n : \E m \in 0..k - 1 :
          /\ tokens' = Append(tokens, e) /\ u = SubSeq(s, 1, m)
          /\ e.kind \in Closers(Opener(s, k))
          /\ \A i \in m + 1..n : i # k => s[i].context \in Silent
  BY DEF Closes, Depth
<1>3. PICK k \in 1..n :
        \E m \in 0..k - 1 :
          /\ tokens' = Append(tokens, e) /\ u = SubSeq(s, 1, m)
          /\ e.kind \in Closers(Opener(s, k))
          /\ \A i \in m + 1..n : i # k => s[i].context \in Silent
  BY <1>2
<1>4. PICK m \in 0..k - 1 :
        /\ tokens' = Append(tokens, e) /\ u = SubSeq(s, 1, m)
        /\ e.kind \in Closers(Opener(s, k))
        /\ \A i \in m + 1..n : i # k => s[i].context \in Silent
  BY <1>3
<1>5. n \in Nat /\ k \in Nat /\ m \in Nat /\ m < k /\ k <= n /\ m \in 0..n
  BY <1>1
<1>6. /\ Opened(u) = {i \in Opened(s) : i <= m}
      /\ \A i \in Opened(u) : Opener(u, i) = Opener(s, i)
  BY <1>1, <1>4, <1>5, ContextsTaken
<1>7. Opened(s) = {i \in 1..n : Opener(s, i) \in Openers}
  BY DEF Opened
<1> HIDE DEF s, u, n
<1>8. \A i \in m + 1..n : i # k => i \notin Opened(s)
  BY <1>4, <1>7, SilentContexts
<1>9. Opener(s, k) \in Openers
  BY <1>4 DEF Closers, Openers
<1>10. k \in Opened(s)
  BY <1>7, <1>9
<1>11. \A i \in 1..n : i <= m \/ i \in m + 1..n
  BY <1>5
<1>12. \A i \in Opened(s) : i <= m \/ i = k
  BY <1>7, <1>8, <1>11
<1>13. Opened(s) \subseteq Int /\ \A i \in Opened(s) : i <= k
  BY <1>5, <1>7, <1>12
<1>14. Opened(u) = Opened(s) \ {k}
  BY <1>5, <1>6, <1>12
<1>15. Balanced(tokens, s)
  BY DEF InBalance, s
<1>16. PICK T : tokens \in Seq(T)
  BY DEF Tokens
<1>17. Balanced(Append(tokens, e), u)
  BY <1>4, <1>6, <1>10, <1>13, <1>14, <1>15, <1>16, ClosingToken
<1> QED
  BY <1>4, <1>17 DEF InBalance, u

---------------------------------------------------------------------------
(* The actions of each module, again.                                      *)

AddsToken(kind) == \E e : e.kind = kind /\ tokens' = Append(tokens, e)
Goes == pc' # "end" /\ (Alone \/ Opens \/ Closes)

LEMMA ReturnAdds ==
  \A kind, at : Return(kind, at) => AddsToken(kind) /\ pc' = "call"
BY DEF Return, ReturnToken, AddsToken

LEMMA AddsPlain == \A kind : AddsToken(kind) /\ kind \notin Openers \cup Closings => Plain
BY DEF AddsToken, Plain

LEMMA ReturnPlain ==
  \A kind, at : Return(kind, at) /\ kind \notin Openers \cup Closings => Plain /\ pc' = "call"
BY ReturnAdds, AddsPlain

LEMMA StaysAlone == ASSUME Plain, UNCHANGED context_stack, pc' # "end" PROVE Goes
BY DEF Goes, Alone

LEMMA SilentPush ==
  ASSUME Plain, NEW c \in Silent, Push(c, <<>>), pc' # "end" PROVE Goes
<1> DEFINE f == [context |-> c, name |-> <<>>]
<1>1. f.context \in Silent /\ context_stack' = Append(context_stack, f)
  BY DEF Push
<1> HIDE DEF f
<1> QED
  BY <1>1 DEF Goes, Alone

LEMMA SilentPop ==
  ASSUME Plain, Pop, Depth >= 1, Top \in Silent, pc' # "end" PROVE Goes
BY DEF Goes, Alone, Pop

LEMMA PushOpens ==
  ASSUME NEW c, NEW name, NEW kind, Push(c, name), AddsToken(kind), pc' # "end",
         \/ kind = "interpolated_string_start" /\ c = "in_template_literal"
         \/ kind = "template_start" /\ c = "in_template_expression"
         \/ kind = "jsx_element_start" /\ c = "in_jsx_element"
         \/ /\ kind = "template_start" /\ c = "in_jsx_expression"
            /\ Depth >= 1 /\ Top # "in_jsx_attribute"
         \/ /\ kind = "jsx_attribute_value_start" /\ c = "in_jsx_expression"
            /\ Depth >= 1 /\ Top = "in_jsx_attribute"
  PROVE  Goes
<1>1. PICK e : e.kind = kind /\ tokens' = Append(tokens, e)
  BY DEF AddsToken
<1> DEFINE f == [context |-> c, name |-> name]
<1>2. f.context = c /\ context_stack' = Append(context_stack, f)
  BY DEF Push
<1> HIDE DEF f
<1>3. Opens
  BY <1>1, <1>2 DEF Opens
<1> QED
  BY <1>3 DEF Goes

LEMMA PopCloses ==
  ASSUME LexInv, NEW kind, AddsToken(kind), pc' # "end", Depth >= 1, context_stack' = Below,
         kind \in Closers(Opener(context_stack, Depth))
  PROVE  Goes
<1>1. PICK e : e.kind = kind /\ tokens' = Append(tokens, e)
  BY DEF AddsToken
<1>2. Depth \in Nat
  BY StackTop
<1>3. /\ Depth \in 1..Depth /\ Depth - 1 \in 0..Depth - 1
      /\ \A i \in Depth - 1 + 1..Depth : i = Depth
      /\ context_stack' = SubSeq(context_stack, 1, Depth - 1)
  BY <1>2 DEF Below
<1>4. Closes
  BY <1>1, <1>3 DEF Closes
<1> QED
  BY <1>4 DEF Goes

LEMMA PopTwoCloses ==
  ASSUME LexInv, NEW kind, AddsToken(kind), pc' # "end", Depth >= 2,
         context_stack' = SubSeq(context_stack, 1, Depth - 2),
         \/ kind \in Closers(Opener(context_stack, Depth))
            /\ context_stack[Depth - 1].context \in Silent
         \/ kind \in Closers(Opener(context_stack, Depth - 1)) /\ Top \in Silent
  PROVE  Goes
<1>1. PICK e : e.kind = kind /\ tokens' = Append(tokens, e)
  BY DEF AddsToken
<1>2. Depth \in Nat
  BY StackTop
<1>3. /\ Depth \in 1..Depth /\ Depth - 1 \in 1..Depth
      /\ Depth - 2 \in 0..Depth - 1 /\ Depth - 2 \in 0..(Depth - 1) - 1
      /\ \A i \in (Depth - 2) + 1..Depth : i = Depth \/ i = Depth - 1
  BY <1>2
<1>4. Closes
  <2>1. CASE /\ kind \in Closers(Opener(context_stack, Depth))
             /\ context_stack[Depth - 1].context \in Silent
    <3>1. \A i \in (Depth - 2) + 1..Depth : i # Depth => context_stack[i].context \in Silent
      BY <1>3, <2>1
    <3> QED
      BY <1>1, <1>3, <2>1, <3>1 DEF Closes
  <2>2. CASE kind \in Closers(Opener(context_stack, Depth - 1)) /\ Top \in Silent
    <3>1. \A i \in (Depth - 2) + 1..Depth : i # Depth - 1 => context_stack[i].context \in Silent
      BY <1>3, <2>2 DEF Top
    <3> QED
      BY <1>1, <1>3, <2>2, <3>1 DEF Closes
  <2> QED
    BY <2>1, <2>2
<1> QED
  BY <1>4 DEF Goes

(* What the context on top was opened by.                                  *)
LEMMA TopOpener ==
  ASSUME LexInv
  PROVE  /\ Top = "in_template_literal" => "interpolated_string_end" \in Closers(Opener(context_stack, Depth))
         /\ Top = "in_template_expression" => "template_end" \in Closers(Opener(context_stack, Depth))
         /\ Top = "in_jsx_element" => "jsx_self_closing" \in Closers(Opener(context_stack, Depth))
         /\ Top = "in_jsx_expression" =>
              IF Depth >= 2 /\ context_stack[Depth - 1].context = "in_jsx_attribute"
              THEN "jsx_attribute_value_end" \in Closers(Opener(context_stack, Depth))
              ELSE "template_end" \in Closers(Opener(context_stack, Depth))
         /\ context_stack[Depth - 1].context = "in_jsx_element" =>
              "jsx_element_close" \in Closers(Opener(context_stack, Depth - 1))
<1>1. Depth > 1 <=> Depth >= 2
  BY StackTop
<1>2. Top = "in_jsx_expression" =>
        Opener(context_stack, Depth) =
          IF Depth > 1 /\ context_stack[Depth - 1].context = "in_jsx_attribute"
          THEN "jsx_attribute_value_start" ELSE "template_start"
  BY DEF Opener, Top
<1> QED
  BY <1>1, <1>2, OpenerOf DEF Closers, Top

LEMMA PlainKinds ==
  {"newline", "shebang", "comment", "jsdoc", "multiline_comment", "conflict_marker_trivia",
   "operator", "open_brace", "close_brace", "at", "string", "constant_value", "identifier",
   "keyword", "regex", "interpolated_string_chunk", "jsx_element_end", "jsx_attribute_name",
   "jsx_attribute_value", "jsx_text"} \cap (Openers \cup Closings) = {}
BY DEF Openers, Closings

LEMMA LoopPlain ==
  /\ \A l : GoOn(l) => Plain /\ pc' = l
  /\ \A e : Fail(e) => Plain /\ pc' = "thrown" /\ UNCHANGED context_stack
  /\ \A e : Throw(e) => Plain /\ pc' = "thrown"
BY DEF GoOn, Fail, Throw, Plain

LEMMA StandsStill == ASSUME UNCHANGED vars, pc # "end" PROVE Goes
BY DEF vars, outcome, Goes, Alone, Plain

(* Strings, templates, names, numbers and regular expressions.            *)
LEMMA LiteralGoes == ASSUME LexInv, ScanLiteral PROVE Goes
<1> USE LoopPlain, ReturnPlain, PlainKinds, StaysAlone
<1>1. CASE OpenString
  BY <1>1 DEF OpenString
<1>2. CASE StringCharacter
  BY <1>2 DEF StringCharacter
<1>3. CASE StringContinuation
  BY <1>3 DEF StringContinuation
<1>4. CASE StringEscape
  BY <1>4 DEF StringEscape
<1>5. CASE EndString
  BY <1>5 DEF EndString
<1>6. CASE EndTemplate
  <2>1. /\ AddsToken("interpolated_string_end") /\ pc' # "end" /\ context_stack' = Below
        /\ pc = "template_start"
    BY <1>6, ReturnAdds DEF EndTemplate, Pop
  <2>2. Depth >= 1 /\ Top = "in_template_literal"
    BY <2>1, StackTop DEF LexInv, ScannerContext, InContext
  <2> QED
    BY <2>1, <2>2, TopOpener, PopCloses
<1>7. CASE OpenTemplateExpression
  BY <1>7, ReturnAdds, PushOpens DEF OpenTemplateExpression
<1>8. CASE OpenTemplateChunk
  <2>1. GoOn("template") /\ UNCHANGED context_stack
    BY <1>8 DEF OpenTemplateChunk
  <2> QED
    BY <2>1
<1>9. CASE TemplateCharacter
  <2>1. GoOn("template") /\ UNCHANGED context_stack
    BY <1>9 DEF TemplateCharacter
  <2> QED
    BY <2>1
<1>10. CASE TemplateSpin
  BY <1>10, StandsStill DEF TemplateSpin
<1>11. CASE EndTemplateChunk
  BY <1>11 DEF EndTemplateChunk
<1>12. CASE UnterminatedTemplate
  BY <1>12 DEF UnterminatedTemplate
<1>13. CASE IdentifierCharacter
  BY <1>13 DEF IdentifierCharacter, InIdentifier
<1>14. CASE IdentifierEscape
  BY <1>14 DEF IdentifierEscape, InIdentifier
<1>15. CASE InvalidIdentifier
  BY <1>15 DEF InvalidIdentifier
<1>16. CASE EndIdentifier
  BY <1>16 DEF EndIdentifier
<1>17. CASE ScanNumber
  BY <1>17 DEF ScanNumber
<1>18. CASE ScanRegex
  BY <1>18 DEF ScanRegex
<1> QED
  BY <1>1, <1>2, <1>3, <1>4, <1>5, <1>6, <1>7, <1>8, <1>9, <1>10, <1>11, <1>12, <1>13,
     <1>14, <1>15, <1>16, <1>17, <1>18 DEF ScanLiteral

LEMMA ElementGoes == ASSUME StartElement PROVE Goes
<1>1. /\ Push("in_jsx_element", Word(text, offset + 1, ElementNameEnd(text, offset)))
      /\ AddsToken("jsx_element_start") /\ pc' = "call"
  BY ReturnAdds DEF StartElement
<1> QED
  BY <1>1, PushOpens

(* Elements, attributes and text.                                         *)
LEMMA JsxGoes == ASSUME LexInv, ScanJsx PROVE Goes
<1> USE LoopPlain, ReturnPlain, PlainKinds, StaysAlone
<1>1. CASE ElementSpace
  BY <1>1 DEF ElementSpace
<1>2. CASE ElementSpin
  BY <1>2, StandsStill DEF ElementSpin
<1>3. CASE EndElementPart
  <2>1. Depth >= 1 /\ Top = "in_jsx_element"
    BY <1>3, StackTop DEF LexInv, ScannerContext, InContext, EndElementPart
  <2>2. CASE Pop /\ Return("jsx_self_closing", location)
    BY <2>1, <2>2, ReturnAdds, TopOpener, PopCloses DEF Pop
  <2>3. CASE Push("in_jsx_text", <<>>) /\ Return("jsx_element_end", location)
    BY <2>3, SilentPush DEF Silent
  <2> QED
    BY <1>3, <2>2, <2>3 DEF EndElementPart
<1>4. CASE InvalidElement
  BY <1>4 DEF InvalidElement
<1>5. CASE OpenAttributeName
  BY <1>5 DEF OpenAttributeName
<1>6. CASE AttributeNameCharacter
  BY <1>6 DEF AttributeNameCharacter
<1>7. CASE AttributeNameSpace
  BY <1>7 DEF AttributeNameSpace
<1>8. CASE EndAttributeName
  <2>1. Return("jsx_attribute_name", start)
    BY <1>8 DEF EndAttributeName
  <2>2. Push("in_jsx_attribute", <<>>) \/ UNCHANGED context_stack
    BY <1>8 DEF EndAttributeName
  <2> QED
    BY <2>1, <2>2, SilentPush DEF Silent
<1>9. CASE InvalidAttributeName
  BY <1>9 DEF InvalidAttributeName
<1>10. CASE AttributeSpace
  BY <1>10 DEF AttributeSpace
<1>11. CASE AttributeSpin
  BY <1>11, StandsStill DEF AttributeSpin
<1>12. CASE OpenAttributeValue
  BY <1>12 DEF OpenAttributeValue
<1>13. CASE OpenAttributeExpression
  <2> pc \in {"jsx_attribute_space", "jsx_attribute"}
    BY <1>13 DEF OpenAttributeExpression
  <2>1. Depth >= 1 /\ Top = "in_jsx_attribute"
    BY StackTop DEF LexInv, ScannerContext, InContext
  <2>2. /\ Push("in_jsx_expression", <<>>) /\ AddsToken("jsx_attribute_value_start")
        /\ pc' = "call"
    BY <1>13, ReturnAdds DEF OpenAttributeExpression
  <2> QED
    BY <2>1, <2>2, PushOpens
<1>14. CASE AttributeValueCharacter
  BY <1>14 DEF AttributeValueCharacter
<1>15. CASE EndAttributeValue
  <2>1. Depth >= 1 /\ Top = "in_jsx_attribute"
    BY <1>15, StackTop DEF LexInv, ScannerContext, InContext, EndAttributeValue
  <2> QED
    BY <1>15, <2>1, SilentPop DEF EndAttributeValue, Silent
<1>16. CASE OpenTextExpression
  <2> pc = "jsx_text_start"
    BY <1>16 DEF OpenTextExpression
  <2>1. Depth >= 1 /\ Top = "in_jsx_text"
    BY StackTop DEF LexInv, ScannerContext, InContext
  <2>2. Push("in_jsx_expression", <<>>) /\ AddsToken("template_start") /\ pc' = "call"
    BY <1>16, ReturnAdds DEF OpenTextExpression
  <2> QED
    BY <2>1, <2>2, PushOpens
<1>17. CASE CloseElement
  <2>1. Top = "in_jsx_text"
    BY <1>17 DEF LexInv, ScannerContext, InContext, CloseElement, AtClosingTag
  <2>2. /\ Depth >= 2 /\ context_stack[Depth - 1].context = "in_jsx_element"
        /\ context_stack' = SubSeq(context_stack, 1, Depth - 2)
        /\ AddsToken("jsx_element_close") /\ pc' = "call"
    BY <1>17, ReturnAdds DEF CloseElement
  <2> QED
    BY <2>1, <2>2, TopOpener, PopTwoCloses DEF Silent
<1>18. CASE InvalidClosingTag
  BY <1>18 DEF InvalidClosingTag
<1>19. CASE NestedElement
  BY <1>19, ElementGoes DEF NestedElement
<1>20. CASE OpenText
  <2>1. GoOn("jsx_text") /\ UNCHANGED context_stack
    BY <1>20 DEF OpenText
  <2> QED
    BY <2>1
<1>21. CASE TextCharacter
  <2>1. GoOn("jsx_text") /\ UNCHANGED context_stack
    BY <1>21 DEF TextCharacter
  <2> QED
    BY <2>1
<1>22. CASE EndText
  BY <1>22 DEF EndText
<1> QED
  BY <1>1, <1>2, <1>3, <1>4, <1>5, <1>6, <1>7, <1>8, <1>9, <1>10, <1>11, <1>12, <1>13,
     <1>14, <1>15, <1>16, <1>17, <1>18, <1>19, <1>20, <1>21, <1>22 DEF ScanJsx

(* The text ends outside of every context.                                *)
Ends == Depth = 0 /\ UNCHANGED <<tokens, context_stack>>

(* scan() itself.                                                         *)
LEMMA ScanGoes == ASSUME LexInv, Scan PROVE Goes \/ Ends
<1> USE LoopPlain, ReturnPlain, PlainKinds, StaysAlone
<1>1. CASE Call
  BY <1>1 DEF Call
<1>2. CASE EndOfText
  <2>1. CASE Depth = 0 /\ GoOn("end")
    BY <2>1, <1>2 DEF EndOfText, GoOn, Ends
  <2>2. CASE Throw("end_of_text")
    BY <2>2, <1>2 DEF EndOfText
  <2> QED
    BY <1>2, <2>1, <2>2 DEF EndOfText
<1>3. CASE Shebang
  BY <1>3 DEF Shebang
<1>4. CASE LineBreak
  <2>1. UNCHANGED context_stack /\ (GoOn("scan") \/ Return("newline", location))
    BY <1>4 DEF LineBreak
  <2> QED
    BY <2>1
<1>5. CASE Blank
  <2>1. UNCHANGED context_stack /\ GoOn("scan")
    BY <1>5 DEF Blank
  <2> QED
    BY <2>1
<1>6. CASE OpenTemplate
  <2>1. /\ Push("in_template_literal", <<>>) /\ AddsToken("interpolated_string_start")
        /\ pc' = "call"
    BY <1>6, ReturnAdds DEF OpenTemplate
  <2> QED
    BY <2>1, PushOpens
<1>7. CASE LineComment
  <2>1. AddsToken("comment") /\ pc' = "call" /\ UNCHANGED context_stack
    BY <1>7 DEF LineComment, ReturnToken, AddsToken
  <2> QED
    BY <2>1, AddsPlain
<1>8. CASE MultilineComment
  <2>1. CASE /\ AddsToken("jsdoc") \/ AddsToken("multiline_comment")
             /\ pc' = "call" /\ UNCHANGED context_stack
    BY <2>1, AddsPlain
  <2>2. CASE Fail("unterminated_multiline_comment") \/ Fail("out_of_range")
    BY <2>2
  <2> QED
    BY <1>8, <2>1, <2>2 DEF MultilineComment, ReturnToken, AddsToken
<1>9. CASE ScanConflictMarker
  BY <1>9 DEF ScanConflictMarker
<1>10. CASE ScanElement
  BY <1>10, ElementGoes DEF ScanElement
<1>11. CASE ScanOperator
  BY <1>11 DEF ScanOperator
<1>12. CASE OpenBrace
  <2>1. Return("open_brace", location)
    BY <1>12 DEF OpenBrace
  <2>2. Push("in_nested_brace", <<>>) \/ UNCHANGED context_stack
    BY <1>12 DEF OpenBrace
  <2> QED
    BY <2>1, <2>2, SilentPush DEF Silent
<1>13. CASE CloseBrace
  <2>1. CASE EndsAttribute /\ context_stack' = SubSeq(context_stack, 1, Depth - 2)
             /\ Return("jsx_attribute_value_end", location)
    <3>1. Top = "in_jsx_expression"
      BY <2>1, StackTop DEF EndsAttribute, InContext, MayStandIn, Code
    <3> QED
      BY <2>1, <3>1, ReturnAdds, TopOpener, PopTwoCloses DEF EndsAttribute, Silent
  <2>2. CASE /\ InContext({"in_template_expression", "in_jsx_expression"}) /\ ~EndsAttribute
             /\ Pop /\ Return("template_end", location)
    <3>1. Depth >= 1
      BY <2>2, StackTop DEF InContext
    <3>2. "template_end" \in Closers(Opener(context_stack, Depth))
      BY <2>2, TopOpener DEF EndsAttribute, InContext
    <3> QED
      BY <2>2, <3>1, <3>2, ReturnAdds, PopCloses DEF Pop
  <2>3. CASE InContext({"in_nested_brace"}) /\ Pop /\ Return("close_brace", location)
    <3>1. Depth >= 1 /\ Top \in Silent
      BY <2>3, StackTop DEF InContext, Silent
    <3> QED
      BY <2>3, <3>1, SilentPop
  <2>4. CASE UNCHANGED context_stack /\ Return("close_brace", location)
    BY <2>4
  <2> QED
    BY <1>13, <2>1, <2>2, <2>3, <2>4 DEF CloseBrace
<1>14. CASE AtSign
  <2>1. AddsToken("at") /\ pc' = "call" /\ UNCHANGED context_stack
    BY <1>14 DEF AtSign, ReturnToken, AddsToken
  <2> QED
    BY <2>1, AddsPlain
<1>15. CASE Hash
  BY <1>15 DEF Hash, OpenIdentifier
<1>16. CASE ScanIdentifier
  BY <1>16 DEF ScanIdentifier, OpenIdentifier
<1> QED
  BY <1>1, <1>2, <1>3, <1>4, <1>5, <1>6, <1>7, <1>8, <1>9, <1>10, <1>11, <1>12, <1>13,
     <1>14, <1>15, <1>16 DEF Scan

---------------------------------------------------------------------------

(* The text ends for the caller only in no context.                        *)
EndsOutside == pc = "end" => Depth = 0

LEMMA InitBalances == Init => InBalance /\ EndsOutside
<1> SUFFICES ASSUME Init PROVE InBalance /\ EndsOutside
  OBVIOUS
<1>1. tokens = <<>> /\ context_stack = <<>> /\ pc = "call"
  BY DEF Init
<1> DEFINE none == [i \in {} |-> 0]
<1>2. OpeningIn(<<>>) = {} /\ ClosingIn(<<>>) = {} /\ Opened(<<>>) = {}
  BY DEF OpeningIn, ClosingIn, Opened
<1>3. none \in [{} -> {}] /\ DOMAIN none = {}
  OBVIOUS
<1> HIDE DEF none
<1>4. Pairs(<<>>, none)
  BY <1>2, <1>3 DEF Pairs
<1>5. BalancedBy(<<>>, <<>>, {}, none, none)
  BY <1>2, <1>3, <1>4 DEF BalancedBy
<1> QED
  BY <1>1, <1>5 DEF InBalance, Balanced, EndsOutside

LEMMA NextBalances ==
  LexInv /\ ReadInv /\ InBalance /\ EndsOutside /\ [Next]_vars => InBalance' /\ EndsOutside'
<1> SUFFICES ASSUME LexInv, ReadInv, InBalance, EndsOutside, [Next]_vars
             PROVE  InBalance' /\ EndsOutside'
  OBVIOUS
<1>1. Tokens /\ IsStack
  BY DEF ReadInv, Reading, Tokens, LexInv
<1>2. ASSUME Goes PROVE InBalance' /\ EndsOutside'
  BY <1>1, <1>2, AloneBalances, OpensBalances, ClosesBalances DEF Goes, EndsOutside
<1>3. CASE ScanLiteral \/ ScanJsx
  BY <1>2, <1>3, LiteralGoes, JsxGoes
<1>4. ASSUME Ends PROVE InBalance' /\ EndsOutside'
  BY <1>4 DEF Ends, InBalance, EndsOutside, Depth
<1>5. CASE Scan
  BY <1>2, <1>4, <1>5, ScanGoes
<1>7. CASE ReadBehind
  BY <1>2, <1>7, StaysAlone DEF ReadBehind, Plain
<1>6. CASE Ended \/ UNCHANGED vars
  <2>1. UNCHANGED <<tokens, context_stack, pc>>
    BY <1>6 DEF Ended, vars, outcome
  <2> QED
    BY <2>1 DEF InBalance, EndsOutside, Depth
<1> QED
  BY <1>3, <1>4, <1>5, <1>6, <1>7 DEF Next

LEMMA BalanceNests == InBalance /\ EndsOutside => TokensNest
<1> SUFFICES ASSUME InBalance, pc = "end", Depth = 0
             PROVE  \E close \in [OpeningIn(tokens) -> ClosingIn(tokens)] : Pairs(tokens, close)
  BY DEF EndsOutside, TokensNest
<1>1. PICK D, close, at : BalancedBy(tokens, context_stack, D, close, at)
  BY DEF InBalance, Balanced
<1>2. Opened(context_stack) = {}
  BY DEF Opened, Depth
<1>3. D = OpeningIn(tokens)
  BY <1>1, <1>2 DEF BalancedBy
<1> QED
  BY <1>1, <1>3 DEF BalancedBy

(* On every text that is scanned to its end, each template, expression,    *)
(* element and attribute value that a token opens is closed by a token of  *)
(* the right kind, and they nest, whatever the lexer's contexts were.      *)
THEOREM TokensAlwaysNest == Spec => []TokensNest
BY InitBalances, NextBalances, BalanceNests, LexerInvariance, ReadInvariance, PTL DEF Spec
===========================================================================
