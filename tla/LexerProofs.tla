---------------------------- MODULE LexerProofs ----------------------------
(***************************************************************************)
(* Proofs about Lexer, for every set of texts, every lookahead and every   *)
(* number of calls: the types, the order of the token stream, what peek()  *)
(* answers, and that the lexer implements TokenStream.                     *)
(***************************************************************************)
EXTENDS Lexer, TLAPS

USE TextsAssumption, LookaheadAssumption, MaxTokensAssumption

(***************************************************************************)
(* Tokens and characters.                                                  *)
(***************************************************************************)
LEMMA TextIsSeq == ASSUME TypeOK PROVE text \in Seq(STRING) /\ Len(text) \in Nat
  BY DEF TypeOK

LEMMA OperatorTypes ==
  /\ \A c \in DOMAIN OneChar : OneChar[c] \in TokenType
  /\ \A p \in DOMAIN TwoChar : TwoChar[p] \in TokenType
  BY DEF TokenType

LEMMA WordTypesOK ==
  {"IDENT", "IF", "INT", "FLOAT", "STRING", "END_OF_FILE"} \subseteq TokenType
  BY DEF TokenType, WordTypes

\* nextCh() never moves past the end of the text.
LEMMA NextChBound ==
  ASSUME TypeOK, NEW p \in 0 .. Len(text), NEW class
  PROVE  /\ AfterNextCh(p) \in p .. Len(text)
         /\ AfterNextCh(p) <= p + 1
         /\ AfterEat(class, p) \in p .. Len(text)
  BY TextIsSeq DEF AfterNextCh, AfterEat, EofAt

\* A two-character operator lies inside the text.
LEMMA TwoCharFits ==
  ASSUME TypeOK, <<first, second>> \in DOMAIN TwoChar
  PROVE  start + 1 < Len(text)
  <1>1. second # "space"
    BY DEF TwoChar
  <1>2. QED
    BY <1>1, TextIsSeq DEF second, CharAt, EofAt, TypeOK

(***************************************************************************)
(* The type invariant is inductive by itself.                              *)
(***************************************************************************)
LEMMA EmitTypes ==
  ASSUME TypeOK, mode # "idle", NEW type \in TokenType,
         NEW end \in start .. Len(text), NEW from \in 0 .. Len(text),
         Emit(type, end, from), messages' \in Seq(Span)
  PROVE  TypeOK'
  <1> DEFINE tok == [type |-> type, start |-> start, length |-> end - start]
  <1> DEFINE queue == Append(peek_stack, tok)
  <1>1. /\ tok \in Token
        /\ queue \in Seq(Token)
        /\ Append(returned, tok) \in Seq(Token)
    BY DEF TypeOK, Token
  <1>2. text' = text /\ start' = from /\ length' = 0 /\ ahead' = ahead
    BY DEF Emit
  <1>3. /\ text' \in Texts /\ start' \in 0 .. Len(text')
        /\ length' \in 0 .. Len(text') - start' /\ ahead' \in 0 .. Lookahead
    BY <1>2, TextIsSeq DEF TypeOK
  <1>4. CASE call = "next"
    <2>1. /\ mode' = "idle" /\ call' = "none" /\ seen' = seen
          /\ peek_stack' = peek_stack /\ returned' = Append(returned, tok)
      BY <1>4 DEF Emit, Return
    <2>2. QED
      BY <1>1, <1>3, <2>1 DEF TypeOK
  <1>5. CASE call = "peek"
    <2>1. peek_stack' = queue /\ returned' = returned
      BY <1>5 DEF Emit, Return
    <2>2. CASE Len(queue) <= ahead
      <3>1. mode' = "lex" /\ call' = call /\ seen' = seen
        BY <1>5, <2>2 DEF Emit, Return
      <3>2. QED
        BY <1>1, <1>3, <1>5, <2>1, <3>1 DEF TypeOK
    <2>3. CASE ~ (Len(queue) <= ahead)
      <3>1. /\ mode' = "idle" /\ call' = "none"
            /\ seen' = [at |-> Len(returned) + ahead + 1, tok |-> queue[ahead + 1]]
        BY <1>5, <2>3 DEF Emit, Return, Answer
      <3> HIDE DEF queue, tok
      <3>2. ahead \in Nat /\ Len(returned) \in Nat
        BY DEF TypeOK
      <3>3. Len(queue) \in Nat /\ ahead + 1 \in 1 .. Len(queue)
        BY <1>1, <2>3, <3>2
      <3>4. queue[ahead + 1] \in Token
        BY <1>1, <3>3
      <3>5. seen' \in [at : Nat, tok : Token]
        BY <3>1, <3>2, <3>4
      <3>6. peek_stack' \in Seq(Token) /\ returned' \in Seq(Token)
        BY <1>1, <2>1 DEF TypeOK
      <3>7. QED
        BY <1>3, <3>1, <3>5, <3>6 DEF TypeOK
    <2>4. QED
      BY <2>2, <2>3
  <1>6. QED
    BY <1>4, <1>5 DEF TypeOK

LEMMA ConsumeTypes ==
  ASSUME TypeOK, mode # "idle", NEW class \in Consuming,
         NEW s \in 0 .. Len(text), NEW e \in s .. Len(text), Consume(class, s, e)
  PROVE  TypeOK'
  BY TextIsSeq DEF TypeOK, Consume, Consuming

LEMMA TypeStep == TypeOK /\ [Next]_vars => TypeOK'
  <1> SUFFICES ASSUME TypeOK, [Next]_vars PROVE TypeOK'
    OBVIOUS
  <1> USE TextIsSeq
  <1>t. End \in start .. Len(text) /\ End \in 0 .. Len(text) /\ start \in 0 .. Len(text)
    BY DEF TypeOK, End
  <1>1. CASE NextQueued
    BY <1>1 DEF NextQueued, TypeOK, span
  <1>2. CASE NextLexed
    BY <1>2 DEF NextLexed, TypeOK, span
  <1>3. ASSUME NEW n \in 0 .. Lookahead, PeekQueued(n)
        PROVE  TypeOK'
    <2>1. peek_stack[n + 1] \in Token /\ Len(returned) + n + 1 \in Nat
      BY <1>3 DEF PeekQueued, TypeOK
    <2>2. seen' \in [at : Nat, tok : Token]
      BY <1>3, <2>1 DEF PeekQueued, Answer
    <2>3. QED
      BY <1>3, <2>2 DEF PeekQueued, TypeOK, span
  <1>4. ASSUME NEW n \in 0 .. Lookahead, PeekLexed(n)
        PROVE  TypeOK'
    BY <1>4 DEF PeekLexed, TypeOK, span
  <1>5. CASE LexEof
    BY <1>5, <1>t, EmitTypes, WordTypesOK DEF LexEof, TypeOK
  <1>6. CASE LexOperator
    <2>1. CASE <<first, second>> \in DOMAIN TwoChar
      <3>1. start + 2 \in start .. Len(text)
        BY <2>1, <1>t, TwoCharFits
      <3>2. QED
        BY <1>6, <2>1, <3>1, <1>t, EmitTypes, OperatorTypes DEF LexOperator, TypeOK
    <2>2. CASE <<first, second>> \notin DOMAIN TwoChar
      <3>1. start + 1 \in start .. Len(text)
        BY <1>6, <1>t DEF LexOperator, EofAt
      <3>2. QED
        BY <1>6, <2>2, <3>1, <1>t, EmitTypes, OperatorTypes DEF LexOperator, TypeOK
    <2>3. QED
      BY <2>1, <2>2
  <1>7. CASE LexComment
    BY <1>7, <1>t, ConsumeTypes DEF LexComment, EofAt, Consuming, TypeOK
  <1>8. CASE LexString
    BY <1>8, <1>t, ConsumeTypes DEF LexString, EofAt, Consuming, TypeOK
  <1>9. CASE LexUnexpected
    <2>1. messages' \in Seq(Span)
      BY <1>9 DEF LexUnexpected, TypeOK, Span
    <2>2. QED
      BY <1>9, <2>1, <1>t, EmitTypes, WordTypesOK DEF LexUnexpected, EofAt, TypeOK
  <1>10. ASSUME NEW class \in Consuming, NEW firsts, LexClass(class, firsts)
         PROVE  TypeOK'
    BY <1>10, <1>t, ConsumeTypes DEF LexClass, EofAt, TypeOK
  <1>11. CASE ConsumeMore
    <2>1. AfterNextCh(End) \in End .. Len(text)
      BY <1>t, NextChBound
    <2>2. length' \in 0 .. Len(text) - start
      BY <1>11, <2>1, <1>t DEF ConsumeMore
    <2>3. QED
      BY <1>11, <2>2 DEF ConsumeMore, TypeOK
  <1>12. CASE BlankDone
    <2>1. AfterEat(mode, End) \in 0 .. Len(text)
      BY <1>t, NextChBound
    <2>2. QED
      BY <1>12, <2>1 DEF BlankDone, Consumed, TypeOK
  <1>13. CASE IdentDone
    BY <1>13, <1>t, NextChBound, EmitTypes, WordTypesOK DEF IdentDone, Consumed, TypeOK
  <1>14. CASE IntDone
    <2> DEFINE end == AfterEat("int", End)
    <2>0. end \in End .. Len(text)
      BY <1>t, NextChBound
    <2>1. end \in start .. Len(text) /\ AfterNextCh(end) \in end .. Len(text)
      BY <2>0, <1>t, NextChBound
    <2>2. mode # "idle"
      BY <1>14 DEF IntDone, Consumed
    <2>3. CASE CharAt(end) = "dot"
      BY <1>14, <2>1, <2>2, <2>3, <1>t, ConsumeTypes DEF IntDone, Consuming
    <2>4. CASE CharAt(end) # "dot"
      <3>1. Emit("INT", end, end) /\ messages' = messages
        BY <1>14, <2>4 DEF IntDone
      <3>2. QED
        BY <3>1, <2>1, <2>2, <1>t, EmitTypes, WordTypesOK DEF TypeOK
    <2>5. QED
      BY <2>3, <2>4
  <1>15. CASE FracDone
    BY <1>15, <1>t, NextChBound, EmitTypes, WordTypesOK DEF FracDone, Consumed, TypeOK
  <1>16. CASE StringDone
    <2> DEFINE end == AfterEat("string", End)
    <2>0. end \in End .. Len(text)
      BY <1>t, NextChBound
    <2>1. end \in start .. Len(text) /\ AfterNextCh(end) \in end .. Len(text)
      BY <2>0, <1>t, NextChBound
    <2>2. QED
      BY <1>16, <2>1, <1>t, EmitTypes, WordTypesOK DEF StringDone, Consumed, TypeOK
  <1>17. CASE UNCHANGED vars
    BY <1>17 DEF vars, TypeOK
  <1>18. QED
    BY <1>1, <1>2, <1>3, <1>4, <1>5, <1>6, <1>7, <1>8, <1>9, <1>10, <1>11, <1>12,
       <1>13, <1>14, <1>15, <1>16, <1>17
       DEF Next, LexNext, Consuming

LEMMA TypeInit == Init => TypeOK
  BY DEF Init, TypeOK, NoAnswer, Token, TokenType, WordTypes

(***************************************************************************)
(* Every reachable state of the lexer is well typed: in particular, its    *)
(* span never leaves the text (the at() of nextCh and peekCh never throws).*)
(***************************************************************************)
THEOREM TypeCorrect == Spec => []TypeOK
  BY TypeInit, TypeStep, PTL DEF Spec

----------------------------------------------------------------------------
(***************************************************************************)
(* Appending and concatenating.                                            *)
(***************************************************************************)
LEMMA AppendFacts ==
  ASSUME NEW S, NEW s \in Seq(S), NEW x \in S
  PROVE  /\ Append(s, x) \in Seq(S)
         /\ Len(s) \in Nat
         /\ Len(Append(s, x)) = Len(s) + 1
         /\ \A i \in 1 .. Len(s) : Append(s, x)[i] = s[i]
         /\ Append(s, x)[Len(s) + 1] = x
  OBVIOUS

LEMMA ConcatAppend ==
  ASSUME NEW S, NEW r \in Seq(S), NEW p \in Seq(S), NEW x \in S
  PROVE  /\ r \o Append(p, x) = Append(r \o p, x)
         /\ p = <<>> => Append(r, x) \o p = Append(r \o p, x)
  OBVIOUS

LEMMA ConcatFacts ==
  ASSUME NEW S, NEW r \in Seq(S), NEW p \in Seq(S)
  PROVE  /\ r \o p \in Seq(S)
         /\ Len(r \o p) = Len(r) + Len(p)
         /\ \A i \in 1 .. Len(p) : (r \o p)[Len(r) + i] = p[i]
  OBVIOUS

(***************************************************************************)
(* The sequence of all tokens lexed, and where it ends.                    *)
(***************************************************************************)
LEMMA LexedType ==
  ASSUME TypeOK
  PROVE  lexed \in Seq(Token) /\ Len(lexed) = Len(returned) + Len(peek_stack)
  BY DEF TypeOK, lexed

LEMMA AfterType == ASSUME TypeOK, NEW tok \in Token PROVE After(text, tok) \in Nat
  BY TextIsSeq DEF After, Token

LEMMA FrontType == ASSUME TypeOK PROVE Front \in Nat
  <1>1. CASE lexed = <<>>
    BY <1>1 DEF Front, EndOf
  <1>2. CASE lexed # <<>>
    <2>1. lexed[Len(lexed)] \in Token
      BY <1>2, LexedType
    <2>2. QED
      BY <1>2, <2>1, AfterType DEF Front, EndOf
  <1>3. QED
    BY <1>1, <1>2

\* Popping the queue into the history moves no token of the stream.
LEMMA PopLexed == ASSUME TypeOK, NextQueued PROVE lexed' = lexed
  <1>1. /\ returned \in Seq(Token) /\ peek_stack \in Seq(Token) /\ peek_stack # <<>>
        /\ returned' = Append(returned, Head(peek_stack)) /\ peek_stack' = Tail(peek_stack)
    BY DEF TypeOK, NextQueued
  <1>2. \A r, p \in Seq(Token) : p # <<>> => Append(r, Head(p)) \o Tail(p) = r \o p
    OBVIOUS
  <1>3. QED
    BY <1>1, <1>2 DEF lexed

\* A token emitted is appended to the stream.
LEMMA EmitLexed ==
  ASSUME TypeOK, Scan, mode # "idle", NEW type \in TokenType,
         NEW end \in start .. Len(text), NEW from \in 0 .. Len(text),
         Emit(type, end, from)
  PROVE  lexed' = Append(lexed, [type |-> type, start |-> start, length |-> end - start])
  <1> DEFINE tok == [type |-> type, start |-> start, length |-> end - start]
  <1>1. tok \in Token
    BY DEF TypeOK, Token
  <1>s. returned \in Seq(Token) /\ peek_stack \in Seq(Token)
    BY DEF TypeOK
  <1>2. CASE call = "next"
    <2>1. peek_stack = <<>> /\ peek_stack' = peek_stack /\ returned' = Append(returned, tok)
      BY <1>2 DEF Emit, Return, Scan
    <2> HIDE DEF tok
    <2>2. lexed' = Append(lexed, tok)
      BY <1>1, <1>s, <2>1, ConcatAppend DEF lexed
    <2>3. QED
      BY <2>2 DEF tok
  <1>3. CASE call = "peek"
    <2>1. peek_stack' = Append(peek_stack, tok) /\ returned' = returned
      BY <1>3 DEF Emit, Return
    <2> HIDE DEF tok
    <2>2. lexed' = Append(lexed, tok)
      BY <1>1, <1>s, <2>1, ConcatAppend DEF lexed
    <2>3. QED
      BY <2>2 DEF tok
  <1>4. QED
    BY <1>2, <1>3 DEF TypeOK

(***************************************************************************)
(* The inductive invariant.                                                *)
(***************************************************************************)
IInv == TypeOK /\ Scan /\ StreamInOrder /\ PeekForetells /\ UnexpectedReportedOnce

(***************************************************************************)
(* Emitting the next token of the text keeps it.                           *)
(***************************************************************************)
LEMMA EmitStep ==
  ASSUME IInv, mode # "idle", NEW type \in TokenType,
         NEW end \in start .. Len(text), NEW from \in start .. Len(text),
         Emit(type, end, from),
         IsNextToken(text, Front, [type |-> type, start |-> start, length |-> end - start]),
         After(text, [type |-> type, start |-> start, length |-> end - start]) = from,
         \/ /\ messages' = messages
            /\ ~ (type = "END_OF_FILE" /\ end > start)
         \/ /\ messages' = Append(messages, [start |-> start, length |-> 1])
            /\ type = "END_OF_FILE"
            /\ end > start
            /\ from > start
  PROVE  Scan' /\ StreamInOrder' /\ PeekForetells' /\ UnexpectedReportedOnce'
  <1> DEFINE tok == [type |-> type, start |-> start, length |-> end - start]
             queue == Append(peek_stack, tok)
  <1> USE DEF IInv
  <1>1. /\ tok \in Token /\ tok.type = type /\ tok.start = start
        /\ Unexpected(tok) <=> type = "END_OF_FILE" /\ end > start
        /\ lexed \in Seq(Token) /\ Len(lexed) \in Nat
    BY LexedType DEF TypeOK, Token, Unexpected
  <1>f. from \in 0 .. Len(text)
    BY TextIsSeq DEF TypeOK
  <1>2. lexed' = Append(lexed, tok)
    BY <1>f, EmitLexed
  <1>l. Len(lexed) \in Nat
    BY <1>1
  <1>3. text' = text /\ start' = from /\ length' = 0 /\ ahead' = ahead
    BY DEF Emit
  <1>4. queue \in Seq(Token) /\ Len(queue) = Len(peek_stack) + 1
        /\ Len(peek_stack) \in Nat /\ Len(returned) \in Nat /\ ahead \in Nat
        /\ returned \in Seq(Token) /\ peek_stack \in Seq(Token)
    BY <1>1 DEF TypeOK
  <1>5. \/ call' = "none" /\ mode' = "idle" /\ seen' = seen
        \/ call' = "peek" /\ mode' = "lex" /\ seen' = seen
             /\ peek_stack' = queue /\ Len(queue) <= ahead
        \/ /\ call' = "none" /\ mode' = "idle" /\ seen' = Answer(queue, ahead)
           /\ peek_stack' = queue /\ ~ (Len(queue) <= ahead)
           /\ Len(peek_stack) <= ahead
    <2>1. Return(tok)
      BY DEF Emit
    <2>2. call = "peek" => Len(peek_stack) <= ahead
      BY DEF Scan
    <2> HIDE DEF tok, IInv
    <2>3. QED
      BY <2>1, <2>2 DEF Return
  <1>t. IsNextToken(text, Front, tok) /\ After(text, tok) = from
    OBVIOUS
  <1>a. /\ Len(lexed') = Len(lexed) + 1 /\ lexed'[Len(lexed) + 1] = tok
        /\ \A i \in 1 .. Len(lexed) : lexed'[i] = lexed[i]
    BY <1>1, <1>2, AppendFacts
  <1>s. start \in Nat /\ from \in Nat /\ start <= from
    BY TextIsSeq DEF TypeOK
  <1> HIDE DEF tok, queue
  <1>6. Front' = from
    BY <1>1, <1>2, <1>3, <1>t DEF Front, EndOf
  <1>7. StreamInOrder'
    <2> SUFFICES ASSUME NEW i \in 1 .. Len(lexed) + 1
                 PROVE  IsNextToken(text, IF i = 1 THEN 0 ELSE After(text, lexed'[i - 1]),
                                    lexed'[i])
      BY <1>1, <1>2, <1>3 DEF StreamInOrder
    <2>1. CASE i <= Len(lexed)
      <3>1. lexed'[i] = lexed[i] /\ (i # 1 => lexed'[i - 1] = lexed[i - 1])
        BY <1>1, <1>a, <2>1
      <3>2. QED
        BY <1>1, <2>1, <3>1 DEF StreamInOrder
    <2>2. CASE i = Len(lexed) + 1
      <3>1. lexed'[i] = tok /\ (i # 1 => lexed'[i - 1] = lexed[Len(lexed)])
        BY <1>1, <1>a, <2>2
      <3>2. i = 1 <=> lexed = <<>>
        BY <1>1, <2>2
      <3>3. Front = IF i = 1 THEN 0 ELSE After(text, lexed'[i - 1])
        BY <3>1, <3>2 DEF Front, EndOf
      <3>4. QED
        BY <1>t, <3>1, <3>3
    <2>3. QED
      BY <1>l, <2>1, <2>2
  <1>8. PeekForetells'
    <2>1. CASE seen' = seen
      <3>1. seen.at \in Nat
        BY DEF TypeOK
      <3>2. QED
        BY <1>1, <1>a, <2>1, <3>1 DEF PeekForetells
    <2>2. CASE /\ seen' = Answer(queue, ahead) /\ ~ (Len(queue) <= ahead)
               /\ Len(peek_stack) <= ahead
      <3>1. ahead = Len(peek_stack) /\ queue[ahead + 1] = tok
        BY <1>1, <1>4, <2>2, AppendFacts DEF queue
      <3>2. seen'.at = Len(lexed) + 1 /\ seen'.tok = tok
        BY <1>4, <2>2, <3>1, LexedType DEF Answer
      <3>3. QED
        BY <1>1, <1>a, <3>2 DEF PeekForetells
    <2>3. QED
      BY <1>5, <2>1, <2>2
  <1>9. UnexpectedReportedOnce' /\ \A m \in 1 .. Len(messages') : messages'[m].start < start'
    <2>0. /\ messages \in Seq(Span)
          /\ \A m \in 1 .. Len(messages) : messages[m].start < start
          /\ Len(messages) \in Nat
          /\ \A m \in 1 .. Len(messages) : messages[m].start \in Nat
      <3>1. messages \in Seq(Span) /\ \A m \in 1 .. Len(messages) : messages[m].start < start
        BY DEF TypeOK, Scan
      <3>2. Len(messages) \in Nat /\ \A m \in 1 .. Len(messages) : messages[m] \in Span
        BY <3>1
      <3>3. QED
        BY <3>1, <3>2 DEF Span
    <2>1. CASE messages' = messages /\ ~ (type = "END_OF_FILE" /\ end > start)
      <3>1. ~ Unexpected(tok)
        BY <1>1, <2>1
      <3>2. \A m \in 1 .. Len(messages') : messages'[m].start < start'
        BY <1>3, <1>s, <2>0, <2>1
      <3>3. \A i, j \in 1 .. Len(messages') :
              i < j => messages'[i].start < messages'[j].start
        BY <2>1 DEF UnexpectedReportedOnce
      <3>4. \A i \in 1 .. Len(lexed') : Unexpected(lexed'[i]) =>
              \E m \in 1 .. Len(messages') : messages'[m].start = lexed'[i].start
        <4> SUFFICES ASSUME NEW i \in 1 .. Len(lexed) + 1, Unexpected(lexed'[i])
                     PROVE  \E m \in 1 .. Len(messages) : messages[m].start = lexed'[i].start
          BY <1>a, <2>1
        <4>1. i \in 1 .. Len(lexed)
          BY <1>a, <1>l, <3>1
        <4>2. lexed'[i] = lexed[i]
          BY <1>a, <4>1
        <4>3. QED
          BY <4>1, <4>2 DEF UnexpectedReportedOnce
      <3>5. \A m \in 1 .. Len(messages') : \E i \in 1 .. Len(lexed') :
              Unexpected(lexed'[i]) /\ lexed'[i].start = messages'[m].start
        <4> SUFFICES ASSUME NEW m \in 1 .. Len(messages)
                     PROVE  \E i \in 1 .. Len(lexed') :
                       Unexpected(lexed'[i]) /\ lexed'[i].start = messages[m].start
          BY <2>1
        <4>1. PICK i \in 1 .. Len(lexed) :
                Unexpected(lexed[i]) /\ lexed[i].start = messages[m].start
          BY DEF UnexpectedReportedOnce
        <4>2. i \in 1 .. Len(lexed') /\ lexed'[i] = lexed[i]
          BY <1>1, <1>a
        <4>3. QED
          BY <4>1, <4>2
      <3>6. QED
        BY <3>2, <3>3, <3>4, <3>5 DEF UnexpectedReportedOnce
    <2>2. CASE /\ messages' = Append(messages, [start |-> start, length |-> 1])
               /\ type = "END_OF_FILE" /\ end > start /\ from > start
      <3> DEFINE msg == [start |-> start, length |-> 1]
                 n == Len(messages)
      <3>1. msg \in Span /\ msg.start = start
        BY <1>s DEF Span
      <3>m. messages' = Append(messages, msg)
        BY <2>2
      <3> HIDE DEF msg
      <3>2. /\ Len(messages') = n + 1 /\ messages'[n + 1] = msg
            /\ \A m \in 1 .. n : messages'[m] = messages[m]
        BY <2>0, <3>1, <3>m, AppendFacts
      <3>p. n \in Nat
        BY <2>0
      <3> HIDE DEF n
      <3>o. \A m \in 1 .. n + 1 :
              /\ m # n + 1 => messages'[m] = messages[m] /\ messages[m].start < start
              /\ m = n + 1 => messages'[m].start = start
        BY <2>0, <3>1, <3>2, <3>p DEF n
      <3>3. \A m \in 1 .. Len(messages') : messages'[m].start < start'
        <4> SUFFICES ASSUME NEW m \in 1 .. n + 1 PROVE messages'[m].start < from
          BY <1>3, <3>2
        <4>1. CASE m = n + 1
          BY <2>2, <3>1, <3>2, <4>1
        <4>2. CASE m \in 1 .. n
          <5>1. messages'[m] = messages[m] /\ messages[m].start < start
                /\ messages[m].start \in Nat
            BY <2>0, <3>2, <4>2 DEF n
          <5>2. QED
            BY <1>s, <5>1
        <4>3. QED
          BY <3>p, <4>1, <4>2
      <3>4. \A i, j \in 1 .. Len(messages') :
              i < j => messages'[i].start < messages'[j].start
        <4> SUFFICES ASSUME NEW i \in 1 .. n + 1, NEW j \in 1 .. n + 1, i < j
                     PROVE  messages'[i].start < messages'[j].start
          BY <3>2
        <4>1. i \in 1 .. n /\ messages'[i] = messages[i]
          BY <3>p, <3>2
        <4>2. CASE j = n + 1
          BY <2>0, <3>1, <3>2, <4>1, <4>2 DEF n
        <4>3. CASE j \in 1 .. n
          <5>1. messages'[j] = messages[j]
            BY <3>2, <4>3
          <5>2. QED
            BY <4>1, <4>3, <5>1 DEF UnexpectedReportedOnce, n
        <4>4. QED
          BY <3>p, <4>2, <4>3
      <3>5. \A i \in 1 .. Len(lexed') : Unexpected(lexed'[i]) =>
              \E m \in 1 .. Len(messages') : messages'[m].start = lexed'[i].start
        <4> SUFFICES ASSUME NEW i \in 1 .. Len(lexed) + 1, Unexpected(lexed'[i])
                     PROVE  \E m \in 1 .. n + 1 : messages'[m].start = lexed'[i].start
          BY <1>a, <3>2
        <4>1. CASE i = Len(lexed) + 1
          <5>1. n + 1 \in 1 .. n + 1 /\ messages'[n + 1].start = lexed'[i].start
            BY <1>1, <1>a, <3>1, <3>2, <3>p, <4>1
          <5>2. QED
            BY <5>1
        <4>2. CASE i \in 1 .. Len(lexed)
          <5>1. lexed'[i] = lexed[i]
            BY <1>a, <4>2
          <5>2. PICK m \in 1 .. n : messages[m].start = lexed[i].start
            BY <4>2, <5>1 DEF UnexpectedReportedOnce, n
          <5>3. m \in 1 .. n + 1 /\ messages'[m] = messages[m]
            BY <3>2, <3>p
          <5>4. QED
            BY <5>1, <5>2, <5>3
        <4>3. QED
          BY <1>1, <4>1, <4>2
      <3>6. \A m \in 1 .. Len(messages') : \E i \in 1 .. Len(lexed') :
              Unexpected(lexed'[i]) /\ lexed'[i].start = messages'[m].start
        <4> SUFFICES ASSUME NEW m \in 1 .. n + 1
                     PROVE  \E i \in 1 .. Len(lexed) + 1 :
                       Unexpected(lexed'[i]) /\ lexed'[i].start = messages'[m].start
          BY <1>a, <3>2
        <4>1. CASE m = n + 1
          <5>1. /\ Len(lexed) + 1 \in 1 .. Len(lexed) + 1
                /\ Unexpected(lexed'[Len(lexed) + 1])
                /\ lexed'[Len(lexed) + 1].start = messages'[m].start
            BY <1>1, <1>a, <2>2, <3>1, <3>2, <4>1
          <5>2. QED
            BY <5>1
        <4>2. CASE m \in 1 .. n
          <5>1. messages'[m] = messages[m]
            BY <3>2, <4>2
          <5>2. PICK i \in 1 .. Len(lexed) :
                  Unexpected(lexed[i]) /\ lexed[i].start = messages[m].start
            BY <4>2 DEF UnexpectedReportedOnce, n
          <5>3. i \in 1 .. Len(lexed) + 1 /\ lexed'[i] = lexed[i]
            BY <1>1, <1>a
          <5>4. QED
            BY <5>1, <5>2, <5>3
        <4>3. QED
          BY <3>p, <4>1, <4>2
      <3>7. QED
        BY <3>3, <3>4, <3>5, <3>6 DEF UnexpectedReportedOnce
    <2>3. QED
      BY <2>1, <2>2
  <1>10. BlankTo(start)'
    BY <1>3, <1>6, <1>s DEF BlankTo
  <1>11. QED
    BY <1>3, <1>4, <1>5, <1>6, <1>7, <1>8, <1>9, <1>10 DEF Scan

(***************************************************************************)
(* A step that emits nothing keeps all but the scan itself.                *)
(***************************************************************************)
LEMMA KeepStream ==
  ASSUME IInv, UNCHANGED <<text, returned, peek_stack, messages>>
  PROVE  /\ StreamInOrder' /\ UnexpectedReportedOnce'
         /\ lexed' = lexed /\ Front' = Front
         /\ seen' = seen => PeekForetells'
  BY DEF IInv, lexed, StreamInOrder, PeekForetells, UnexpectedReportedOnce, Front

LEMMA KeepScan ==
  ASSUME IInv, mode # "idle", start' \in start .. Len(text),
         UNCHANGED <<text, call, ahead, peek_stack, messages, returned, seen>>
  PROVE  /\ StreamInOrder' /\ UnexpectedReportedOnce' /\ PeekForetells'
         /\ Front' = Front
         /\ call' # "none"
         /\ call' = "next" => peek_stack' = <<>>
         /\ call' = "peek" => Len(peek_stack') <= ahead'
         /\ \A m \in 1 .. Len(messages') : messages'[m].start < start'
  <1>1. \A m \in 1 .. Len(messages) : messages[m].start < start'
    <2> SUFFICES ASSUME NEW m \in 1 .. Len(messages) PROVE messages[m].start < start'
      OBVIOUS
    <2>1. messages[m].start < start
      BY DEF IInv, Scan
    <2>2. messages[m] \in Span
      BY DEF IInv, TypeOK
    <2>3. messages[m].start \in Nat /\ start \in Nat
      BY <2>2 DEF Span, IInv, TypeOK
    <2>4. start' \in Nat /\ start <= start'
      BY <2>3, TextIsSeq DEF IInv
    <2>5. QED
      BY <2>1, <2>3, <2>4
  <1>2. QED
    BY <1>1, KeepStream DEF IInv, Scan, TypeOK

(***************************************************************************)
(* What is blank and what is of a class, a character at a time.            *)
(***************************************************************************)
LEMMA BlankExtends ==
  ASSUME TypeOK, NEW x \in Nat, BlankTo(x), x < Len(text), text[x + 1] \in Whitespace
  PROVE  BlankTo(x + 1)
  <1>1. Front \in Nat /\ Front <= x
    BY FrontType DEF BlankTo
  <1>2. \A i \in Front .. x : BlankAt(text, Front, i)
    BY <1>1 DEF BlankTo, BlankAt
  <1>3. ASSUME NEW c \in Front .. x, CommentOver(text, c, x + 1)
        PROVE  FALSE
    <2>1. c = x
      <3>1. c \in Nat /\ c <= x
        BY <1>1
      <3>2. CommentOver(text, c, x)
        BY <1>3, <3>1 DEF CommentOver
      <3>3. QED
        BY <1>1, <3>1, <3>2 DEF BlankTo
    <2>2. QED
      BY <1>3, <2>1 DEF CommentOver, SlashSlash, Whitespace
  <1>4. QED
    BY <1>1, <1>2, <1>3 DEF BlankTo

LEMMA NotBlank ==
  ASSUME TypeOK, NEW x \in Nat, BlankTo(x), x <= Len(text),
         x < Len(text) => text[x + 1] \notin Whitespace /\ ~ SlashSlash(text, x)
  PROVE  BlankEnd(text, Front, x)
  <1>1. Front \in Nat /\ Front <= x
    BY FrontType DEF BlankTo
  <1>2. ASSUME x < Len(text), NEW c \in Front .. x, CommentOver(text, c, x)
        PROVE  FALSE
    <2>1. c \in Front .. x - 1 \/ c = x
      BY <1>1
    <2>2. QED
      BY <1>2, <2>1 DEF CommentOver, BlankTo
  <1>3. x < Len(text) => ~ BlankAt(text, Front, x)
    BY <1>2 DEF BlankAt
  <1>4. QED
    BY <1>3 DEF BlankEnd, BlankTo

LEMMA AllInExtends ==
  ASSUME NEW class, NEW from \in Nat, NEW to \in Nat, AllIn(class, from, to),
         InClass(class, text[to + 1])
  PROVE  AllIn(class, from, to + 1)
  BY DEF AllIn

\* At the end of a consume() the run of its class is complete.
LEMMA RunDone ==
  ASSUME TypeOK, NEW class, Consumed(class), NEW from \in 0 .. Len(text),
         from <= End, AllIn(class, from, End)
  PROVE  /\ Run(text, class, from, AfterEat(class, End))
         /\ AllIn(class, from, AfterEat(class, End))
         /\ AfterEat(class, End) \in End .. Len(text)
  <1> DEFINE e == AfterEat(class, End)
  <1>1. End \in 0 .. Len(text) /\ Len(text) \in Nat
    BY TextIsSeq DEF TypeOK, End
  <1>2. e \in End .. Len(text) /\ e \in Nat
    BY <1>1, NextChBound
  <1>3. CASE InClass(class, CharAt(End))
    <2>1. e = AfterNextCh(End) /\ EofAt(AfterNextCh(End))
      BY <1>3 DEF AfterEat, Consumed
    <2>2. e = Len(text)
      BY <1>1, <1>2, <2>1 DEF EofAt
    <2>3. AllIn(class, from, e)
      <3>1. CASE EofAt(End)
        BY <2>1, <3>1 DEF AfterNextCh
      <3>2. CASE ~ EofAt(End)
        <4>1. e = End + 1 /\ InClass(class, text[End + 1])
          BY <1>3, <2>1, <3>2 DEF AfterNextCh, CharAt
        <4>2. QED
          BY <1>1, <4>1, AllInExtends
      <3>3. QED
        BY <3>1, <3>2
    <2> HIDE DEF e
    <2>4. QED
      BY <1>1, <1>2, <2>2, <2>3 DEF Run, AllIn, e
  <1>4. CASE ~ InClass(class, CharAt(End))
    <2>1. e = End
      BY <1>4 DEF AfterEat
    <2>2. End < Len(text) => ~ InClass(class, text[End + 1])
      BY <1>1, <1>4 DEF CharAt, EofAt
    <2>3. QED
      BY <1>1, <2>1, <2>2 DEF Run, AllIn
  <1>5. QED
    BY <1>3, <1>4

----------------------------------------------------------------------------
(***************************************************************************)
(* One lemma for each kind of step.                                        *)
(***************************************************************************)
LEMMA InitIInv == Init => IInv
  <1> SUFFICES ASSUME Init PROVE IInv
    OBVIOUS
  <1>1. TypeOK
    BY TypeInit
  <1>2. lexed = <<>> /\ messages = <<>>
    BY DEF Init, lexed
  <1>3. Scan
    BY <1>2 DEF Init, Scan, Front, EndOf, Consuming
  <1>4. StreamInOrder /\ UnexpectedReportedOnce
    BY <1>2 DEF StreamInOrder, UnexpectedReportedOnce
  <1>5. PeekForetells
    BY DEF Init, PeekForetells, NoAnswer
  <1>6. QED
    BY <1>1, <1>3, <1>4, <1>5 DEF IInv

LEMMA CallStep ==
  ASSUME IInv,
         \/ NextQueued \/ NextLexed
         \/ \E n \in 0 .. Lookahead : PeekQueued(n) \/ PeekLexed(n)
  PROVE  Scan' /\ StreamInOrder' /\ PeekForetells' /\ UnexpectedReportedOnce'
  <1>t. TypeOK /\ returned \in Seq(Token) /\ peek_stack \in Seq(Token)
    BY DEF IInv, TypeOK
  <1>1. call = "none" /\ mode = "idle" /\ length = 0 /\ start = Front
        /\ \A m \in 1 .. Len(messages) : messages[m].start < start
    BY DEF IInv, TypeOK, Scan, NextQueued, NextLexed, PeekQueued, PeekLexed
  <1>2. BlankTo(start)
    BY <1>1, <1>t, FrontType DEF BlankTo
  <1>3. CASE NextQueued
    <2>1. lexed' = lexed
      BY <1>3, <1>t, PopLexed
    <2>2. text' = text /\ start' = start /\ messages' = messages /\ seen' = seen
          /\ call' = call /\ mode' = mode /\ length' = length
      BY <1>3 DEF NextQueued, span
    <2>3. Front' = Front
      BY <2>1, <2>2 DEF Front
    <2>4. Scan'
      BY <1>1, <2>2, <2>3 DEF Scan
    <2>5. QED
      BY <2>1, <2>2, <2>4 DEF IInv, StreamInOrder, PeekForetells, UnexpectedReportedOnce
  <1>4. CASE NextLexed
    <2>1. UNCHANGED <<text, start, length, returned, peek_stack, messages, seen>>
          /\ mode' = "lex" /\ call' = "next" /\ peek_stack = <<>>
      BY <1>4 DEF NextLexed, span
    <2>2. BlankTo(start)'
      BY <1>2, <2>1, KeepStream DEF BlankTo
    <2>3. Scan'
      BY <1>1, <2>1, <2>2 DEF Scan
    <2>4. QED
      BY <2>1, <2>3, KeepStream
  <1>5. ASSUME NEW n \in 0 .. Lookahead, PeekQueued(n)
        PROVE  Scan' /\ StreamInOrder' /\ PeekForetells' /\ UnexpectedReportedOnce'
    <2>1. UNCHANGED <<text, start, length, mode, call, returned, peek_stack, messages>>
          /\ seen' = Answer(peek_stack, n)
      BY <1>5 DEF PeekQueued, span
    <2>2. n \in Nat /\ n + 1 \in 1 .. Len(peek_stack) /\ Len(returned) \in Nat
          /\ Len(peek_stack) \in Nat
      BY <1>5, <1>t DEF PeekQueued
    <2>3. seen'.at = Len(returned) + n + 1 /\ seen'.tok = peek_stack[n + 1]
      BY <2>1 DEF Answer
    <2>4. lexed[Len(returned) + (n + 1)] = peek_stack[n + 1]
          /\ Len(lexed) = Len(returned) + Len(peek_stack)
      BY <1>t, <2>2, ConcatFacts DEF lexed
    <2>5. PeekForetells'
      BY <2>1, <2>2, <2>3, <2>4, KeepStream DEF PeekForetells
    <2>6. Scan'
      BY <1>1, <2>1, KeepStream DEF Scan
    <2>7. QED
      BY <2>1, <2>5, <2>6, KeepStream
  <1>6. ASSUME NEW n \in 0 .. Lookahead, PeekLexed(n)
        PROVE  Scan' /\ StreamInOrder' /\ PeekForetells' /\ UnexpectedReportedOnce'
    <2>1. UNCHANGED <<text, start, length, returned, peek_stack, messages, seen>>
          /\ mode' = "lex" /\ call' = "peek" /\ ahead' = n /\ Len(peek_stack) <= n
      BY <1>6 DEF PeekLexed, span
    <2>2. BlankTo(start)'
      BY <1>2, <2>1, KeepStream DEF BlankTo
    <2>3. Scan'
      BY <1>1, <2>1, <2>2 DEF Scan
    <2>4. QED
      BY <2>1, <2>3, KeepStream
  <1>7. QED
    BY <1>3, <1>4, <1>5, <1>6

\* The steps that only consume: a run is begun, or a character added to it.
LEMMA BeginStep ==
  ASSUME IInv,
         \/ LexComment \/ LexString
         \/ LexClass("blank", Whitespace)
         \/ LexClass("ident", IdentifierFirst)
         \/ LexClass("int", Numeric)
  PROVE  Scan' /\ StreamInOrder' /\ PeekForetells' /\ UnexpectedReportedOnce'
  <1>1. mode = "lex" /\ start < Len(text) /\ first = text[start + 1] /\ start \in Nat
        /\ TypeOK /\ Len(text) \in Nat /\ BlankTo(start)
    BY TextIsSeq DEF IInv, TypeOK, Scan, LexComment, LexString, LexClass, first, CharAt, EofAt
  <1>2. UNCHANGED <<text, call, ahead, peek_stack, messages, returned, seen>>
        /\ (start' = start \/ start' = start + 1)
    BY DEF LexComment, LexString, LexClass, Consume
  <1>3. /\ StreamInOrder' /\ UnexpectedReportedOnce' /\ PeekForetells'
        /\ Front' = Front /\ call' # "none"
        /\ call' = "next" => peek_stack' = <<>>
        /\ call' = "peek" => Len(peek_stack') <= ahead'
        /\ \A m \in 1 .. Len(messages') : messages'[m].start < start'
    BY <1>1, <1>2, KeepScan
  <1>4. CASE LexComment
    <2>1. mode' = "comment" /\ start' = start /\ length' = 1 /\ End' = start + 1
      BY <1>1, <1>4 DEF LexComment, Consume, End
    <2>2. SlashSlash(text, start)
      BY <1>1, <1>4 DEF LexComment, SlashSlash, second, CharAt, EofAt
    <2>3. AllIn("comment", start, start + 1)
      BY <1>1, <2>2 DEF AllIn, SlashSlash, InClass
    <2>4. QED
      BY <1>1, <1>2, <1>3, <2>1, <2>2, <2>3 DEF Scan, BlankTo, AllIn
  <1>5. CASE LexString
    <2>1. mode' = "string" /\ start' = start + 1 /\ length' = 0 /\ End' = start + 1
          /\ text[start + 1] = "quote" /\ start + 1 - 1 = start
      BY <1>1, <1>5 DEF LexString, Consume, End
    <2>2. AllIn("string", start + 1, start + 1)
      BY <1>1 DEF AllIn
    <2> DEFINE x == start
    <2>3. x \in Nat /\ start' - 1 = x /\ BlankTo(x) /\ text' = text
      BY <1>1, <1>2, <2>1
    <2> HIDE DEF x
    <2>4. BlankTo(start - 1)'
      BY <1>3, <2>3 DEF BlankTo
    <2>5. AllIn("string", start, End)' /\ start' > 0 /\ text'[start'] = "quote"
      BY <1>1, <2>1, <2>2, <2>3 DEF AllIn
    <2>6. QED
      BY <1>3, <2>1, <2>4, <2>5 DEF Scan
  <1>6. CASE LexClass("blank", Whitespace)
    <2>1. mode' = "blank" /\ start' = start /\ length' = 1 /\ End' = start + 1
      BY <1>1, <1>6 DEF LexClass, Consume, End
    <2>2. BlankTo(start + 1)
      BY <1>1, <1>6, BlankExtends DEF LexClass
    <2>3. QED
      BY <1>1, <1>2, <1>3, <2>1, <2>2 DEF Scan, BlankTo
  <1>7. CASE LexClass("ident", IdentifierFirst)
    <2>1. mode' = "ident" /\ start' = start /\ length' = 1 /\ End' = start + 1
          /\ text[start + 1] \in IdentifierFirst
      BY <1>1, <1>7 DEF LexClass, Consume, End
    <2>2. AllIn("ident", start, start + 1)
      BY <1>1, <2>1 DEF AllIn, InClass, IdentifierFirst, Identifier
    <2>3. QED
      BY <1>1, <1>2, <1>3, <2>1, <2>2 DEF Scan, BlankTo, AllIn
  <1>8. CASE LexClass("int", Numeric)
    <2>1. mode' = "int" /\ start' = start /\ length' = 1 /\ End' = start + 1
          /\ text[start + 1] \in Numeric
      BY <1>1, <1>8 DEF LexClass, Consume, End
    <2>2. AllIn("int", start, start + 1)
      BY <1>1, <2>1 DEF AllIn, InClass
    <2>3. QED
      BY <1>1, <1>2, <1>3, <2>1, <2>2 DEF Scan, BlankTo, AllIn
  <1>9. QED
    BY <1>4, <1>5, <1>6, <1>7, <1>8

LEMMA MoreStep ==
  ASSUME IInv, ConsumeMore
  PROVE  Scan' /\ StreamInOrder' /\ PeekForetells' /\ UnexpectedReportedOnce'
  <1>1. /\ mode \in Consuming /\ TypeOK /\ Scan
        /\ start \in Nat /\ length \in Nat /\ Len(text) \in Nat /\ start <= Len(text)
        /\ End \in Nat /\ start <= End
    BY TextIsSeq DEF IInv, ConsumeMore, TypeOK, End
  <1>2. End + 1 < Len(text) /\ length' = length + 1
        /\ InClass(mode, text[End + 1])
    BY <1>1 DEF ConsumeMore, AfterNextCh, EofAt, CharAt, End
  <1>3. UNCHANGED <<text, start, mode, call, ahead, peek_stack, messages, returned, seen>>
        /\ End' = End + 1
    BY <1>1, <1>2 DEF ConsumeMore, End
  <1>4. /\ StreamInOrder' /\ UnexpectedReportedOnce' /\ PeekForetells'
        /\ Front' = Front /\ call' # "none"
        /\ call' = "next" => peek_stack' = <<>>
        /\ call' = "peek" => Len(peek_stack') <= ahead'
        /\ \A m \in 1 .. Len(messages') : messages'[m].start < start'
    BY <1>1, <1>3, KeepScan DEF Consuming
  <1>5. ASSUME NEW x, BlankTo(x)
        PROVE  BlankTo(x)'
    BY <1>3, <1>4, <1>5 DEF BlankTo
  <1>6. ASSUME NEW from \in Nat, AllIn(mode, from, End)
        PROVE  AllIn(mode, from, End + 1)
    BY <1>1, <1>2, <1>6, AllInExtends
  <1>7. CASE mode = "blank"
    <2>0. BlankTo(End) /\ text[End + 1] \in Whitespace /\ End < Len(text)
      BY <1>1, <1>2, <1>7 DEF Scan, InClass
    <2>1. BlankTo(End + 1)
      BY <1>1, <2>0, BlankExtends
    <2>2. BlankTo(End)'
      BY <1>1, <1>3, <1>4, <2>1 DEF BlankTo
    <2>3. QED
      BY <1>3, <1>4, <1>7, <2>1, <2>2 DEF Scan, BlankTo
  <1>8. CASE mode = "comment"
    <2>1. BlankTo(start) /\ AllIn(mode, start, End) /\ SlashSlash(text, start) /\ length > 0
      BY <1>1, <1>8 DEF Scan
    <2>2. QED
      BY <1>1, <1>2, <1>3, <1>4, <1>5, <1>6, <1>8, <2>1 DEF Scan, AllIn, BlankTo
  <1>9. CASE mode = "string"
    <2>1. BlankTo(start - 1) /\ AllIn(mode, start, End) /\ start > 0 /\ text[start] = "quote"
      BY <1>1, <1>9 DEF Scan
    <2>2. QED
      BY <1>1, <1>2, <1>3, <1>4, <1>5, <1>6, <1>9, <2>1 DEF Scan, AllIn, BlankTo
  <1>10. CASE mode = "ident"
    <2>1. BlankTo(start) /\ AllIn(mode, start, End) /\ length > 0
          /\ text[start + 1] \in IdentifierFirst
      BY <1>1, <1>10 DEF Scan
    <2>2. QED
      BY <1>1, <1>2, <1>3, <1>4, <1>5, <1>6, <1>10, <2>1 DEF Scan, AllIn, BlankTo
  <1>11. CASE mode = "int"
    <2>1. BlankTo(start) /\ AllIn(mode, start, End) /\ length > 0
      BY <1>1, <1>11 DEF Scan
    <2>2. QED
      BY <1>1, <1>2, <1>3, <1>4, <1>5, <1>6, <1>11, <2>1 DEF Scan, AllIn, BlankTo
  <1>12. CASE mode = "frac"
    <2>1. BlankTo(start)
      BY <1>1, <1>12 DEF Scan
    <2>2. PICK e \in start + 1 .. End - 1 :
            AllIn("int", start, e) /\ text[e + 1] = "dot" /\ AllIn("frac", e + 1, End)
      BY <1>1, <1>12 DEF Scan
    <2>3. AllIn("frac", e + 1, End + 1) /\ e \in start + 1 .. (End + 1) - 1
      BY <1>1, <1>6, <1>12, <2>2
    <2>4. AllIn("int", start, e)' /\ AllIn("frac", e + 1, End)' /\ text'[e + 1] = "dot"
      BY <1>3, <2>2, <2>3 DEF AllIn
    <2>5. BlankTo(start)'
      BY <1>3, <1>4, <2>1 DEF BlankTo
    <2>6. (\E d \in start + 1 .. End - 1 :
             AllIn("int", start, d) /\ text[d + 1] = "dot" /\ AllIn("frac", d + 1, End))'
      BY <1>3, <2>3, <2>4
    <2>7. QED
      BY <1>3, <1>4, <1>12, <2>5, <2>6 DEF Scan
  <1>13. QED
    BY <1>1, <1>7, <1>8, <1>9, <1>10, <1>11, <1>12 DEF Consuming

\* A blank run ends: the next token is looked for after it.
LEMMA BlankDoneStep ==
  ASSUME IInv, BlankDone
  PROVE  Scan' /\ StreamInOrder' /\ PeekForetells' /\ UnexpectedReportedOnce'
  <1> DEFINE e == AfterEat(mode, End)
  <1>1. /\ TypeOK /\ Scan /\ start \in Nat /\ length \in Nat /\ Len(text) \in Nat
        /\ start <= Len(text) /\ End \in 0 .. Len(text) /\ start <= End /\ End \in Nat
        /\ mode \in {"blank", "comment"} /\ Front \in Nat
    BY TextIsSeq, FrontType DEF IInv, BlankDone, Consumed, TypeOK, End
  <1>2. e \in End .. Len(text)
    BY <1>1, NextChBound
  <1>3. UNCHANGED <<text, call, ahead, peek_stack, messages, returned, seen>>
        /\ mode' = "lex" /\ start' = e /\ length' = 0
    BY DEF BlankDone
  <1> HIDE DEF e
  <1>4. e \in Nat /\ start' \in start .. Len(text)
    BY <1>1, <1>2, <1>3
  <1>5. /\ StreamInOrder' /\ UnexpectedReportedOnce' /\ PeekForetells'
        /\ Front' = Front /\ call' # "none"
        /\ call' = "next" => peek_stack' = <<>>
        /\ call' = "peek" => Len(peek_stack') <= ahead'
        /\ \A m \in 1 .. Len(messages') : messages'[m].start < start'
    BY <1>1, <1>3, <1>4, KeepScan
  <1>6. BlankTo(e)
    <2>1. CASE mode = "blank"
      <3>1. BlankTo(End)
        BY <1>1, <2>1 DEF Scan
      <3>2. e = End \/ (e = End + 1 /\ End < Len(text) /\ text[End + 1] \in Whitespace)
        BY <1>1, <2>1 DEF e, AfterEat, AfterNextCh, EofAt, CharAt, InClass
      <3>3. QED
        BY <1>1, <3>1, <3>2, BlankExtends
    <2>2. CASE mode = "comment"
      <3>1. BlankTo(start) /\ SlashSlash(text, start) /\ AllIn("comment", start, End)
        BY <1>1, <2>2 DEF Scan
      <3>2. Consumed("comment") /\ e = AfterEat("comment", End)
        BY <1>1, <2>2 DEF BlankDone, Consumed, e
      <3>3. Run(text, "comment", start, e)
        BY <1>1, <3>1, <3>2, RunDone
      <3>4. /\ \A i \in start .. e - 1 : text[i + 1] # "newline"
            /\ e < Len(text) => text[e + 1] = "newline"
        BY <3>3 DEF Run, InClass
      <3>5. \A i \in start .. e - 1 : CommentOver(text, start, i)
        BY <1>1, <1>4, <3>1, <3>4 DEF CommentOver
      <3>6. Front <= start
        BY <3>1 DEF BlankTo
      <3>7. \A i \in Front .. e - 1 : BlankAt(text, Front, i)
        <4> SUFFICES ASSUME NEW i \in Front .. e - 1 PROVE BlankAt(text, Front, i)
          OBVIOUS
        <4>1. CASE i < start
          BY <1>1, <3>1, <4>1 DEF BlankTo
        <4>2. CASE start <= i
          <5>1. CommentOver(text, start, i) /\ start \in Front .. i
            BY <1>1, <1>4, <3>5, <3>6, <4>2
          <5>2. QED
            BY <5>1 DEF BlankAt
        <4>3. QED
          BY <1>1, <1>4, <4>1, <4>2
      <3>8. e < Len(text) => \A c \in Front .. e - 1 : ~ CommentOver(text, c, e)
        BY <1>1, <1>4, <3>4 DEF CommentOver
      <3>9. QED
        BY <1>1, <1>2, <1>4, <3>6, <3>7, <3>8 DEF BlankTo
    <2>3. QED
      BY <1>1, <2>1, <2>2
  <1>7. BlankTo(start)'
    BY <1>3, <1>5, <1>6 DEF BlankTo
  <1>8. QED
    BY <1>3, <1>5, <1>7 DEF Scan

\* The tokens lexNext() answers at once.
LEMMA OneStep ==
  ASSUME IInv, LexEof \/ LexOperator \/ LexUnexpected
  PROVE  Scan' /\ StreamInOrder' /\ PeekForetells' /\ UnexpectedReportedOnce'
  <1>1. /\ TypeOK /\ mode = "lex" /\ start \in Nat /\ Len(text) \in Nat
        /\ start \in 0 .. Len(text) /\ BlankTo(start) /\ Front \in Nat /\ Front <= start
    BY TextIsSeq, FrontType DEF IInv, LexEof, LexOperator, LexUnexpected, TypeOK, Scan, BlankTo
  <1>2. CASE LexEof
    <2>1. start = Len(text)
      BY <1>1, <1>2 DEF LexEof, EofAt
    <2> DEFINE tok == [type |-> "END_OF_FILE", start |-> start, length |-> start - start]
    <2>2. BlankEnd(text, Front, start)
      BY <1>1, <2>1, NotBlank
    <2>3. Lexeme(text, start, tok)
      BY <1>1, <2>1 DEF Lexeme
    <2>4. IsNextToken(text, Front, tok)
      BY <1>1, <2>2, <2>3 DEF IsNextToken
    <2>5. After(text, tok) = start
      BY <1>1 DEF After
    <2>6. Emit("END_OF_FILE", start, start) /\ messages' = messages
          /\ start \in start .. Len(text) /\ ~ (start > start)
      BY <1>1, <1>2 DEF LexEof
    <2>7. QED
      BY <1>1, <2>4, <2>5, <2>6, WordTypesOK, EmitStep
  <1>3. CASE LexUnexpected
    <2>1. start < Len(text) /\ first = text[start + 1]
      BY <1>1, <1>3 DEF LexUnexpected, EofAt, first, CharAt
    <2> DEFINE tok == [type |-> "END_OF_FILE", start |-> start, length |-> (start + 1) - start]
    <2>2. text[start + 1] \notin Whitespace /\ text[start + 1] # "/"
      BY <1>3, <2>1 DEF LexUnexpected, OneChar
    <2>3. BlankEnd(text, Front, start)
      BY <1>1, <2>1, <2>2, NotBlank DEF SlashSlash
    <2>4. (start + 1) - start = 1
      BY <1>1
    <2>5. Lexeme(text, start, tok)
      BY <1>1, <1>3, <2>1, <2>4 DEF Lexeme, LexUnexpected
    <2>6. IsNextToken(text, Front, tok)
      BY <1>1, <2>3, <2>5 DEF IsNextToken
    <2>7. After(text, tok) = start + 1
      BY <1>1 DEF After
    <2>8. Emit("END_OF_FILE", start + 1, start + 1) /\ start + 1 \in start .. Len(text)
          /\ messages' = Append(messages, [start |-> start, length |-> 1])
          /\ start + 1 > start
      BY <1>1, <1>3, <2>1 DEF LexUnexpected
    <2>9. QED
      BY <1>1, <2>6, <2>7, <2>8, WordTypesOK, EmitStep
  <1>4. CASE LexOperator
    <2>1. start < Len(text) /\ first = text[start + 1] /\ first \in DOMAIN OneChar
          /\ messages' = messages
      BY <1>1, <1>4 DEF LexOperator, EofAt, first, CharAt
    <2>2. text[start + 1] \notin Whitespace \cup {"quote"} \cup IdentifierFirst \cup Numeric
      BY <2>1 DEF OneChar, Whitespace, IdentifierFirst, Alpha, Numeric
    <2>3. CASE <<first, second>> \in DOMAIN TwoChar
      <3> DEFINE type == TwoChar[<<first, second>>]
                 tok == [type |-> type, start |-> start, length |-> (start + 2) - start]
      <3>1. start + 1 < Len(text) /\ second = text[start + 2]
        BY <1>1, <2>3, TwoCharFits DEF second, CharAt, EofAt
      <3>2. ~ SlashSlash(text, start)
        BY <2>1, <2>3, <3>1 DEF SlashSlash, TwoChar
      <3>3. BlankEnd(text, Front, start)
        BY <1>1, <2>2, <3>2, NotBlank
      <3>4. (start + 2) - start = 2
        BY <1>1
      <3>5. Operator(text, start, tok)
        BY <1>1, <2>1, <2>3, <3>1, <3>4 DEF Operator
      <3>6. Lexeme(text, start, tok)
        BY <2>1, <3>5 DEF Lexeme
      <3>7. IsNextToken(text, Front, tok)
        BY <1>1, <3>3, <3>6 DEF IsNextToken
      <3>8. type # "STRING" /\ type # "END_OF_FILE"
        BY <2>3 DEF TwoChar
      <3>9. After(text, tok) = start + 2
        BY <1>1, <3>8 DEF After
      <3>10. Emit(type, start + 2, start + 2) /\ start + 2 \in start .. Len(text)
        BY <1>1, <1>4, <2>3, <3>1 DEF LexOperator
      <3>11. type \in TokenType
        BY <2>3, OperatorTypes
      <3> HIDE DEF type
      <3>12. QED
        BY <1>1, <2>1, <3>7, <3>8, <3>9, <3>10, <3>11, EmitStep
    <2>4. CASE <<first, second>> \notin DOMAIN TwoChar
      <3> DEFINE type == OneChar[first]
                 tok == [type |-> type, start |-> start, length |-> (start + 1) - start]
      <3>1. start + 1 < Len(text) => second = text[start + 2]
        BY <1>1 DEF second, CharAt, EofAt
      <3>2. ~ SlashSlash(text, start)
        BY <1>4, <2>1, <2>4, <3>1 DEF SlashSlash, LexOperator
      <3>3. BlankEnd(text, Front, start)
        BY <1>1, <2>2, <3>2, NotBlank
      <3>4. (start + 1) - start = 1
        BY <1>1
      <3>5. Operator(text, start, tok)
        BY <1>1, <2>1, <2>4, <3>1, <3>4 DEF Operator
      <3>6. Lexeme(text, start, tok)
        BY <2>1, <3>5 DEF Lexeme
      <3>7. IsNextToken(text, Front, tok)
        BY <1>1, <3>3, <3>6 DEF IsNextToken
      <3>8. type # "STRING" /\ type # "END_OF_FILE"
        BY <2>1 DEF OneChar
      <3>9. After(text, tok) = start + 1
        BY <1>1, <3>8 DEF After
      <3>10. Emit(type, start + 1, start + 1) /\ start + 1 \in start .. Len(text)
        BY <1>1, <1>4, <2>1, <2>4 DEF LexOperator
      <3>11. type \in TokenType
        BY <2>1, OperatorTypes
      <3> HIDE DEF type
      <3>12. QED
        BY <1>1, <2>1, <3>7, <3>8, <3>9, <3>10, <3>11, EmitStep
    <2>5. QED
      BY <2>3, <2>4
  <1>5. QED
    BY <1>2, <1>3, <1>4

\* The tokens that end a run.
LEMMA RunStep ==
  ASSUME IInv, IdentDone \/ IntDone \/ FracDone \/ StringDone
  PROVE  Scan' /\ StreamInOrder' /\ PeekForetells' /\ UnexpectedReportedOnce'
  <1>1. /\ TypeOK /\ Scan /\ start \in Nat /\ Len(text) \in Nat /\ length \in Nat
        /\ start \in 0 .. Len(text) /\ End \in 0 .. Len(text) /\ start <= End
        /\ End = start + length /\ Front \in Nat /\ mode # "idle"
    BY TextIsSeq, FrontType
       DEF IInv, IdentDone, IntDone, FracDone, StringDone, Consumed, TypeOK, End
  <1>2. ASSUME BlankTo(start), start < Len(text), text[start + 1] \in IdentifierFirst \cup Numeric
        PROVE  BlankEnd(text, Front, start) /\ Front <= start
    <2>1. text[start + 1] \notin Whitespace /\ text[start + 1] # "/"
      BY <1>2 DEF IdentifierFirst, Alpha, Numeric, Whitespace
    <2>2. QED
      BY <1>1, <1>2, <2>1, NotBlank DEF SlashSlash, BlankTo
  <1>3. CASE IdentDone
    <2> DEFINE e == AfterEat("ident", End)
               type == IF SubSeq(text, start + 1, e) = IfSpelling THEN "IF" ELSE "IDENT"
               tok == [type |-> type, start |-> start, length |-> e - start]
    <2>1. Consumed("ident") /\ Emit(type, e, e) /\ messages' = messages
      BY <1>3 DEF IdentDone
    <2>2. BlankTo(start) /\ length > 0 /\ text[start + 1] \in IdentifierFirst
          /\ AllIn("ident", start, End) /\ start < Len(text)
      BY <1>1, <2>1 DEF Scan, Consumed
    <2>3. Run(text, "ident", start, e) /\ e \in End .. Len(text)
      BY <1>1, <2>1, <2>2, RunDone
    <2>4. e \in start .. Len(text) /\ e \in Nat
      BY <1>1, <2>3
    <2>5. Word(text, start, tok)
      BY <2>3, <2>4 DEF Word
    <2>6. Lexeme(text, start, tok)
      BY <2>2, <2>5 DEF Lexeme
    <2>7. IsNextToken(text, Front, tok)
      BY <1>1, <1>2, <2>2, <2>6 DEF IsNextToken
    <2>8. type \in TokenType /\ type # "STRING" /\ type # "END_OF_FILE"
      BY WordTypesOK
    <2> HIDE DEF e, type
    <2>9. After(text, tok) = e
      BY <1>1, <2>4, <2>8 DEF After
    <2>10. QED
      BY <1>1, <2>1, <2>4, <2>7, <2>8, <2>9, EmitStep
  <1>4. CASE IntDone
    <2> DEFINE e == AfterEat("int", End)
               tok == [type |-> "INT", start |-> start, length |-> e - start]
    <2>1. Consumed("int") /\ mode = "int"
      BY <1>4 DEF IntDone, Consumed
    <2>2. BlankTo(start) /\ length > 0 /\ AllIn("int", start, End) /\ start < Len(text)
      BY <1>1, <2>1 DEF Scan
    <2>3. Run(text, "int", start, e) /\ AllIn("int", start, e) /\ e \in End .. Len(text)
      BY <1>1, <2>1, <2>2, RunDone
    <2>4. e \in start .. Len(text) /\ e \in Nat /\ e \in start + 1 .. Len(text)
      BY <1>1, <2>2, <2>3
    <2>5. CASE CharAt(e) = "dot"
      <3>1. Consume("frac", start, AfterNextCh(e))
        BY <1>4, <2>5 DEF IntDone
      <3> HIDE DEF e
      <3>2. e < Len(text) /\ text[e + 1] = "dot" /\ AfterNextCh(e) = e + 1
        BY <1>1, <2>4, <2>5 DEF CharAt, EofAt, AfterNextCh
      <3>3. mode' = "frac" /\ start' = start /\ length' = (e + 1) - start /\ End' = e + 1
        BY <1>1, <2>4, <3>1, <3>2 DEF Consume, End
      <3>4. UNCHANGED <<text, call, ahead, peek_stack, messages, returned, seen>>
            /\ start' \in start .. Len(text)
        BY <1>1, <3>1, <3>3 DEF Consume
      <3>5. /\ StreamInOrder' /\ UnexpectedReportedOnce' /\ PeekForetells'
            /\ Front' = Front /\ call' # "none"
            /\ call' = "next" => peek_stack' = <<>>
            /\ call' = "peek" => Len(peek_stack') <= ahead'
            /\ \A m \in 1 .. Len(messages') : messages'[m].start < start'
        BY <1>1, <3>4, KeepScan
      <3>6. BlankTo(start)'
        BY <2>2, <3>3, <3>4, <3>5 DEF BlankTo
      <3>k. PICK k \in Nat : k = e
        BY <2>4
      <3>7. /\ AllIn("int", start, k)' /\ AllIn("frac", k + 1, End)' /\ text'[k + 1] = "dot"
            /\ k \in start' + 1 .. End' - 1
        BY <1>1, <2>3, <2>4, <3>2, <3>3, <3>4, <3>k DEF AllIn
      <3>8. (\E d \in start + 1 .. End - 1 :
               AllIn("int", start, d) /\ text[d + 1] = "dot" /\ AllIn("frac", d + 1, End))'
        BY <3>7
      <3>9. QED
        BY <3>3, <3>5, <3>6, <3>8 DEF Scan
    <2>6. CASE CharAt(e) # "dot"
      <3>1. Emit("INT", e, e) /\ messages' = messages
        BY <1>4, <2>6 DEF IntDone
      <3>2. ~ (e < Len(text) /\ text[e + 1] = "dot")
        BY <1>1, <2>4, <2>6 DEF CharAt, EofAt
      <3>3. Number(text, start, tok)
        BY <2>3, <2>4, <3>2 DEF Number
      <3>4. text[start + 1] \in Numeric
        BY <1>1, <2>2, <2>3, <2>4 DEF AllIn, InClass
      <3>5. Lexeme(text, start, tok)
        BY <2>2, <3>3, <3>4 DEF Lexeme
      <3>6. IsNextToken(text, Front, tok)
        BY <1>1, <1>2, <2>2, <3>4, <3>5 DEF IsNextToken
      <3> HIDE DEF e
      <3>7. After(text, tok) = e
        BY <1>1, <2>4 DEF After
      <3>8. QED
        BY <1>1, <2>4, <3>1, <3>6, <3>7, WordTypesOK, EmitStep
    <2>7. QED
      BY <2>5, <2>6
  <1>5. CASE FracDone
    <2> DEFINE e == AfterEat("frac", End)
               tok == [type |-> "FLOAT", start |-> start, length |-> e - start]
    <2>1. Consumed("frac") /\ mode = "frac" /\ Emit("FLOAT", e, e) /\ messages' = messages
      BY <1>5 DEF FracDone, Consumed
    <2>2. PICK d \in start + 1 .. End - 1 :
            AllIn("int", start, d) /\ text[d + 1] = "dot" /\ AllIn("frac", d + 1, End)
      BY <1>1, <2>1 DEF Scan
    <2>3. /\ BlankTo(start) /\ start < Len(text) /\ d \in Nat /\ d < Len(text)
          /\ d + 1 \in 0 .. Len(text) /\ d + 1 <= End /\ d \in start .. Len(text)
          /\ start < d
      BY <1>1, <2>1, <2>2 DEF Scan
    <2>4. Run(text, "frac", d + 1, e) /\ e \in End .. Len(text)
      BY <1>1, <2>1, <2>2, <2>3, RunDone
    <2>5. e \in start .. Len(text) /\ e \in Nat /\ e \in d + 1 .. Len(text)
      BY <1>1, <2>3, <2>4
    <2>6. Run(text, "int", start, d)
      BY <1>1, <2>2, <2>3 DEF Run, AllIn, InClass, Numeric
    <2>7. Number(text, start, tok)
      BY <2>2, <2>3, <2>4, <2>5, <2>6 DEF Number
    <2>8. text[start + 1] \in Numeric
      BY <1>1, <2>2, <2>3 DEF AllIn, InClass
    <2>9. Lexeme(text, start, tok)
      BY <2>3, <2>7, <2>8 DEF Lexeme
    <2>10. IsNextToken(text, Front, tok)
      BY <1>1, <1>2, <2>3, <2>8, <2>9 DEF IsNextToken
    <2> HIDE DEF e
    <2>11. After(text, tok) = e
      BY <1>1, <2>5 DEF After
    <2>12. QED
      BY <1>1, <2>1, <2>5, <2>10, <2>11, WordTypesOK, EmitStep
  <1>6. CASE StringDone
    <2> DEFINE e == AfterEat("string", End)
               from == IF CharAt(e) = "quote" THEN AfterNextCh(e) ELSE e
               tok == [type |-> "STRING", start |-> start, length |-> e - start]
    <2>1. Consumed("string") /\ mode = "string" /\ Emit("STRING", e, from)
          /\ messages' = messages
      BY <1>6 DEF StringDone, Consumed
    <2>2. start > 0 /\ BlankTo(start - 1) /\ text[start] = "quote" /\ AllIn("string", start, End)
      BY <1>1, <2>1 DEF Scan
    <2> DEFINE q == start - 1
    <2>3. q \in Nat /\ q < Len(text) /\ q + 1 = start /\ text[q + 1] = "quote"
      BY <1>1, <2>2
    <2>4. Run(text, "string", start, e) /\ e \in End .. Len(text)
      BY <1>1, <2>1, <2>2, RunDone
    <2>5. e \in start .. Len(text) /\ e \in Nat
      BY <1>1, <2>4
    <2>6. BlankEnd(text, Front, q) /\ Front <= q
      <3>1. text[q + 1] \notin Whitespace /\ text[q + 1] # "/"
        BY <2>3 DEF Whitespace
      <3>2. QED
        BY <1>1, <2>2, <2>3, <3>1, NotBlank DEF SlashSlash, BlankTo
    <2>7. Quoted(text, q, tok)
      BY <2>3, <2>4, <2>5 DEF Quoted
    <2>8. Lexeme(text, q, tok)
      BY <2>3, <2>7 DEF Lexeme
    <2>9. IsNextToken(text, Front, tok)
      <3>1. q \in Front .. Len(text)
        BY <1>1, <2>3, <2>6
      <3>2. QED
        BY <2>6, <2>8, <3>1 DEF IsNextToken
    <2>10. e < Len(text) => text[e + 1] = "quote"
      BY <2>4 DEF Run, InClass
    <2>11. from = IF e < Len(text) THEN e + 1 ELSE e
      BY <1>1, <2>5, <2>10 DEF CharAt, EofAt, AfterNextCh
    <2> HIDE DEF e, from
    <2>12. After(text, tok) = from /\ from \in start .. Len(text)
      BY <1>1, <2>5, <2>11 DEF After
    <2>13. QED
      BY <1>1, <2>1, <2>5, <2>9, <2>12, WordTypesOK, EmitStep
  <1>7. QED
    BY <1>3, <1>4, <1>5, <1>6

(***************************************************************************)
(* The invariant is inductive, and what it gives.                          *)
(***************************************************************************)
LEMMA NextIInv == IInv /\ [Next]_vars => IInv'
  <1> SUFFICES ASSUME IInv, [Next]_vars PROVE IInv'
    OBVIOUS
  <1>1. TypeOK'
    BY TypeStep DEF IInv
  <1>2. CASE UNCHANGED vars
    <2>1. /\ StreamInOrder' /\ UnexpectedReportedOnce' /\ PeekForetells'
          /\ Front' = Front
      BY <1>2, KeepStream DEF vars
    <2>2. End' = End
      BY <1>2 DEF vars, span, End
    <2>3. Scan'
      <3>1. Scan
        BY DEF IInv
      <3>2. /\ text' = text /\ start' = start /\ length' = length /\ mode' = mode
            /\ call' = call /\ ahead' = ahead /\ peek_stack' = peek_stack
            /\ messages' = messages
        BY <1>2 DEF vars
      <3>3. QED
        BY <2>2, <3>1, <3>2, <2>1 DEF Scan, BlankTo, AllIn
    <2>4. QED
      BY <1>1, <2>1, <2>3 DEF IInv
  <1>3. CASE Next
    BY <1>1, <1>3, CallStep, BeginStep, MoreStep, BlankDoneStep, OneStep, RunStep
       DEF Next, LexNext, IInv
  <1>4. QED
    BY <1>2, <1>3

LEMMA Invariance == Spec => []IInv
  BY InitIInv, NextIInv, PTL DEF Spec

(***************************************************************************)
(* At every moment of a call the span is what its mode says, for every     *)
(* text: what was dropped is blank or a comment, and what has been         *)
(* consumed is of one class (Lexer::lexNext, Lexer::consume).              *)
(***************************************************************************)
THEOREM Scanned == Spec => []Scan
  <1>1. IInv => Scan
    BY DEF IInv
  <1>2. QED
    BY <1>1, Invariance, PTL

(***************************************************************************)
(* The tokens handed out and queued are the tokens of the text, in order,  *)
(* for every text (Lexer::next, Lexer::peek, Lexer::lexNext).              *)
(***************************************************************************)
THEOREM InOrder == Spec => []StreamInOrder
  <1>1. IInv => StreamInOrder
    BY DEF IInv
  <1>2. QED
    BY <1>1, Invariance, PTL

(***************************************************************************)
(* A peeked token is the one next() returns later, for every lookahead     *)
(* (Lexer::peek and the queue it fills).                                   *)
(***************************************************************************)
THEOREM PeekIsNext == Spec => []PeekForetells
  <1>1. IInv => PeekForetells
    BY DEF IInv
  <1>2. QED
    BY <1>1, Invariance, PTL

(***************************************************************************)
(* Each unexpected character has exactly one message (Lexer::lexNext).     *)
(***************************************************************************)
THEOREM ReportedOnce == Spec => []UnexpectedReportedOnce
  <1>1. IInv => UnexpectedReportedOnce
    BY DEF IInv
  <1>2. QED
    BY <1>1, Invariance, PTL

----------------------------------------------------------------------------
(***************************************************************************)
(* The lexer implements the token stream.                                  *)
(***************************************************************************)
LEMMA LexemeFits ==
  ASSUME NEW t \in Seq(STRING), NEW q \in 0 .. Len(t), NEW tok \in Token, Lexeme(t, q, tok)
  PROVE  tok.start \in 0 .. Len(t) /\ tok.length \in 0 .. Len(t)
  <1>1. Len(t) \in Nat
    OBVIOUS
  <1>2. CASE q = Len(t) /\ tok = [type |-> "END_OF_FILE", start |-> q, length |-> 0]
    BY <1>1, <1>2
  <1>3. CASE q < Len(t) /\ Word(t, q, tok)
    BY <1>1, <1>3 DEF Word
  <1>4. CASE q < Len(t) /\ Number(t, q, tok)
    BY <1>1, <1>4 DEF Number
  <1>5. CASE q < Len(t) /\ Quoted(t, q, tok)
    <2>1. PICK e \in q + 1 .. Len(t) :
            tok = [type |-> "STRING", start |-> q + 1, length |-> e - (q + 1)]
      BY <1>5 DEF Quoted
    <2>2. QED
      BY <1>1, <1>5, <2>1
  <1>6. CASE q < Len(t) /\ Operator(t, q, tok)
    <2>1. tok.start = q /\ (tok.length = 1 \/ (tok.length = 2 /\ q + 1 < Len(t)))
      BY <1>6 DEF Operator
    <2>2. QED
      BY <1>1, <1>6, <2>1
  <1>7. CASE q < Len(t) /\ tok = [type |-> "END_OF_FILE", start |-> q, length |-> 1]
    BY <1>1, <1>7
  <1>8. QED
    BY <1>2, <1>3, <1>4, <1>5, <1>6, <1>7 DEF Lexeme

\* A step hands out at most one token.
LEMMA ReturnsOne ==
  ASSUME TypeOK, [Next]_vars
  PROVE  text' = text /\ (returned' = returned \/
           \E tok \in Token : returned' = Append(returned, tok))
  <1>1. ASSUME NEW type, NEW end, NEW from, Emit(type, end, from), returned' # returned
        PROVE  returned' = Append(returned, [type |-> type, start |-> start,
                                             length |-> end - start])
    BY <1>1 DEF Emit, Return
  <1>2. CASE NextQueued
    <2>1. Head(peek_stack) \in Token
      BY <1>2 DEF NextQueued, TypeOK
    <2>2. QED
      BY <1>2, <2>1 DEF NextQueued
  <1>3. CASE NextLexed \/ LexComment \/ LexString \/ ConsumeMore \/ BlankDone
             \/ UNCHANGED vars
    BY <1>3 DEF NextLexed, LexComment, LexString, ConsumeMore, BlankDone, Consume, vars
  <1>4. ASSUME NEW n \in 0 .. Lookahead, PeekQueued(n) \/ PeekLexed(n)
        PROVE  text' = text /\ returned' = returned
    BY <1>4 DEF PeekQueued, PeekLexed
  <1>5. ASSUME NEW class, NEW firsts, LexClass(class, firsts)
        PROVE  text' = text /\ returned' = returned
    BY <1>5 DEF LexClass, Consume
  <1>6. CASE LexEof \/ LexOperator \/ LexUnexpected \/ IdentDone \/ IntDone \/ FracDone
             \/ StringDone
    <2>1. text' = text
      BY <1>6 DEF LexEof, LexOperator, LexUnexpected, IdentDone, IntDone, FracDone,
         StringDone, Emit, Consume
    <2>2. CASE returned' = returned
      BY <2>1, <2>2
    <2>3. CASE returned' # returned
      <3>1. returned' \in Seq(Token)
        BY TypeStep DEF TypeOK
      <3>2. \E tok : returned' = Append(returned, tok)
        BY <1>1, <1>6, <2>3 DEF LexEof, LexOperator, LexUnexpected, IdentDone, IntDone,
           FracDone, StringDone, Consume
      <3>3. PICK tok : returned' = Append(returned, tok)
        BY <3>2
      <3>4. returned \in Seq(Token) /\ Len(returned) \in Nat
        BY DEF TypeOK
      <3>5. returned'[Len(returned) + 1] = tok /\ Len(returned) + 1 \in 1 .. Len(returned')
        BY <3>3, <3>4
      <3>6. tok \in Token
        BY <3>1, <3>5
      <3>7. QED
        BY <2>1, <3>3, <3>6
    <2>4. QED
      BY <2>2, <2>3
  <1>7. QED
    BY <1>2, <1>3, <1>4, <1>5, <1>6 DEF Next, LexNext

\* TokenStream reads the text by the same grammar.
LEMMA SameGrammar ==
  /\ Stream!TokenType = TokenType
  /\ \A t, p, tok : Stream!IsNextToken(t, p, tok) <=> IsNextToken(t, p, tok)
  /\ \A t, toks : Stream!EndOf(t, toks) = EndOf(t, toks)
  <1>1. /\ Stream!OneChar = OneChar /\ Stream!TwoChar = TwoChar
        /\ Stream!Numeric = Numeric /\ Stream!Whitespace = Whitespace
        /\ Stream!IdentifierFirst = IdentifierFirst /\ Stream!Identifier = Identifier
    BY DEF Stream!OneChar, OneChar, Stream!TwoChar, TwoChar, Stream!Numeric, Numeric,
       Stream!Whitespace, Whitespace, Stream!IdentifierFirst, IdentifierFirst,
       Stream!Identifier, Identifier, Stream!Alpha, Alpha
  <1>2. \A class, c : Stream!InClass(class, c) <=> InClass(class, c)
    BY <1>1 DEF Stream!InClass, InClass
  <1>3. \A t, class, a, b : Stream!Run(t, class, a, b) <=> Run(t, class, a, b)
    BY <1>2 DEF Stream!Run, Run
  <1>4. \A t, p, q : Stream!BlankEnd(t, p, q) <=> BlankEnd(t, p, q)
    BY <1>1 DEF Stream!BlankEnd, BlankEnd, Stream!BlankAt, BlankAt, Stream!CommentOver,
       CommentOver, Stream!SlashSlash, SlashSlash
  <1>5. \A t, q, tok : Stream!Word(t, q, tok) <=> Word(t, q, tok)
    BY <1>3 DEF Stream!Word, Word, Stream!IfSpelling, IfSpelling
  <1>6. \A t, q, tok : Stream!Number(t, q, tok) <=> Number(t, q, tok)
    BY <1>3 DEF Stream!Number, Number
  <1>7. \A t, q, tok : Stream!Quoted(t, q, tok) <=> Quoted(t, q, tok)
    BY <1>3 DEF Stream!Quoted, Quoted
  <1>8. \A t, q, tok : Stream!Operator(t, q, tok) <=> Operator(t, q, tok)
    BY <1>1 DEF Stream!Operator, Operator
  <1>9. \A t, q, tok : Stream!Lexeme(t, q, tok) <=> Lexeme(t, q, tok)
    BY <1>1, <1>5, <1>6, <1>7, <1>8 DEF Stream!Lexeme, Lexeme
  <1>10. \A t, p, tok : Stream!IsNextToken(t, p, tok) <=> IsNextToken(t, p, tok)
    BY <1>4, <1>9 DEF Stream!IsNextToken, IsNextToken
  <1>11. \A t, toks : Stream!EndOf(t, toks) = EndOf(t, toks)
    BY DEF Stream!EndOf, EndOf, Stream!After, After
  <1>12. Stream!TokenType = TokenType
    BY <1>1 DEF Stream!TokenType, TokenType, Stream!WordTypes, WordTypes
  <1>13. QED
    BY <1>10, <1>11, <1>12

LEMMA StreamStep ==
  ASSUME IInv, IInv', [Next]_vars
  PROVE  [Stream!Deliver]_(Stream!vars)
  <1>1. TypeOK /\ returned \in Seq(Token) /\ peek_stack' \in Seq(Token) /\ text \in Seq(STRING)
        /\ Len(returned) \in Nat /\ Len(text) \in Nat
    BY TextIsSeq DEF IInv, TypeOK
  <1>2. text' = text
    BY <1>1, ReturnsOne
  <1>3. CASE returned' = returned
    BY <1>2, <1>3 DEF Stream!vars
  <1>4. ASSUME NEW tok \in Token, returned' = Append(returned, tok)
        PROVE  Stream!Deliver
    <2> DEFINE n == Len(returned)
    <2>1. /\ lexed' \in Seq(Token) /\ n + 1 \in 1 .. Len(lexed')
          /\ lexed'[n + 1] = tok
          /\ n > 0 => lexed'[n] = returned[n]
      BY <1>1, <1>4 DEF lexed
    <2>2. IsNextToken(text, IF n + 1 = 1 THEN 0 ELSE After(text, lexed'[n + 1 - 1]), tok)
      BY <1>2, <2>1 DEF IInv, StreamInOrder
    <2>3. EndOf(text, returned) = IF n + 1 = 1 THEN 0 ELSE After(text, lexed'[n + 1 - 1])
      BY <1>1, <2>1 DEF EndOf
    <2>4. IsNextToken(text, EndOf(text, returned), tok)
      BY <2>2, <2>3
    <2>e. EndOf(text, returned) \in Nat
      <3>1. CASE returned = <<>>
        BY <3>1 DEF EndOf
      <3>2. CASE returned # <<>>
        <4>1. returned[Len(returned)] \in Token
          BY <1>1, <3>2
        <4>2. QED
          BY <1>1, <3>2, <4>1, AfterType DEF EndOf
      <3>3. QED
        BY <3>1, <3>2
    <2>5. PICK q \in EndOf(text, returned) .. Len(text) : Lexeme(text, q, tok)
      BY <2>4 DEF IsNextToken
    <2>6. tok.start \in 0 .. Len(text) /\ tok.length \in 0 .. Len(text) /\ tok.type \in TokenType
      <3>1. q \in 0 .. Len(text)
        BY <1>1, <2>e
      <3>2. QED
        BY <1>1, <2>5, <3>1, LexemeFits DEF Token
    <2>7. tok = [type |-> tok.type, start |-> tok.start, length |-> tok.length]
      BY DEF Token
    <2>8. Stream!IsNextToken(text, Stream!EndOf(text, returned), tok)
      BY <2>4, SameGrammar
    <2>9. QED
      BY <1>2, <1>4, <2>6, <2>7, <2>8, SameGrammar DEF Stream!Deliver
  <1>5. QED
    BY <1>1, <1>3, <1>4, ReturnsOne

(***************************************************************************)
(* Whatever the parser peeks at, what next() hands out is the token stream *)
(* of the text (the queue of Lexer is invisible to its caller).            *)
(***************************************************************************)
THEOREM Implements == Spec => StreamSpec
  <1>1. Init => Stream!Init
    BY DEF Init, Stream!Init
  <1>2. QED
    BY <1>1, StreamStep, Invariance, PTL DEF Spec, StreamSpec, Stream!Spec
=============================================================================
