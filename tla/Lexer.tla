------------------------------- MODULE Lexer -------------------------------
(***************************************************************************)
(* The lexer of src/lexer.cc: next() and peek(n) over a queue of tokens    *)
(* lexed ahead, and lexNext(), which reads the text one character at a     *)
(* time through current_span = [start, start + length).                    *)
(*                                                                         *)
(* The parser makes the calls, in any order: each is taken from Init's     *)
(* idle state and runs to its return before the next.                      *)
(***************************************************************************)
EXTENDS Lexemes

CONSTANTS
  Texts,      \* the source texts
  Lookahead,  \* the largest n that peek(n) is called with
  MaxTokens   \* bound: calls of next()

ASSUME TextsAssumption == Texts \subseteq Seq(STRING)
ASSUME LookaheadAssumption == Lookahead \in Nat
ASSUME MaxTokensAssumption == MaxTokens \in Nat

VARIABLES
  text,        \* source->value
  start,       \* current_span.start
  length,      \* current_span.length
  mode,        \* where lexNext() is: the class it consumes, or "lex" at its head
  call,        \* the call that is running
  ahead,       \* the argument of the running peek()
  peek_stack,  \* tokens lexed and not yet handed out
  messages,    \* spans of the errors reported, in order
  returned,    \* history: the tokens next() has returned
  seen         \* history: the last answer of peek(), and its place in the stream

vars == <<text, start, length, mode, call, ahead, peek_stack, messages,
          returned, seen>>

span == <<start, length>>

Consuming == {"ident", "int", "frac", "string", "blank", "comment"}

NoAnswer == [at |-> 0, tok |-> [type |-> "END_OF_FILE", start |-> 0, length |-> 0]]

Init ==
  /\ text \in Texts
  /\ start = 0
  /\ length = 0
  /\ mode = "idle"
  /\ call = "none"
  /\ ahead = 0
  /\ peek_stack = <<>>
  /\ messages = <<>>
  /\ returned = <<>>
  /\ seen = NoAnswer

----------------------------------------------------------------------------
(***************************************************************************)
(* The calls.                                                              *)
(***************************************************************************)

\* Mutant: the queue used as the stack its name says it is.
NextPopsBack ==
  /\ call = "none"
  /\ Len(returned) < MaxTokens
  /\ peek_stack # <<>>
  /\ returned' = Append(returned, peek_stack[Len(peek_stack)])
  /\ peek_stack' = SubSeq(peek_stack, 1, Len(peek_stack) - 1)
  /\ UNCHANGED <<text, span, mode, call, ahead, messages, seen>>

\* next() with tokens queued: pop the oldest.
NextQueued ==
  /\ call = "none"
  /\ Len(returned) < MaxTokens
  /\ peek_stack # <<>>
  /\ returned' = Append(returned, Head(peek_stack))
  /\ peek_stack' = Tail(peek_stack)
  /\ UNCHANGED <<text, span, mode, call, ahead, messages, seen>>

\* next() with an empty queue: lex a token.
NextLexed ==
  /\ call = "none"
  /\ Len(returned) < MaxTokens
  /\ peek_stack = <<>>
  /\ call' = "next"
  /\ mode' = "lex"
  /\ UNCHANGED <<text, span, ahead, peek_stack, messages, returned, seen>>

\* Mutant: at(n) replaced by back().
AnswerBack(q, n) == [at |-> Len(returned) + n + 1, tok |-> q[Len(q)]]

\* The answer of peek(n) over the queue q.
Answer(q, n) == [at |-> Len(returned) + n + 1, tok |-> q[n + 1]]

\* peek(n) with the token in the queue: the early return, or a loop of no turns.
PeekQueued(n) ==
  /\ call = "none"
  /\ \/ peek_stack # <<>> /\ n < Len(peek_stack) - 1
     \/ ~ (Len(peek_stack) <= n)
  /\ seen' = Answer(peek_stack, n)
  /\ UNCHANGED <<text, span, mode, call, ahead, peek_stack, messages, returned>>

\* peek(n) that must lex up to token n.
PeekLexed(n) ==
  /\ call = "none"
  /\ ~ (peek_stack # <<>> /\ n < Len(peek_stack) - 1)
  /\ Len(peek_stack) <= n
  /\ call' = "peek"
  /\ ahead' = n
  /\ mode' = "lex"
  /\ UNCHANGED <<text, span, peek_stack, messages, returned, seen>>

----------------------------------------------------------------------------
(***************************************************************************)
(* Characters.  At the end of the text peekCh() and nextCh() return a      *)
(* blank, and nextCh() moves nothing.                                      *)
(***************************************************************************)
EofAt(p) == p >= Len(text)

CharAt(p) == IF EofAt(p) THEN "space" ELSE text[p + 1]

\* Mutant: nextCh() without its test for the end.
AfterNextChUnchecked(p) == p + 1

AfterNextCh(p) == IF EofAt(p) THEN p ELSE p + 1

\* The position after eat(): past the character if it is in the class.
AfterEat(class, p) == IF InClass(class, CharAt(p)) THEN AfterNextCh(p) ELSE p

(***************************************************************************)
(* A token made of closeSpan()'s span goes to the call that asked for it.  *)
(* peek() lexes on until token number `ahead` is queued.                   *)
(***************************************************************************)
Return(tok) ==
  LET queue == Append(peek_stack, tok)
  IN  \/ /\ call = "next"
         /\ returned' = Append(returned, tok)
         /\ call' = "none"
         /\ mode' = "idle"
         /\ UNCHANGED <<peek_stack, seen>>
      \/ /\ call = "peek"
         /\ peek_stack' = queue
         /\ IF Len(queue) <= ahead
            THEN mode' = "lex" /\ UNCHANGED <<call, seen>>
            ELSE /\ mode' = "idle"
                 /\ call' = "none"
                 /\ seen' = Answer(queue, ahead)
         /\ UNCHANGED returned

\* Close the span [start, end) as a token, and go on from `from`.
Emit(type, end, from) ==
  /\ Return([type |-> type, start |-> start, length |-> end - start])
  /\ start' = from
  /\ length' = 0
  /\ UNCHANGED <<text, ahead>>

\* Consume a class from here on, the span beginning at s and ending at e.
Consume(class, s, e) ==
  /\ mode' = class
  /\ start' = s
  /\ length' = e - s
  /\ UNCHANGED <<text, call, ahead, peek_stack, messages, returned, seen>>

----------------------------------------------------------------------------
(***************************************************************************)
(* lexNext(): the switch on the first character.                           *)
(***************************************************************************)
first == CharAt(start)

second == CharAt(start + 1)

LexEof ==
  /\ mode = "lex"
  /\ EofAt(start)
  /\ Emit("END_OF_FILE", start, start)
  /\ UNCHANGED messages

LexOperator ==
  /\ mode = "lex"
  /\ ~ EofAt(start)
  /\ first \in DOMAIN OneChar
  /\ IF <<first, second>> \in DOMAIN TwoChar
     THEN Emit(TwoChar[<<first, second>>], start + 2, start + 2)
     ELSE /\ ~ (first = "/" /\ second = "/")
          /\ Emit(OneChar[first], start + 1, start + 1)
  /\ UNCHANGED messages

\* "//": consume to the end of the line, drop the span, lex again.
LexComment ==
  /\ mode = "lex"
  /\ ~ EofAt(start)
  /\ first = "/" /\ second = "/"
  /\ Consume("comment", start, start + 1)

\* The opening quote is closed off as a span of its own.
LexString ==
  /\ mode = "lex"
  /\ ~ EofAt(start)
  /\ first = "quote"
  /\ Consume("string", start + 1, start + 1)

LexClass(class, firsts) ==
  /\ mode = "lex"
  /\ ~ EofAt(start)
  /\ first \in firsts
  /\ Consume(class, start, start + 1)

\* Mutant: the span of the character is not closed.
LexUnexpectedStays ==
  /\ mode = "lex"
  /\ ~ EofAt(start)
  /\ first \notin DOMAIN OneChar \cup {"quote"} \cup Whitespace
                    \cup IdentifierFirst \cup Numeric
  /\ messages' = Append(messages, [start |-> start, length |-> 1])
  /\ Emit("END_OF_FILE", start + 1, start)

\* No token begins so: report it, and answer END_OF_FILE.
LexUnexpected ==
  /\ mode = "lex"
  /\ ~ EofAt(start)
  /\ first \notin DOMAIN OneChar \cup {"quote"} \cup Whitespace
                    \cup IdentifierFirst \cup Numeric
  /\ messages' = Append(messages, [start |-> start, length |-> 1])
  /\ Emit("END_OF_FILE", start + 1, start + 1)

(***************************************************************************)
(* consume(class): eat while the class matches, with a break once the text *)
(* is at its end; then what lexNext() does after the loop.                 *)
(***************************************************************************)
End == start + length

ConsumeMore ==
  /\ mode \in Consuming
  /\ InClass(mode, CharAt(End))
  /\ ~ EofAt(AfterNextCh(End))
  /\ length' = AfterNextCh(End) - start
  /\ UNCHANGED <<text, start, mode, call, ahead, peek_stack, messages, returned, seen>>

Consumed(class) ==
  /\ mode = class
  /\ ~ (InClass(class, CharAt(End)) /\ ~ EofAt(AfterNextCh(End)))

\* Mutant: the character eaten at the end of the text is forgotten.
BlankDoneShort ==
  /\ Consumed("blank") \/ Consumed("comment")
  /\ mode' = "lex"
  /\ start' = End
  /\ length' = 0
  /\ UNCHANGED <<text, call, ahead, peek_stack, messages, returned, seen>>

\* Mutant: the span of the blanks is reopened where it began.
BlankDoneRewinds ==
  /\ Consumed("blank") \/ Consumed("comment")
  /\ mode' = "lex"
  /\ start' = start
  /\ length' = 0
  /\ UNCHANGED <<text, call, ahead, peek_stack, messages, returned, seen>>

BlankDone ==
  /\ Consumed("blank") \/ Consumed("comment")
  /\ mode' = "lex"
  /\ start' = AfterEat(mode, End)
  /\ length' = 0
  /\ UNCHANGED <<text, call, ahead, peek_stack, messages, returned, seen>>

IdentDone ==
  LET end == AfterEat("ident", End)
  IN  /\ Consumed("ident")
      /\ Emit(IF SubSeq(text, start + 1, end) = IfSpelling THEN "IF" ELSE "IDENT",
              end, end)
      /\ UNCHANGED messages

\* Mutant: the dot is eaten only before another digit.
IntDoneLooksAhead ==
  LET end == AfterEat("int", End)
  IN  /\ Consumed("int")
      /\ IF CharAt(end) = "dot" /\ CharAt(end + 1) \in Numeric
         THEN Consume("frac", start, AfterNextCh(end))
         ELSE Emit("INT", end, end) /\ UNCHANGED messages

\* After the digits, a dot makes the number a FLOAT.
IntDone ==
  LET end == AfterEat("int", End)
  IN  /\ Consumed("int")
      /\ IF CharAt(end) = "dot"
         THEN Consume("frac", start, AfterNextCh(end))
         ELSE Emit("INT", end, end) /\ UNCHANGED messages

FracDone ==
  LET end == AfterEat("frac", End)
  IN  /\ Consumed("frac")
      /\ Emit("FLOAT", end, end)
      /\ UNCHANGED messages

\* The closing quote is eaten if it is there; nothing is reported if not.
StringDone ==
  LET end == AfterEat("string", End)
  IN  /\ Consumed("string")
      /\ Emit("STRING", end, IF CharAt(end) = "quote" THEN AfterNextCh(end) ELSE end)
      /\ UNCHANGED messages

----------------------------------------------------------------------------
LexNext ==
  \/ LexEof \/ LexOperator \/ LexComment \/ LexString \/ LexUnexpected
  \/ LexClass("blank", Whitespace)
  \/ LexClass("ident", IdentifierFirst)
  \/ LexClass("int", Numeric)
  \/ ConsumeMore
  \/ BlankDone \/ IdentDone \/ IntDone \/ FracDone \/ StringDone

Next ==
  \/ NextQueued
  \/ NextLexed
  \/ \E n \in 0 .. Lookahead : PeekQueued(n) \/ PeekLexed(n)
  \/ LexNext

\* The code runs lexNext() to its return; the parser need not call again.
Spec == Init /\ [][Next]_vars /\ WF_vars(LexNext)

----------------------------------------------------------------------------
\* Every token lexed so far, in the order it was lexed.
lexed == returned \o peek_stack

(***************************************************************************)
(* The type invariant.                                                     *)
(***************************************************************************)
TypeOK ==
  /\ text \in Texts
  /\ start \in 0 .. Len(text)
  /\ length \in 0 .. Len(text) - start
  /\ mode \in {"idle", "lex"} \cup Consuming
  /\ call \in {"none", "next", "peek"}
  /\ mode = "idle" <=> call = "none"
  /\ ahead \in 0 .. Lookahead
  /\ peek_stack \in Seq(Token)
  /\ messages \in Seq(Span)
  /\ returned \in Seq(Token)
  /\ seen \in [at : Nat, tok : Token]

(***************************************************************************)
(* The tokens handed out and the tokens queued are together the tokens of  *)
(* the text from its beginning, each following the one before with nothing *)
(* but blanks between: looking ahead neither loses, repeats nor reorders   *)
(* one (Lexer::next, Lexer::peek and the queue between them).              *)
(***************************************************************************)
StreamInOrder ==
  \A i \in 1 .. Len(lexed) :
    IsNextToken(text, IF i = 1 THEN 0 ELSE After(text, lexed[i - 1]), lexed[i])

(***************************************************************************)
(* Where the scan stands, mode by mode: Front is where the last token      *)
(* lexed ended, everything from there to the token being scanned is blank, *)
(* no comment reaches it, and what has been consumed is of its class.      *)
(* With the tokens in order, this is what the scan of a token rests on.    *)
(***************************************************************************)
Front == EndOf(text, lexed)

BlankTo(x) ==
  /\ Front <= x
  /\ \A i \in Front .. x - 1 : BlankAt(text, Front, i)
  /\ x < Len(text) => \A c \in Front .. x - 1 : ~ CommentOver(text, c, x)

AllIn(class, from, to) == \A i \in from .. to - 1 : InClass(class, text[i + 1])

Scan ==
  /\ call = "next" => peek_stack = <<>>
  /\ call = "peek" => Len(peek_stack) <= ahead
  /\ \A m \in 1 .. Len(messages) : messages[m].start < start
  /\ mode \in {"idle", "lex"} => length = 0
  /\ mode = "idle" => start = Front
  /\ mode = "lex" => BlankTo(start)
  /\ mode = "blank" => BlankTo(End)
  /\ mode = "comment" =>
       BlankTo(start) /\ SlashSlash(text, start) /\ length > 0
         /\ AllIn("comment", start, End)
  /\ mode = "string" =>
       start > 0 /\ BlankTo(start - 1) /\ text[start] = "quote"
         /\ AllIn("string", start, End)
  /\ mode = "ident" =>
       BlankTo(start) /\ length > 0 /\ text[start + 1] \in IdentifierFirst
         /\ AllIn("ident", start, End)
  /\ mode = "int" =>
       BlankTo(start) /\ length > 0 /\ AllIn("int", start, End)
  /\ mode = "frac" =>
       BlankTo(start) /\ \E e \in start + 1 .. End - 1 :
         AllIn("int", start, e) /\ text[e + 1] = "dot" /\ AllIn("frac", e + 1, End)

(***************************************************************************)
(* What peek(n) answers is what the (n+1)-st call of next() from then on   *)
(* returns, whatever calls come between (the parser decides on peeked      *)
(* tokens and consumes them afterwards).                                   *)
(***************************************************************************)
PeekForetells ==
  seen.at # 0 => seen.at <= Len(lexed) /\ lexed[seen.at] = seen.tok

(***************************************************************************)
(* Every character no token begins with is reported exactly once and in    *)
(* the order of the text, however often its END_OF_FILE token is looked at *)
(* (current_span.fail() in lexNext).                                       *)
(***************************************************************************)
Unexpected(tok) == tok.type = "END_OF_FILE" /\ tok.length > 0

UnexpectedReportedOnce ==
  /\ \A i, j \in 1 .. Len(messages) :
       i < j => messages[i].start < messages[j].start
  /\ \A i \in 1 .. Len(lexed) : Unexpected(lexed[i]) =>
       \E m \in 1 .. Len(messages) : messages[m].start = lexed[i].start
  /\ \A m \in 1 .. Len(messages) :
       \E i \in 1 .. Len(lexed) :
         Unexpected(lexed[i]) /\ lexed[i].start = messages[m].start

(***************************************************************************)
(* Every call returns: lexNext() gets past any text, through blanks,       *)
(* comments and an unterminated string (the break in consume()).           *)
(***************************************************************************)
CallsReturn == call # "none" ~> call = "none"

(***************************************************************************)
(* The lexer implements the token stream.                                  *)
(***************************************************************************)
Stream == INSTANCE TokenStream WITH out <- returned

StreamSpec == Stream!Spec
=============================================================================
