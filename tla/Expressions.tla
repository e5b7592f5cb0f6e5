---------------------------- MODULE Expressions ----------------------------
(***************************************************************************)
(* The trees that parseBlock() of src/parser.cc builds of the expressions  *)
(* that stand one behind the other in a block, and the spans that they     *)
(* have by src/span_logic.cc.  The texts are without syntax errors: what   *)
(* the parser does with the others is in Parser, which keeps no trees.     *)
(*                                                                         *)
(* A node of a tree is named for a token type, and holds the place in the  *)
(* text of the token whose span it keeps (0 where it keeps none).          *)
(***************************************************************************)
EXTENDS Naturals, Sequences, FiniteSetsExt, SequencesExt

CONSTANT Texts  \* sequences of lines, each an expression or one with a semicolon

VARIABLES
  lines,      \* the block as it is written, by the types of the tokens
  layout,     \* the blanks between two tokens, and the length of a name
  next,       \* the place of the token that peek() answers
  statements  \* the statements of the block, and their first and last tokens

vars == <<lines, layout, next, statements>>

Init ==
  /\ lines \in Texts
  /\ layout \in [blanks : {0, 1}, name : {1, 3}]
  /\ next = 1
  /\ statements = <<>>

text == FlattenSeq(lines)

Type(i) == IF i <= Len(text) THEN text[i] ELSE "CLOSE_BRACE"

----------------------------------------------------------------------------
Node(node, at, parts) == [node |-> node, at |-> at, parts |-> parts]

Null == Node("null", 0, <<>>)

\* Where a tree would be made and the program is brought down instead.
Crash == Node("crash", 0, <<>>)

\* The node's constructor takes the state from one of its parts.
Using(part, tree) == IF part \in {Null, Crash} THEN Crash ELSE tree

RECURSIVE Clone(_)

\* clone() is nullptr for the node types that do not override it.
Clone(t) ==
  CASE t.node = "IDENT" -> t
    [] t.node = "OPEN_SQUARE" -> [t EXCEPT !.parts[2] = Clone(@)]
    [] t.node \in {"DOT", "NEG", "DEREF", "REF"} ->
         Using(Clone(t.parts[1]), [t EXCEPT !.parts[1] = Clone(@)])
    [] OTHER -> Null

----------------------------------------------------------------------------
(***************************************************************************)
(* parseExpression() and what it calls.  Each answers the tree of what     *)
(* begins with token i, or of what goes on behind the operand `left`, and  *)
(* the token that follows it.                                              *)
(***************************************************************************)
Parsed(tree, follows) == [tree |-> tree, next |-> follows]

Operator(op) ==
  CASE op = "ADD_EQ" -> "ADD" [] op = "SUB_EQ" -> "SUB"
    [] op = "MUL_EQ" -> "MUL" [] op = "DIV_EQ" -> "DIV"

CompoundOps == {"ADD_EQ", "SUB_EQ", "MUL_EQ", "DIV_EQ"}

\* Mutant: a & between two operands is an operator.
BinaryOpsWithAnd ==
  << {"DEQ", "GE", "LE", "GT", "LT"}, {"ADD", "SUB"}, {"MUL", "DIV", "AND"} >>

\* Comparison, AddSub and MulDiv.
BinaryOps == << {"DEQ", "GE", "LE", "GT", "LT"}, {"ADD", "SUB"}, {"MUL", "DIV"} >>

UnaryOps == {"SUB", "MUL", "AND"}

Prefix(op) == CASE op = "SUB" -> "NEG" [] op = "MUL" -> "DEREF" [] op = "AND" -> "REF"

Literals == {"INT", "FLOAT", "STRING"}

RECURSIVE ParseExpression(_), MoreAssign(_), ParseLevel(_, _), MoreOperands(_, _),
          ParseUnary(_), MoreMembers(_), ParseArguments(_, _), ParseInits(_, _)

ParseExpression(i) == MoreAssign(ParseLevel(1, i))

\* a op= b becomes a = (clone of a) op b.
MoreAssign(left) ==
  LET op    == Type(left.next)
      rhs   == ParseExpression(left.next + 1)
      copy  == Clone(left.tree)
      value == IF op = "EQ" THEN rhs.tree
                            ELSE Using(copy, Node(Operator(op), 0, <<copy, rhs.tree>>))
  IN  IF op \in {"EQ"} \cup CompoundOps
      THEN MoreAssign(Parsed(Using(value, Node("EQ", 0, <<left.tree, value>>)), rhs.next))
      ELSE left

\* The levels of binary operators, which take their operands from the next one.
ParseLevel(level, i) ==
  IF level \in DOMAIN BinaryOps THEN MoreOperands(level, ParseLevel(level + 1, i))
                                ELSE ParseUnary(i)

\* Mutant: the right operand is one of the same level, and takes what follows.
MoreOperandsRight(level, left) ==
  LET op  == Type(left.next)
      rhs == ParseLevel(level, left.next + 1)
  IN  IF op \in BinaryOps[level]
      THEN Parsed(Using(left.tree, Node(op, 0, <<left.tree, rhs.tree>>)), rhs.next)
      ELSE left

MoreOperands(level, left) ==
  LET op  == Type(left.next)
      rhs == ParseLevel(level + 1, left.next + 1)
  IN  IF op \in BinaryOps[level]
      THEN MoreOperands(level, Parsed(Using(left.tree, Node(op, 0, <<left.tree, rhs.tree>>)),
                                      rhs.next))
      ELSE left

\* An argument may be followed by a comma and no other argument.
ParseArguments(i, parts) ==
  LET argument == ParseExpression(i)
      more     == Append(parts, argument.tree)
  IN  CASE Type(i) = "CLOSE_PAREN" -> Parsed(parts, i + 1)
        [] Type(i) # "CLOSE_PAREN" /\ Type(argument.next) = "CLOSE_PAREN" ->
             Parsed(more, argument.next + 1)
        [] OTHER -> ParseArguments(argument.next + 1, more)

ParseInits(i, parts) ==
  LET value == ParseExpression(i + 2)
  IN  IF Type(i) = "CLOSE_BRACE" THEN Parsed(parts, i + 1)
      ELSE ParseInits(value.next + 1, Append(parts, Node("COLON", i, <<value.tree>>)))

ParseFunctionCall(i) ==
  LET arguments == ParseArguments(i + 2, <<>>)
  IN  Parsed(Node("OPEN_PAREN", i, arguments.tree), arguments.next)

ParseArrayAccess(i) ==
  LET index == ParseExpression(i + 2)
  IN  Parsed(Node("OPEN_SQUARE", 0, <<Node("IDENT", i, <<>>), index.tree>>), index.next + 1)

ParseStructInit(i) ==
  LET inits == ParseInits(i + 2, <<>>)
  IN  Parsed(Node("OPEN_BRACE", i, inits.tree), inits.next)

ParsePrimary(i) ==
  CASE Type(i) = "IDENT" ->
         ( CASE Type(i + 1) = "OPEN_PAREN"  -> ParseFunctionCall(i)
             [] Type(i + 1) = "OPEN_SQUARE" -> ParseArrayAccess(i)
             [] Type(i + 1) = "OPEN_BRACE"  -> ParseStructInit(i)
             [] OTHER -> Parsed(Node("IDENT", i, <<>>), i + 1) )
    [] Type(i) = "OPEN_PAREN" ->
         LET inner == ParseExpression(i + 1) IN Parsed(inner.tree, inner.next + 1)
    [] Type(i) \in Literals -> Parsed(Node(Type(i), i, <<>>), i + 1)

\* s->m is the member m of *s.
MoreMembers(left) ==
  LET of == IF Type(left.next) = "DOT" THEN left.tree
            ELSE Using(left.tree, Node("DEREF", 0, <<left.tree>>))
  IN  IF Type(left.next) \in {"DOT", "SUB_GT"}
      THEN MoreMembers(Parsed(Using(of, Node("DOT", left.next + 1, <<of>>)), left.next + 2))
      ELSE left

ParseUnary(i) ==
  LET rhs == ParseUnary(i + 1)
  IN  IF Type(i) \in UnaryOps
      THEN Parsed(Using(rhs.tree, Node(Prefix(Type(i)), 0, <<rhs.tree>>)), rhs.next)
      ELSE MoreMembers(ParsePrimary(i))

----------------------------------------------------------------------------
RECURSIVE Nodes(_)

Nodes(t) == {t} \cup UNION {Nodes(part) : part \in Range(t.parts)}

Crashed == \E k \in DOMAIN statements : Crash \in Nodes(statements[k].tree)

\* Mutant: the token behind a statement is taken for its semicolon.
PastSemicolonUnseen(i) == i + 1

PastSemicolon(i) == IF Type(i) = "SEMICOLON" THEN i + 1 ELSE i

\* A turn of the loop of parseBlock().
ParseStatement ==
  /\ ~ Crashed
  /\ Type(next) # "CLOSE_BRACE"
  /\ LET parsed == ParseExpression(next)
     IN  /\ statements' = Append(statements, [tree |-> parsed.tree,
                                              from |-> next, to |-> parsed.next - 1])
         /\ next' = PastSemicolon(parsed.next)
  /\ UNCHANGED <<lines, layout>>

Spec == Init /\ [][ParseStatement]_vars

----------------------------------------------------------------------------
(***************************************************************************)
(* The spans of tokens and of trees.                                       *)
(***************************************************************************)
Length(i) ==
  CASE text[i] = "IDENT" -> layout.name
    [] text[i] \in CompoundOps \cup {"DEQ", "GE", "LE", "SUB_GT"} -> 2
    [] OTHER -> 1

RECURSIVE Start(_)

Start(i) == IF i = 1 THEN 0 ELSE Start(i - 1) + Length(i - 1) + layout.blanks

Token(i) == [start |-> Start(i), length |-> Length(i)]

\* Mutant: the two are taken in the wrong order.
JoinedBackwards(a, b) ==
  [start |-> IF b.start < a.start THEN a.start ELSE b.start, length |-> a.length + b.length]

\* The sum of two spans is as long as both of them, wherever they lie.
Joined(a, b) ==
  [start |-> IF b.start < a.start THEN b.start ELSE a.start, length |-> a.length + b.length]

RECURSIVE Span(_)

Span(t) ==
  CASE t.node \in {"IDENT", "OPEN_PAREN", "OPEN_BRACE"} \cup Literals -> Token(t.at)
    [] t.node = "DOT" -> Joined(Span(t.parts[1]), Token(t.at))
    [] t.node \in {"NEG", "DEREF", "REF", "OPEN_SQUARE"} ->
         Span(t.parts[IF t.node = "OPEN_SQUARE" THEN 1 ELSE Len(t.parts)])
    [] OTHER -> Joined(Span(t.parts[1]), Span(t.parts[2]))

----------------------------------------------------------------------------
(***************************************************************************)
(* The reference: what the tokens from i to j mean as one expression, read *)
(* from the operators that stand outside all brackets.  The loosest of     *)
(* them is the root; among equals the first if they are assignments, and   *)
(* the last if they are not.  What is no expression means nothing.         *)
(***************************************************************************)
Opening == {"OPEN_PAREN", "OPEN_SQUARE", "OPEN_BRACE"}

Closing == {"CLOSE_PAREN", "CLOSE_SQUARE", "CLOSE_BRACE"}

Outside(i, j) ==
  {k \in i .. j : Cardinality({m \in i .. k - 1 : text[m] \in Opening})
                    = Cardinality({m \in i .. k - 1 : text[m] \in Closing})}

\* How loosely an operator binds.
Looseness ==
  << {"MUL", "DIV"}, {"ADD", "SUB"}, {"DEQ", "GE", "LE", "GT", "LT"}, {"EQ"} \cup CompoundOps >>

\* An operator has an operand on its left.
Infix(i, j) ==
  {k \in Outside(i, j) : /\ k > i
                         /\ text[k] \in UNION Range(Looseness)
                         /\ text[k - 1] \in {"IDENT"} \cup Literals \cup Closing}

Root(i, j) ==
  LET among(l) == {k \in Infix(i, j) : text[k] \in Looseness[l]}
      loosest  == Max({l \in DOMAIN Looseness : among(l) # {}})
  IN  IF loosest = 4 THEN Min(among(4)) ELSE Max(among(loosest))

RECURSIVE Meaning(_, _), Items(_, _)

\* The values of a list, which commas separate or end.
Items(i, j) ==
  LET comma == Min({k \in Outside(i, j) : text[k] = "COMMA"} \cup {j + 1})
      item  == IF i < j /\ text[i + 1] = "COLON"
               THEN Node("COLON", i, <<Meaning(i + 2, comma - 1)>>)
               ELSE Meaning(i, comma - 1)
  IN  IF i > j THEN <<>> ELSE <<item>> \o Items(comma + 1, j)

Operation(i, op, j) ==
  LET left  == Meaning(i, op - 1)
      right == Meaning(op + 1, j)
  IN  CASE text[op] \in CompoundOps ->
             Node("EQ", 0, <<left, Node(Operator(text[op]), 0, <<left, right>>)>>)
        [] OTHER -> Node(text[op], 0, <<left, right>>)

Meaning(i, j) ==
  IF i > j THEN Null
  ELSE IF Infix(i, j) # {} THEN Operation(i, Root(i, j), j)
  ELSE IF text[i] \in UnaryOps THEN Node(Prefix(text[i]), 0, <<Meaning(i + 1, j)>>)
  ELSE IF i = j THEN Node(text[i], i, <<>>)
  ELSE CASE text[j - 1] = "DOT" -> Node("DOT", j, <<Meaning(i, j - 2)>>)
         [] text[j - 1] = "SUB_GT" -> Node("DOT", j, <<Node("DEREF", 0, <<Meaning(i, j - 2)>>)>>)
         [] text[j] \in Closing /\ text[i] = "OPEN_PAREN" -> Meaning(i + 1, j - 1)
         [] text[j] = "CLOSE_SQUARE" /\ text[i] = "IDENT" ->
              Node("OPEN_SQUARE", 0, <<Meaning(i, i)>> \o Items(i + 2, j - 1))
         [] text[j] \in Closing \ {"CLOSE_SQUARE"} /\ text[i] = "IDENT" ->
              Node(text[i + 1], i, Items(i + 2, j - 1))
         [] OTHER -> Null

----------------------------------------------------------------------------
(***************************************************************************)
(* The type invariant.                                                     *)
(***************************************************************************)
TypeOK ==
  /\ layout \in [blanks : {0, 1}, name : {1, 3}]
  /\ next \in 1 .. Len(text) + 1
  /\ \A k \in DOMAIN statements :
       LET s == statements[k]
       IN  /\ s.from \in 1 .. Len(text) /\ s.to \in s.from .. Len(text)
           /\ \A t \in Nodes(s.tree) : t.at = 0 \/ t.at \in s.from .. s.to

(***************************************************************************)
(* The tree of a statement says what the statement says, as one reads it   *)
(* by the precedences; an a op= b, that a becomes a op b.  It says         *)
(* something else, or none is built, exactly if there is an a op= b whose  *)
(* a is not made of variables, members, elements and prefixes alone.       *)
(***************************************************************************)
Repeatable(t) == \A n \in Nodes(t) : n.node \in {"IDENT", "OPEN_SQUARE", "DOT", "NEG", "DEREF", "REF"}

\* The two sides of a compound assignment share their tokens.
Compound(t) ==
  /\ t.node = "EQ"
  /\ Len(t.parts[2].parts) = 2
  /\ t.parts[1] = t.parts[2].parts[1]

MeantAsWritten ==
  \A k \in DOMAIN statements :
    LET s       == statements[k]
        meaning == Meaning(s.from, s.to)
    IN  s.tree = meaning <=>
          \A t \in Nodes(meaning) : Compound(t) => Repeatable(t.parts[1])

(***************************************************************************)
(* Every line is a statement of its own, with or without a semicolon (as   *)
(* in the example program and the parser's test), unless it is read as     *)
(* the rest of the line before it: where that has no semicolon, and this   *)
(* begins with a - or a *, which are then between two operands, or with a  *)
(* parenthesis behind a variable, which is then a call.                    *)
(***************************************************************************)
Begin(m) == 1 + Len(FlattenSeq(SubSeq(lines, 1, m - 1)))

EndsInVariable(line) ==
  /\ Last(line) = "IDENT"
  /\ Len(line) > 1 => line[Len(line) - 1] \notin {"DOT", "SUB_GT"}

GoesOn(line, following) ==
  /\ Last(line) # "SEMICOLON"
  /\ \/ Head(following) \in {"SUB", "MUL"}
     \/ Head(following) = "OPEN_PAREN" /\ EndsInVariable(line)

LinesApart ==
  {statements[k].from : k \in DOMAIN statements}
    = {Begin(m) : m \in {m \in DOMAIN lines : /\ Begin(m) < next
                                              /\ m > 1 => ~ GoesOn(lines[m - 1], lines[m])}}

(***************************************************************************)
(* The span of each part of a statement begins where its first token does  *)
(* that a node keeps, and ends within its last one, though a joined span   *)
(* is as long as the parts of it that have tokens of their own; only with  *)
(* an a op= b, where the span of a is joined twice, may it end behind.     *)
(***************************************************************************)
Places(t) == {n.at : n \in Nodes(t)} \ {0}

Within(t) ==
  /\ Span(t).start = Start(Min(Places(t)))
  /\ \/ Span(t).start + Span(t).length <= Start(Max(Places(t))) + Length(Max(Places(t)))
     \/ \E n \in Nodes(t) : Compound(n)

SpansWithin ==
  ~ Crashed =>
    \A k \in DOMAIN statements : \A t \in Nodes(statements[k].tree) \ {Null} :
      t.node # "COLON" => Within(t)
=============================================================================
