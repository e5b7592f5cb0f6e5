--------------------------- MODULE MCExpressions ---------------------------
(***************************************************************************)
(* Instances of Expressions: every expression of a few tokens, alone in    *)
(* its block or, if it is short, before another one.                       *)
(***************************************************************************)
EXTENDS Expressions

CONSTANTS Infixes,  \* the operators between operands
          MaxOne,   \* how many tokens an expression has that is alone
          MaxLine,  \* how many a line has that is not
          MaxText   \* how many the lines have together

Around(before, middle, after) == {before \o w \o after : w \in middle}

\* The expressions of n tokens, from those of 1 .. n - 1.
OfLength(n, shorter) ==
  LET E(k) == IF k \in DOMAIN shorter THEN shorter[k] ELSE {}
  IN  (IF n = 1 THEN {<<"IDENT">>, <<"INT">>} ELSE {})
      \cup (IF n = 3 THEN {<<"IDENT", "OPEN_PAREN", "CLOSE_PAREN">>} ELSE {})
      \cup UNION {Around(<<op>>, E(n - 1), <<>>) : op \in UnaryOps}
      \cup UNION {Around(<<>>, E(n - 2), <<op, "IDENT">>) : op \in {"DOT", "SUB_GT"}}
      \cup Around(<<"OPEN_PAREN">>, E(n - 2), <<"CLOSE_PAREN">>)
      \cup Around(<<"IDENT", "OPEN_PAREN">>, E(n - 3), <<"CLOSE_PAREN">>)
      \cup Around(<<"IDENT", "OPEN_PAREN">>, E(n - 4), <<"COMMA", "CLOSE_PAREN">>)
      \cup Around(<<"IDENT", "OPEN_SQUARE">>, E(n - 3), <<"CLOSE_SQUARE">>)
      \cup Around(<<"IDENT", "OPEN_BRACE", "IDENT", "COLON">>, E(n - 6), <<"COMMA", "CLOSE_BRACE">>)
      \cup UNION {Around(a \o <<op>>, E(n - 1 - Len(a)), <<>>)
                    : a \in UNION Range(shorter), op \in Infixes}
      \cup UNION {Around(<<"IDENT", "OPEN_PAREN">> \o a \o <<"COMMA">>, E(n - 4 - Len(a)),
                         <<"CLOSE_PAREN">>)
                    : a \in UNION Range(shorter)}

RECURSIVE UpTo(_)

\* The expressions of each length up to n.
UpTo(n) ==
  LET shorter == UpTo(n - 1)
  IN  IF n = 0 THEN <<>> ELSE Append(shorter, OfLength(n, shorter))

Ones == UNION Range(UpTo(MaxOne))

Lines == LET short == UNION Range(UpTo(MaxLine))
         IN  short \cup Around(<<>>, short, <<"SEMICOLON">>)

\* Four operands with an operator between each two.
Chains ==
  {<<"IDENT", op[1], "IDENT", op[2], "IDENT", op[3], "IDENT">> : op \in [1 .. 3 -> Infixes]}

\* The three lines of src/tests/parser.cc:25-27.
TestText ==
  << <<"OPEN_PAREN", "IDENT", "OPEN_SQUARE", "INT", "CLOSE_SQUARE", "ADD", "IDENT",
       "CLOSE_PAREN", "ADD", "INT", "SUB", "IDENT", "OPEN_PAREN", "IDENT", "DOT", "IDENT",
       "CLOSE_PAREN">>,
     <<"IDENT", "EQ", "IDENT", "ADD", "INT", "ADD", "INT">>,
     <<"IDENT", "OPEN_BRACE", "IDENT", "COLON", "INT", "COMMA",
       "IDENT", "COLON", "INT", "ADD", "SUB", "INT", "COMMA", "CLOSE_BRACE">> >>

\* That text, and each of its lines before and behind a short one.
Samples ==
  LET short == UNION Range(UpTo(2))
  IN  {TestText} \cup {<<TestText[i], e>> : i \in 1 .. 3, e \in short}
                 \cup {<<e, TestText[i]>> : i \in 1 .. 3, e \in short}

MCTexts ==
  {<<e>> : e \in Ones \cup Chains} \cup Samples
    \cup {t \in Lines \X Lines : Len(t[1]) + Len(t[2]) <= MaxText}
=============================================================================
