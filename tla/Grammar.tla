------------------------------ MODULE Grammar ------------------------------
(***************************************************************************)
(* The language that src/parser.cc accepts, as a context-free grammar: the *)
(* reference that the parser is compared with.  It has no precedences, no  *)
(* lookahead and no order among its alternatives, and is ambiguous where   *)
(* the language is: a line may begin with what could go on the one before. *)
(***************************************************************************)
EXTENDS Naturals, Sequences

Operators ==
  {"EQ", "ADD_EQ", "SUB_EQ", "MUL_EQ", "DIV_EQ", "DEQ", "GE", "LE", "GT", "LT",
   "ADD", "SUB", "MUL", "DIV"}

(***************************************************************************)
(* The alternatives of each nonterminal; every other symbol is a token.    *)
(***************************************************************************)
Alternatives ==
  [ document   |-> {<<>>,
                    <<"FUNCTION", "IDENT", "OPEN_PAREN", "params", "CLOSE_PAREN",
                      "COLON", "type", "body", "document">>,
                    <<"STRUCT", "IDENT", "OPEN_BRACE", "fields", "CLOSE_BRACE", "document">>,
                    <<"IMPORT", "STRING", "document">>},
    params     |-> {<<>>, <<"IDENT", "COLON", "type", "more">>},
    more       |-> {<<>>, <<"COMMA", "params">>},
    fields     |-> {<<>>, <<"IDENT", "COLON", "type", "SEMICOLON", "fields">>},
    type       |-> {<<"IDENT", "stars">>},
    stars      |-> {<<>>, <<"MUL", "stars">>},
    body       |-> {<<"SEMICOLON">>, <<"block">>},
    block      |-> {<<"OPEN_BRACE", "statements", "CLOSE_BRACE">>},
    statements |-> {<<>>, <<"statement", "statements">>},
    statement  |-> {<<"simple", "semicolon">>, <<"RETURN", "result">>},
    semicolon  |-> {<<>>, <<"SEMICOLON">>},
    result     |-> {<<"SEMICOLON">>, <<"expression", "semicolon">>},
    init       |-> {<<"simple", "SEMICOLON">>, <<"RETURN", "ended">>},
    ended      |-> {<<"SEMICOLON">>, <<"expression", "SEMICOLON">>},
    simple     |-> {<<"expression">>,
                    <<"arms">>,
                    <<"LET", "IDENT", "COLON", "type", "value">>,
                    <<"WHILE", "OPEN_PAREN", "expression", "CLOSE_PAREN", "block">>,
                    <<"FOR", "OPEN_PAREN", "init", "expression", "SEMICOLON", "expression",
                      "CLOSE_PAREN", "block">>},
    arms       |-> {<<"IF", "OPEN_PAREN", "expression", "CLOSE_PAREN", "block", "others">>},
    others     |-> {<<>>, <<"ELSE", "arms">>, <<"ELSE", "block">>},
    value      |-> {<<>>, <<"EQ", "expression">>},
    expression |-> {<<"operand", "operations">>},
    operations |-> {<<>>} \cup {<<op, "operand", "operations">> : op \in Operators},
    operand    |-> {<<"primary", "members">>}
                     \cup {<<op, "operand">> : op \in {"SUB", "MUL", "AND"}},
    members    |-> {<<>>, <<"DOT", "IDENT", "members">>, <<"SUB_GT", "IDENT", "members">>},
    primary    |-> {<<"INT">>, <<"FLOAT">>, <<"STRING">>, <<"IDENT">>,
                    <<"OPEN_PAREN", "expression", "CLOSE_PAREN">>,
                    <<"IDENT", "OPEN_PAREN", "arguments", "CLOSE_PAREN">>,
                    <<"IDENT", "OPEN_SQUARE", "expression", "CLOSE_SQUARE">>,
                    <<"IDENT", "OPEN_BRACE", "inits", "CLOSE_BRACE">>},
    arguments  |-> {<<>>, <<"expression", "further">>},
    further    |-> {<<>>, <<"COMMA", "arguments">>},
    inits      |-> {<<>>, <<"IDENT", "COLON", "expression", "COMMA", "inits">>} ]

(***************************************************************************)
(* A derivation of the text s, from the left: the tokens it has read of s, *)
(* and the symbols that the rest of s has to be.  END_OF_FILE is the end   *)
(* of the text and no token in it, and read like one.                      *)
(***************************************************************************)
Derivation(form, read) == [form |-> form, read |-> read]

Begun == Derivation(<<"document", "END_OF_FILE">>, 0)

Reads(s, i, symbol) ==
  IF symbol = "END_OF_FILE" THEN i = Len(s) ELSE i < Len(s) /\ s[i + 1] = symbol

\* What a derivation may be a step later: an alternative is taken, or a token read.
Onward(s, d) ==
  LET first == Head(d.form)
      rest  == Tail(d.form)
  IN  CASE d.form = <<>> -> {}
        [] d.form # <<>> /\ first \in DOMAIN Alternatives ->
             {Derivation(alternative \o rest, d.read) : alternative \in Alternatives[first]}
        [] OTHER -> IF Reads(s, d.read, first) THEN {Derivation(rest, d.read + 1)} ELSE {}
=============================================================================
