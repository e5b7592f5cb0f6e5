----------------------------- MODULE MCParser -----------------------------
(***************************************************************************)
(* Instances of Parser: every short sequence of an alphabet as the body of *)
(* a function, and every small change to a few documents that have each    *)
(* construct of the language.                                              *)
(***************************************************************************)
EXTENDS ParserDiagnosis

CONSTANTS Alphabet, MaxLen

Heading == <<"FUNCTION", "IDENT", "OPEN_PAREN", "CLOSE_PAREN", "COLON", "IDENT">>

WordsOver(alphabet, n) == UNION {[1 .. k -> alphabet] : k \in 0 .. n}

Words == WordsOver(Alphabet, MaxLen) \cup WordsOver(Alphabet \cup {"EQ"}, MaxLen - 1)

MCBodies == {Heading \o <<"OPEN_BRACE">> \o w \o <<"CLOSE_BRACE">> : w \in Words}

Body(statements) == Heading \o <<"OPEN_BRACE">> \o statements \o <<"CLOSE_BRACE">>

Documents ==
  { <<"IMPORT", "STRING",
      "STRUCT", "IDENT", "OPEN_BRACE", "IDENT", "COLON", "IDENT", "MUL", "SEMICOLON",
      "CLOSE_BRACE",
      "FUNCTION", "IDENT", "OPEN_PAREN", "IDENT", "COLON", "IDENT", "COMMA",
      "IDENT", "COLON", "IDENT", "CLOSE_PAREN", "COLON", "IDENT", "SEMICOLON">>,
    Body(<<"IF", "OPEN_PAREN", "IDENT", "DEQ", "INT", "CLOSE_PAREN", "OPEN_BRACE",
           "RETURN", "SEMICOLON", "CLOSE_BRACE",
           "ELSE", "IF", "OPEN_PAREN", "FLOAT", "CLOSE_PAREN", "OPEN_BRACE", "CLOSE_BRACE",
           "ELSE", "OPEN_BRACE", "RETURN", "IDENT", "CLOSE_BRACE">>),
    Body(<<"LET", "IDENT", "COLON", "IDENT", "SEMICOLON",
           "FOR", "OPEN_PAREN", "LET", "IDENT", "COLON", "IDENT", "EQ", "INT", "SEMICOLON",
           "IDENT", "LT", "INT", "SEMICOLON", "IDENT", "ADD_EQ", "INT", "CLOSE_PAREN",
           "OPEN_BRACE", "WHILE", "OPEN_PAREN", "IDENT", "CLOSE_PAREN",
           "OPEN_BRACE", "CLOSE_BRACE", "CLOSE_BRACE">>),
    Body(<<"IDENT", "SUB_GT", "IDENT", "EQ", "IDENT", "OPEN_BRACE", "IDENT", "COLON",
           "SUB", "INT", "COMMA", "CLOSE_BRACE",
           "IDENT", "OPEN_SQUARE", "IDENT", "CLOSE_SQUARE", "MUL_EQ",
           "IDENT", "OPEN_PAREN", "STRING", "COMMA", "OPEN_PAREN", "AND", "IDENT",
           "CLOSE_PAREN", "CLOSE_PAREN", "ADD", "INT", "DIV", "IDENT">>) }

\* The tokens that take the place of others, and those that come between two.
Changes == {"IDENT", "SEMICOLON", "CLOSE_PAREN", "CLOSE_BRACE", "END_OF_FILE"}

Additions == {"IDENT", "CLOSE_PAREN"}

MCEdits ==
  Documents
    \cup UNION {{SubSeq(d, 1, i) : i \in 0 .. Len(d)} : d \in Documents}
    \cup UNION {{SubSeq(d, 1, i - 1) \o SubSeq(d, i + 1, Len(d)) : i \in DOMAIN d}
                  : d \in Documents}
    \cup UNION {{[d EXCEPT ![i] = t] : i \in DOMAIN d, t \in Changes} : d \in Documents}
    \cup UNION {{SubSeq(d, 1, i) \o <<t>> \o SubSeq(d, i + 1, Len(d))
                   : i \in 0 .. Len(d), t \in Additions} : d \in Documents}

MCInputs == MCBodies \cup MCEdits

\* A function whose closing brace is missing, with a statement or without.
MCUnclosed == {SubSeq(Body(w), 1, Len(Body(w)) - 1) : w \in Words}
=============================================================================
