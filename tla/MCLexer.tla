------------------------------ MODULE MCLexer ------------------------------
(***************************************************************************)
(* Instances of Lexer: every text of at most so many characters of an      *)
(* alphabet.                                                               *)
(***************************************************************************)
EXTENDS Lexer

CONSTANTS MaxLen

TextsOver(alphabet, n) == UNION {[1 .. k -> alphabet] : k \in 0 .. n}

\* Blanks, comments and strings, and a character that begins nothing.
Blanks == {"/", "newline", "space", "x", "?", "quote"}

\* Words, numbers and operators.
Words == {"i", "f", "1", "dot", "-", "="}

MCTexts ==
  TextsOver(Blanks, MaxLen) \cup TextsOver(Words, MaxLen)
    \cup TextsOver(Words \cup {">"}, MaxLen - 1)
=============================================================================
