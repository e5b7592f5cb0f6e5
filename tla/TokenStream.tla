---------------------------- MODULE TokenStream ----------------------------
(***************************************************************************)
(* What a lexer promises its caller: the tokens of the text, in order,     *)
(* each once, however far ahead the caller has looked.  It has no buffer   *)
(* and no position of its own: the next token is the one that follows the  *)
(* last one handed out.                                                    *)
(***************************************************************************)
EXTENDS Lexemes

CONSTANT Texts

VARIABLES
  text,     \* the source text
  out       \* the tokens handed out so far

vars == <<text, out>>

Init ==
  /\ text \in Texts
  /\ out = <<>>

(***************************************************************************)
(* Hand out the next token.  After the end of the text that is END_OF_FILE *)
(* again, for as long as the caller asks.                                  *)
(***************************************************************************)
Deliver ==
  /\ \E type \in TokenType, start, length \in 0 .. Len(text) :
       LET tok == [type |-> type, start |-> start, length |-> length]
       IN  /\ out' = Append(out, tok)
           /\ IsNextToken(text, EndOf(text, out), tok)
  /\ UNCHANGED text

Spec == Init /\ [][Deliver]_vars
=============================================================================
