------------------------------ MODULE Lexemes ------------------------------
(***************************************************************************)
(* The lexical grammar of llang: the character classes and the token table *)
(* of src/lexer.cc, and, stated over a whole text, what the next token     *)
(* after a position is.                                                    *)
(*                                                                         *)
(* A text is a sequence of characters, each a name of its own, and a       *)
(* position counts the characters before it, as Span::start does.  The     *)
(* letters "i", "f" and "x" and the digits "0" and "1" stand for the rest: *)
(* "if" is the one keyword that can be spelled, and stands for the nine    *)
(* the code compares with one by one.                                      *)
(***************************************************************************)
EXTENDS Naturals, Sequences

Alpha      == {"i", "f", "x"}
Numeric    == {"0", "1"}
Whitespace == {"space", "newline", "tab"}

IdentifierFirst == Alpha \cup {"underscore"}
Identifier      == Alpha \cup Numeric \cup {"underscore"}

IfSpelling == <<"i", "f">>

(***************************************************************************)
(* The operators, as a function from their spelling to their TokenType.    *)
(***************************************************************************)
OneChar ==
  [c \in {"dot", "and", "comma", "colon", "semicolon", "lparen", "rparen",
          "lbrace", "rbrace", "lsquare", "rsquare",
          "+", "-", "*", "/", "<", ">", "="} |->
     CASE c = "dot"     -> "DOT"          [] c = "and"     -> "AND"
       [] c = "lparen"  -> "OPEN_PAREN"   [] c = "rparen"  -> "CLOSE_PAREN"
       [] c = "lbrace"  -> "OPEN_BRACE"   [] c = "rbrace"  -> "CLOSE_BRACE"
       [] c = "lsquare" -> "OPEN_SQUARE"  [] c = "rsquare" -> "CLOSE_SQUARE"
       [] c = "comma"   -> "COMMA"        [] c = "colon"   -> "COLON"
       [] c = "semicolon" -> "SEMICOLON"  [] c = "=" -> "EQ"
       [] c = "+" -> "ADD"                [] c = "-" -> "SUB"
       [] c = "*" -> "MUL"                [] c = "/" -> "DIV"
       [] c = "<" -> "LT"                 [] c = ">" -> "GT"]

TwoChar ==
  [p \in {<<c, "=">> : c \in {"+", "-", "*", "/", "<", ">", "="}}
           \cup {<<"-", ">">>} |->
     CASE p = <<"+", "=">> -> "ADD_EQ"  [] p = <<"-", "=">> -> "SUB_EQ"
       [] p = <<"*", "=">> -> "MUL_EQ"  [] p = <<"/", "=">> -> "DIV_EQ"
       [] p = <<"<", "=">> -> "LE"      [] p = <<">", "=">> -> "GE"
       [] p = <<"=", "=">> -> "DEQ"     [] p = <<"-", ">">> -> "SUB_GT"]

(***************************************************************************)
(* The types a token can have, and the tokens a text can hold.             *)
(***************************************************************************)
WordTypes == {"IDENT", "IF", "INT", "FLOAT", "STRING", "END_OF_FILE"}

TokenType ==
  WordTypes \cup {OneChar[c] : c \in DOMAIN OneChar}
            \cup {TwoChar[p] : p \in DOMAIN TwoChar}

Span  == [start : Nat, length : Nat]
Token == [type : TokenType, start : Nat, length : Nat]

(***************************************************************************)
(* Membership of a character in the class a consume() call is given.       *)
(***************************************************************************)
InClass(class, c) ==
  CASE class = "ident"   -> c \in Identifier
    [] class = "int"     -> c \in Numeric
    [] class = "frac"    -> c \in Numeric
    [] class = "string"  -> c # "quote"
    [] class = "blank"   -> c \in Whitespace
    [] class = "comment" -> c # "newline"

(***************************************************************************)
(* The grammar.  Run: [from, to) is a longest run of a class.  CommentOver *)
(* : a "//" at c comments out the character at i.  BlankAt: the character  *)
(* at i, reached from p without meeting a token, belongs to no token.      *)
(***************************************************************************)
Run(t, class, from, to) ==
  /\ from <= to
  /\ to <= Len(t)
  /\ \A i \in from .. to - 1 : InClass(class, t[i + 1])
  /\ to < Len(t) => ~ InClass(class, t[to + 1])

SlashSlash(t, c) ==
  /\ c + 1 < Len(t)
  /\ t[c + 1] = "/"
  /\ t[c + 2] = "/"

CommentOver(t, c, i) ==
  /\ SlashSlash(t, c)
  /\ \A j \in c .. i : t[j + 1] # "newline"

BlankAt(t, p, i) ==
  \/ t[i + 1] \in Whitespace
  \/ \E c \in p .. i : CommentOver(t, c, i)

BlankEnd(t, p, q) ==
  /\ \A i \in p .. q - 1 : BlankAt(t, p, i)
  /\ q < Len(t) => ~ BlankAt(t, p, q)

(***************************************************************************)
(* The lexeme at a position that is not blank, by the longest match.  A    *)
(* character no token begins with is an END_OF_FILE of length one.         *)
(***************************************************************************)
Word(t, q, tok) ==
  \E e \in q .. Len(t) :
    /\ Run(t, "ident", q, e)
    /\ tok = [type   |-> IF SubSeq(t, q + 1, e) = IfSpelling THEN "IF" ELSE "IDENT",
              start  |-> q,
              length |-> e - q]

Number(t, q, tok) ==
  \E e \in q .. Len(t) :
    /\ Run(t, "int", q, e)
    /\ \/ /\ e < Len(t) /\ t[e + 1] = "dot"
          /\ \E f \in e + 1 .. Len(t) :
               /\ Run(t, "frac", e + 1, f)
               /\ tok = [type |-> "FLOAT", start |-> q, length |-> f - q]
       \/ /\ ~ (e < Len(t) /\ t[e + 1] = "dot")
          /\ tok = [type |-> "INT", start |-> q, length |-> e - q]

Quoted(t, q, tok) ==
  \E e \in q + 1 .. Len(t) :
    /\ Run(t, "string", q + 1, e)
    /\ tok = [type |-> "STRING", start |-> q + 1, length |-> e - (q + 1)]

Operator(t, q, tok) ==
  IF q + 1 < Len(t) /\ <<t[q + 1], t[q + 2]>> \in DOMAIN TwoChar
  THEN tok = [type |-> TwoChar[<<t[q + 1], t[q + 2]>>], start |-> q, length |-> 2]
  ELSE tok = [type |-> OneChar[t[q + 1]], start |-> q, length |-> 1]

Lexeme(t, q, tok) ==
  LET c == t[q + 1]
  IN  \/ /\ q = Len(t)
         /\ tok = [type |-> "END_OF_FILE", start |-> q, length |-> 0]
      \/ /\ q < Len(t)
         /\ \/ c \in IdentifierFirst /\ Word(t, q, tok)
            \/ c \in Numeric /\ Number(t, q, tok)
            \/ c = "quote" /\ Quoted(t, q, tok)
            \/ c \in DOMAIN OneChar /\ Operator(t, q, tok)
            \/ /\ c \notin IdentifierFirst \cup Numeric \cup {"quote"} \cup DOMAIN OneChar
               /\ tok = [type |-> "END_OF_FILE", start |-> q, length |-> 1]

(***************************************************************************)
(* tok is the next token of t after position p; and where it ends, with    *)
(* the closing quote that its span leaves out.                             *)
(***************************************************************************)
IsNextToken(t, p, tok) ==
  \E q \in p .. Len(t) : BlankEnd(t, p, q) /\ Lexeme(t, q, tok)

After(t, tok) ==
  LET end == tok.start + tok.length
  IN  IF tok.type = "STRING" /\ end < Len(t) THEN end + 1 ELSE end

(***************************************************************************)
(* The position after the last token of a sequence of tokens.              *)
(***************************************************************************)
EndOf(t, toks) ==
  IF toks = <<>> THEN 0 ELSE After(t, toks[Len(toks)])
=============================================================================
