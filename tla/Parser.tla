------------------------------ MODULE Parser ------------------------------
(***************************************************************************)
(* The recursive-descent parser of src/parser.cc.                          *)
(*                                                                         *)
(* The C++ call stack is `work`: the steps still to be done, the next one  *)
(* first.  A step is a token to be consumed with next().expect(), a        *)
(* procedure (or the rest of one, from a loop or a decision on), or the    *)
(* construction of a node.  Of the tree only what the code does not check  *)
(* is kept: which expressions are null pointers, and where a null pointer  *)
(* is stored, dereferenced or cloned.  parsePrimary() answers nullptr when *)
(* it meets no expression, and its callers build nodes of what they get.   *)
(***************************************************************************)
EXTENDS Naturals, Sequences

CONSTANT Inputs  \* the sequences of token types that the lexer may deliver

ASSUME InputsAssumption == Inputs \subseteq Seq(STRING)

VARIABLES
  input,     \* the token types of the source, without the final END_OF_FILE
  pos,       \* how many of them next() has consumed
  work,      \* what is left to do
  ret,       \* the expression last returned or built
  messages,  \* the errors reported: the token, and what was expected there
  holes,     \* the kinds of null pointer that the tree holds
  crash      \* "no", or why the program stopped

vars == <<input, pos, work, ret, messages, holes, crash>>

(***************************************************************************)
(* What clone() makes of an expression: nothing for the node types that do *)
(* not override it ("plain"), a copy ("copies"), a copy that has a null    *)
(* pointer in it ("holes"), or the dereference of one ("crashes").         *)
(***************************************************************************)
Kind == {"null", "plain", "copies", "holes", "crashes"}

\* DotExpr and UnaryExpr are built from the state of the clone they hold.
Around(k) == IF k = "plain" THEN "crashes" ELSE k

\* ArrayAccessExpr stores the clone of its index whatever it is.
Indexed(k) ==
  CASE k = "null"  -> "crashes"
    [] k = "plain" -> "holes"
    [] OTHER       -> k

CompoundOps == {"ADD_EQ", "SUB_EQ", "MUL_EQ", "DIV_EQ"}

ComparisonOps == {"DEQ", "GE", "LE", "GT", "LT"}

AddSubOps == {"ADD", "SUB"}

MulDivOps == {"MUL", "DIV"}

UnaryOps == {"SUB", "MUL", "AND"}

Literals == {"INT", "FLOAT", "STRING"}

Symbols ==
  CompoundOps \cup ComparisonOps \cup AddSubOps \cup MulDivOps \cup UnaryOps
    \cup Literals
    \cup {"EQ", "DOT", "SUB_GT", "COMMA", "COLON", "SEMICOLON", "IDENT",
          "OPEN_PAREN", "CLOSE_PAREN", "OPEN_BRACE", "CLOSE_BRACE",
          "OPEN_SQUARE", "CLOSE_SQUARE", "FUNCTION", "STRUCT", "IMPORT",
          "IF", "ELSE", "WHILE", "FOR", "RETURN", "LET"}

Procedures ==
  {"Document", "Function", "Params", "MoreParams", "FunctionBody", "StructDecl",
   "Fields", "Import", "ReadFile", "Block", "Statements", "MoreStatements",
   "Statement", "ReturnStatement", "ReturnValue", "IfStatement", "IfRest",
   "LetStatement", "LetValue", "WhileStatement", "WhileCond", "ForStatement",
   "ForCond", "Expression", "MoreAssign", "Comparison", "MoreComparison",
   "AddSub", "MoreAddSub", "MulDiv", "MoreMulDiv", "Unary", "DotOp", "MoreDot",
   "Primary", "FunctionCall", "Arguments", "MoreArguments", "ArrayAccess",
   "Variable", "StructInit", "Inits", "TypeName", "Stars"}

Constructions ==
  {"MakeAssign", "MakeCompound", "MakeBinary", "MakeAround", "MakeArrayAccess",
   "MakeVariable", "MakeLoop", "MakePlain", "Keep"}

Frame ==
  [do   : Symbols \cup Procedures \cup Constructions,
   with : Kind \cup {"none"}]  \* the expression that the construction holds

Init ==
  /\ input \in Inputs
  /\ pos = 0
  /\ ret = "plain"
  /\ messages = {}
  /\ holes = {}
  /\ crash = "no"
  /\ work = <<[do |-> "Document", with |-> "none"]>>

----------------------------------------------------------------------------
\* peek(n): END_OF_FILE from the end of the text on.
Here(n) == IF pos + n < Len(input) THEN input[pos + n + 1] ELSE "END_OF_FILE"

\* Mutant: next() goes on past the end.
PastNextUnchecked == pos + 1

\* The position after next().
PastNext == IF pos < Len(input) THEN pos + 1 ELSE pos

Message(expected) == [at |-> pos, expected |-> expected]

At(step) ==
  /\ crash = "no"
  /\ work # <<>>
  /\ Head(work).do = step

held == Head(work).with

Steps(names) == [i \in DOMAIN names |-> [do |-> names[i], with |-> "none"]]

\* Do these steps in place of the one at the head of the work.
Enter(step, names) ==
  /\ At(step)
  /\ work' = Steps(names) \o Tail(work)
  /\ UNCHANGED <<input, pos, ret, messages, holes, crash>>

\* The same, with a construction among them that holds the expression at hand.
Hold(step, before, construction, after) ==
  /\ At(step)
  /\ work' = Steps(before) \o <<[do |-> construction, with |-> ret]>>
               \o Steps(after) \o Tail(work)
  /\ UNCHANGED <<input, pos, ret, messages, holes, crash>>

\* Construct a node, and return it, unless a null pointer is dereferenced.
Make(construction, fatal, gaps, kind) ==
  /\ At(construction)
  /\ IF fatal = "no"
     THEN /\ work' = Tail(work)
          /\ ret' = kind
          /\ holes' = holes \cup gaps
          /\ UNCHANGED crash
     ELSE /\ crash' = fatal
          /\ UNCHANGED <<work, ret, holes>>
  /\ UNCHANGED <<input, pos, messages>>

Missing(k) == IF k = "null" THEN {"missing"} ELSE {}

Dereferenced(k) == IF k = "null" THEN "missing" ELSE "no"

\* next().expect(symbol): consume the token, and report it if it is another.
Expect(symbol) ==
  /\ At(symbol)
  /\ pos' = PastNext
  /\ work' = Tail(work)
  /\ messages' = IF Here(0) = symbol THEN messages
                                     ELSE messages \cup {Message(symbol)}
  /\ UNCHANGED <<input, ret, holes, crash>>

----------------------------------------------------------------------------
(***************************************************************************)
(* Declarations.                                                           *)
(***************************************************************************)
Declaration ==
  [keyword \in {"FUNCTION", "STRUCT", "IMPORT"} |->
     CASE keyword = "FUNCTION" -> "Function"
       [] keyword = "STRUCT"   -> "StructDecl"
       [] keyword = "IMPORT"   -> "Import"]

ParseDeclaration ==
  /\ Here(0) \in DOMAIN Declaration
  /\ Enter("Document", <<Declaration[Here(0)], "Document">>)

\* END_OF_FILE before the end is a character the lexer has reported.
EndDocument ==
  /\ At("Document")
  /\ Here(0) = "END_OF_FILE"
  /\ work' = Tail(work)
  /\ messages' = IF pos < Len(input) THEN messages \cup {Message("token")}
                                     ELSE messages
  /\ UNCHANGED <<input, pos, ret, holes, crash>>

\* Anything else ends the parse, however much text is left.
AbandonDocument ==
  /\ At("Document")
  /\ Here(0) \notin DOMAIN Declaration \cup {"END_OF_FILE"}
  /\ messages' = messages \cup {Message("declaration")}
  /\ pos' = PastNext
  /\ work' = Tail(work)
  /\ UNCHANGED <<input, ret, holes, crash>>

ParseFunction ==
  Enter("Function", <<"FUNCTION", "IDENT", "OPEN_PAREN", "Params", "CLOSE_PAREN",
                      "COLON", "TypeName", "FunctionBody">>)

ParseParams ==
  Enter("Params", IF Here(0) = "CLOSE_PAREN" THEN <<>>
                  ELSE <<"IDENT", "COLON", "TypeName", "MoreParams">>)

MoreParams ==
  Enter("MoreParams", IF Here(0) = "CLOSE_PAREN" THEN <<>> ELSE <<"COMMA", "Params">>)

ParseFunctionBody ==
  Enter("FunctionBody", IF Here(0) = "SEMICOLON" THEN <<"SEMICOLON">> ELSE <<"Block">>)

ParseStructDecl ==
  Enter("StructDecl", <<"STRUCT", "IDENT", "OPEN_BRACE", "Fields", "CLOSE_BRACE">>)

ParseFields ==
  Enter("Fields", IF Here(0) = "CLOSE_BRACE" THEN <<>>
                  ELSE <<"IDENT", "COLON", "TypeName", "SEMICOLON", "Fields">>)

ParseImport == Enter("Import", <<"IMPORT", "STRING", "ReadFile">>)

(***************************************************************************)
(* The file is parsed by another Parser, with a Source and messages of its *)
(* own; or it cannot be read, and get_file_contents() throws errno, which  *)
(* is an int: no handler of the program catches it.                        *)
(***************************************************************************)
ReadFile ==
  \/ Make("ReadFile", "no", {}, ret)
  \/ Make("ReadFile", "thrown", {}, ret)

ParseTypeName == Enter("TypeName", <<"IDENT", "Stars">>)

\* Mutant: the star is looked at and not consumed.
ParseStarsPeeks == Enter("Stars", IF Here(0) = "MUL" THEN <<"Stars">> ELSE <<>>)

ParseStars == Enter("Stars", IF Here(0) = "MUL" THEN <<"MUL", "Stars">> ELSE <<>>)

----------------------------------------------------------------------------
(***************************************************************************)
(* Statements.                                                             *)
(***************************************************************************)
ParseBlock == Enter("Block", <<"OPEN_BRACE", "Statements", "CLOSE_BRACE">>)

ParseStatements ==
  Enter("Statements", IF Here(0) = "CLOSE_BRACE" THEN <<>>
                      ELSE <<"Statement", "Keep", "MoreStatements">>)

\* Mutant: a statement that is not the last needs its semicolon.
MoreStatementsSeparated ==
  Enter("MoreStatements", IF Here(0) = "CLOSE_BRACE" THEN <<>>
                                                     ELSE <<"SEMICOLON", "Statements">>)

\* The semicolon is optional.
MoreStatements ==
  Enter("MoreStatements", IF Here(0) = "SEMICOLON" THEN <<"SEMICOLON", "Statements">>
                                                   ELSE <<"Statements">>)

ParseStatement ==
  Enter("Statement", << CASE Here(0) = "RETURN" -> "ReturnStatement"
                          [] Here(0) = "IF"     -> "IfStatement"
                          [] Here(0) = "LET"    -> "LetStatement"
                          [] Here(0) = "WHILE"  -> "WhileStatement"
                          [] Here(0) = "FOR"    -> "ForStatement"
                          [] OTHER              -> "Expression" >>)

ParseReturnStatement == Enter("ReturnStatement", <<"RETURN", "ReturnValue">>)

\* The semicolon is left to the caller; a null expression is none.
ParseReturnValue ==
  Enter("ReturnValue", IF Here(0) = "SEMICOLON" THEN <<"MakePlain">>
                                                ELSE <<"Expression", "MakePlain">>)

ParseIfStatement ==
  Enter("IfStatement", <<"IF", "OPEN_PAREN", "Expression", "Keep", "CLOSE_PAREN",
                         "Block", "IfRest">>)

ParseIfRest ==
  Enter("IfRest",
        CASE Here(0) = "ELSE" /\ Here(1) = "IF" -> <<"ELSE", "IfStatement">>
          [] Here(0) = "ELSE" /\ Here(1) # "IF" -> <<"ELSE", "Block", "MakePlain">>
          [] OTHER                              -> <<"MakePlain">>)

ParseLetStatement ==
  Enter("LetStatement", <<"LET", "IDENT", "COLON", "TypeName", "LetValue">>)

ParseLetValue ==
  Enter("LetValue", IF Here(0) = "EQ" THEN <<"EQ", "Expression", "Keep", "MakePlain">>
                                      ELSE <<"MakePlain">>)

\* The condition of a loop is dereferenced once the body has been parsed.
ParseWhileStatement ==
  \/ Enter("WhileStatement", <<"WHILE", "OPEN_PAREN", "Expression", "WhileCond">>)
  \/ Hold("WhileCond", <<"CLOSE_PAREN", "Block">>, "MakeLoop", <<>>)

ParseForStatement ==
  \/ Enter("ForStatement", <<"FOR", "OPEN_PAREN", "Statement", "Keep", "SEMICOLON",
                             "Expression", "ForCond">>)
  \/ Hold("ForCond", <<"SEMICOLON", "Expression", "Keep", "CLOSE_PAREN", "Block">>,
          "MakeLoop", <<>>)

MakeLoop == Make("MakeLoop", Dereferenced(held), {}, "plain")

\* A node that is no expression, or one that clone() is not overridden for.
MakePlain == Make("MakePlain", "no", {}, "plain")

\* The expression goes into the tree as it is.
Keep == Make("Keep", "no", Missing(ret), ret)

----------------------------------------------------------------------------
(***************************************************************************)
(* Expressions.                                                            *)
(***************************************************************************)
ParseExpression == Enter("Expression", <<"Comparison", "MoreAssign">>)

\* Mutant: the case EQ shares the code of the compound assignments.
MoreAssignAllCompound ==
  IF Here(0) \in CompoundOps \cup {"EQ"}
  THEN Hold("MoreAssign", <<Here(0), "Expression">>, "MakeCompound", <<"MoreAssign">>)
  ELSE Enter("MoreAssign", <<>>)

MoreAssign ==
  CASE Here(0) = "EQ" ->
         Hold("MoreAssign", <<"EQ", "Expression">>, "MakeAssign", <<"MoreAssign">>)
    [] Here(0) \in CompoundOps ->
         Hold("MoreAssign", <<Here(0), "Expression">>, "MakeCompound", <<"MoreAssign">>)
    [] OTHER -> Enter("MoreAssign", <<>>)

MakeAssign == Make("MakeAssign", Dereferenced(ret), Missing(held), "plain")

\* a op= b becomes a = (clone of a) op b.
MakeCompound ==
  Make("MakeCompound",
       CASE held = "null"                -> "missing"
         [] held \in {"plain", "crashes"} -> "copy"
         [] OTHER                        -> "no",
       Missing(ret) \cup (IF held = "holes" THEN {"copied"} ELSE {}),
       "plain")

\* The loop of a level of binary operators: take an operator and an operand.
MoreBinary(loop, operators, operand) ==
  IF Here(0) \in operators
  THEN Hold(loop, <<Here(0), operand>>, "MakeBinary", <<loop>>)
  ELSE Enter(loop, <<>>)

ParseComparison ==
  \/ Enter("Comparison", <<"AddSub", "MoreComparison">>)
  \/ MoreBinary("MoreComparison", ComparisonOps, "AddSub")

ParseAddSub ==
  \/ Enter("AddSub", <<"MulDiv", "MoreAddSub">>)
  \/ MoreBinary("MoreAddSub", AddSubOps, "MulDiv")

ParseMulDiv ==
  \/ Enter("MulDiv", <<"Unary", "MoreMulDiv">>)
  \/ MoreBinary("MoreMulDiv", MulDivOps, "Unary")

MakeBinary == Make("MakeBinary", Dereferenced(held), Missing(ret), "plain")

ParseUnary ==
  Enter("Unary", IF Here(0) \in UnaryOps THEN <<Here(0), "Unary", "MakeAround">>
                                         ELSE <<"DotOp">>)

ParseDotOp ==
  \/ Enter("DotOp", <<"Primary", "MoreDot">>)
  \/ Enter("MoreDot", IF Here(0) \in {"DOT", "SUB_GT"}
                      THEN <<Here(0), "IDENT", "MakeAround", "MoreDot">>
                      ELSE <<>>)

MakeAround == Make("MakeAround", Dereferenced(ret), {}, Around(ret))

ParsePrimary ==
  /\ Here(0) \in {"IDENT", "OPEN_PAREN"} \cup Literals
  /\ Enter("Primary",
           CASE Here(0) = "IDENT" ->
                  << CASE Here(1) = "OPEN_PAREN"  -> "FunctionCall"
                       [] Here(1) = "OPEN_SQUARE" -> "ArrayAccess"
                       [] Here(1) = "OPEN_BRACE"  -> "StructInit"
                       [] OTHER                   -> "Variable" >>
             [] Here(0) = "OPEN_PAREN" -> <<"OPEN_PAREN", "Expression", "CLOSE_PAREN">>
             [] Here(0) \in Literals   -> <<Here(0), "MakePlain">>)

\* Mutant: the answer is nullptr, and nothing is reported.
MissPrimarySilently ==
  /\ At("Primary")
  /\ Here(0) \notin {"IDENT", "OPEN_PAREN"} \cup Literals
  /\ ret' = "null"
  /\ work' = Tail(work)
  /\ UNCHANGED <<input, pos, messages, holes, crash>>

\* No expression begins here: report the token, and leave it.
MissPrimary ==
  /\ At("Primary")
  /\ Here(0) \notin {"IDENT", "OPEN_PAREN"} \cup Literals
  /\ messages' = messages \cup {Message("expression")}
  /\ ret' = "null"
  /\ work' = Tail(work)
  /\ UNCHANGED <<input, pos, holes, crash>>

ParseFunctionCall ==
  Enter("FunctionCall", <<"IDENT", "OPEN_PAREN", "Arguments", "CLOSE_PAREN", "MakePlain">>)

ParseArguments ==
  Enter("Arguments", IF Here(0) = "CLOSE_PAREN" THEN <<>>
                     ELSE <<"Expression", "Keep", "MoreArguments">>)

\* Mutant: a comma is followed by another argument.
MoreArgumentsEach ==
  Enter("MoreArguments", IF Here(0) = "CLOSE_PAREN" THEN <<>>
                         ELSE <<"COMMA", "Expression", "Keep", "MoreArguments">>)

MoreArguments ==
  Enter("MoreArguments", IF Here(0) = "CLOSE_PAREN" THEN <<>> ELSE <<"COMMA", "Arguments">>)

ParseArrayAccess ==
  Enter("ArrayAccess", <<"Variable", "OPEN_SQUARE", "Expression", "CLOSE_SQUARE",
                         "MakeArrayAccess">>)

MakeArrayAccess == Make("MakeArrayAccess", "no", Missing(ret), Indexed(ret))

ParseVariable == Enter("Variable", <<"IDENT", "MakeVariable">>)

MakeVariable == Make("MakeVariable", "no", {}, "copies")

ParseStructInit ==
  Enter("StructInit", <<"IDENT", "OPEN_BRACE", "Inits", "CLOSE_BRACE", "MakePlain">>)

ParseInits ==
  Enter("Inits", IF Here(0) = "CLOSE_BRACE" THEN <<>>
                 ELSE <<"IDENT", "COLON", "Expression", "COMMA", "Keep", "Inits">>)

----------------------------------------------------------------------------
Declarations ==
  \/ ParseDeclaration \/ EndDocument \/ AbandonDocument
  \/ ParseFunction \/ ParseParams \/ MoreParams \/ ParseFunctionBody
  \/ ParseStructDecl \/ ParseFields
  \/ ParseImport \/ ReadFile
  \/ ParseTypeName \/ ParseStars

Statements ==
  \/ ParseBlock \/ ParseStatements \/ MoreStatements \/ ParseStatement
  \/ ParseReturnStatement \/ ParseReturnValue
  \/ ParseIfStatement \/ ParseIfRest
  \/ ParseLetStatement \/ ParseLetValue
  \/ ParseWhileStatement \/ ParseForStatement

Expressions ==
  \/ ParseExpression \/ MoreAssign
  \/ ParseComparison \/ ParseAddSub \/ ParseMulDiv
  \/ ParseUnary \/ ParseDotOp
  \/ ParsePrimary \/ MissPrimary
  \/ ParseFunctionCall \/ ParseArguments \/ MoreArguments
  \/ ParseArrayAccess \/ ParseVariable
  \/ ParseStructInit \/ ParseInits

Making ==
  \/ MakeAssign \/ MakeCompound \/ MakeBinary \/ MakeAround
  \/ MakeArrayAccess \/ MakeVariable \/ MakeLoop \/ MakePlain \/ Keep

Next ==
  \/ \E symbol \in Symbols : Expect(symbol)
  \/ Declarations
  \/ Statements
  \/ Expressions
  \/ Making

\* The parser is one thread of control, and runs.
Spec == Init /\ [][Next]_vars /\ WF_vars(Next)

----------------------------------------------------------------------------
Over == work = <<>> \/ crash # "no"

(***************************************************************************)
(* The type invariant.                                                     *)
(***************************************************************************)
TypeOK ==
  /\ input \in Seq(STRING)
  /\ pos \in 0 .. Len(input)
  /\ work \in Seq(Frame)
  /\ ret \in Kind
  /\ messages \subseteq
       [at : 0 .. Len(input), expected : Symbols \cup {"token", "declaration", "expression"}]
  /\ holes \subseteq {"missing", "copied"}
  /\ crash \in {"no", "missing", "copy", "thrown"}

(***************************************************************************)
(* A null pointer that parsePrimary() answered is stored in the tree, or   *)
(* brings the parser down, only after an error has been reported; and one  *)
(* that clone() made only where a compound assignment has been read.  A    *)
(* program without either gives a tree without null pointers, which is     *)
(* what the visitors that follow take for granted.                         *)
(***************************************************************************)
NullsExplained ==
  /\ "missing" \in holes \/ crash = "missing" => messages # {}
  /\ "copied" \in holes \/ crash = "copy" =>
       \E i \in 1 .. pos : input[i] \in CompoundOps

(***************************************************************************)
(* The parser ends, or it has reported something: none of its loops, which *)
(* run until they meet a closing token, can turn for ever over a text that *)
(* it has found nothing wrong with.                                        *)
(***************************************************************************)
EndsOrReports == <>(Over \/ messages # {})

(***************************************************************************)
(* The diagnostic of the '}' that ends a block: where the text ends within *)
(* the block, the parser says in the end that it expected one.             *)
(***************************************************************************)
BraceExpected == <>(\E m \in messages : m.expected = "CLOSE_BRACE")
=============================================================================
