----------------------------- MODULE MCDriver -----------------------------
(***************************************************************************)
(* Instances of Driver: programs of up to three files.                     *)
(***************************************************************************)
EXTENDS Driver

\* The texts of at most so many items.
Texts(items, n) == UNION {[1 .. k -> items] : k \in 0 .. n}

Import(f) == [kind |-> "import", file |-> f]

Error(kind) == [kind |-> kind]

Function(name, arity, use) ==
  [kind |-> "function", name |-> name, arity |-> arity, use |-> use]

Extern(name, arity) == [kind |-> "extern", name |-> name, arity |-> arity]

Struct(name) == [kind |-> "struct", name |-> name]

Nothing == [what |-> "nothing", of |-> "f", args |-> 0]

Gap == [what |-> "gap", of |-> "f", args |-> 0]

Call(name, args) == [what |-> "call", of |-> name, args |-> args]

Field(name) == [what |-> "field", of |-> name, args |-> 0]

MCFiles == {"main", "a", "b", "c"}

MCNames == {"f", "g", "S"}

\* The files main, a and b; c does not exist.
Three(main, a, b) ==
  {[file \in {"main", "a", "b"} |->
      CASE file = "main" -> t [] file = "a" -> u [] file = "b" -> v]
     : t \in main, u \in a, v \in b}

\* Imports of all kinds, and syntax errors.
MCImports ==
  {<<>>} \cup
  Three(Texts({Import("a"), Import("b"), Import("c"), Function("g", 0, Gap),
               Error("slip"), Error("junk"), Error("unclosed")}, 2),
        Texts({Import("b"), Import("main"), Function("g", 0, Gap), Error("slip"),
               Error("unclosed"), Struct("S")}, 2),
        Texts({Import("a"), Extern("f", 1), Error("slip"), Error("junk")}, 1))

\* Declarations and uses of them.
MCDeclarations ==
  Three(Texts({Import("a"), Import("b"), Function("g", 0, Call("f", 1)),
               Function("f", 0, Call("f", 0)), Function("f", 1, Nothing),
               Function("g", 0, Field("S")), Extern("f", 0), Struct("S")}, 3),
        Texts({Import("b"), Struct("S"), Function("f", 1, Nothing)}, 2),
        Texts({Struct("S"), Extern("f", 1), Error("slip")}, 1))

MCPrograms == MCImports \cup MCDeclarations

\* A structure that one file declares, and no other, and that no file imports
\* twice itself.
MCDiamond ==
  Three({t \in Texts({Import("a"), Import("b"), Function("g", 0, Field("S"))}, 3) :
           \A i, j \in DOMAIN t : t[i] = t[j] => i = j},
        Texts({Import("b")}, 1),
        {<<Struct("S")>>})
=============================================================================
