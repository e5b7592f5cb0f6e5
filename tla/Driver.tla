------------------------------- MODULE Driver -------------------------------
(***************************************************************************)
(* A run of the compiler over the files of a program: main() parses the    *)
(* file it is given, and in it the files that are imported, each with a    *)
(* Source and a Parser of its own; VerifyVisitor and then GenVisitor walk  *)
(* the tree, with the functions and structures that declarations enter in  *)
(* the State they share.                                                   *)
(*                                                                         *)
(* A text is a sequence of declarations and of syntax errors.  A function  *)
(* has at most one thing in its body that matters here.                    *)
(***************************************************************************)
EXTENDS Naturals, Sequences, FiniteSets

CONSTANTS
  Files,     \* paths
  Root,      \* the file that main() is given
  Names,     \* names of functions and structures
  Programs,  \* what the files may be: a function to texts from those that exist
  Depth      \* bound: nested calls of parseImport() that the C++ stack holds

ASSUME RootAssumption == Root \in Files
ASSUME DepthAssumption ==
  IsFiniteSet(Files) /\ Depth \in Nat /\ Depth >= Cardinality(Files)

(***************************************************************************)
(* Uses: nothing, a null pointer left by a syntax error, a call with so    *)
(* many arguments, or a field of a variable of a structure type.           *)
(***************************************************************************)
Use == [what : {"nothing", "gap", "call", "field"}, of : Names, args : Nat]

Node ==
  [kind : {"function"}, name : Names, arity : Nat, use : Use]
    \cup [kind : {"extern"}, name : Names, arity : Nat]
    \cup [kind : {"struct"}, name : Names]
    \cup [kind : {"import"}, src : Nat]

\* In a text an import has a path.  A slip is a declaration that nothing uses,
\* with an error that the parser goes on after; at junk the document ends; of
\* an unclosed declaration, or a block in it, the closing token does not come.
Item ==
  {n \in Node : n.kind # "import"}
    \cup [kind : {"import"}, file : Files]
    \cup [kind : {"slip", "junk", "unclosed"}]

ASSUME ProgramsAssumption ==
  \A p \in Programs : DOMAIN p \subseteq Files /\ \A f \in DOMAIN p : p[f] \in Seq(Item)

VARIABLES
  program,       \* the files
  phase,         \* where main() is, or how the program ended
  sources,       \* every Source read, with the tree parsed from it
  stack,         \* the documents being parsed or visited, innermost last
  v_funcs,       \* state->v_funcs: the number of arguments of each
  v_structures,  \* state->v_structures
  functions,     \* what getFunction() finds in the module
  structures,    \* how many structure types were created for each name
  printed,       \* history: the sources whose messages were printed
  wrong          \* history: what code generation got wrong without noticing

names == <<v_funcs, v_structures, functions, structures>>

vars == <<program, phase, sources, stack, names, printed, wrong>>

Crashes == {"thrown", "overflow", "null", "callee", "range"}

Final == Crashes \cup {"failed", "wrote", "refused"}

Init ==
  /\ program \in Programs
  /\ phase = "start"
  /\ sources = <<>>
  /\ stack = <<>>
  /\ v_funcs = <<>>
  /\ v_structures = {}
  /\ functions = <<>>
  /\ structures = [n \in Names |-> 0]
  /\ printed = {}
  /\ wrong = {}

----------------------------------------------------------------------------
Top == stack[Len(stack)]

Outer == SubSeq(stack, 1, Len(stack) - 1)

Advanced(s) == [s EXCEPT ![Len(s)].at = @ + 1]

Frame(src) == [src |-> src, at |-> 0]

\* The program ends, in the middle of what it is doing.
Stop(how) ==
  /\ phase' = how
  /\ UNCHANGED <<program, sources, stack, names, printed, wrong>>

\* A Source for the file, and a parser at its beginning.
Open(file, above) ==
  /\ sources' = Append(sources, [file |-> file, above |-> above,
                                 nodes |-> <<>>, messages |-> {}])
  /\ stack' = Append(stack, Frame(Len(sources) + 1))
  /\ phase' = "parse"
  /\ UNCHANGED <<program, names, printed, wrong>>

(***************************************************************************)
(* main(): without an argument it says so and goes on to use it.           *)
(***************************************************************************)
Main ==
  /\ phase = "start"
  /\ \E argument \in BOOLEAN :
       \/ ~ argument /\ Stop("null")
       \/ argument /\ Root \notin DOMAIN program /\ Stop("thrown")
       \/ argument /\ Root \in DOMAIN program /\ Open(Root, {})

----------------------------------------------------------------------------
(***************************************************************************)
(* parseDocument() and parseImport().                                      *)
(***************************************************************************)
Text == program[sources[Top.src].file]

Reading == phase = "parse" /\ Top.at < Len(Text)

Next_item == Text[Top.at + 1]

Reported(src, messages) == [sources EXCEPT ![src].messages = @ \cup messages]

ParseDeclaration ==
  /\ Reading /\ Next_item.kind \in {"function", "extern", "struct"}
  /\ LET gap == Next_item.kind = "function" /\ Next_item.use.what = "gap"
     IN  sources' = [Reported(Top.src, IF gap THEN {"syntax"} ELSE {})
                       EXCEPT ![Top.src].nodes = Append(@, Next_item)]
  /\ stack' = Advanced(stack)
  /\ UNCHANGED <<program, phase, names, printed, wrong>>


ParseSlip ==
  /\ Reading /\ Next_item.kind = "slip"
  /\ sources' = Reported(Top.src, {"syntax"})
  /\ stack' = Advanced(stack)
  /\ UNCHANGED <<program, phase, names, printed, wrong>>

\* All of the text that is left is in it, and then END_OF_FILE, again and again:
\* each turn of the loop reports it, and none gets on.
ParseUnclosed ==
  /\ Reading /\ Next_item.kind = "unclosed"
  /\ sources' = Reported(Top.src, {"syntax"})
  /\ UNCHANGED <<program, phase, stack, names, printed, wrong>>

\* What get_file_contents() throws is an int: no handler is for it.
ParseImport ==
  /\ Reading /\ Next_item.kind = "import"
  /\ LET file == Next_item.file
     IN  \/ file \notin DOMAIN program /\ Stop("thrown")
         \/ file \in DOMAIN program /\ Len(stack) = Depth /\ Stop("overflow")
         \/ /\ file \in DOMAIN program /\ Len(stack) < Depth
            /\ Open(file, sources[Top.src].above \cup {Top.src})

\* Mutant: the parser of an import goes on with the file that imports it.
ReturnDocumentNested(src) ==
  LET node == [kind |-> "import", src |-> Top.src]
      back == Outer[Len(Outer)]
  IN  IF Len(stack) = 1
      THEN stack' = <<Frame(1)>> /\ phase' = "verify" /\ sources' = src
      ELSE /\ stack' = Append(stack, [back EXCEPT !.at = @ + 1])
           /\ sources' = [src EXCEPT ![back.src].nodes = Append(@, node)]
           /\ UNCHANGED phase

\* The document goes to main(), or into an import of the file outside.
ReturnDocument(src) ==
  LET node == [kind |-> "import", src |-> Top.src]
  IN  IF Len(stack) = 1
      THEN stack' = <<Frame(1)>> /\ phase' = "verify" /\ sources' = src
      ELSE /\ stack' = Advanced(Outer)
           /\ sources' = [src EXCEPT ![Outer[Len(Outer)].src].nodes = Append(@, node)]
           /\ UNCHANGED phase

EndDocument ==
  /\ phase = "parse" /\ Top.at = Len(Text)
  /\ ReturnDocument(sources)
  /\ UNCHANGED <<program, names, printed, wrong>>

AbandonDocument ==
  /\ Reading /\ Next_item.kind = "junk"
  /\ ReturnDocument(Reported(Top.src, {"syntax"}))
  /\ UNCHANGED <<program, names, printed, wrong>>

----------------------------------------------------------------------------
(***************************************************************************)
(* The visitors.  Of the functions of an imported file only the prototype  *)
(* is visited.                                                             *)
(***************************************************************************)
Nodes == sources[Top.src].nodes

Visited == Nodes[Top.at + 1]

Visiting(visitor, kind) == phase = visitor /\ Top.at < Len(Nodes) /\ Visited.kind = kind

InRoot == Len(stack) = 1

With(f, n, value) == [x \in DOMAIN f \cup {n} |-> IF x = n THEN value ELSE f[x]]

\* On to the next node.
Done ==
  /\ stack' = Advanced(stack)
  /\ UNCHANGED <<program, phase, printed>>

Descend(node) == stack' = Append(Advanced(stack), Frame(node.src))

\* Mutant: the end of the document that main() visits is taken for another's.
AscendAlways(visitor) ==
  /\ phase = visitor /\ Top.at = Len(Nodes)
  /\ stack' = Outer
  /\ UNCHANGED <<program, phase, sources, names, printed, wrong>>

\* At the end of an imported document.
Ascend(visitor) ==
  /\ phase = visitor /\ Top.at = Len(Nodes) /\ ~ InRoot
  /\ stack' = Outer
  /\ UNCHANGED <<program, phase, sources, names, printed, wrong>>

\* Mutant: arguments beyond the parameters are not looked at.
CallMessagesAnyNumber(use, known) ==
  IF use.of \notin DOMAIN known THEN {"not in scope"} ELSE {}

CallMessages(use, known) ==
  IF use.of \notin DOMAIN known THEN {"not in scope"}
  ELSE IF use.args > known[use.of] THEN {"extra argument"}
  ELSE {}

VerifyFunction ==
  LET node == Visited
      known == With(v_funcs, node.name, node.arity)
      null == InRoot /\ \/ node.use.what = "gap"
                        \/ node.use.what = "field" /\ node.use.of \notin v_structures
  IN  /\ Visiting("verify", "function")
      /\ IF null
         THEN Stop("null")
         ELSE /\ v_funcs' = known
              /\ sources' = IF InRoot /\ node.use.what = "call"
                            THEN Reported(Top.src, CallMessages(node.use, known))
                            ELSE sources
              /\ Done
              /\ UNCHANGED <<v_structures, functions, structures, wrong>>

VerifyExtern ==
  /\ Visiting("verify", "extern")
  /\ v_funcs' = With(v_funcs, Visited.name, Visited.arity)
  /\ Done
  /\ UNCHANGED <<sources, v_structures, functions, structures, wrong>>

VerifyStruct ==
  /\ Visiting("verify", "struct")
  /\ v_structures' = v_structures \cup {Visited.name}
  /\ Done
  /\ UNCHANGED <<sources, v_funcs, functions, structures, wrong>>

Messages(src) == sources[src].messages

Show(src) == printed' = IF Messages(src) = {} THEN printed ELSE printed \cup {src}

\* Mutant: nothing is reported in the file that imports.
VerifyImportQuietly ==
  /\ Visiting("verify", "import")
  /\ Show(Visited.src)
  /\ IF Messages(Visited.src) = {}
     THEN Descend(Visited)
     ELSE stack' = Advanced(stack)
  /\ UNCHANGED <<program, phase, sources, names, wrong>>

\* Mutant: imports are followed one level only.
VerifyImportOneLevel ==
  /\ Visiting("verify", "import")
  /\ IF InRoot
     THEN /\ Show(Visited.src)
          /\ IF Messages(Visited.src) = {}
             THEN Descend(Visited) /\ UNCHANGED sources
             ELSE /\ sources' = Reported(Top.src, {"included"})
                  /\ stack' = Advanced(stack)
     ELSE stack' = Advanced(stack) /\ UNCHANGED <<sources, printed>>
  /\ UNCHANGED <<program, phase, names, wrong>>

\* The messages of the file are printed; with any, it is not visited.
VerifyImport ==
  /\ Visiting("verify", "import")
  /\ Show(Visited.src)
  /\ IF Messages(Visited.src) = {}
     THEN Descend(Visited) /\ UNCHANGED sources
     ELSE /\ sources' = Reported(Top.src, {"included"})
          /\ stack' = Advanced(stack)
  /\ UNCHANGED <<program, phase, names, wrong>>

\* Back in main(): with a message in its own file, it returns.
EndVerify ==
  /\ phase = "verify" /\ Top.at = Len(Nodes) /\ InRoot
  /\ Show(1)
  /\ phase' = IF Messages(1) = {} THEN "gen" ELSE "failed"
  /\ stack' = <<Frame(1)>>
  /\ UNCHANGED <<program, sources, names, wrong>>

----------------------------------------------------------------------------
\* Function::Create(): of two with one name the second is renamed.
Created(node) ==
  IF node.name \in DOMAIN functions THEN functions
  ELSE With(functions, node.name, node.arity)

\* The type is named like the structure only if it is the first of the name:
\* the places of the fields are looked up by the name of the type.
WrongUse(use, made) ==
  CASE use.what = "call" -> IF made[use.of] # use.args THEN {"signature"} ELSE {}
    [] use.what = "field" -> IF structures[use.of] > 1 THEN {"field"} ELSE {}
    [] OTHER -> {}

GenFunction ==
  LET node == Visited
      made == Created(node)
  IN  /\ Visiting("gen", "function")
      /\ CASE InRoot /\ made[node.name] > node.arity -> Stop("range")
           [] InRoot /\ made[node.name] <= node.arity
                /\ node.use.what = "call" /\ node.use.of \notin DOMAIN made -> Stop("callee")
           [] InRoot /\ made[node.name] <= node.arity
                /\ node.use.what = "field" /\ structures[node.use.of] = 0 -> Stop("null")
           [] OTHER -> /\ functions' = made
                       /\ wrong' = wrong \cup (IF InRoot THEN WrongUse(node.use, made) ELSE {})
                       /\ Done
                       /\ UNCHANGED <<sources, v_funcs, v_structures, structures>>

GenExtern ==
  /\ Visiting("gen", "extern")
  /\ functions' = Created(Visited)
  /\ Done
  /\ UNCHANGED <<sources, v_funcs, v_structures, structures, wrong>>

\* Mutant: the type is created before its fields are known, and again after.
GenStructForward ==
  /\ Visiting("gen", "struct")
  /\ structures' = [structures EXCEPT ![Visited.name] = @ + 2]
  /\ Done
  /\ UNCHANGED <<sources, v_funcs, v_structures, functions, wrong>>

GenStruct ==
  /\ Visiting("gen", "struct")
  /\ structures' = [structures EXCEPT ![Visited.name] = @ + 1]
  /\ Done
  /\ UNCHANGED <<sources, v_funcs, v_structures, functions, wrong>>

\* Mutant: what an imported file imports is not visited.
GenImportOneLevel ==
  /\ Visiting("gen", "import")
  /\ IF InRoot THEN Descend(Visited) ELSE stack' = Advanced(stack)
  /\ UNCHANGED <<program, phase, sources, names, printed, wrong>>

GenImport ==
  /\ Visiting("gen", "import")
  /\ Descend(Visited)
  /\ UNCHANGED <<program, phase, sources, names, printed, wrong>>

EndGen ==
  /\ phase = "gen" /\ Top.at = Len(Nodes) /\ InRoot
  /\ phase' = "emit"
  /\ UNCHANGED <<program, sources, stack, names, printed, wrong>>

\* The back end, which may have no target or not open its file.
Emit ==
  /\ phase = "emit"
  /\ \E how \in {"wrote", "refused"} : Stop(how)

Next ==
  \/ Main
  \/ ParseDeclaration \/ ParseSlip \/ ParseUnclosed \/ ParseImport \/ EndDocument \/ AbandonDocument
  \/ VerifyFunction \/ VerifyExtern \/ VerifyStruct \/ VerifyImport \/ EndVerify
  \/ GenFunction \/ GenExtern \/ GenStruct \/ GenImport \/ EndGen
  \/ Ascend("verify") \/ Ascend("gen")
  \/ Emit

\* One thread, which runs.
Spec == Init /\ [][Next]_vars /\ WF_vars(Next)
----------------------------------------------------------------------------
Read == 1 .. Len(sources)

(***************************************************************************)
(* The type invariant.                                                     *)
(***************************************************************************)
TypeOK ==
  /\ DOMAIN program \subseteq Files
  /\ phase \in {"start", "parse", "verify", "gen", "emit"} \cup Final
  /\ sources \in Seq([file : DOMAIN program, above : SUBSET Read, nodes : Seq(Node),
                      messages : SUBSET {"syntax", "not in scope", "extra argument", "included"}])
  /\ stack \in Seq([src : Read, at : Nat])
  /\ phase \in {"parse", "verify", "gen"} => stack # <<>>
  /\ v_structures \subseteq Names
  /\ DOMAIN v_funcs \subseteq Names /\ \A n \in DOMAIN v_funcs : v_funcs[n] \in Nat
  /\ DOMAIN functions \subseteq Names /\ \A n \in DOMAIN functions : functions[n] \in Nat
  /\ structures \in [Names -> Nat]
  /\ printed \subseteq Read
  /\ wrong \subseteq {"signature", "field"}

(***************************************************************************)
(* No syntax error is passed over in silence: once the visit is over, it   *)
(* has been printed, or one in a file that imports its file has been, at   *)
(* whatever depth (visitImportDecl of verify.cc, main()).                  *)
(***************************************************************************)
Erroneous(s) == "syntax" \in sources[s].messages

ErrorsShown ==
  phase \in {"failed", "gen", "emit", "wrote", "refused"} =>
    \A s \in Read : Erroneous(s) =>
      \E t \in {s} \cup sources[s].above : Erroneous(t) /\ t \in printed

(***************************************************************************)
(* No code is generated for a program with an error in its own file or in  *)
(* one that it imports itself.                                             *)
(***************************************************************************)
NoDirectErrors ==
  phase \in {"gen", "emit", "wrote", "refused", "callee", "range"} =>
    \A s \in Read : sources[s].above \subseteq {1} => ~ Erroneous(s)

(***************************************************************************)
(* A function that the verifier has found in scope the generator finds in  *)
(* the module, though they walk the tree at different times and the        *)
(* verifier leaves out files that the generator visits.                    *)
(***************************************************************************)
CalleesFound == phase # "callee"

(***************************************************************************)
(* The generator goes wrong about a field only where a structure has been  *)
(* declared twice, which importing one file along two ways is enough for;  *)
(* and about a function only where two declarations of it differ or a call *)
(* has too few arguments.                                                  *)
(***************************************************************************)
Declared(kinds) ==
  UNION {{<<s, i>> : i \in {j \in DOMAIN sources[s].nodes : sources[s].nodes[j].kind \in kinds}}
           : s \in Read}

NodeAt(d) == sources[d[1]].nodes[d[2]]

Twice(kinds) ==
  {c \in Declared(kinds) : \E d \in Declared(kinds) : c # d /\ NodeAt(c).name = NodeAt(d).name}

Functions == {"function", "extern"}

ArityDiffers ==
  \E c, d \in Declared(Functions) :
    NodeAt(c).name = NodeAt(d).name /\ NodeAt(c).arity # NodeAt(d).arity

TooFewArguments ==
  \E c \in Declared({"function"}), d \in Declared(Functions) :
    /\ NodeAt(c).use.what = "call" /\ NodeAt(c).use.of = NodeAt(d).name
    /\ NodeAt(c).use.args < NodeAt(d).arity

WrongOnlyIfRepeated ==
  /\ "field" \in wrong => Twice({"struct"}) # {}
  /\ "signature" \in wrong => ArityDiffers \/ TooFewArguments
  /\ phase = "range" => ArityDiffers

(***************************************************************************)
(* Imports overflow the stack only in a cycle: where every chain of        *)
(* imports ends, however the files share others, so does parsing.          *)
(***************************************************************************)
OverflowsInCycle ==
  phase = "overflow" =>
    LET chain == {Top.src} \cup sources[Top.src].above
    IN  \/ \E s \in chain : sources[s].file = Next_item.file
        \/ \E s, t \in chain : s # t /\ sources[s].file = sources[t].file

(***************************************************************************)
(* The compiler ends, unless it comes to a declaration that is left        *)
(* unclosed, in whatever file: there it stays, having reported it (the     *)
(* loops of parser.cc that run until a closing token, as in parseBlock()). *)
(***************************************************************************)
Unclosed == Reading /\ Next_item.kind = "unclosed" /\ Erroneous(Top.src)


(***************************************************************************)
(* "errors in included file": an error in a file that is included, however *)
(* deep, is an error of the program, and no object is written.             *)
(***************************************************************************)
IncludedErrorsCount == phase = "wrote" => \A s \in Read : ~ Erroneous(s)

(***************************************************************************)
(* "field not found in structure": of a field that the generator does not  *)
(* find nothing is generated, either.                                      *)
(***************************************************************************)
FieldsFound == phase = "wrote" => "field" \notin wrong
=============================================================================
