------------------------------- MODULE Scopes -------------------------------
(***************************************************************************)
(* What the name of a variable refers to: first to VerifyVisitor           *)
(* (verify.cc), with its map v_named_values, then to GenVisitor (gen.cc),  *)
(* with its map named_values.                                              *)
(*                                                                         *)
(* A program is the list of what the visitors walk over, in their order:   *)
(* the prototypes of functions, lets and expressions, each with the names  *)
(* it declares and uses.  Of an if and a for nothing else matters: neither *)
(* visitor has scopes of blocks.  The body of a while the verifier does    *)
(* not visit.                                                              *)
(***************************************************************************)
EXTENDS Naturals, Sequences

CONSTANTS
  Functions, \* names of functions
  Names,     \* names of variables
  Programs   \* what may be compiled

(***************************************************************************)
(* "function" is a definition, "prototype" one without a body (a function  *)
(* declared only, or defined in an imported file); of is the function that *)
(* a node belongs to, names its parameters or the name of its let.  hidden *)
(* are the names used in the fields of a structure literal; loops is the   *)
(* number of whiles that the node is in the body of.                       *)
(***************************************************************************)
Heads == {"function", "prototype"}

Node == [kind : Heads \cup {"let", "expression"}, of : Functions, names : Seq(Names),
         uses : SUBSET Names, hidden : SUBSET Names, loops : Nat]

WellFormed(p) ==
  /\ p \in Seq(Node)
  /\ \A i \in DOMAIN p :
       CASE p[i].kind \in Heads -> p[i].uses = {} /\ p[i].hidden = {} /\ p[i].loops = 0
         [] p[i].kind = "let" -> Len(p[i].names) = 1
         [] p[i].kind = "expression" -> p[i].names = <<>>
  /\ \A i \in DOMAIN p : p[i].kind \notin Heads =>
       i > 1 /\ p[i - 1].kind # "prototype" /\ p[i].of = p[i - 1].of

ASSUME ProgramsAssumption == \A p \in Programs : WellFormed(p)

VARIABLES
  program,
  phase,           \* "verify", "gen", or how the compiler went on or ended
  at,              \* nodes walked over in this phase
  v_named_values,  \* what each name refers to: a node, and the place in its names
  named_values,    \* the same, in the generator
  meant,           \* history: v_named_values as the uses of each node found it
  got              \* history: named_values as they did

vars == <<program, phase, at, v_named_values, named_values, meant, got>>

Nothing == <<0, 0>>

Unknown == [n \in Names |-> Nothing]

Init ==
  /\ program \in Programs
  /\ phase = "verify"
  /\ at = 0
  /\ v_named_values = Unknown
  /\ named_values = Unknown
  /\ meant = [i \in DOMAIN program |-> Unknown]
  /\ got = [i \in DOMAIN program |-> Unknown]

----------------------------------------------------------------------------
Here == at + 1

Visited == program[Here]

Visiting(visitor, kinds) ==
  phase = visitor /\ at < Len(program) /\ Visited.kind \in kinds

Among(n, names) == \E k \in DOMAIN names : names[k] = n

FirstOf(n, names) ==
  CHOOSE k \in DOMAIN names : names[k] = n /\ \A l \in 1 .. k - 1 : names[l] # n

LastOf(n, names) ==
  CHOOSE k \in DOMAIN names : names[k] = n /\ \A l \in k + 1 .. Len(names) : names[l] # n

\* Names entered one after the other: of equal ones the last stays.
Entered(scope, names) ==
  [n \in Names |-> IF Among(n, names) THEN <<Here, LastOf(n, names)>> ELSE scope[n]]

Declared(scope) == Entered(scope, Visited.names)

Known(scope, uses) == \A n \in uses : scope[n] # Nothing

Verified(kinds) == Visiting("verify", kinds) /\ Visited.loops = 0

(***************************************************************************)
(* The verifier.                                                           *)
(***************************************************************************)
\* Mutant: parameters are not entered.
VerifyProtoFuncBare ==
  /\ Visiting("verify", Heads)
  /\ at' = Here
  /\ UNCHANGED <<program, phase, v_named_values, named_values, meant, got>>

\* The parameters of any prototype; what other functions declared stays.
VerifyProtoFunc ==
  /\ Visiting("verify", Heads)
  /\ v_named_values' = Declared(v_named_values)
  /\ at' = Here
  /\ UNCHANGED <<program, phase, named_values, meant, got>>

\* A variable that is not in scope is reported, and main() returns.
VerifyFails ==
  /\ Verified({"let", "expression"}) /\ ~ Known(v_named_values, Visited.uses)
  /\ phase' = "failed"
  /\ UNCHANGED <<program, at, v_named_values, named_values, meant, got>>

VerifyExpression ==
  /\ Verified({"expression"}) /\ Known(v_named_values, Visited.uses)
  /\ meant' = [meant EXCEPT ![Here] = v_named_values]
  /\ at' = Here
  /\ UNCHANGED <<program, phase, v_named_values, named_values, got>>

\* The right-hand side, and then the name.
VerifyLet ==
  /\ Verified({"let"}) /\ Known(v_named_values, Visited.uses)
  /\ meant' = [meant EXCEPT ![Here] = v_named_values]
  /\ v_named_values' = Declared(v_named_values)
  /\ at' = Here
  /\ UNCHANGED <<program, phase, named_values, got>>

\* Mutant: the statement behind the body is left out with it.
SkipBodyAndNext ==
  /\ Visiting("verify", {"let", "expression"}) /\ Visited.loops > 0
  /\ at' = Here + 1
  /\ UNCHANGED <<program, phase, v_named_values, named_values, meant, got>>

\* visitWhileStatement() looks at the condition only.
SkipBody ==
  /\ Visiting("verify", {"let", "expression"}) /\ Visited.loops > 0
  /\ at' = Here
  /\ UNCHANGED <<program, phase, v_named_values, named_values, meant, got>>

EndVerify ==
  /\ phase = "verify" /\ at = Len(program)
  /\ phase' = "gen"
  /\ at' = 0
  /\ UNCHANGED <<program, v_named_values, named_values, meant, got>>

(***************************************************************************)
(* The generator.                                                          *)
(***************************************************************************)
\* The prototype that the module has of function f: the first.
Prototype(f) ==
  CHOOSE j \in DOMAIN program :
    /\ program[j].kind \in Heads /\ program[j].of = f
    /\ \A i \in 1 .. j - 1 : program[i].kind \in Heads => program[i].of # f

Parameters(f) == program[Prototype(f)].names

\* The names LLVM has for them: of equal ones it renames all but the first.
EnteredParameters(scope) ==
  LET names == Parameters(Visited.of) IN
  [n \in Names |-> IF Among(n, names) THEN <<Here, FirstOf(n, names)>> ELSE scope[n]]

\* The definition must have a type for every parameter of the prototype.
Typed == Len(Parameters(Visited.of)) <= Len(Visited.names)

\* Mutant: the names of the function before it stay.
GenFunctionKeeps ==
  /\ Visiting("gen", {"function"}) /\ Typed
  /\ named_values' = EnteredParameters(named_values)
  /\ at' = Here
  /\ UNCHANGED <<program, phase, v_named_values, meant, got>>

\* Mutant: the parameters have no allocas.
GenFunctionBare ==
  /\ Visiting("gen", {"function"}) /\ Typed
  /\ named_values' = Unknown
  /\ at' = Here
  /\ UNCHANGED <<program, phase, v_named_values, meant, got>>

GenFunction ==
  /\ Visiting("gen", {"function"}) /\ Typed
  /\ named_values' = EnteredParameters(Unknown)
  /\ at' = Here
  /\ UNCHANGED <<program, phase, v_named_values, meant, got>>

\* "out_of_range", which nobody catches.
GenFunctionThrows ==
  /\ Visiting("gen", {"function"}) /\ ~ Typed
  /\ phase' = "crashed"
  /\ UNCHANGED <<program, at, v_named_values, named_values, meant, got>>

GenProtoFunc ==
  /\ Visiting("gen", {"prototype"})
  /\ at' = Here
  /\ UNCHANGED <<program, phase, v_named_values, named_values, meant, got>>

Used == Visited.uses \cup Visited.hidden

\* A let enters the new alloca before it visits the right-hand side.
BoundBy == Declared(named_values)

\* What has no alloca is loaded through a null pointer.
GenCrashes ==
  /\ Visiting("gen", {"let", "expression"}) /\ ~ Known(BoundBy, Used)
  /\ phase' = "crashed"
  /\ UNCHANGED <<program, at, v_named_values, named_values, meant, got>>

\* Only &x goes on, as a statement or returned: in address mode the null place
\* is answered and not loaded.
GenUnloaded ==
  /\ Visiting("gen", {"expression"}) /\ ~ Known(BoundBy, Used)
  /\ \E n \in Names : Visited.uses = {n} /\ Visited.hidden = {}
  /\ named_values' = Declared(named_values)
  /\ got' = [got EXCEPT ![Here] = BoundBy]
  /\ at' = Here
  /\ UNCHANGED <<program, phase, v_named_values, meant>>

GenStatement ==
  /\ Visiting("gen", {"let", "expression"}) /\ Known(BoundBy, Used)
  /\ named_values' = Declared(named_values)
  /\ got' = [got EXCEPT ![Here] = BoundBy]
  /\ at' = Here
  /\ UNCHANGED <<program, phase, v_named_values, meant>>

EndGen ==
  /\ phase = "gen" /\ at = Len(program)
  /\ phase' = "done"
  /\ UNCHANGED <<program, at, v_named_values, named_values, meant, got>>

Next ==
  \/ VerifyProtoFunc \/ VerifyFails \/ VerifyExpression \/ VerifyLet \/ SkipBody \/ EndVerify
  \/ GenFunction \/ GenFunctionThrows \/ GenProtoFunc \/ GenCrashes \/ GenUnloaded
  \/ GenStatement \/ EndGen

Spec == Init /\ [][Next]_vars
----------------------------------------------------------------------------
Places == (0 .. Len(program)) \X Nat

(***************************************************************************)
(* The type invariant.                                                     *)
(***************************************************************************)
TypeOK ==
  /\ WellFormed(program)
  /\ phase \in {"verify", "gen", "failed", "crashed", "done"}
  /\ at \in 0 .. Len(program)
  /\ v_named_values \in [Names -> Places]
  /\ named_values \in [Names -> Places]
  /\ meant \in [DOMAIN program -> [Names -> Places]]
  /\ got \in [DOMAIN program -> [Names -> Places]]

Declares(i, n) == Among(n, program[i].names)

\* The generator has the same place for parameter n of function node j.
SamePlace(j, n) ==
  program[j].kind = "function" =>
    LET names == Parameters(program[j].of) IN
    Among(n, names) /\ FirstOf(n, names) = LastOf(n, program[j].names)

InFunction(j, i) == \A k \in j + 1 .. i : program[k].kind \notin Heads

\* The last declaration of n before node i is in the same function and not in
\* the body of a while, and i is not itself one.
PlainUse(i, n) ==
  /\ ~ Declares(i, n)
  /\ \E j \in 1 .. i - 1 :
       /\ Declares(j, n) /\ InFunction(j, i) /\ SamePlace(j, n)
       /\ program[j].loops = 0
       /\ \A k \in j + 1 .. i - 1 : ~ Declares(k, n)

(***************************************************************************)
(* A name means to the generator what it meant to the verifier, exactly if *)
(* its last declaration is a plain one: in the same function (the verifier *)
(* keeps names from one function to the next), where a parameter has the   *)
(* name and the place of the first prototype, not in the body of a while   *)
(* (which the verifier does not visit), and not the let it is used in      *)
(* (which the generator enters first).                                     *)
(***************************************************************************)
Generated == {i \in DOMAIN program : phase \in {"gen", "crashed", "done"} /\ i <= at}

MeaningKept ==
  \A i \in Generated : program[i].loops = 0 =>
    \A n \in program[i].uses : got[i][n] = meant[i][n] <=> PlainUse(i, n)

(***************************************************************************)
(* The generator crashes only in a definition with fewer parameters than   *)
(* an earlier prototype, or where it finds no alloca for a name that the   *)
(* verifier has not looked at (in the body of a while, or in a structure   *)
(* literal), or has found in another function or in a prototype, or that   *)
(* is a parameter which the first prototype names otherwise.               *)
(***************************************************************************)
Unbound(n) ==
  /\ \A j \in 1 .. Here : Declares(j, n) /\ InFunction(j, Here) =>
       program[j].kind = "function" /\ ~ Among(n, Parameters(program[j].of))
  /\ \/ Visited.loops > 0 \/ n \in Visited.hidden
     \/ \E j \in 1 .. at : Declares(j, n) /\ program[j].loops = 0

CrashExplained ==
  phase = "crashed" =>
    \/ Visited.kind = "function" /\ Len(Visited.names) < Len(Parameters(Visited.of))
    \/ \E n \in Used : Unbound(n)

(***************************************************************************)
(* The verifier turns a program away only for a name that is not declared  *)
(* before it, or only in bodies of whiles.                                 *)
(***************************************************************************)
FailsOnlyUndeclared ==
  phase = "failed" =>
    \E n \in Visited.uses : \A j \in 1 .. at : Declares(j, n) => program[j].loops > 0
=============================================================================
