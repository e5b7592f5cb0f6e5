------------------------------- MODULE Typing -------------------------------
(***************************************************************************)
(* One statement with its expression, seen by both visitors: the types     *)
(* that VerifyVisitor (verify.cc) computes, which are equal to it if they  *)
(* are of one kind, and the LLVM types of the values that GenVisitor       *)
(* (gen.cc) builds, which depend on the address mode of State (state.hh).  *)
(*                                                                         *)
(* The tree is chosen as it is visited, and the visitors go through it     *)
(* side by side: neither changes what the other reads, and the generator   *)
(* has no part in a run that the verifier ends.  What LLVM makes of an     *)
(* instruction with operands of wrong types is undefined: from there on    *)
(* the function is malformed and the value is Bad.                         *)
(*                                                                         *)
(* Variables and functions are in scope and structures have one field (see *)
(* Scopes and Driver for the rest), no type names a structure that is not  *)
(* declared, and the statement is not in the body of a while, which is not *)
(* verified.  Types under void are those of builds without LLVM's          *)
(* assertions, as example/stl.lll needs them.                              *)
(***************************************************************************)
EXTENDS Naturals, Sequences

CONSTANTS
  Structs,    \* names of structures
  FieldOf,    \* the type of each one's field
  VarTypes,   \* types of variables, and of what lets and returns expect
  Signatures, \* functions: the types of the parameters, and the result
  MaxNodes    \* bounds the expression

\* i16 and i32 would be no different; i1 is what a comparison has.
Ints == {"i1", "i8", "i64"}

Floats == {"f32", "f64"}

(***************************************************************************)
(* A type is a base under so many pointers.  "chars" is the array behind a *)
(* string literal; "none" is where the verifier has no type, "bad" where   *)
(* the generator has none.                                                 *)
(***************************************************************************)
Type == [base : Ints \cup Floats \cup Structs \cup {"void", "chars", "none", "bad"}, ptr : Nat]

Plain(base) == [base |-> base, ptr |-> 0]

Ref(t) == [t EXCEPT !.ptr = @ + 1]

Deref(t) == [t EXCEPT !.ptr = @ - 1]

None == Plain("none")

Bad == Plain("bad")

Void == Plain("void")

Kind(t) ==
  CASE t.ptr > 0 -> "ptr"
    [] t.ptr = 0 /\ t.base \in Ints -> "int"
    [] t.ptr = 0 /\ t.base \in Floats -> "float"
    [] t.ptr = 0 /\ t.base \in Structs -> "struct"
    [] OTHER -> t.base

\* The types that parseTypeName() reads, but for f8 and f16, which the
\* generator has no type for.
Writable == {t \in Type : t.base \in (Ints \ {"i1"}) \cup Floats \cup Structs \cup {"void"}}

ASSUME TypingAssumption ==
  /\ Structs \cap (Ints \cup Floats \cup {"void", "chars", "none", "bad"}) = {}
  /\ FieldOf \in [Structs -> Writable]
  /\ VarTypes \subseteq Writable
  /\ Signatures \subseteq [params : Seq(Writable), result : Writable]
  /\ MaxNodes \in Nat

(***************************************************************************)
(* Void has no size, nor has a structure with a field that has none: LLVM  *)
(* neither allocates, loads nor stores such a type.                        *)
(***************************************************************************)
Hollow ==
  {s \in Structs : \A H \in SUBSET Structs :
     (\A r \in Structs : FieldOf[r] \in {Void} \cup {Plain(q) : q \in H} => r \in H) => s \in H}

Unsized(t) == t.ptr = 0 /\ t.base \in {"void"} \cup Hollow

(***************************************************************************)
(* What a visit returns: the verifier's type, the generator's, and in which*)
(* form: a value, the place of one, or an assignment, which the generator  *)
(* answers with a store.                                                   *)
(***************************************************************************)
Result == [v : Type, g : Type, form : {"value", "place", "store"}]

NoResult == [v |-> None, g |-> Bad, form |-> "value"]

\* Whose operand is visited in address mode.
AddressOps == {"ref", "dot", "lhs"}

Ops == AddressOps \cup {"statement", "unary", "index", "rhs", "left", "right", "argument", "field"}

\* saved is the address mode at the visit, first an operand visited before,
\* type the structure or the function's result, rest the parameters left.
Frame == [op : Ops, saved : BOOLEAN, first : Result, type : Type, rest : Seq(Type)]

VARIABLES
  addr,      \* State::is_addr_mode
  frames,    \* the visits under way, outermost first
  ret,       \* what the visit that has returned returned
  turn,      \* "visit" an operand, "return" to the frame, or how it ended
  nodes,     \* expressions visited
  malformed, \* an instruction was given operands of wrong types
  flaws      \* history: what the verifier lets pass

vars == <<addr, frames, ret, turn, nodes, malformed, flaws>>

Init ==
  /\ addr = FALSE
  /\ frames = <<[op |-> "statement", saved |-> FALSE, first |-> NoResult,
                 type |-> Void, rest |-> <<>>]>>
  /\ ret = NoResult
  /\ turn = "visit"
  /\ nodes = 0
  /\ malformed = FALSE
  /\ flaws = {}

----------------------------------------------------------------------------
(***************************************************************************)
(* VerifyVisitor: the type, or None if it reports.                         *)
(***************************************************************************)
\* Mutant: operands are not compared.
SameAlways(t, u) == TRUE

Same(t, u) == Kind(t) = Kind(u) /\ t # None

VerifyAssign(left, right) == IF Same(left, right) THEN left ELSE None

VerifyBinary(oper, left, right) ==
  IF ~ Same(left, right) THEN None ELSE IF oper = "compare" THEN Plain("i1") ELSE left

VerifyUnary(oper, v) ==
  CASE v = None -> None
    [] oper = "ref" /\ v # None -> Ref(v)
    [] oper = "neg" /\ v # None -> v
    [] oper = "deref" /\ v # None -> IF v.ptr > 0 THEN Deref(v) ELSE None

VerifyDot(v) == IF Kind(v) = "struct" THEN FieldOf[v.base] ELSE None

VerifyIndex(target, index) ==
  IF target.ptr > 0 /\ Kind(index) = "int" THEN Deref(target) ELSE None

(***************************************************************************)
(* GenVisitor: the LLVM type of the value, or Bad.                         *)
(***************************************************************************)
\* Mutant: the type is not asked whether it is a pointer.
LoadUnchecked(g) == Deref(g)

Load(g) == IF g.ptr > 0 /\ ~ Unsized(Deref(g)) THEN Deref(g) ELSE Bad

\* Mutant: places and values are not told apart.
GenVariableLoaded(t) == [v |-> t, g |-> t, form |-> IF addr THEN "place" ELSE "value"]

GenVariable(t) ==
  IF addr THEN [v |-> t, g |-> Ref(t), form |-> "place"]
  ELSE [v |-> t, g |-> Load(Ref(t)), form |-> "value"]

GenBinary(oper, left, right) ==
  IF left # right \/ Kind(left) \notin {"int", "float"} \cup (IF oper = "compare" THEN {"ptr"} ELSE {})
  THEN Bad
  ELSE IF oper = "compare" THEN Plain("i1") ELSE left

GenUnary(oper, g) ==
  CASE oper = "ref" -> g
    [] oper = "neg" -> IF Kind(g) = "float" THEN g ELSE Bad
    [] oper = "deref" -> Load(g)

GenDot(g, mode) ==
  IF g.ptr # 1 \/ g.base \notin Structs \ Hollow THEN Bad
  ELSE IF mode THEN Ref(FieldOf[g.base]) ELSE FieldOf[g.base]

\* The pointer is not loaded before it is indexed.
GenIndex(target, index) ==
  IF target.ptr > 0 /\ Kind(index) = "int" THEN Load(target) ELSE Bad

GenStore(val, var) == IF var = Ref(val) /\ ~ Unsized(val) THEN Void ELSE Bad

\* A structure literal is made in an alloca.
GenLiteral(s) == IF Unsized(Plain(s)) THEN Bad ELSE Plain(s)
----------------------------------------------------------------------------
Top == frames[Len(frames)]

Outer == SubSeq(frames, 1, Len(frames) - 1)

\* The address mode in which the operand of f is visited.
Inside(f) == f.op \in AddressOps \/ f.saved

\* The verifier does not look at the fields of a structure literal.
Hidden == \E i \in 1 .. Len(frames) : frames[i].op = "field"

New(op) == [op |-> op, saved |-> addr, first |-> NoResult, type |-> Void, rest |-> <<>>]

CanVisit == turn = "visit" /\ nodes < MaxNodes

Returning(op) == turn = "return" /\ Top.op = op

\* The visit returns; the verifier reports if it has no type for it.
Return(r, noted) ==
  LET hidden == \E i \in 1 .. Len(frames') : frames'[i].op = "field" IN
  /\ ret' = r
  /\ turn' = IF r.v = None /\ ~ hidden THEN "reported" ELSE "return"
  /\ malformed' = (malformed \/ r.g = Bad)
  /\ flaws' = flaws \cup noted \cup (IF r.v = None THEN {"unverified"} ELSE {})

Wants(form, r) == IF r.form = form THEN {} ELSE {"form"}

Sized(t, u) == IF t # u /\ Kind(t) = Kind(u) THEN {"size"} ELSE {}

\* An object of type t is needed: the verifier does not ask whether there are any.
Needs(t) == IF Unsized(t) THEN {"unsized"} ELSE {}
----------------------------------------------------------------------------
(***************************************************************************)
(* Visits of expressions.                                                  *)
(***************************************************************************)
VisitVariable ==
  /\ CanVisit
  /\ nodes' = nodes + 1
  /\ UNCHANGED <<addr, frames>>
  /\ \E t \in VarTypes : Return(GenVariable(t), IF addr THEN {} ELSE Needs(t))

VisitNumber ==
  /\ CanVisit
  /\ nodes' = nodes + 1
  /\ UNCHANGED <<addr, frames>>
  /\ \E t \in {Plain("i64"), Plain("f64")} : Return([v |-> t, g |-> t, form |-> "value"], {})

\* The verifier has a pointer to i8, the generator one to the whole array.
VisitString ==
  /\ CanVisit
  /\ nodes' = nodes + 1
  /\ UNCHANGED <<addr, frames>>
  /\ Return([v |-> Ref(Plain("i8")), g |-> Ref(Plain("chars")), form |-> "value"], {"string"})

Descend(frame, mode) ==
  /\ frames' = Append(frames, frame)
  /\ nodes' = nodes + 1
  /\ addr' = mode
  /\ UNCHANGED <<ret, turn, malformed, flaws>>

\* A reference and a dot set the address mode; the other visits leave it.
VisitRef == CanVisit /\ Descend(New("ref"), TRUE)

VisitDot == CanVisit /\ Descend(New("dot"), TRUE)

VisitUnary == CanVisit /\ Descend(New("unary"), addr)

VisitBinary == CanVisit /\ Descend(New("left"), addr)

VisitAssign == CanVisit /\ Descend(New("rhs"), addr)

\* The target is a variable, visited in address mode.
VisitArrayAccess ==
  /\ CanVisit
  /\ \E t \in VarTypes :
       Descend([New("index") EXCEPT !.first = [v |-> t, g |-> Ref(t), form |-> "place"]], addr)

VisitCall ==
  /\ CanVisit
  /\ \E f \in Signatures :
       Descend([New("argument") EXCEPT !.type = f.result, !.rest = f.params], addr)

VisitCallBare ==
  /\ CanVisit
  /\ nodes' = nodes + 1
  /\ UNCHANGED <<addr, frames>>
  /\ \E f \in Signatures :
       Return([v |-> f.result, g |-> IF f.params = <<>> THEN f.result ELSE Bad, form |-> "value"],
              IF f.params = <<>> THEN {} ELSE {"few"})

VisitStructLiteral ==
  /\ CanVisit
  /\ \E s \in Structs : Descend([New("field") EXCEPT !.type = Plain(s)], addr)

VisitStructLiteralBare ==
  /\ CanVisit
  /\ nodes' = nodes + 1
  /\ UNCHANGED <<addr, frames>>
  /\ \E s \in Structs :
       Return([v |-> Plain(s), g |-> GenLiteral(s), form |-> "value"], Needs(Plain(s)))
----------------------------------------------------------------------------
(***************************************************************************)
(* Returns to the frame.                                                   *)
(***************************************************************************)
\* Mutant: the address mode is switched off behind an operand.
LeaveOff == frames' = Outer /\ addr' = FALSE /\ nodes' = nodes

Leave == frames' = Outer /\ addr' = Top.saved /\ nodes' = nodes

GoOn(frame, mode) ==
  /\ frames' = Append(Outer, frame)
  /\ addr' = mode
  /\ turn' = "visit"
  /\ UNCHANGED <<ret, nodes>>

EndRef ==
  /\ Returning("ref")
  /\ Leave
  /\ Return([v |-> VerifyUnary("ref", ret.v), g |-> GenUnary("ref", ret.g), form |-> "value"],
            Wants("place", ret))

EndNeg ==
  /\ Returning("unary")
  /\ Leave
  /\ Return([v |-> VerifyUnary("neg", ret.v), g |-> GenUnary("neg", ret.g), form |-> "value"],
            Wants("value", ret) \cup IF Kind(ret.v) = "float" THEN {} ELSE {"kind"})

\* In address mode the pointer is not loaded, so that its place is.
EndDeref ==
  LET form == IF addr THEN "place" ELSE "value"
      v == VerifyUnary("deref", ret.v) IN
  /\ Returning("unary")
  /\ Leave
  /\ Return([v |-> v, g |-> GenUnary("deref", ret.g), form |-> form],
            Wants(form, ret) \cup IF addr THEN {} ELSE Needs(v))

EndDot ==
  /\ Returning("dot")
  /\ Leave
  /\ Return([v |-> VerifyDot(ret.v), g |-> GenDot(ret.g, Top.saved),
             form |-> IF Top.saved THEN "place" ELSE "value"],
            Wants("place", ret) \cup Needs(ret.v))

EndLeft ==
  /\ Returning("left")
  /\ GoOn([Top EXCEPT !.op = "right", !.first = ret], addr)
  /\ UNCHANGED <<malformed, flaws>>

EndBinary ==
  /\ Returning("right")
  /\ Leave
  /\ \E oper \in {"arithmetic", "compare"} :
       LET kinds == {"int", "float"} \cup IF oper = "compare" THEN {"ptr"} ELSE {} IN
       Return([v |-> VerifyBinary(oper, Top.first.v, ret.v),
               g |-> GenBinary(oper, Top.first.g, ret.g), form |-> "value"],
              Wants("value", Top.first) \cup Wants("value", ret) \cup Sized(Top.first.v, ret.v)
                \cup IF Kind(ret.v) \in kinds THEN {} ELSE {"kind"})

\* The left side is visited last, in address mode.
EndRhs ==
  /\ Returning("rhs")
  /\ GoOn([Top EXCEPT !.op = "lhs", !.first = ret], TRUE)
  /\ UNCHANGED <<malformed, flaws>>

EndAssign ==
  /\ Returning("lhs")
  /\ Leave
  /\ Return([v |-> VerifyAssign(ret.v, Top.first.v), g |-> GenStore(Top.first.g, ret.g),
             form |-> "store"],
            Wants("value", Top.first) \cup Wants("place", ret) \cup Sized(ret.v, Top.first.v)
              \cup Needs(ret.v))

\* The verifier reports what cannot be indexed, and goes on to cast the type.
EndArrayAccess ==
  /\ Returning("index")
  /\ Hidden \/ Top.first.v.ptr > 0
  /\ Leave
  /\ Return([v |-> VerifyIndex(Top.first.v, ret.v), g |-> GenIndex(Top.first.g, ret.g),
             form |-> IF addr THEN "place" ELSE "value"],
            Wants("value", ret) \cup IF addr THEN {} ELSE {"index"})

CastFails ==
  /\ Returning("index")
  /\ ~ Hidden /\ Top.first.v.ptr = 0
  /\ turn' \in {"reported", "crashed"}
  /\ UNCHANGED <<addr, frames, ret, nodes, malformed, flaws>>

\* An argument there is a parameter for.
Passed(t) ==
  /\ malformed' = (malformed \/ ret.g # t \/ Unsized(t))
  /\ flaws' = flaws \cup Wants("value", ret) \cup Sized(ret.v, t) \cup Needs(t)
                \cup IF Hidden /\ ~ Same(ret.v, t) THEN {"unverified"} ELSE {}

ArgumentFits == Hidden \/ (Top.rest # <<>> /\ Same(ret.v, Head(Top.rest)))

\* An argument that is of another kind, or that there is no parameter for.
ArgumentReported ==
  /\ Returning("argument") /\ ~ ArgumentFits
  /\ turn' = "reported"
  /\ UNCHANGED <<addr, frames, ret, nodes, malformed, flaws>>

MoreArguments ==
  /\ Returning("argument") /\ ArgumentFits
  /\ IF Top.rest = <<>>
     THEN GoOn(Top, addr) /\ malformed' = TRUE /\ flaws' = flaws \cup {"unverified"}
     ELSE GoOn([Top EXCEPT !.rest = Tail(@)], addr) /\ Passed(Head(Top.rest))

\* The last argument: parameters may be left.
EndCall ==
  /\ Returning("argument") /\ ArgumentFits
  /\ Leave
  /\ ret' = [v |-> Top.type, g |-> Top.type, form |-> "value"]
  /\ turn' = "return"
  /\ IF Len(Top.rest) = 1 THEN Passed(Head(Top.rest))
     ELSE /\ malformed' = TRUE
          /\ flaws' = flaws \cup {IF Top.rest = <<>> THEN "unverified" ELSE "few"}

\* A field is stored without a look at its type.
Stored ==
  /\ malformed' = (malformed \/ ret.g # FieldOf[Top.type.base] \/ Unsized(Top.type))
  /\ flaws' = flaws \cup Wants("value", ret) \cup Needs(Top.type)
                \cup IF ret.v = FieldOf[Top.type.base] THEN {} ELSE {"unverified"}

MoreFields == Returning("field") /\ GoOn(Top, addr) /\ Stored

EndStructLiteral ==
  /\ Returning("field")
  /\ Leave
  /\ ret' = [v |-> Top.type, g |-> Top.type, form |-> "value"]
  /\ turn' = "return"
  /\ Stored
----------------------------------------------------------------------------
(***************************************************************************)
(* The statement.                                                          *)
(***************************************************************************)
Finish(fits, well, noted) ==
  /\ turn' = IF fits THEN "done" ELSE "reported"
  /\ malformed' = (malformed \/ ~ well)
  /\ flaws' = flaws \cup noted
  /\ UNCHANGED <<addr, frames, ret, nodes>>

End(fits, well, noted) == Returning("statement") /\ Finish(fits, well, noted)

EndExpression == End(TRUE, TRUE, {})

EndLet ==
  \E t \in VarTypes \cup {Void} :
    End(Same(ret.v, t), ret.g = t /\ ~ Unsized(t),
        Wants("value", ret) \cup Sized(ret.v, t) \cup Needs(t))

\* A void function may return an expression of type void; LLVM's may not.
EndReturn ==
  \E t \in VarTypes \cup {Void} :
    End(Same(ret.v, t), ret.g = t /\ ~ Unsized(t),
        Wants("value", ret) \cup Sized(ret.v, t) \cup Needs(t))

\* A statement without an expression.
Bare == turn = "visit" /\ nodes = 0

LetBare == Bare /\ \E t \in VarTypes \cup {Void} : Finish(TRUE, ~ Unsized(t), Needs(t))

\* The verifier does not ask for the result that the function should have.
ReturnBare ==
  /\ Bare
  /\ \E t \in VarTypes \cup {Void} : Finish(TRUE, t = Void, IF t = Void THEN {} ELSE {"result"})

\* Of an if, a while or a for.
EndCondition ==
  End(Kind(ret.v) = "int", ret.g = Plain("i1"),
      Wants("value", ret) \cup Sized(ret.v, Plain("i1")))

Next ==
  \/ VisitVariable \/ VisitNumber \/ VisitString \/ VisitRef \/ VisitDot \/ VisitUnary
  \/ VisitBinary \/ VisitAssign \/ VisitArrayAccess \/ VisitCall \/ VisitCallBare
  \/ VisitStructLiteral \/ VisitStructLiteralBare
  \/ EndRef \/ EndNeg \/ EndDeref \/ EndDot \/ EndLeft \/ EndBinary \/ EndRhs \/ EndAssign
  \/ EndArrayAccess \/ CastFails \/ ArgumentReported \/ MoreArguments \/ EndCall
  \/ MoreFields \/ EndStructLiteral
  \/ EndExpression \/ EndLet \/ EndReturn \/ EndCondition \/ LetBare \/ ReturnBare

Spec == Init /\ [][Next]_vars
----------------------------------------------------------------------------
(***************************************************************************)
(* The type invariant.                                                     *)
(***************************************************************************)
TypeOK ==
  /\ addr \in BOOLEAN
  /\ frames \in Seq(Frame) /\ frames # <<>>
  /\ ret \in Result
  /\ turn \in {"visit", "return", "reported", "crashed", "done"}
  /\ nodes \in 0 .. MaxNodes
  /\ malformed \in BOOLEAN
  /\ flaws \subseteq {"form", "size", "kind", "unsized", "result", "string", "index", "few",
                      "unverified"}

(***************************************************************************)
(* However visits nest and whatever they return, the address mode is set   *)
(* exactly while an operand is visited for its place: of a reference, a    *)
(* dot or the left side of an assignment, at any distance.                 *)
(***************************************************************************)
ModeFollowsStack ==
  addr <=> \E i \in 1 .. Len(frames) : frames[i].op \in AddressOps

(***************************************************************************)
(* The value that the generator returns is of the type that the verifier   *)
(* returns, and a place is a pointer to it, unless the expression has one  *)
(* of the flaws that the verifier does not see.                            *)
(***************************************************************************)
Agrees(r) ==
  r.g = CASE r.form = "value" -> r.v
          [] r.form = "place" -> Ref(r.v)
          [] r.form = "store" -> Void

VisitorsAgree == turn = "return" /\ flaws = {} => Agrees(ret)

(***************************************************************************)
(* A statement that has been verified is generated with well-typed         *)
(* instructions only, unless it has one of those flaws: a value where the  *)
(* address mode makes a place or a place a value ("form"), types of one    *)
(* kind that differ ("size"), an operation its kind has not ("kind"), an   *)
(* object of a type that has none, as what a void pointer points to        *)
(* ("unsized"), a return without the function's result ("result"), a       *)
(* string literal, an element of an array, a call with few arguments, or   *)
(* fields of a structure literal that do not fit ("unverified").           *)
(***************************************************************************)
WellTypedUnlessFlawed == turn = "done" /\ flaws = {} => ~ malformed
=============================================================================
