---------------------------- MODULE TypingProofs ----------------------------
(***************************************************************************)
(* The address mode follows the stack of visits, and the types of the two  *)
(* visitors agree in whatever has none of the flaws, for any structures,   *)
(* variables, functions and size of the expression.                        *)
(***************************************************************************)
EXTENDS Typing, SequenceTheorems, TLAPS

Flaws == {"form", "size", "kind", "unsized", "result", "string", "index", "few", "unverified"}

Odd == {"void", "chars", "none", "bad"}

(***************************************************************************)
(* Types.                                                                  *)
(***************************************************************************)
LEMMA Types ==
  /\ None \in Type /\ Bad \in Type /\ Void \in Type /\ Plain("chars") \in Type
  /\ \A b \in Ints \cup Floats \cup Structs : Plain(b) \in Type
  /\ Writable \subseteq Type /\ NoResult \in Result
BY DEF Type, None, Bad, Void, Plain, Writable, NoResult, Result

LEMMA RefType ==
  ASSUME NEW t \in Type
  PROVE  Ref(t) \in Type /\ Ref(t).base = t.base /\ Ref(t).ptr = t.ptr + 1
BY DEF Type, Ref

LEMMA DerefType ==
  ASSUME NEW t \in Type, t.ptr > 0
  PROVE  Deref(t) \in Type /\ Deref(t).base = t.base /\ Deref(t).ptr = t.ptr - 1
BY DEF Type, Deref

\* Types are equal if their bases and pointers are.
LEMMA TypeEq ==
  ASSUME NEW t \in Type, NEW u \in Type, t.base = u.base, t.ptr = u.ptr
  PROVE  t = u
BY DEF Type

LEMMA DerefRef ==
  ASSUME NEW t \in Type
  PROVE  /\ Ref(t).ptr > 0 /\ Deref(Ref(t)) = t
         /\ t.ptr > 0 => Ref(Deref(t)) = t
<1>1. Ref(t) \in Type /\ Ref(t).base = t.base /\ Ref(t).ptr = t.ptr + 1 /\ t.ptr \in Nat
  BY RefType DEF Type
<1>2. Deref(Ref(t)) \in Type /\ Deref(Ref(t)).base = t.base /\ Deref(Ref(t)).ptr = t.ptr
  BY <1>1, DerefType
<1>3. Deref(Ref(t)) = t
  BY <1>2, TypeEq
<1>4. ASSUME t.ptr > 0 PROVE Ref(Deref(t)) = t
  <2>1. Deref(t) \in Type /\ Deref(t).base = t.base /\ Deref(t).ptr = t.ptr - 1
    BY <1>4, DerefType
  <2>2. Ref(Deref(t)) \in Type /\ Ref(Deref(t)).base = t.base /\ Ref(Deref(t)).ptr = t.ptr
    BY <1>1, <2>1, RefType
  <2> QED BY <2>2, TypeEq
<1> QED BY <1>1, <1>3, <1>4

LEMMA PlainFacts ==
  ASSUME NEW b PROVE Plain(b).base = b /\ Plain(b).ptr = 0
BY DEF Plain

\* What kinds of type there are.
LEMMA Kinds ==
  ASSUME NEW t \in Type
  PROVE  /\ Kind(t) = "ptr" <=> t.ptr > 0
         /\ Kind(t) = "struct" => t.ptr = 0 /\ t.base \in Structs
         /\ Kind(t) = "int" => t.ptr = 0 /\ t.base \in Ints
         /\ Kind(t) = "float" => t.ptr = 0 /\ t.base \in Floats
<1>1. t.ptr \in Nat /\ t.base \in Ints \cup Floats \cup Structs \cup Odd
  BY DEF Type, Odd
<1>2. CASE t.ptr > 0
  BY <1>2 DEF Kind
<1>3. CASE t.ptr = 0 /\ t.base \in Ints
  BY <1>3, TypingAssumption DEF Kind, Ints, Floats
<1>4. CASE t.ptr = 0 /\ t.base \in Floats
  BY <1>4, TypingAssumption DEF Kind, Ints, Floats
<1>5. CASE t.ptr = 0 /\ t.base \in Structs
  BY <1>5, TypingAssumption DEF Kind, Ints, Floats
<1>6. CASE t.ptr = 0 /\ t.base \in Odd /\ t.base \notin Ints \cup Floats \cup Structs
  BY <1>6 DEF Kind, Odd
<1> QED BY <1>1, <1>2, <1>3, <1>4, <1>5, <1>6

LEMMA UnsizedFacts ==
  /\ Unsized(Void)
  /\ \A t \in Type : t.ptr > 0 => ~ Unsized(t)
  /\ \A t : Needs(t) \subseteq Flaws /\ (Needs(t) = {} <=> ~ Unsized(t))
<1>1. Unsized(Void)
  BY PlainFacts DEF Unsized, Void
<1>2. \A t \in Type : t.ptr > 0 => ~ Unsized(t)
  BY DEF Type, Unsized
<1>3. \A t : Needs(t) \subseteq Flaws /\ (Needs(t) = {} <=> ~ Unsized(t))
  BY DEF Needs, Flaws
<1> QED BY <1>1, <1>2, <1>3

LEMMA FieldTypes == \A s \in Structs : FieldOf[s] \in Type /\ FieldOf[s] \in Writable
BY TypingAssumption, Types
----------------------------------------------------------------------------
(***************************************************************************)
(* What the visitors answer is a type.                                     *)
(***************************************************************************)
LEMMA VerifyTypes ==
  ASSUME NEW t \in Type, NEW u \in Type
  PROVE  /\ VerifyAssign(t, u) \in Type
         /\ \A oper \in {"arithmetic", "compare"} : VerifyBinary(oper, t, u) \in Type
         /\ VerifyUnary("ref", t) \in Type /\ VerifyUnary("neg", t) \in Type
         /\ VerifyUnary("deref", t) \in Type
         /\ VerifyDot(t) \in Type
         /\ VerifyIndex(t, u) \in Type
<1>1. Ref(t) \in Type /\ (t.ptr > 0 => Deref(t) \in Type) /\ None \in Type /\ Plain("i1") \in Type
  BY RefType, DerefType, Types DEF Ints
<1>2. VerifyDot(t) \in Type
  BY <1>1, Kinds, FieldTypes DEF VerifyDot
<1>3. VerifyUnary("ref", t) \in Type
  BY <1>1 DEF VerifyUnary
<1>4. VerifyUnary("neg", t) \in Type
  BY <1>1 DEF VerifyUnary
<1>5. VerifyUnary("deref", t) \in Type
  BY <1>1 DEF VerifyUnary
<1> QED BY <1>1, <1>2, <1>3, <1>4, <1>5 DEF VerifyAssign, VerifyBinary, VerifyIndex

LEMMA GenTypes ==
  ASSUME NEW t \in Type, NEW u \in Type
  PROVE  /\ Load(t) \in Type
         /\ \A oper \in {"arithmetic", "compare"} : GenBinary(oper, t, u) \in Type
         /\ GenUnary("ref", t) \in Type /\ GenUnary("neg", t) \in Type
         /\ GenUnary("deref", t) \in Type
         /\ \A mode \in BOOLEAN : GenDot(t, mode) \in Type
         /\ GenIndex(t, u) \in Type
         /\ GenStore(t, u) \in Type
         /\ \A n \in Structs : GenLiteral(n) \in Type
<1>1. Bad \in Type /\ Void \in Type /\ Plain("i1") \in Type
  BY Types DEF Ints
<1>2. Load(t) \in Type
  BY <1>1, DerefType DEF Load
<1>3. \A mode \in BOOLEAN : GenDot(t, mode) \in Type
  BY <1>1, FieldTypes, RefType DEF GenDot
<1>4. GenUnary("ref", t) \in Type /\ GenUnary("neg", t) \in Type /\ GenUnary("deref", t) \in Type
  BY <1>1, <1>2 DEF GenUnary
<1>5. \A n \in Structs : GenLiteral(n) \in Type
  BY Types DEF GenLiteral
<1> QED BY <1>1, <1>2, <1>3, <1>4, <1>5 DEF GenBinary, GenIndex, GenStore
----------------------------------------------------------------------------
(***************************************************************************)
(* The stack: which flags are saved on it.                                 *)
(***************************************************************************)
\* The flag that a visit of an operand of the frame at n finds.
Sets(stack, n) == \E i \in 1 .. n : stack[i].op \in AddressOps

StackOK(stack, mode) ==
  /\ stack \in Seq(Frame) /\ stack # <<>>
  /\ mode \in BOOLEAN /\ (mode <=> Sets(stack, Len(stack)))
  /\ \A i \in 1 .. Len(stack) : stack[i].saved <=> Sets(stack, i - 1)
  /\ \A i \in 1 .. Len(stack) : stack[i].op = "statement" <=> i = 1

StackInv == StackOK(frames, addr)

LEMMA Pushed ==
  ASSUME NEW s \in Seq(Frame), NEW f \in Frame
  PROVE  /\ Append(s, f) \in Seq(Frame) /\ Append(s, f) # <<>>
         /\ Len(Append(s, f)) = Len(s) + 1 /\ Append(s, f)[Len(s) + 1] = f
         /\ \A i \in 1 .. Len(s) : Append(s, f)[i] = s[i]
OBVIOUS

LEMMA Popped ==
  ASSUME NEW s \in Seq(Frame), s # <<>>
  PROVE  /\ SubSeq(s, 1, Len(s) - 1) \in Seq(Frame)
         /\ Len(SubSeq(s, 1, Len(s) - 1)) = Len(s) - 1
         /\ \A i \in 1 .. Len(s) - 1 : SubSeq(s, 1, Len(s) - 1)[i] = s[i]
<1>1. Len(s) \in Nat /\ Len(s) > 0 /\ \A i \in 1 .. Len(s) - 1 : s[i] \in Frame
  OBVIOUS
<1> DEFINE n == Len(s) - 1
<1>2. n \in Nat /\ n - 1 + 1 = n /\ \A i \in 1 .. n : 1 + i - 1 = i
  BY <1>1
<1>3. \A i \in 1 .. n : s[i] \in Frame
  BY <1>1
<1> HIDE DEF n
<1>4. /\ SubSeq(s, 1, n) \in Seq(Frame)
      /\ Len(SubSeq(s, 1, n)) = IF 1 <= n THEN n - 1 + 1 ELSE 0
      /\ \A i \in 1 .. n - 1 + 1 : SubSeq(s, 1, n)[i] = s[1 + i - 1]
  BY <1>2, <1>3, SubSeqProperties
<1>5. Len(SubSeq(s, 1, n)) = n /\ \A i \in 1 .. n : SubSeq(s, 1, n)[i] = s[i]
  BY <1>2, <1>4
<1> QED BY <1>4, <1>5 DEF n

LEMMA PushOK ==
  ASSUME StackInv, NEW f \in Frame, f.op # "statement", f.saved = addr
  PROVE  StackOK(Append(frames, f), Inside(f))
<1> DEFINE s == Append(frames, f)  n == Len(frames)
<1>1. /\ s \in Seq(Frame) /\ s # <<>> /\ Len(s) = n + 1 /\ s[n + 1] = f
      /\ \A i \in 1 .. n : s[i] = frames[i]
  BY Pushed DEF StackInv, StackOK
<1>2. n \in Nat /\ n > 0
  BY DEF StackInv, StackOK
<1> HIDE DEF s, n
<1>3. \A m \in 0 .. n : Sets(s, m) <=> Sets(frames, m)
  BY <1>1, <1>2 DEF Sets
<1>4. Sets(s, n + 1) <=> Sets(s, n) \/ f.op \in AddressOps
  BY <1>1, <1>2 DEF Sets
<1>5. Inside(f) \in BOOLEAN /\ (Inside(f) <=> Sets(s, Len(s)))
  BY <1>1, <1>2, <1>3, <1>4 DEF Inside, StackInv, StackOK, n
<1>6. \A i \in 1 .. n + 1 : s[i].saved <=> Sets(s, i - 1)
  <2>1. \A i \in 1 .. n : s[i].saved <=> Sets(s, i - 1)
    BY <1>1, <1>2, <1>3 DEF StackInv, StackOK, n
  <2>2. s[n + 1].saved <=> Sets(s, n)
    BY <1>1, <1>2, <1>3 DEF StackInv, StackOK, n
  <2> QED BY <1>2, <2>1, <2>2
<1>7. \A i \in 1 .. n + 1 : s[i].op = "statement" <=> i = 1
  BY <1>1, <1>2 DEF StackInv, StackOK, n
<1> QED BY <1>1, <1>5, <1>6, <1>7 DEF StackOK, s, n

LEMMA PopOK ==
  ASSUME StackInv, Top.op # "statement"
  PROVE  /\ StackOK(Outer, Top.saved) /\ Top \in Frame /\ Len(frames) > 1
         /\ addr <=> Inside(Top)
<1> DEFINE n == Len(frames)
<1>1. n \in Nat /\ n > 1 /\ Top = frames[n] /\ Top \in Frame
  BY DEF StackInv, StackOK, Top
<1>2. Outer \in Seq(Frame) /\ Len(Outer) = n - 1 /\ \A i \in 1 .. n - 1 : Outer[i] = frames[i]
  BY Popped DEF StackInv, StackOK, Outer
<1> HIDE DEF n
<1>3. \A m \in 0 .. n - 1 : Sets(Outer, m) <=> Sets(frames, m)
  BY <1>1, <1>2 DEF Sets
<1>4. Top.saved \in BOOLEAN /\ (Top.saved <=> Sets(frames, n - 1))
  BY <1>1 DEF StackInv, StackOK, Frame, n
<1>5. Sets(frames, n) <=> Sets(frames, n - 1) \/ Top.op \in AddressOps
  BY <1>1 DEF Sets
<1>6. addr <=> Inside(Top)
  BY <1>1, <1>4, <1>5 DEF StackInv, StackOK, Inside, n
<1>7. \A i \in 1 .. n - 1 : Outer[i].saved <=> Sets(Outer, i - 1)
  BY <1>1, <1>2, <1>3 DEF StackInv, StackOK, n
<1>8. \A i \in 1 .. n - 1 : Outer[i].op = "statement" <=> i = 1
  BY <1>1, <1>2 DEF StackInv, StackOK, n
<1>9. Outer # <<>>
  BY <1>1, <1>2
<1> QED BY <1>1, <1>2, <1>3, <1>4, <1>6, <1>7, <1>8, <1>9 DEF StackOK, n

LEMMA SwapOK ==
  ASSUME StackInv, Top.op # "statement",
         NEW f \in Frame, f.op # "statement", f.saved = Top.saved
  PROVE  StackOK(Append(Outer, f), Inside(f))
<1> DEFINE s == Append(Outer, f)  n == Len(Outer)
<1>0. StackOK(Outer, Top.saved)
  BY PopOK
<1>1. /\ s \in Seq(Frame) /\ s # <<>> /\ Len(s) = n + 1 /\ s[n + 1] = f
      /\ \A i \in 1 .. n : s[i] = Outer[i]
  BY <1>0, Pushed DEF StackOK
<1>2. n \in Nat /\ n > 0
  BY <1>0 DEF StackOK
<1> HIDE DEF s, n
<1>3. \A m \in 0 .. n : Sets(s, m) <=> Sets(Outer, m)
  BY <1>1, <1>2 DEF Sets
<1>4. Sets(s, n + 1) <=> Sets(s, n) \/ f.op \in AddressOps
  BY <1>1, <1>2 DEF Sets
<1>5. Inside(f) \in BOOLEAN /\ (Inside(f) <=> Sets(s, Len(s)))
  BY <1>0, <1>1, <1>2, <1>3, <1>4 DEF Inside, StackOK, n
<1>6. \A i \in 1 .. n + 1 : s[i].saved <=> Sets(s, i - 1)
  <2>1. \A i \in 1 .. n : s[i].saved <=> Sets(s, i - 1)
    BY <1>0, <1>1, <1>2, <1>3 DEF StackOK, n
  <2>2. s[n + 1].saved <=> Sets(s, n)
    BY <1>0, <1>1, <1>2, <1>3 DEF StackOK, n
  <2> QED BY <1>2, <2>1, <2>2
<1>7. \A i \in 1 .. n + 1 : s[i].op = "statement" <=> i = 1
  BY <1>0, <1>1, <1>2 DEF StackOK, n
<1> QED BY <1>1, <1>5, <1>6, <1>7 DEF StackOK, s, n
----------------------------------------------------------------------------
(***************************************************************************)
(* Parts of a step.                                                        *)
(***************************************************************************)
Turns == {"visit", "return", "reported", "crashed", "done"}

\* What a return leaves of the type invariant.
Returned ==
  /\ ret' \in Result /\ turn' \in Turns /\ malformed' \in BOOLEAN /\ flaws' \subseteq Flaws

Steps == nodes' \in 0 .. MaxNodes

LEMMA Noted ==
  ASSUME NEW form, NEW r, NEW t, NEW u
  PROVE  Wants(form, r) \subseteq Flaws /\ Sized(t, u) \subseteq Flaws
BY DEF Wants, Sized, Flaws

LEMMA ReturnTypes ==
  ASSUME TypeOK, NEW r \in Result, NEW noted, noted \subseteq Flaws, Return(r, noted)
  PROVE  Returned
<1>1. (IF r.v = None THEN {"unverified"} ELSE {}) \subseteq Flaws
  BY DEF Flaws
<1>2. flaws' \subseteq Flaws
  BY <1>1 DEF Return, TypeOK, Flaws
<1> QED BY <1>2 DEF Return, TypeOK, Returned, Turns

LEMMA SameTypes == TypeOK => (UNCHANGED <<ret, turn, malformed, flaws>> => Returned)
BY DEF TypeOK, Returned, Turns, Flaws

LEMMA Assemble ==
  ASSUME Returned, Steps, StackOK(frames', addr')
  PROVE  TypeOK' /\ StackInv'
BY DEF Returned, Steps, StackOK, TypeOK, StackInv, Turns, Flaws

LEMMA Counts ==
  ASSUME TypeOK
  PROVE  /\ UNCHANGED nodes => Steps
         /\ CanVisit /\ nodes' = nodes + 1 => Steps
BY TypingAssumption DEF TypeOK, Steps, CanVisit

\* A visit that returns at once.
LEMMA Leaf ==
  ASSUME TypeOK, StackInv, CanVisit, nodes' = nodes + 1, UNCHANGED <<addr, frames>>,
         NEW r \in Result, NEW noted, noted \subseteq Flaws, Return(r, noted)
  PROVE  TypeOK' /\ StackInv'
<1>1. Returned
  BY ReturnTypes
<1>2. StackOK(frames', addr')
  BY DEF StackInv
<1> QED BY <1>1, <1>2, Counts, Assemble

LEMMA Descends ==
  ASSUME TypeOK, StackInv, CanVisit, NEW f \in Frame, f.op # "statement", f.saved = addr,
         Descend(f, Inside(f))
  PROVE  TypeOK' /\ StackInv'
<1>1. StackOK(frames', addr')
  BY PushOK DEF Descend
<1>2. Returned
  BY SameTypes DEF Descend
<1> QED BY <1>1, <1>2, Counts, Assemble DEF Descend

LEMMA Leaves ==
  ASSUME TypeOK, StackInv, Top.op # "statement", Leave, Returned
  PROVE  TypeOK' /\ StackInv'
<1>1. StackOK(frames', addr')
  BY PopOK DEF Leave
<1> QED BY <1>1, Counts, Assemble DEF Leave

LEMMA GoesOn ==
  ASSUME TypeOK, StackInv, Top.op # "statement", NEW f \in Frame, f.op # "statement",
         f.saved = Top.saved, GoOn(f, Inside(f)), malformed' \in BOOLEAN, flaws' \subseteq Flaws
  PROVE  TypeOK' /\ StackInv'
<1>1. StackOK(frames', addr')
  BY SwapOK DEF GoOn
<1>2. Returned
  BY DEF GoOn, TypeOK, Returned, Turns
<1> QED BY <1>1, <1>2, Counts, Assemble DEF GoOn

LEMMA Stays ==
  ASSUME TypeOK, StackInv, UNCHANGED <<addr, frames, nodes>>, Returned
  PROVE  TypeOK' /\ StackInv'
<1>1. StackOK(frames', addr')
  BY DEF StackInv
<1> QED BY <1>1, Counts, Assemble
----------------------------------------------------------------------------
(***************************************************************************)
(* Frames.                                                                 *)
(***************************************************************************)
LEMMA NewFrame ==
  ASSUME TypeOK, NEW op \in Ops
  PROVE  New(op) \in Frame /\ New(op).op = op /\ New(op).saved = addr
BY Types DEF TypeOK, New, Frame

LEMMA TopFacts ==
  ASSUME TypeOK, StackInv
  PROVE  /\ Top \in Frame
         /\ Top.op \in Ops /\ Top.saved \in BOOLEAN /\ Top.type \in Type
         /\ Top.rest \in Seq(Type)
         /\ Top.first \in Result /\ Top.first.v \in Type /\ Top.first.g \in Type
         /\ ret \in Result /\ ret.v \in Type /\ ret.g \in Type
         /\ addr \in BOOLEAN
<1>1. Top \in Frame /\ ret \in Result /\ addr \in BOOLEAN
  BY DEF TypeOK, StackInv, StackOK, Top
<1>2. /\ Top.op \in Ops /\ Top.saved \in BOOLEAN /\ Top.type \in Type
      /\ Top.rest \in Seq(Type) /\ Top.first \in Result
  BY <1>1 DEF Frame
<1> QED BY <1>1, <1>2 DEF Result

\* The mode in which the operand was visited goes for the next one.
LEMMA ModeOfTop ==
  ASSUME TypeOK, StackInv, Top.op # "statement"
  PROVE  addr = Inside(Top)
<1>1. (addr <=> Inside(Top)) /\ addr \in BOOLEAN /\ Inside(Top) \in BOOLEAN
  BY PopOK, TopFacts DEF Inside
<1> QED BY <1>1

\* Visits that leave the mode to their operand.
LEMMA ModeKept ==
  ASSUME TypeOK, NEW f \in Frame, f.op \notin AddressOps, f.saved = addr
  PROVE  Inside(f) = addr
<1>1. addr \in BOOLEAN /\ f.saved \in BOOLEAN
  BY DEF TypeOK, Frame
<1> QED BY <1>1 DEF Inside

LEMMA ModeSet ==
  ASSUME NEW f, f.op \in AddressOps
  PROVE  Inside(f) = TRUE
BY DEF Inside
----------------------------------------------------------------------------
(***************************************************************************)
(* The visits keep the type invariant and the stack.                       *)
(***************************************************************************)
LEMMA GenVariableResult ==
  ASSUME TypeOK, NEW t \in VarTypes
  PROVE  GenVariable(t) \in Result
<1>1. t \in Type /\ Ref(t) \in Type
  BY TypingAssumption, Types, RefType
<1>2. Load(Ref(t)) \in Type
  BY <1>1, GenTypes
<1> QED BY <1>1, <1>2 DEF GenVariable, Result

LEMMA VisitLeaves ==
  ASSUME TypeOK, StackInv,
         VisitVariable \/ VisitNumber \/ VisitString \/ VisitCallBare \/ VisitStructLiteralBare
  PROVE  TypeOK' /\ StackInv'
<1>1. CASE VisitVariable
  <2> DEFINE noted(t) == IF addr THEN {} ELSE Needs(t)
  <2>1. PICK t \in VarTypes : Return(GenVariable(t), noted(t))
    BY <1>1 DEF VisitVariable
  <2>2. CanVisit /\ nodes' = nodes + 1 /\ UNCHANGED <<addr, frames>>
    BY <1>1 DEF VisitVariable
  <2>3. GenVariable(t) \in Result /\ noted(t) \subseteq Flaws
    BY GenVariableResult, UnsizedFacts
  <2> HIDE DEF noted
  <2> QED BY <2>1, <2>2, <2>3, Leaf
<1>2. CASE VisitNumber
  <2> DEFINE r(t) == [v |-> t, g |-> t, form |-> "value"]
  <2>1. PICK t \in {Plain("i64"), Plain("f64")} : Return(r(t), {})
    BY <1>2 DEF VisitNumber
  <2>2. CanVisit /\ nodes' = nodes + 1 /\ UNCHANGED <<addr, frames>>
    BY <1>2 DEF VisitNumber
  <2>3. r(t) \in Result /\ {} \subseteq Flaws
    BY Types DEF Ints, Floats, Result
  <2> HIDE DEF r
  <2> QED BY <2>1, <2>2, <2>3, Leaf
<1>3. CASE VisitString
  <2> DEFINE r == [v |-> Ref(Plain("i8")), g |-> Ref(Plain("chars")), form |-> "value"]
  <2>1. Return(r, {"string"}) /\ CanVisit /\ nodes' = nodes + 1 /\ UNCHANGED <<addr, frames>>
    BY <1>3 DEF VisitString
  <2>2. Plain("i8") \in Type /\ Plain("chars") \in Type
    BY Types DEF Ints
  <2>3. r \in Result /\ {"string"} \subseteq Flaws
    BY <2>2, RefType DEF Result, Flaws
  <2> HIDE DEF r
  <2> QED BY <2>1, <2>3, Leaf
<1>4. CASE VisitCallBare
  <2> DEFINE r(f) == [v |-> f.result, g |-> IF f.params = <<>> THEN f.result ELSE Bad, form |-> "value"]
             noted(f) == IF f.params = <<>> THEN {} ELSE {"few"}
  <2>1. PICK f \in Signatures : Return(r(f), noted(f))
    BY <1>4 DEF VisitCallBare
  <2>2. CanVisit /\ nodes' = nodes + 1 /\ UNCHANGED <<addr, frames>>
    BY <1>4 DEF VisitCallBare
  <2>3. f.result \in Type /\ Bad \in Type
    BY TypingAssumption, Types
  <2>4. r(f) \in Result /\ noted(f) \subseteq Flaws
    BY <2>3 DEF Result, Flaws
  <2> HIDE DEF r, noted
  <2> QED BY <2>1, <2>2, <2>4, Leaf
<1>5. CASE VisitStructLiteralBare
  <2> DEFINE r(n) == [v |-> Plain(n), g |-> GenLiteral(n), form |-> "value"]
  <2>1. PICK n \in Structs : Return(r(n), Needs(Plain(n)))
    BY <1>5 DEF VisitStructLiteralBare
  <2>2. CanVisit /\ nodes' = nodes + 1 /\ UNCHANGED <<addr, frames>>
    BY <1>5 DEF VisitStructLiteralBare
  <2>3. r(n) \in Result /\ Needs(Plain(n)) \subseteq Flaws
    BY Types, GenTypes, UnsizedFacts DEF Result
  <2> HIDE DEF r
  <2> QED BY <2>1, <2>2, <2>3, Leaf
<1> QED BY <1>1, <1>2, <1>3, <1>4, <1>5

LEMMA VisitOperands ==
  ASSUME TypeOK, StackInv,
         \/ VisitRef \/ VisitDot \/ VisitUnary \/ VisitBinary \/ VisitAssign
         \/ VisitArrayAccess \/ VisitCall \/ VisitStructLiteral
  PROVE  TypeOK' /\ StackInv'
<1>1. \A op \in Ops : New(op) \in Frame /\ New(op).op = op /\ New(op).saved = addr
  BY NewFrame
<1>2. /\ "ref" \in Ops /\ "dot" \in Ops /\ "unary" \in Ops /\ "left" \in Ops /\ "rhs" \in Ops
      /\ "index" \in Ops /\ "argument" \in Ops /\ "field" \in Ops
      /\ \A op \in {"unary", "left", "rhs", "index", "argument", "field"} : op \notin AddressOps
      /\ "ref" \in AddressOps /\ "dot" \in AddressOps
  BY DEF Ops, AddressOps
<1>3. ASSUME NEW f \in Frame, f.op \in {"unary", "left", "rhs", "index", "argument", "field"},
             f.saved = addr, CanVisit, Descend(f, addr)
      PROVE  TypeOK' /\ StackInv'
  <2>1. Inside(f) = addr
    BY <1>2, <1>3, ModeKept
  <2>2. f.op # "statement"
    BY <1>3
  <2> QED BY <1>3, <2>1, <2>2, Descends
<1>4. ASSUME NEW f \in Frame, f.op \in {"ref", "dot"}, f.saved = addr, CanVisit, Descend(f, TRUE)
      PROVE  TypeOK' /\ StackInv'
  <2>1. Inside(f) = TRUE
    BY <1>2, <1>4, ModeSet
  <2>2. f.op # "statement"
    BY <1>4
  <2> QED BY <1>4, <2>1, <2>2, Descends
<1>5. CASE VisitRef
  BY <1>1, <1>2, <1>4, <1>5 DEF VisitRef
<1>6. CASE VisitDot
  BY <1>1, <1>2, <1>4, <1>6 DEF VisitDot
<1>7. CASE VisitUnary
  BY <1>1, <1>2, <1>3, <1>7 DEF VisitUnary
<1>8. CASE VisitBinary
  BY <1>1, <1>2, <1>3, <1>8 DEF VisitBinary
<1>9. CASE VisitAssign
  BY <1>1, <1>2, <1>3, <1>9 DEF VisitAssign
<1>10. CASE VisitArrayAccess
  <2> DEFINE f(t) == [New("index") EXCEPT !.first = [v |-> t, g |-> Ref(t), form |-> "place"]]
  <2>1. PICK t \in VarTypes : Descend(f(t), addr)
    BY <1>10 DEF VisitArrayAccess
  <2>2. t \in Type /\ Ref(t) \in Type
    BY TypingAssumption, Types, RefType
  <2>3. f(t) \in Frame /\ f(t).op = "index" /\ f(t).saved = addr
    BY <1>1, <1>2, <2>2 DEF Frame, Result
  <2> HIDE DEF f
  <2> QED BY <1>3, <1>10, <2>1, <2>3 DEF VisitArrayAccess
<1>11. CASE VisitCall
  <2> DEFINE f(s) == [New("argument") EXCEPT !.type = s.result, !.rest = s.params]
  <2>1. PICK s \in Signatures : Descend(f(s), addr)
    BY <1>11 DEF VisitCall
  <2>2. s.result \in Type /\ s.params \in Seq(Type)
    BY TypingAssumption, Types
  <2>3. f(s) \in Frame /\ f(s).op = "argument" /\ f(s).saved = addr
    BY <1>1, <1>2, <2>2 DEF Frame
  <2> HIDE DEF f
  <2> QED BY <1>3, <1>11, <2>1, <2>3 DEF VisitCall
<1>12. CASE VisitStructLiteral
  <2> DEFINE f(n) == [New("field") EXCEPT !.type = Plain(n)]
  <2>1. PICK n \in Structs : Descend(f(n), addr)
    BY <1>12 DEF VisitStructLiteral
  <2>2. f(n) \in Frame /\ f(n).op = "field" /\ f(n).saved = addr
    BY <1>1, <1>2, Types DEF Frame
  <2> HIDE DEF f
  <2> QED BY <1>3, <1>12, <2>1, <2>2 DEF VisitStructLiteral
<1> QED BY <1>5, <1>6, <1>7, <1>8, <1>9, <1>10, <1>11, <1>12
----------------------------------------------------------------------------
(***************************************************************************)
(* The returns to a frame keep them.                                       *)
(***************************************************************************)
LEMMA EndsOfOperands ==
  ASSUME TypeOK, StackInv,
         \/ EndRef \/ EndNeg \/ EndDeref \/ EndDot \/ EndBinary \/ EndAssign \/ EndArrayAccess
  PROVE  TypeOK' /\ StackInv'
<1>1. /\ ret.v \in Type /\ ret.g \in Type /\ Top.first.v \in Type /\ Top.first.g \in Type
      /\ Top.saved \in BOOLEAN /\ addr \in BOOLEAN
  BY TopFacts
<1>2. \A v \in Type, g \in Type, form \in {"value", "place", "store"} :
        [v |-> v, g |-> g, form |-> form] \in Result
  BY DEF Result
<1>3. {"kind"} \subseteq Flaws /\ {"index"} \subseteq Flaws /\ {} \subseteq Flaws
  BY DEF Flaws
<1>4. ASSUME NEW r \in Result, NEW noted, noted \subseteq Flaws, Top.op # "statement", Leave,
             Return(r, noted)
      PROVE  TypeOK' /\ StackInv'
  BY <1>4, ReturnTypes, Leaves
<1>5. CASE EndRef
  <2>1. VerifyUnary("ref", ret.v) \in Type /\ GenUnary("ref", ret.g) \in Type
    BY <1>1, VerifyTypes, GenTypes
  <2> QED BY <1>2, <1>4, <1>5, <2>1, Noted DEF EndRef, Returning
<1>6. CASE EndNeg
  <2>1. VerifyUnary("neg", ret.v) \in Type /\ GenUnary("neg", ret.g) \in Type
    BY <1>1, VerifyTypes, GenTypes
  <2> DEFINE r == [v |-> VerifyUnary("neg", ret.v), g |-> GenUnary("neg", ret.g), form |-> "value"]
             noted == Wants("value", ret) \cup IF Kind(ret.v) = "float" THEN {} ELSE {"kind"}
  <2>2. Top.op # "statement" /\ Leave /\ Return(r, noted)
    BY <1>6 DEF EndNeg, Returning
  <2>3. r \in Result /\ noted \subseteq Flaws
    BY <1>2, <1>3, <2>1, Noted
  <2> HIDE DEF r, noted
  <2> QED BY <1>4, <2>2, <2>3
<1>7. CASE EndDeref
  <2>1. VerifyUnary("deref", ret.v) \in Type /\ GenUnary("deref", ret.g) \in Type
    BY <1>1, VerifyTypes, GenTypes
  <2> DEFINE form == IF addr THEN "place" ELSE "value"
             r == [v |-> VerifyUnary("deref", ret.v), g |-> GenUnary("deref", ret.g), form |-> form]
             noted == Wants(form, ret) \cup IF addr THEN {} ELSE Needs(VerifyUnary("deref", ret.v))
  <2>2. Top.op # "statement" /\ Leave /\ Return(r, noted)
    BY <1>7 DEF EndDeref, Returning
  <2>3. r \in Result /\ noted \subseteq Flaws
    BY <1>2, <2>1, Noted, UnsizedFacts
  <2> HIDE DEF r, noted
  <2> QED BY <1>4, <2>2, <2>3
<1>8. CASE EndDot
  <2>1. VerifyDot(ret.v) \in Type /\ GenDot(ret.g, Top.saved) \in Type
    BY <1>1, VerifyTypes, GenTypes
  <2> DEFINE r == [v |-> VerifyDot(ret.v), g |-> GenDot(ret.g, Top.saved),
                   form |-> IF Top.saved THEN "place" ELSE "value"]
             noted == Wants("place", ret) \cup Needs(ret.v)
  <2>2. Top.op # "statement" /\ Leave /\ Return(r, noted)
    BY <1>8 DEF EndDot, Returning
  <2>3. r \in Result /\ noted \subseteq Flaws
    BY <1>2, <2>1, Noted, UnsizedFacts
  <2> HIDE DEF r, noted
  <2> QED BY <1>4, <2>2, <2>3
<1>9. CASE EndBinary
  <2> DEFINE r(oper) == [v |-> VerifyBinary(oper, Top.first.v, ret.v),
                         g |-> GenBinary(oper, Top.first.g, ret.g), form |-> "value"]
             kinds(oper) == {"int", "float"} \cup IF oper = "compare" THEN {"ptr"} ELSE {}
             noted(oper) ==
               Wants("value", Top.first) \cup Wants("value", ret) \cup Sized(Top.first.v, ret.v)
                 \cup IF Kind(ret.v) \in kinds(oper) THEN {} ELSE {"kind"}
  <2>1. PICK oper \in {"arithmetic", "compare"} : Return(r(oper), noted(oper))
    BY <1>9 DEF EndBinary
  <2>2. VerifyBinary(oper, Top.first.v, ret.v) \in Type /\ GenBinary(oper, Top.first.g, ret.g) \in Type
    BY <1>1, VerifyTypes, GenTypes
  <2>3. r(oper) \in Result /\ noted(oper) \subseteq Flaws
    BY <1>2, <1>3, <2>2, Noted
  <2>4. Top.op # "statement" /\ Leave
    BY <1>9 DEF EndBinary, Returning
  <2> HIDE DEF r, noted
  <2> QED BY <1>4, <2>1, <2>3, <2>4
<1>10. CASE EndAssign
  <2>1. VerifyAssign(ret.v, Top.first.v) \in Type /\ GenStore(Top.first.g, ret.g) \in Type
    BY <1>1, VerifyTypes, GenTypes
  <2> DEFINE r == [v |-> VerifyAssign(ret.v, Top.first.v), g |-> GenStore(Top.first.g, ret.g),
                   form |-> "store"]
             noted == Wants("value", Top.first) \cup Wants("place", ret) \cup Sized(ret.v, Top.first.v)
                        \cup Needs(ret.v)
  <2>2. Top.op # "statement" /\ Leave /\ Return(r, noted)
    BY <1>10 DEF EndAssign, Returning
  <2>3. r \in Result /\ noted \subseteq Flaws
    BY <1>2, <2>1, Noted, UnsizedFacts
  <2> HIDE DEF r, noted
  <2> QED BY <1>4, <2>2, <2>3
<1>11. CASE EndArrayAccess
  <2>1. VerifyIndex(Top.first.v, ret.v) \in Type /\ GenIndex(Top.first.g, ret.g) \in Type
    BY <1>1, VerifyTypes, GenTypes
  <2> DEFINE r == [v |-> VerifyIndex(Top.first.v, ret.v), g |-> GenIndex(Top.first.g, ret.g),
                   form |-> IF addr THEN "place" ELSE "value"]
             noted == Wants("value", ret) \cup IF addr THEN {} ELSE {"index"}
  <2>2. Top.op # "statement" /\ Leave /\ Return(r, noted)
    BY <1>11 DEF EndArrayAccess, Returning
  <2>3. r \in Result /\ noted \subseteq Flaws
    BY <1>2, <1>3, <2>1, Noted
  <2> HIDE DEF r, noted
  <2> QED BY <1>4, <2>2, <2>3
<1> QED BY <1>5, <1>6, <1>7, <1>8, <1>9, <1>10, <1>11

\* The mode that a frame goes on in, if it leaves the mode as it is.
LEMMA NextMode ==
  ASSUME TypeOK, StackInv, Top.op \in {"left", "argument", "field"},
         NEW f \in Frame, f.op \in {"right", "argument", "field"}, f.saved = Top.saved
  PROVE  Inside(f) = addr
<1>1. addr \in BOOLEAN /\ Top.saved \in BOOLEAN /\ (addr <=> Inside(Top))
  BY TopFacts, PopOK
<1> QED BY <1>1 DEF Inside, AddressOps

LEMMA PassedTypes ==
  ASSUME TypeOK, NEW t, Passed(t)
  PROVE  malformed' \in BOOLEAN /\ flaws' \subseteq Flaws
<1>1. (IF Hidden /\ ~ Same(ret.v, t) THEN {"unverified"} ELSE {}) \subseteq Flaws
  BY DEF Flaws
<1>2. flaws \subseteq Flaws
  BY DEF TypeOK, Flaws
<1> QED BY <1>1, <1>2, Noted, UnsizedFacts DEF TypeOK, Passed

LEMMA StoredTypes ==
  ASSUME TypeOK, Stored
  PROVE  malformed' \in BOOLEAN /\ flaws' \subseteq Flaws
<1>1. (IF ret.v = FieldOf[Top.type.base] THEN {} ELSE {"unverified"}) \subseteq Flaws
  BY DEF Flaws
<1>2. flaws \subseteq Flaws
  BY DEF TypeOK, Flaws
<1> QED BY <1>1, <1>2, Noted, UnsizedFacts DEF TypeOK, Stored

LEMMA GoesOnToOperands ==
  ASSUME TypeOK, StackInv, EndLeft \/ EndRhs \/ MoreArguments \/ MoreFields
  PROVE  TypeOK' /\ StackInv'
<1>1. Top \in Frame /\ ret \in Result /\ malformed \in BOOLEAN /\ flaws \subseteq Flaws
  BY TopFacts DEF TypeOK, Flaws
<1>2. CASE EndLeft
  <2> DEFINE f == [Top EXCEPT !.op = "right", !.first = ret]
  <2>1. f \in Frame /\ f.op = "right" /\ f.saved = Top.saved
    BY <1>1 DEF Frame, Ops
  <2>2. GoOn(f, addr) /\ Top.op = "left" /\ malformed' \in BOOLEAN /\ flaws' \subseteq Flaws
    BY <1>1, <1>2 DEF EndLeft, Returning
  <2> HIDE DEF f
  <2>3. Inside(f) = addr
    BY <2>1, <2>2, NextMode
  <2> QED BY <2>1, <2>2, <2>3, GoesOn
<1>3. CASE EndRhs
  <2> DEFINE f == [Top EXCEPT !.op = "lhs", !.first = ret]
  <2>1. f \in Frame /\ f.op = "lhs" /\ f.saved = Top.saved
    BY <1>1 DEF Frame, Ops, AddressOps
  <2>2. GoOn(f, TRUE) /\ Top.op = "rhs" /\ malformed' \in BOOLEAN /\ flaws' \subseteq Flaws
    BY <1>1, <1>3 DEF EndRhs, Returning
  <2> HIDE DEF f
  <2>3. Inside(f) = TRUE
    BY <2>1 DEF Inside, AddressOps
  <2> QED BY <2>1, <2>2, <2>3, GoesOn
<1>4. CASE MoreArguments
  <2>1. Top.op = "argument"
    BY <1>4 DEF MoreArguments, Returning
  <2>2. CASE Top.rest = <<>>
    <3>1. GoOn(Top, addr) /\ malformed' = TRUE /\ flaws' = flaws \cup {"unverified"}
      BY <1>4, <2>2 DEF MoreArguments
    <3>2. Inside(Top) = addr
      BY <1>1, <2>1, NextMode
    <3> QED BY <1>1, <2>1, <3>1, <3>2, GoesOn DEF Flaws
  <2>3. CASE Top.rest # <<>>
    <3> DEFINE f == [Top EXCEPT !.rest = Tail(@)]
    <3>1. \A r \in Seq(Type) : r # <<>> => Tail(r) \in Seq(Type)
      OBVIOUS
    <3>6. Tail(Top.rest) \in Seq(Type)
      BY <2>3, <3>1, TopFacts
    <3>2. f \in Frame /\ f.op = "argument" /\ f.saved = Top.saved
      BY <1>1, <2>1, <3>6 DEF Frame
    <3>3. GoOn(f, addr) /\ Passed(Head(Top.rest))
      BY <1>4, <2>3 DEF MoreArguments
    <3>4. malformed' \in BOOLEAN /\ flaws' \subseteq Flaws
      BY <3>3, PassedTypes
    <3> HIDE DEF f
    <3>5. Inside(f) = addr
      BY <2>1, <3>2, NextMode
    <3> QED BY <2>1, <3>2, <3>3, <3>4, <3>5, GoesOn
  <2> QED BY <2>2, <2>3
<1>5. CASE MoreFields
  <2>1. Top.op = "field" /\ GoOn(Top, addr) /\ Stored
    BY <1>5 DEF MoreFields, Returning
  <2>2. malformed' \in BOOLEAN /\ flaws' \subseteq Flaws
    BY <2>1, StoredTypes
  <2>3. Inside(Top) = addr
    BY <1>1, <2>1, NextMode
  <2> QED BY <1>1, <2>1, <2>2, <2>3, GoesOn
<1> QED BY <1>2, <1>3, <1>4, <1>5

LEMMA EndsOfLists ==
  ASSUME TypeOK, StackInv, EndCall \/ EndStructLiteral
  PROVE  TypeOK' /\ StackInv'
<1>1. Top.type \in Type /\ flaws \subseteq Flaws
  BY TopFacts DEF TypeOK, Flaws
<1>2. [v |-> Top.type, g |-> Top.type, form |-> "value"] \in Result
  BY <1>1 DEF Result
<1>3. CASE EndCall
  <2>1. malformed' \in BOOLEAN /\ flaws' \subseteq Flaws
    <3>1. CASE Len(Top.rest) = 1
      BY <1>3, <3>1, PassedTypes DEF EndCall
    <3>2. CASE Len(Top.rest) # 1
      <4>1. {IF Top.rest = <<>> THEN "unverified" ELSE "few"} \subseteq Flaws
        BY DEF Flaws
      <4> QED BY <1>1, <1>3, <3>2, <4>1 DEF EndCall
    <3> QED BY <3>1, <3>2
  <2>2. Returned
    BY <1>2, <1>3, <2>1 DEF EndCall, Returned, Turns
  <2> QED BY <1>3, <2>2, Leaves DEF EndCall, Returning
<1>4. CASE EndStructLiteral
  <2>1. Returned
    BY <1>2, <1>4, StoredTypes DEF EndStructLiteral, Returned, Turns
  <2> QED BY <1>4, <2>1, Leaves DEF EndStructLiteral, Returning
<1> QED BY <1>3, <1>4

LEMMA Endings ==
  ASSUME TypeOK, StackInv,
         \/ CastFails \/ ArgumentReported
         \/ EndExpression \/ EndLet \/ EndReturn \/ EndCondition \/ LetBare \/ ReturnBare
  PROVE  TypeOK' /\ StackInv'
<1>1. CASE CastFails \/ ArgumentReported
  <2>1. Returned
    BY <1>1 DEF TypeOK, CastFails, ArgumentReported, Returned, Turns, Flaws
  <2> QED BY <1>1, <2>1, Stays DEF CastFails, ArgumentReported
<1>2. ASSUME NEW fits, NEW well, NEW noted, noted \subseteq Flaws, Finish(fits, well, noted)
      PROVE  TypeOK' /\ StackInv'
  <2>1. flaws \subseteq Flaws /\ ret \in Result
    BY DEF TypeOK, Flaws
  <2>2. turn' \in Turns
    BY <1>2 DEF Finish, Turns
  <2>3. malformed' \in BOOLEAN
    BY <1>2 DEF Finish
  <2>4. Returned
    BY <1>2, <2>1, <2>2, <2>3 DEF Finish, Returned
  <2> QED BY <1>2, <2>4, Stays DEF Finish
<1>3. CASE EndExpression
  <2>1. turn' = "done" /\ UNCHANGED <<addr, frames, ret, nodes>>
    BY <1>3 DEF EndExpression, End, Finish
  <2>2. malformed' \in BOOLEAN /\ flaws' \subseteq Flaws /\ ret' \in Result
    BY <1>3 DEF EndExpression, End, Finish, TypeOK, Flaws
  <2> QED BY <2>1, <2>2, Stays DEF Returned, Turns
<1> DEFINE noted(t) == Wants("value", ret) \cup Sized(ret.v, t) \cup Needs(t)
           result(t) == IF t = Void THEN {} ELSE {"result"}
<1>4. \A t : noted(t) \subseteq Flaws /\ Needs(t) \subseteq Flaws /\ result(t) \subseteq Flaws
  BY Noted, UnsizedFacts DEF Flaws
<1>5. CASE EndLet
  <2>1. PICK t \in VarTypes \cup {Void} : Finish(Same(ret.v, t), ret.g = t /\ ~ Unsized(t), noted(t))
    BY <1>5 DEF EndLet, End
  <2> QED BY <1>2, <1>4, <2>1
<1>6. CASE EndReturn
  <2>1. PICK t \in VarTypes \cup {Void} :
          Finish(Same(ret.v, t), ret.g = t /\ ~ Unsized(t), noted(t))
    BY <1>6 DEF EndReturn, End
  <2> QED BY <1>2, <1>4, <2>1
<1>7. CASE EndCondition
  <2>1. Wants("value", ret) \cup Sized(ret.v, Plain("i1")) \subseteq Flaws
    BY Noted
  <2> QED BY <1>2, <1>7, <2>1 DEF EndCondition, End
<1>8. CASE LetBare
  <2>1. PICK t \in VarTypes \cup {Void} : Finish(TRUE, ~ Unsized(t), Needs(t))
    BY <1>8 DEF LetBare
  <2> QED BY <1>2, <1>4, <2>1
<1>9. CASE ReturnBare
  <2>1. PICK t \in VarTypes \cup {Void} : Finish(TRUE, t = Void, result(t))
    BY <1>9 DEF ReturnBare
  <2> HIDE DEF result
  <2> QED BY <1>2, <1>4, <2>1
<1> QED BY <1>1, <1>3, <1>5, <1>6, <1>7, <1>8, <1>9

LEMMA TypeAndStack == TypeOK /\ StackInv /\ [Next]_vars => TypeOK' /\ StackInv'
<1> SUFFICES ASSUME TypeOK, StackInv, [Next]_vars PROVE TypeOK' /\ StackInv'
  OBVIOUS
<1>1. CASE UNCHANGED vars
  BY <1>1 DEF vars, TypeOK, StackInv, StackOK, Sets
<1>2. CASE Next
  BY <1>2, VisitLeaves, VisitOperands, EndsOfOperands, GoesOnToOperands, EndsOfLists, Endings DEF Next
<1> QED BY <1>1, <1>2

LEMMA Initially == Init => TypeOK /\ StackInv
<1> SUFFICES ASSUME Init PROVE TypeOK /\ StackInv
  OBVIOUS
<1> DEFINE f == [op |-> "statement", saved |-> FALSE, first |-> NoResult, type |-> Void, rest |-> <<>>]
<1>1. f \in Frame /\ f.op = "statement" /\ f.saved = FALSE
  BY Types DEF Frame, Ops
<1>2. frames = <<f>>
  BY DEF Init
<1> HIDE DEF f
<1>3. frames \in Seq(Frame) /\ frames # <<>> /\ Len(frames) = 1 /\ frames[1] = f
  BY <1>1, <1>2
<1>4. addr = FALSE /\ ret = NoResult /\ turn = "visit" /\ nodes = 0 /\ malformed = FALSE /\ flaws = {}
  BY DEF Init
<1>5. \A n \in {0, 1} : ~ Sets(frames, n)
  BY <1>1, <1>3 DEF Sets, AddressOps
<1>6. StackOK(frames, addr)
  <2>1. \A i \in 1 .. 1 : i = 1 /\ i - 1 = 0
    OBVIOUS
  <2>2. \A i \in 1 .. 1 : frames[i].saved <=> Sets(frames, i - 1)
    BY <1>1, <1>3, <1>5, <2>1
  <2>3. addr \in BOOLEAN /\ (addr <=> Sets(frames, Len(frames)))
    BY <1>3, <1>4, <1>5
  <2> QED BY <1>1, <1>3, <2>1, <2>2, <2>3 DEF StackOK
<1>7. TypeOK
  <2>1. NoResult \in Result /\ 0 \in 0 .. MaxNodes
    BY Types, TypingAssumption
  <2> QED BY <1>3, <1>4, <2>1 DEF TypeOK
<1> QED BY <1>6, <1>7 DEF StackInv

(***************************************************************************)
(* Every state is well typed.                                              *)
(***************************************************************************)
THEOREM TypeCorrect == Spec => []TypeOK
BY Initially, TypeAndStack, PTL DEF Spec

(***************************************************************************)
(* The address mode is set exactly while an operand is visited for its     *)
(* place: every frame saved the mode that the frames outside it make.      *)
(***************************************************************************)
THEOREM ModeCorrect == Spec => []ModeFollowsStack
<1>1. StackInv => ModeFollowsStack
  BY DEF StackInv, StackOK, Sets, ModeFollowsStack
<1> QED BY <1>1, Initially, TypeAndStack, PTL DEF Spec
----------------------------------------------------------------------------
(***************************************************************************)
(* As long as no flaw has been met, what has been returned agrees, what    *)
(* the frames keep for later does too, and no instruction is malformed.    *)
(***************************************************************************)
Known(t) == t.base \notin {"none", "bad", "chars"}

Good(r) == Agrees(r) /\ Known(r.v)

FrameGood(f) ==
  /\ Known(f.type)
  /\ f.op \in {"right", "lhs"} => Good(f.first)
  /\ f.op = "index" => f.first.form = "place" /\ Good(f.first)

Calm == flaws = {} /\ turn \in {"visit", "return", "done"}

CalmInv ==
  Calm => /\ ~ malformed
          /\ \A i \in 1 .. Len(frames) : FrameGood(frames[i])
          /\ turn = "return" => Good(ret)

LEMMA KnownTypes ==
  /\ \A t \in Type : Known(t) => t # None /\ t # Bad /\ Ref(t) # Bad
  /\ \A t \in Type : Known(Ref(t)) <=> Known(t)
  /\ \A t \in Type : t.ptr > 0 => (Known(Deref(t)) <=> Known(t))
  /\ \A t \in Writable : Known(t)
  /\ Known(Void)
  /\ Known(Plain("i1")) /\ Known(Plain("i64")) /\ Known(Plain("f64"))
  /\ \A n \in Structs : Known(Plain(n))
<1>1. \A t \in Type : Ref(t).base = t.base
  BY RefType
<1>2. \A t \in Type : t.ptr > 0 => Deref(t).base = t.base
  BY DerefType
<1>3. None.base = "none" /\ Bad.base = "bad" /\ Void.base = "void"
  BY DEF None, Bad, Void, Plain
<1>4. \A t \in Writable : Known(t)
  BY TypingAssumption DEF Writable, Known, Ints, Floats
<1>5. \A b : Plain(b).base = b
  BY PlainFacts
<1>6. \A n \in Structs : Known(Plain(n))
  BY <1>5, TypingAssumption DEF Known
<1>7. Known(Plain("i1")) /\ Known(Plain("i64")) /\ Known(Plain("f64"))
  BY <1>5 DEF Known
<1>8. \A t \in Type : Known(t) => t # None /\ t # Bad /\ Ref(t) # Bad
  BY <1>1, <1>3 DEF Known
<1>9. \A t \in Type : Known(Ref(t)) <=> Known(t)
  BY <1>1 DEF Known
<1>10. \A t \in Type : t.ptr > 0 => (Known(Deref(t)) <=> Known(t))
  BY <1>2 DEF Known
<1>11. Known(Void)
  BY <1>3 DEF Known
<1> QED BY <1>4, <1>6, <1>7, <1>8, <1>9, <1>10, <1>11

\* What agrees is not Bad.
LEMMA GoodNotBad ==
  ASSUME NEW r \in Result, Good(r)
  PROVE  r.g # Bad
<1>1. r.v \in Type /\ r.form \in {"value", "place", "store"} /\ Known(r.v)
  BY DEF Result, Good
<1>2. r.v # Bad /\ Ref(r.v) # Bad
  BY <1>1, KnownTypes
<1>3. Void # Bad
  BY DEF Void, Bad, Plain
<1> QED BY <1>1, <1>2, <1>3 DEF Good, Agrees

\* The verifier's types of one kind are equal if they do not differ in size.
LEMMA SizedEqual ==
  ASSUME NEW t, NEW u, Same(t, u), Sized(t, u) = {}
  PROVE  t = u
BY DEF Same, Sized

LEMMA Wanted ==
  ASSUME NEW form, NEW r, Wants(form, r) = {}, Good(r)
  PROVE  /\ r.form = form
         /\ form = "value" => r.g = r.v
         /\ form = "place" => r.g = Ref(r.v)
BY DEF Wants, Good, Agrees

LEMMA CalmReturn ==
  ASSUME TypeOK, CalmInv, turn \in {"visit", "return"}, NEW r \in Result, NEW noted,
         Return(r, noted), Calm',
         \A i \in 1 .. Len(frames') : FrameGood(frames'[i]),
         noted = {} /\ r.v # None => Good(r)
  PROVE  CalmInv'
<1>1. flaws = {} /\ noted = {} /\ r.v # None
  BY DEF Return, Calm
<1>2. ~ malformed
  BY <1>1 DEF CalmInv, Calm
<1>3. r.g # Bad /\ Good(r)
  BY <1>1, GoodNotBad
<1>4. ret' = r /\ ~ malformed'
  BY <1>2, <1>3 DEF Return
<1>5. Good(ret)'
  BY <1>3, <1>4 DEF Good, Agrees
<1>6. \A i \in 1 .. Len(frames') : FrameGood(frames[i])'
  BY DEF FrameGood, Good, Agrees
<1> QED BY <1>4, <1>5, <1>6 DEF CalmInv

FramesGood(s) == \A i \in 1 .. Len(s) : FrameGood(s[i])

LEMMA AppendGood ==
  ASSUME NEW s \in Seq(Frame), FramesGood(s), NEW f \in Frame, FrameGood(f)
  PROVE  FramesGood(Append(s, f))
<1>1. /\ Len(Append(s, f)) = Len(s) + 1 /\ Append(s, f)[Len(s) + 1] = f /\ Len(s) \in Nat
      /\ \A i \in 1 .. Len(s) : Append(s, f)[i] = s[i]
  BY Pushed
<1> DEFINE a == Append(s, f)
<1> HIDE DEF a
<1>2. \A i \in 1 .. Len(s) + 1 : i \in 1 .. Len(s) \/ i = Len(s) + 1
  BY <1>1
<1>3. \A i \in 1 .. Len(s) : FrameGood(a[i])
  BY <1>1 DEF FramesGood, a
<1>4. FrameGood(a[Len(s) + 1])
  BY <1>1 DEF a
<1> QED BY <1>1, <1>2, <1>3, <1>4 DEF FramesGood, a

\* What the invariant says of a state that a flawless step leaves.
LEMMA CalmNow ==
  ASSUME TypeOK, StackInv, CalmInv, turn \in {"visit", "return"}, flaws = {}
  PROVE  /\ ~ malformed /\ FramesGood(frames) /\ FramesGood(Outer) /\ FrameGood(Top)
         /\ Outer \in Seq(Frame) /\ Top \in Frame
         /\ turn = "return" => Good(ret)
<1>1. ~ malformed /\ FramesGood(frames) /\ (turn = "return" => Good(ret))
  BY DEF CalmInv, Calm, FramesGood
<1>2. frames \in Seq(Frame) /\ frames # <<>> /\ Len(frames) \in Nat /\ Len(frames) > 0
  BY DEF TypeOK
<1>3. FrameGood(Top) /\ Top \in Frame
  <2>1. Len(frames) \in 1 .. Len(frames) /\ frames[Len(frames)] \in Frame
    BY <1>2
  <2> QED BY <1>1, <2>1 DEF FramesGood, Top
<1>4. /\ Outer \in Seq(Frame) /\ Len(Outer) = Len(frames) - 1
      /\ \A i \in 1 .. Len(frames) - 1 : Outer[i] = frames[i]
  BY <1>2, Popped DEF Outer
<1>5. FramesGood(Outer)
  BY <1>1, <1>2, <1>4 DEF FramesGood
<1> QED BY <1>1, <1>3, <1>4, <1>5

LEMMA CalmLeaf ==
  ASSUME TypeOK, StackInv, CalmInv, CanVisit, UNCHANGED frames, NEW r \in Result, NEW noted,
         Return(r, noted), noted = {} /\ r.v # None => Good(r)
  PROVE  CalmInv'
<1> SUFFICES ASSUME Calm' PROVE CalmInv'
  BY DEF CalmInv
<1>1. turn = "visit" /\ flaws = {}
  BY DEF CanVisit, Return, Calm
<1>2. \A i \in 1 .. Len(frames') : FrameGood(frames'[i])
  BY <1>1, CalmNow DEF FramesGood
<1> QED BY <1>1, <1>2, CalmReturn

LEMMA CalmDescends ==
  ASSUME TypeOK, StackInv, CalmInv, CanVisit, NEW f \in Frame, FrameGood(f), NEW mode,
         Descend(f, mode)
  PROVE  CalmInv'
<1> SUFFICES ASSUME Calm' PROVE CalmInv'
  BY DEF CalmInv
<1>1. turn = "visit" /\ flaws = {} /\ turn' = "visit"
  BY DEF CanVisit, Descend, Calm
<1>2. FramesGood(frames')
  BY <1>1, CalmNow, AppendGood DEF Descend, TypeOK
<1>3. \A i \in 1 .. Len(frames') : FrameGood(frames[i])'
  BY <1>2 DEF FramesGood, FrameGood, Good, Agrees
<1>4. ~ malformed'
  BY <1>1, CalmNow DEF Descend
<1> QED BY <1>1, <1>3, <1>4 DEF CalmInv

LEMMA CalmLeaves ==
  ASSUME TypeOK, StackInv, CalmInv, turn = "return", Leave, NEW r \in Result, NEW noted,
         Return(r, noted),
         flaws = {} /\ noted = {} /\ r.v # None /\ Good(ret) /\ FrameGood(Top) => Good(r)
  PROVE  CalmInv'
<1> SUFFICES ASSUME Calm' PROVE CalmInv'
  BY DEF CalmInv
<1>1. flaws = {}
  BY DEF Return, Calm
<1>2. \A i \in 1 .. Len(frames') : FrameGood(frames'[i])
  BY <1>1, CalmNow DEF FramesGood, Leave
<1>3. Good(ret) /\ FrameGood(Top)
  BY <1>1, CalmNow
<1> QED BY <1>1, <1>2, <1>3, CalmReturn

\* Nothing is returned: an operand is visited next.
LEMMA CalmGoesOn ==
  ASSUME TypeOK, StackInv, CalmInv, turn = "return", NEW f \in Frame, NEW mode, GoOn(f, mode),
         flaws \subseteq flaws',
         flaws' = {} /\ Good(ret) /\ FrameGood(Top) /\ ~ malformed => FrameGood(f) /\ ~ malformed'
  PROVE  CalmInv'
<1> SUFFICES ASSUME Calm' PROVE CalmInv'
  BY DEF CalmInv
<1>1. flaws = {} /\ flaws' = {} /\ turn' = "visit"
  BY DEF GoOn, Calm
<1>2. FrameGood(f) /\ ~ malformed'
  BY <1>1, CalmNow
<1>3. FramesGood(frames')
  BY <1>1, <1>2, CalmNow, AppendGood DEF GoOn
<1>4. \A i \in 1 .. Len(frames') : FrameGood(frames[i])'
  BY <1>3 DEF FramesGood, FrameGood, Good, Agrees
<1> QED BY <1>1, <1>2, <1>4 DEF CalmInv
----------------------------------------------------------------------------
LEMMA CalmVisitLeaves ==
  ASSUME TypeOK, StackInv, CalmInv,
         VisitVariable \/ VisitNumber \/ VisitString \/ VisitCallBare \/ VisitStructLiteralBare
  PROVE  CalmInv'
<1>1. CASE VisitVariable
  <2> DEFINE noted(t) == IF addr THEN {} ELSE Needs(t)
  <2>1. PICK t \in VarTypes : Return(GenVariable(t), noted(t))
    BY <1>1 DEF VisitVariable
  <2>2. t \in Type /\ Known(t) /\ Ref(t).ptr > 0 /\ Deref(Ref(t)) = t
    BY TypingAssumption, Types, KnownTypes, DerefRef
  <2>3. noted(t) = {} /\ ~ addr => Load(Ref(t)) = t
    BY <2>2, UnsizedFacts DEF Load
  <2>4. GenVariable(t) \in Result /\ (noted(t) = {} => Good(GenVariable(t)))
    BY <2>2, <2>3, GenVariableResult DEF Good, Agrees, GenVariable
  <2> HIDE DEF noted
  <2> QED BY <1>1, <2>1, <2>4, CalmLeaf DEF VisitVariable
<1>2. CASE VisitNumber
  <2> DEFINE r(t) == [v |-> t, g |-> t, form |-> "value"]
  <2>1. PICK t \in {Plain("i64"), Plain("f64")} : Return(r(t), {})
    BY <1>2 DEF VisitNumber
  <2>2. Known(t) /\ t \in Type
    BY KnownTypes, Types DEF Ints, Floats
  <2>3. r(t) \in Result /\ Good(r(t))
    BY <2>2 DEF Result, Good, Agrees
  <2> HIDE DEF r
  <2> QED BY <1>2, <2>1, <2>3, CalmLeaf DEF VisitNumber
<1>3. CASE VisitString
  <2> DEFINE r == [v |-> Ref(Plain("i8")), g |-> Ref(Plain("chars")), form |-> "value"]
  <2>1. Return(r, {"string"}) /\ CanVisit /\ UNCHANGED frames
    BY <1>3 DEF VisitString
  <2>2. Plain("i8") \in Type /\ Plain("chars") \in Type
    BY Types DEF Ints
  <2>3. r \in Result /\ {"string"} # {}
    BY <2>2, RefType DEF Result
  <2> HIDE DEF r
  <2> QED BY <2>1, <2>3, CalmLeaf
<1>4. CASE VisitCallBare
  <2> DEFINE r(f) == [v |-> f.result, g |-> IF f.params = <<>> THEN f.result ELSE Bad, form |-> "value"]
             noted(f) == IF f.params = <<>> THEN {} ELSE {"few"}
  <2>1. PICK f \in Signatures : Return(r(f), noted(f))
    BY <1>4 DEF VisitCallBare
  <2>2. f.result \in Type /\ Bad \in Type /\ Known(f.result)
    BY TypingAssumption, Types, KnownTypes
  <2>3. r(f) \in Result
    BY <2>2 DEF Result
  <2>4. noted(f) = {} => Good(r(f))
    BY <2>2 DEF Good, Agrees
  <2> HIDE DEF r, noted
  <2> QED BY <1>4, <2>1, <2>3, <2>4, CalmLeaf DEF VisitCallBare
<1>5. CASE VisitStructLiteralBare
  <2> DEFINE r(n) == [v |-> Plain(n), g |-> GenLiteral(n), form |-> "value"]
  <2>1. PICK n \in Structs : Return(r(n), Needs(Plain(n)))
    BY <1>5 DEF VisitStructLiteralBare
  <2>2. r(n) \in Result /\ (Needs(Plain(n)) = {} => Good(r(n)))
    BY Types, GenTypes, KnownTypes, UnsizedFacts DEF GenLiteral, Result, Good, Agrees
  <2> HIDE DEF r
  <2> QED BY <1>5, <2>1, <2>2, CalmLeaf DEF VisitStructLiteralBare
<1> QED BY <1>1, <1>2, <1>3, <1>4, <1>5

LEMMA CalmVisitOperands ==
  ASSUME TypeOK, StackInv, CalmInv,
         \/ VisitRef \/ VisitDot \/ VisitUnary \/ VisitBinary \/ VisitAssign
         \/ VisitArrayAccess \/ VisitCall \/ VisitStructLiteral
  PROVE  CalmInv'
<1>1. \A op \in Ops : New(op) \in Frame /\ New(op).op = op /\ New(op).type = Void
  BY NewFrame DEF New
<1>2. /\ "ref" \in Ops /\ "dot" \in Ops /\ "unary" \in Ops /\ "left" \in Ops /\ "rhs" \in Ops
      /\ "index" \in Ops /\ "argument" \in Ops /\ "field" \in Ops
  BY DEF Ops, AddressOps
<1>3. Known(Void)
  BY KnownTypes
<1>4. \A op \in {"ref", "dot", "unary", "left", "rhs"} : New(op) \in Frame /\ FrameGood(New(op))
  BY <1>1, <1>2, <1>3 DEF FrameGood
<1>5. CASE VisitRef
  BY <1>4, <1>5, CalmDescends DEF VisitRef
<1>6. CASE VisitDot
  BY <1>4, <1>6, CalmDescends DEF VisitDot
<1>7. CASE VisitUnary
  BY <1>4, <1>7, CalmDescends DEF VisitUnary
<1>8. CASE VisitBinary
  BY <1>4, <1>8, CalmDescends DEF VisitBinary
<1>9. CASE VisitAssign
  BY <1>4, <1>9, CalmDescends DEF VisitAssign
<1>10. CASE VisitArrayAccess
  <2> DEFINE f(t) == [New("index") EXCEPT !.first = [v |-> t, g |-> Ref(t), form |-> "place"]]
  <2>1. PICK t \in VarTypes : Descend(f(t), addr)
    BY <1>10 DEF VisitArrayAccess
  <2>2. t \in Type /\ Ref(t) \in Type /\ Known(t)
    BY TypingAssumption, Types, RefType, KnownTypes
  <2>3. f(t) \in Frame /\ f(t).op = "index" /\ f(t).type = Void
        /\ f(t).first = [v |-> t, g |-> Ref(t), form |-> "place"]
    BY <1>1, <1>2, <2>2 DEF Frame, Result
  <2> HIDE DEF f
  <2>4. FrameGood(f(t))
    BY <1>3, <2>2, <2>3 DEF FrameGood, Good, Agrees
  <2> QED BY <1>10, <2>1, <2>3, <2>4, CalmDescends DEF VisitArrayAccess
<1>11. CASE VisitCall
  <2> DEFINE f(s) == [New("argument") EXCEPT !.type = s.result, !.rest = s.params]
  <2>1. PICK s \in Signatures : Descend(f(s), addr)
    BY <1>11 DEF VisitCall
  <2>2. s.result \in Type /\ s.params \in Seq(Type) /\ Known(s.result)
    BY TypingAssumption, Types, KnownTypes
  <2>3. f(s) \in Frame /\ f(s).op = "argument" /\ f(s).type = s.result
    BY <1>1, <1>2, <2>2 DEF Frame
  <2> HIDE DEF f
  <2>4. FrameGood(f(s))
    BY <2>2, <2>3 DEF FrameGood
  <2> QED BY <1>11, <2>1, <2>3, <2>4, CalmDescends DEF VisitCall
<1>12. CASE VisitStructLiteral
  <2> DEFINE f(n) == [New("field") EXCEPT !.type = Plain(n)]
  <2>1. PICK n \in Structs : Descend(f(n), addr)
    BY <1>12 DEF VisitStructLiteral
  <2>2. f(n) \in Frame /\ f(n).op = "field" /\ f(n).type = Plain(n)
    BY <1>1, <1>2, Types DEF Frame
  <2> HIDE DEF f
  <2>3. FrameGood(f(n))
    BY <2>2, KnownTypes DEF FrameGood
  <2> QED BY <1>12, <2>1, <2>2, <2>3, CalmDescends DEF VisitStructLiteral
<1> QED BY <1>5, <1>6, <1>7, <1>8, <1>9, <1>10, <1>11, <1>12

LEMMA CalmEndsOfOperands ==
  ASSUME TypeOK, StackInv, CalmInv,
         \/ EndRef \/ EndNeg \/ EndDeref \/ EndDot \/ EndBinary \/ EndAssign \/ EndArrayAccess
  PROVE  CalmInv'
<1>1. /\ ret.v \in Type /\ ret.g \in Type /\ Top.first.v \in Type /\ Top.first.g \in Type
      /\ Top.first \in Result /\ Top.saved \in BOOLEAN /\ addr \in BOOLEAN
  BY TopFacts
<1>2. \A v \in Type, g \in Type, form \in {"value", "place", "store"} :
        [v |-> v, g |-> g, form |-> form] \in Result
  BY DEF Result
<1>3. turn = "return"
  BY DEF EndRef, EndNeg, EndDeref, EndDot, EndBinary, EndAssign, EndArrayAccess, Returning
<1>4. ASSUME NEW r \in Result, NEW noted, Leave, Return(r, noted),
             noted = {} /\ r.v # None /\ Good(ret) /\ FrameGood(Top) => Good(r)
      PROVE  CalmInv'
  BY <1>3, <1>4, CalmLeaves
<1>5. CASE EndRef
  <2> DEFINE r == [v |-> VerifyUnary("ref", ret.v), g |-> GenUnary("ref", ret.g), form |-> "value"]
  <2>1. r \in Result
    BY <1>1, <1>2, VerifyTypes, GenTypes
  <2>2. Leave /\ Return(r, Wants("place", ret))
    BY <1>5 DEF EndRef
  <2>3. ASSUME Wants("place", ret) = {}, r.v # None, Good(ret) PROVE Good(r)
    <3>1. ret.g = Ref(ret.v) /\ Known(ret.v) /\ ret.v # None
      BY <2>3, Wanted DEF Good, VerifyUnary
    <3>2. r.v = Ref(ret.v) /\ r.g = Ref(ret.v)
      BY <3>1 DEF VerifyUnary, GenUnary
    <3> QED BY <1>1, <3>1, <3>2, KnownTypes DEF Good, Agrees
  <2> HIDE DEF r
  <2> QED BY <1>4, <2>1, <2>2, <2>3
<1>6. CASE EndNeg
  <2> DEFINE r == [v |-> VerifyUnary("neg", ret.v), g |-> GenUnary("neg", ret.g), form |-> "value"]
             noted == Wants("value", ret) \cup IF Kind(ret.v) = "float" THEN {} ELSE {"kind"}
  <2>1. r \in Result
    BY <1>1, <1>2, VerifyTypes, GenTypes
  <2>2. Leave /\ Return(r, noted)
    BY <1>6 DEF EndNeg
  <2>3. ASSUME noted = {}, r.v # None, Good(ret) PROVE Good(r)
    <3>1. Wants("value", ret) = {} /\ Kind(ret.v) = "float"
      BY <2>3
    <3>2. ret.g = ret.v /\ Known(ret.v) /\ ret.v # None
      BY <2>3, <3>1, Wanted DEF Good, VerifyUnary
    <3>3. r.v = ret.v /\ r.g = ret.v
      BY <3>1, <3>2 DEF VerifyUnary, GenUnary
    <3> QED BY <3>2, <3>3 DEF Good, Agrees
  <2> HIDE DEF r, noted
  <2> QED BY <1>4, <2>1, <2>2, <2>3
<1>7. CASE EndDeref
  <2> DEFINE form == IF addr THEN "place" ELSE "value"
             r == [v |-> VerifyUnary("deref", ret.v), g |-> GenUnary("deref", ret.g), form |-> form]
             noted == Wants(form, ret) \cup IF addr THEN {} ELSE Needs(r.v)
  <2>1. r \in Result
    BY <1>1, <1>2, VerifyTypes, GenTypes
  <2>2. Leave /\ Return(r, noted)
    BY <1>7 DEF EndDeref
  <2>3. ASSUME noted = {}, r.v # None, Good(ret) PROVE Good(r)
    <3>1. Known(ret.v) /\ ret.v # None /\ ret.v.ptr > 0 /\ r.v = Deref(ret.v)
      BY <2>3 DEF Good, VerifyUnary
    <3>2. Ref(ret.v).ptr > 0 /\ Deref(Ref(ret.v)) = ret.v /\ Ref(Deref(ret.v)) = ret.v
      BY <1>1, <3>1, DerefRef
    <3>3. Known(r.v)
      BY <1>1, <3>1, KnownTypes
    <3>4. CASE addr
      <4>1. ret.g = Ref(ret.v) /\ ~ Unsized(ret.v)
        BY <1>1, <2>3, <3>1, <3>4, Wanted, UnsizedFacts
      <4>2. r.g = ret.v /\ r.form = "place"
        BY <3>2, <3>4, <4>1 DEF GenUnary, Load
      <4> QED BY <3>1, <3>2, <3>3, <4>2 DEF Good, Agrees
    <3>5. CASE ~ addr
      <4>1. ret.g = ret.v /\ ~ Unsized(Deref(ret.v))
        BY <2>3, <3>1, <3>5, Wanted, UnsizedFacts
      <4>2. r.g = Deref(ret.v) /\ r.form = "value"
        BY <3>1, <3>5, <4>1 DEF GenUnary, Load
      <4> QED BY <3>1, <3>3, <4>2 DEF Good, Agrees
    <3> QED BY <3>4, <3>5
  <2> HIDE DEF r, form, noted
  <2> QED BY <1>4, <2>1, <2>2, <2>3
<1>8. CASE EndDot
  <2> DEFINE r == [v |-> VerifyDot(ret.v), g |-> GenDot(ret.g, Top.saved),
                   form |-> IF Top.saved THEN "place" ELSE "value"]
             noted == Wants("place", ret) \cup Needs(ret.v)
  <2>1. r \in Result
    BY <1>1, <1>2, VerifyTypes, GenTypes
  <2>2. Leave /\ Return(r, noted)
    BY <1>8 DEF EndDot
  <2>3. ASSUME noted = {}, r.v # None, Good(ret) PROVE Good(r)
    <3>1. ret.g = Ref(ret.v) /\ Kind(ret.v) = "struct" /\ r.v = FieldOf[ret.v.base]
      BY <2>3, Wanted DEF VerifyDot
    <3>2. ret.v.ptr = 0 /\ ret.v.base \in Structs /\ ret.g.ptr = 1 /\ ret.g.base = ret.v.base
      BY <1>1, <3>1, Kinds, RefType
    <3>3. ret.v.base \notin Hollow
      BY <2>3, <3>2, UnsizedFacts DEF Unsized
    <3>4. r.g = IF Top.saved THEN Ref(r.v) ELSE r.v
      BY <3>1, <3>2, <3>3 DEF GenDot
    <3>5. Known(r.v)
      BY <3>1, <3>2, FieldTypes, KnownTypes
    <3> QED BY <1>1, <3>4, <3>5 DEF Good, Agrees
  <2> HIDE DEF r, noted
  <2> QED BY <1>4, <2>1, <2>2, <2>3
<1>9. CASE EndBinary
  <2> DEFINE r(oper) == [v |-> VerifyBinary(oper, Top.first.v, ret.v),
                         g |-> GenBinary(oper, Top.first.g, ret.g), form |-> "value"]
             kinds(oper) == {"int", "float"} \cup IF oper = "compare" THEN {"ptr"} ELSE {}
             noted(oper) ==
               Wants("value", Top.first) \cup Wants("value", ret) \cup Sized(Top.first.v, ret.v)
                 \cup IF Kind(ret.v) \in kinds(oper) THEN {} ELSE {"kind"}
  <2>1. PICK oper \in {"arithmetic", "compare"} : Return(r(oper), noted(oper))
    BY <1>9 DEF EndBinary
  <2>2. r(oper) \in Result
    BY <1>1, <1>2, VerifyTypes, GenTypes
  <2>3. Leave /\ Top.op = "right"
    BY <1>9 DEF EndBinary, Returning
  <2>4. ASSUME noted(oper) = {}, r(oper).v # None, Good(ret), FrameGood(Top) PROVE Good(r(oper))
    <3>1. /\ Wants("value", Top.first) = {} /\ Wants("value", ret) = {}
          /\ Sized(Top.first.v, ret.v) = {} /\ Kind(ret.v) \in kinds(oper)
      BY <2>4
    <3>2. Same(Top.first.v, ret.v) /\ Good(Top.first)
      BY <2>3, <2>4 DEF VerifyBinary, FrameGood
    <3>3. Top.first.v = ret.v /\ ret.g = ret.v /\ Top.first.g = ret.v
      BY <2>4, <3>1, <3>2, SizedEqual, Wanted
    <3>4. r(oper).v = IF oper = "compare" THEN Plain("i1") ELSE ret.v
      BY <3>2, <3>3 DEF VerifyBinary
    <3>5. r(oper).g = IF oper = "compare" THEN Plain("i1") ELSE ret.v
      BY <3>1, <3>3 DEF GenBinary
    <3>6. Known(r(oper).v)
      BY <2>4, <3>4, KnownTypes DEF Good
    <3> QED BY <3>4, <3>5, <3>6 DEF Good, Agrees
  <2> HIDE DEF r, noted
  <2> QED BY <1>4, <2>1, <2>2, <2>3, <2>4
<1>10. CASE EndAssign
  <2> DEFINE r == [v |-> VerifyAssign(ret.v, Top.first.v), g |-> GenStore(Top.first.g, ret.g),
                   form |-> "store"]
             noted == Wants("value", Top.first) \cup Wants("place", ret) \cup Sized(ret.v, Top.first.v)
                        \cup Needs(ret.v)
  <2>1. r \in Result
    BY <1>1, <1>2, VerifyTypes, GenTypes
  <2>2. Leave /\ Return(r, noted) /\ Top.op = "lhs"
    BY <1>10 DEF EndAssign, Returning
  <2>3. ASSUME noted = {}, r.v # None, Good(ret), FrameGood(Top) PROVE Good(r)
    <3>1. /\ Wants("value", Top.first) = {} /\ Wants("place", ret) = {}
          /\ Sized(ret.v, Top.first.v) = {} /\ ~ Unsized(ret.v)
      BY <2>3, UnsizedFacts
    <3>2. Same(ret.v, Top.first.v) /\ Good(Top.first) /\ r.v = ret.v
      BY <2>2, <2>3 DEF VerifyAssign, FrameGood
    <3>3. Top.first.v = ret.v /\ ret.g = Ref(ret.v) /\ Top.first.g = ret.v
      BY <2>3, <3>1, <3>2, SizedEqual, Wanted
    <3>4. r.g = Void
      BY <3>1, <3>3 DEF GenStore
    <3> QED BY <2>3, <3>2, <3>4 DEF Good, Agrees
  <2> HIDE DEF r, noted
  <2> QED BY <1>4, <2>1, <2>2, <2>3
<1>11. CASE EndArrayAccess
  <2> DEFINE r == [v |-> VerifyIndex(Top.first.v, ret.v), g |-> GenIndex(Top.first.g, ret.g),
                   form |-> IF addr THEN "place" ELSE "value"]
             noted == Wants("value", ret) \cup IF addr THEN {} ELSE {"index"}
  <2>1. r \in Result
    BY <1>1, <1>2, VerifyTypes, GenTypes
  <2>2. Leave /\ Return(r, noted) /\ Top.op = "index"
    BY <1>11 DEF EndArrayAccess, Returning
  <2>3. ASSUME noted = {}, r.v # None, Good(ret), FrameGood(Top) PROVE Good(r)
    <3> DEFINE t == Top.first.v
    <3>1. Wants("value", ret) = {} /\ addr
      BY <2>3
    <3>2. t.ptr > 0 /\ Kind(ret.v) = "int" /\ r.v = Deref(t)
      BY <2>3 DEF VerifyIndex
    <3>3. Top.first.g = Ref(t) /\ Known(t)
      BY <2>2, <2>3 DEF FrameGood, Good, Agrees
    <3>4. Ref(t).ptr > 0 /\ Deref(Ref(t)) = t /\ Ref(Deref(t)) = t
      BY <1>1, <3>2, DerefRef
    <3>5. ret.g = ret.v
      BY <2>3, <3>1, Wanted
    <3>6. r.g = t /\ r.form = "place"
      BY <1>1, <3>1, <3>2, <3>3, <3>4, <3>5, UnsizedFacts DEF GenIndex, Load
    <3>7. Known(r.v)
      BY <1>1, <3>2, <3>3, KnownTypes
    <3> QED BY <3>2, <3>4, <3>6, <3>7 DEF Good, Agrees
  <2> HIDE DEF r, noted
  <2> QED BY <1>4, <2>1, <2>2, <2>3
<1> QED BY <1>5, <1>6, <1>7, <1>8, <1>9, <1>10, <1>11

\* An argument or a field without a flaw is of the type it is passed or stored as.
LEMMA PassedWell ==
  ASSUME NEW t, Passed(t), Hidden \/ Same(ret.v, t), flaws' = {}, Good(ret), ~ malformed
  PROVE  ~ malformed'
<1>1. Wants("value", ret) = {} /\ Sized(ret.v, t) = {} /\ Same(ret.v, t) /\ ~ Unsized(t)
  BY UnsizedFacts DEF Passed
<1>2. ret.g = ret.v /\ ret.v = t
  BY <1>1, SizedEqual, Wanted
<1> QED BY <1>1, <1>2 DEF Passed

LEMMA StoredWell ==
  ASSUME Stored, flaws' = {}, Good(ret), ~ malformed
  PROVE  ~ malformed'
<1>1. Wants("value", ret) = {} /\ ret.v = FieldOf[Top.type.base] /\ ~ Unsized(Top.type)
  BY UnsizedFacts DEF Stored
<1>2. ret.g = ret.v
  BY <1>1, Wanted
<1> QED BY <1>1, <1>2 DEF Stored

LEMMA CalmGoesOnToOperands ==
  ASSUME TypeOK, StackInv, CalmInv, EndLeft \/ EndRhs \/ MoreArguments \/ MoreFields
  PROVE  CalmInv'
<1>1. Top \in Frame /\ ret \in Result
  BY TopFacts
<1>2. turn = "return"
  BY DEF EndLeft, EndRhs, MoreArguments, MoreFields, Returning
<1>3. CASE EndLeft
  <2> DEFINE f == [Top EXCEPT !.op = "right", !.first = ret]
  <2>1. f \in Frame /\ f.op = "right" /\ f.first = ret /\ f.type = Top.type
    BY <1>1 DEF Frame, Ops
  <2>2. GoOn(f, addr) /\ malformed' = malformed /\ flaws' = flaws
    BY <1>3 DEF EndLeft
  <2> HIDE DEF f
  <2>3. Good(ret) /\ FrameGood(Top) => FrameGood(f)
    BY <2>1 DEF FrameGood
  <2> QED BY <1>2, <2>1, <2>2, <2>3, CalmGoesOn
<1>4. CASE EndRhs
  <2> DEFINE f == [Top EXCEPT !.op = "lhs", !.first = ret]
  <2>1. f \in Frame /\ f.op = "lhs" /\ f.first = ret /\ f.type = Top.type
    BY <1>1 DEF Frame, Ops, AddressOps
  <2>2. GoOn(f, TRUE) /\ malformed' = malformed /\ flaws' = flaws
    BY <1>4 DEF EndRhs
  <2> HIDE DEF f
  <2>3. Good(ret) /\ FrameGood(Top) => FrameGood(f)
    BY <2>1 DEF FrameGood
  <2> QED BY <1>2, <2>1, <2>2, <2>3, CalmGoesOn
<1>5. CASE MoreArguments
  <2>1. Top.op = "argument" /\ ArgumentFits
    BY <1>5 DEF MoreArguments, Returning
  <2>2. CASE Top.rest = <<>>
    <3>1. GoOn(Top, addr) /\ flaws' = flaws \cup {"unverified"}
      BY <1>5, <2>2 DEF MoreArguments
    <3> QED BY <1>1, <1>2, <3>1, CalmGoesOn
  <2>3. CASE Top.rest # <<>>
    <3> DEFINE f == [Top EXCEPT !.rest = Tail(@)]
    <3>1. \A r \in Seq(Type) : r # <<>> => Tail(r) \in Seq(Type)
      OBVIOUS
    <3>2. Tail(Top.rest) \in Seq(Type)
      BY <2>3, <3>1, TopFacts
    <3>3. f \in Frame /\ f.op = "argument" /\ f.type = Top.type
      BY <1>1, <2>1, <3>2 DEF Frame
    <3>4. GoOn(f, addr) /\ Passed(Head(Top.rest))
      BY <1>5, <2>3 DEF MoreArguments
    <3>5. Hidden \/ Same(ret.v, Head(Top.rest))
      BY <2>1 DEF ArgumentFits
    <3>6. flaws \subseteq flaws'
      BY <3>4 DEF Passed
    <3> HIDE DEF f
    <3>7. FrameGood(Top) => FrameGood(f)
      BY <3>3 DEF FrameGood
    <3>8. flaws' = {} /\ Good(ret) /\ ~ malformed => ~ malformed'
      BY <3>4, <3>5, PassedWell
    <3> QED BY <1>2, <3>3, <3>4, <3>6, <3>7, <3>8, CalmGoesOn
  <2> QED BY <2>2, <2>3
<1>6. CASE MoreFields
  <2>1. GoOn(Top, addr) /\ Stored
    BY <1>6 DEF MoreFields
  <2>2. flaws \subseteq flaws'
    BY <2>1 DEF Stored
  <2>3. flaws' = {} /\ Good(ret) /\ ~ malformed => ~ malformed'
    BY <2>1, StoredWell
  <2> QED BY <1>1, <1>2, <2>1, <2>2, <2>3, CalmGoesOn
<1> QED BY <1>3, <1>4, <1>5, <1>6

LEMMA CalmEndsOfLists ==
  ASSUME TypeOK, StackInv, CalmInv, EndCall \/ EndStructLiteral
  PROVE  CalmInv'
<1> SUFFICES ASSUME Calm' PROVE CalmInv'
  BY DEF CalmInv
<1>1. turn = "return" /\ Leave /\ flaws \subseteq flaws' /\ flaws' = {}
  BY DEF EndCall, EndStructLiteral, Returning, Passed, Stored, Calm
<1>2. Good(ret) /\ FrameGood(Top) /\ FramesGood(Outer) /\ ~ malformed /\ Top.type \in Type
  BY <1>1, CalmNow, TopFacts
<1>3. ret' = [v |-> Top.type, g |-> Top.type, form |-> "value"]
  BY DEF EndCall, EndStructLiteral
<1>4. Good(ret)'
  BY <1>2, <1>3 DEF Good, Agrees, FrameGood
<1>5. \A i \in 1 .. Len(frames') : FrameGood(frames[i])'
  BY <1>1, <1>2 DEF Leave, FramesGood, FrameGood, Good, Agrees
<1>6. ~ malformed'
  <2>1. CASE EndCall
    <3>1. Len(Top.rest) = 1 /\ Passed(Head(Top.rest)) /\ ArgumentFits
      BY <1>1, <2>1 DEF EndCall
    <3> QED BY <1>1, <1>2, <3>1, PassedWell DEF ArgumentFits
  <2>2. CASE EndStructLiteral
    BY <1>1, <1>2, <2>2, StoredWell DEF EndStructLiteral
  <2> QED BY <2>1, <2>2
<1> QED BY <1>4, <1>5, <1>6 DEF CalmInv

LEMMA CalmEndings ==
  ASSUME TypeOK, StackInv, CalmInv,
         \/ CastFails \/ ArgumentReported
         \/ EndExpression \/ EndLet \/ EndReturn \/ EndCondition \/ LetBare \/ ReturnBare
  PROVE  CalmInv'
<1> SUFFICES ASSUME Calm' PROVE CalmInv'
  BY DEF CalmInv
<1>1. CASE CastFails \/ ArgumentReported
  BY <1>1 DEF CastFails, ArgumentReported, Calm
<1>2. ASSUME NEW fits, NEW well, NEW noted, Finish(fits, well, noted), turn \in {"visit", "return"},
             fits /\ noted = {} /\ (turn = "return" => Good(ret)) => well
      PROVE  CalmInv'
  <2>1. flaws = {} /\ noted = {} /\ turn' = "done" /\ fits
    BY <1>2 DEF Finish, Calm
  <2>2. (turn = "return" => Good(ret)) /\ FramesGood(frames) /\ ~ malformed
    BY <1>2, <2>1, CalmNow
  <2>3. ~ malformed'
    BY <1>2, <2>1, <2>2 DEF Finish
  <2>4. \A i \in 1 .. Len(frames') : FrameGood(frames[i])'
    BY <1>2, <2>2 DEF Finish, FramesGood, FrameGood, Good, Agrees
  <2> QED BY <2>1, <2>3, <2>4 DEF CalmInv
<1>3. CASE EndExpression
  <2>1. turn = "return" /\ Finish(TRUE, TRUE, {})
    BY <1>3 DEF EndExpression, End, Returning
  <2> QED BY <1>2, <2>1
<1> DEFINE noted(t) == Wants("value", ret) \cup Sized(ret.v, t) \cup Needs(t)
           result(t) == IF t = Void THEN {} ELSE {"result"}
<1>4. ASSUME NEW t, Same(ret.v, t), noted(t) = {}, Good(ret)
      PROVE  ret.g = t /\ ~ Unsized(t)
  <2>1. Wants("value", ret) = {} /\ Sized(ret.v, t) = {} /\ Needs(t) = {}
    BY <1>4
  <2> QED BY <1>4, <2>1, SizedEqual, Wanted, UnsizedFacts
<1>5. CASE EndLet
  <2>1. PICK t \in VarTypes \cup {Void} : Finish(Same(ret.v, t), ret.g = t /\ ~ Unsized(t), noted(t))
    BY <1>5 DEF EndLet, End
  <2>2. turn = "return"
    BY <1>5 DEF EndLet, End, Returning
  <2> HIDE DEF noted
  <2> QED BY <1>2, <1>4, <2>1, <2>2
<1>6. CASE EndReturn
  <2>1. PICK t \in VarTypes \cup {Void} :
          Finish(Same(ret.v, t), ret.g = t /\ ~ Unsized(t), noted(t))
    BY <1>6 DEF EndReturn, End
  <2>2. turn = "return"
    BY <1>6 DEF EndReturn, End, Returning
  <2> HIDE DEF noted
  <2> QED BY <1>2, <1>4, <2>1, <2>2
<1>7. CASE EndCondition
  <2> DEFINE t == Plain("i1")
  <2>1. Kind(t) = "int"
    <3>1. t.base = "i1" /\ t.ptr = 0
      BY PlainFacts
    <3>2. t.base \in Ints
      BY <3>1 DEF Ints
    <3> HIDE DEF t
    <3> QED BY <3>1, <3>2, TypingAssumption DEF Kind, Ints, Floats
  <2>2. ASSUME Kind(ret.v) = "int", Wants("value", ret) \cup Sized(ret.v, t) = {}, Good(ret)
        PROVE  ret.g = t
    <3>1. Sized(ret.v, t) = {} /\ Wants("value", ret) = {}
      BY <2>2
    <3>2. ret.v = t
      BY <2>1, <2>2, <3>1 DEF Sized
    <3> QED BY <2>2, <3>1, <3>2, Wanted
  <2>3. /\ Finish(Kind(ret.v) = "int", ret.g = t, Wants("value", ret) \cup Sized(ret.v, t))
        /\ turn = "return"
    BY <1>7 DEF EndCondition, End, Returning
  <2> HIDE DEF t
  <2> QED BY <1>2, <2>2, <2>3
<1>8. CASE LetBare
  <2>1. PICK t \in VarTypes \cup {Void} : Finish(TRUE, ~ Unsized(t), Needs(t))
    BY <1>8 DEF LetBare
  <2>2. turn = "visit" /\ (Needs(t) = {} => ~ Unsized(t))
    BY <1>8, UnsizedFacts DEF LetBare, Bare
  <2> QED BY <1>2, <2>1, <2>2
<1>9. CASE ReturnBare
  <2>1. PICK t \in VarTypes \cup {Void} : Finish(TRUE, t = Void, result(t))
    BY <1>9 DEF ReturnBare
  <2>2. turn = "visit" /\ (result(t) = {} => t = Void)
    BY <1>9 DEF ReturnBare, Bare
  <2> HIDE DEF result
  <2> QED BY <1>2, <2>1, <2>2
<1> QED BY <1>1, <1>3, <1>5, <1>6, <1>7, <1>8, <1>9

LEMMA CalmSteps == TypeOK /\ StackInv /\ CalmInv /\ [Next]_vars => CalmInv'
<1> SUFFICES ASSUME TypeOK, StackInv, CalmInv, [Next]_vars PROVE CalmInv'
  OBVIOUS
<1>1. CASE UNCHANGED vars
  BY <1>1 DEF vars, CalmInv, Calm, FrameGood, Good, Agrees
<1>2. CASE Next
  BY <1>2, CalmVisitLeaves, CalmVisitOperands, CalmEndsOfOperands, CalmGoesOnToOperands,
     CalmEndsOfLists, CalmEndings DEF Next
<1> QED BY <1>1, <1>2

LEMMA CalmInitially == Init => CalmInv
<1> SUFFICES ASSUME Init PROVE CalmInv
  OBVIOUS
<1>1. Known(Void)
  BY KnownTypes
<1>2. /\ Len(frames) = 1 /\ frames[1].op = "statement" /\ frames[1].type = Void
      /\ ~ malformed /\ turn = "visit"
  BY DEF Init
<1>3. \A i \in 1 .. 1 : i = 1
  OBVIOUS
<1> QED BY <1>1, <1>2, <1>3 DEF CalmInv, FrameGood

(***************************************************************************)
(* Whatever the expression, the verifier's type and the generator's agree  *)
(* in what a visit returns, as long as no flaw has been met.               *)
(***************************************************************************)
THEOREM Agreement == Spec => []VisitorsAgree
<1>1. CalmInv => VisitorsAgree
  BY DEF CalmInv, Calm, VisitorsAgree, Good
<1> QED BY <1>1, Initially, TypeAndStack, CalmInitially, CalmSteps, PTL DEF Spec

(***************************************************************************)
(* The flaws listed are all there are: a verified statement without one is *)
(* generated with well-typed instructions only.                            *)
(***************************************************************************)
THEOREM VerifiedWellTyped == Spec => []WellTypedUnlessFlawed
<1>1. CalmInv => WellTypedUnlessFlawed
  BY DEF CalmInv, Calm, WellTypedUnlessFlawed
<1> QED BY <1>1, Initially, TypeAndStack, CalmInitially, CalmSteps, PTL DEF Spec
=============================================================================
