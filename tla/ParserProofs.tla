---------------------------- MODULE ParserProofs ----------------------------
(***************************************************************************)
(* Proofs about Parser, for every set of inputs: the types, that the null  *)
(* pointers of the tree are explained, and, with ParserDiagnosis, that the *)
(* first error reported is where the text stops being one of the language. *)
(***************************************************************************)
EXTENDS ParserDiagnosis, SequenceTheorems, TLAPS

USE InputsAssumption

(***************************************************************************)
(* The inductive invariant.  What is left to do is calm: a null pointer is *)
(* held only once an error has been reported, and the construction of a    *)
(* compound assignment waits only once its operator has been read; between *)
(* the two steps that take the operator it is about to be read, which is   *)
(* the one time that the work begins with such an operator.                *)
(***************************************************************************)
CompoundRead(n) == \E i \in 1 .. n : i <= Len(input) /\ input[i] \in CompoundOps

Calm(n) ==
  {f \in Frame :
     /\ f.do \notin CompoundOps
     /\ f.with = "null" => messages # {}
     /\ f.do = "MakeCompound" => CompoundRead(n)}

Pending == work # <<>> /\ Head(work).do \in CompoundOps

WorkCalm ==
  /\ Pending => Head(work).do = Here(0) /\ Tail(work) \in Seq(Calm(pos + 1))
  /\ ~ Pending => work \in Seq(Calm(pos))

NullsCalm ==
  /\ ret = "null" => messages # {}
  /\ "missing" \in holes \/ crash = "missing" => messages # {}
  /\ "copied" \in holes \/ crash = "copy" => CompoundRead(pos)

IInv == TypeOK /\ NullsCalm /\ WorkCalm

----------------------------------------------------------------------------
(***************************************************************************)
(* Sequences of steps.                                                     *)
(***************************************************************************)
Doable == Symbols \cup Procedures \cup Constructions

\* The steps that wait for nothing.
Quiet == Doable \ (CompoundOps \cup {"MakeCompound"})

LEMMA SeqMonotone ==
  ASSUME NEW S, NEW T, S \subseteq T
  PROVE  Seq(S) \subseteq Seq(T)
  <1> SUFFICES ASSUME NEW s \in Seq(S) PROVE s \in Seq(T)
    OBVIOUS
  <1>1. Len(s) \in Nat /\ s \in [1 .. Len(s) -> S]
    OBVIOUS
  <1>2. s \in [1 .. Len(s) -> T]
    BY <1>1
  <1> QED
    BY <1>1, <1>2

LEMMA Concatenated ==
  ASSUME NEW S, NEW s \in Seq(S), NEW t \in Seq(S)
  PROVE  s \o t \in Seq(S)
  OBVIOUS

\* What is put behind a sequence leaves its head, and joins its tail.
LEMMA HeadOfJoined ==
  ASSUME NEW T, NEW S, S \subseteq T, NEW p \in Seq(T), p # <<>>, NEW q \in Seq(S)
  PROVE  /\ Head(p \o q) = Head(p)
         /\ p \o q \in Seq(T)
         /\ p \o q # <<>>
  <1>1. q \in Seq(T)
    BY SeqMonotone
  <1> QED
    BY <1>1

LEMMA TailOfJoined ==
  ASSUME NEW T, NEW S, S \subseteq T, NEW p \in Seq(T), p # <<>>,
         Tail(p) \in Seq(S), NEW q \in Seq(S)
  PROVE  Tail(p \o q) \in Seq(S)
  <1>1. /\ p \o q \in Seq(T) /\ Len(p \o q) = Len(p) + Len(q)
        /\ Len(p) > 0 /\ Len(p) \in Nat /\ Len(q) \in Nat
    <2>1. q \in Seq(T)
      BY SeqMonotone
    <2> QED
      BY <2>1
  <1>2. ASSUME NEW i \in 1 .. Len(p) + Len(q) - 1
        PROVE  (p \o q)[i + 1] \in S
    <2>1. CASE i + 1 <= Len(p)
      <3>1. Tail(p)[i] = p[i + 1] /\ i \in 1 .. Len(Tail(p))
        BY <1>1, <2>1
      <3> QED
        BY <1>1, <2>1, <3>1
    <2>2. CASE i + 1 > Len(p)
      <3>1. (p \o q)[i + 1] = q[i + 1 - Len(p)] /\ i + 1 - Len(p) \in 1 .. Len(q)
        BY <1>1, <2>2
      <3> QED
        BY <1>1, <2>2, <3>1
    <2> QED
      BY <1>1, <2>1, <2>2
  <1> QED
    BY <1>1, <1>2

LEMMA HeadAndTail ==
  ASSUME NEW S, NEW s \in Seq(S), s # <<>>
  PROVE  Head(s) \in S /\ Tail(s) \in Seq(S)
  OBVIOUS

LEMMA CalmIsFrame == ASSUME NEW n PROVE Seq(Calm(n)) \subseteq Seq(Frame)
  BY SeqMonotone DEF Calm

\* Calm work stays calm as errors are reported and the text is read.
LEMMA CalmLater ==
  ASSUME NEW m \in Nat, NEW n \in Nat, m <= n, messages \subseteq messages',
         input' = input
  PROVE  /\ CompoundRead(m) => CompoundRead(n)'
         /\ Seq(Calm(m)) \subseteq Seq(Calm(n)')
  <1>1. CompoundRead(m) => CompoundRead(n)'
    BY DEF CompoundRead
  <1>2. Calm(m) \subseteq Calm(n)'
    BY <1>1 DEF Calm
  <1> QED
    BY <1>1, <1>2, SeqMonotone

LEMMA StepsAreCalm ==
  ASSUME NEW names \in Seq(Quiet), NEW n
  PROVE  Steps(names) \in Seq(Calm(n))
  <1>1. DOMAIN names = 1 .. Len(names) /\ Len(names) \in Nat
    OBVIOUS
  <1>2. ASSUME NEW i \in 1 .. Len(names)
        PROVE  [do |-> names[i], with |-> "none"] \in Calm(n)
    BY <1>1 DEF Calm, Frame, Quiet, Doable
  <1>3. Steps(names) \in [1 .. Len(names) -> Calm(n)]
    BY <1>1, <1>2 DEF Steps
  <1> QED
    BY <1>1, <1>3

LEMMA CalmNotPending ==
  ASSUME NEW n, work \in Seq(Calm(n)) PROVE ~ Pending
  BY HeadAndTail DEF Calm, Pending

----------------------------------------------------------------------------
(***************************************************************************)
(* The kinds of step.                                                      *)
(***************************************************************************)
LEMMA WorkStaysCalm ==
  ASSUME work' \in Seq(Calm(pos)')
  PROVE  WorkCalm'
  <1>1. ~ Pending'
    BY HeadAndTail DEF Calm, Pending
  <1> QED
    BY <1>1 DEF WorkCalm

\* Between two steps, work that begins with no operator of assignment is calm.
LEMMA CalmAt ==
  ASSUME IInv, NEW step, step \notin CompoundOps, At(step)
  PROVE  /\ work \in Seq(Calm(pos)) /\ work # <<>>
         /\ Head(work) \in Calm(pos) /\ Head(work) \in Frame
         /\ Tail(work) \in Seq(Calm(pos))
         /\ held \in Kind \cup {"none"}
         /\ held = "null" => messages # {}
  <1>1. ~ Pending /\ work # <<>>
    BY DEF At, Pending
  <1>2. work \in Seq(Calm(pos))
    BY <1>1 DEF IInv, WorkCalm
  <1>3. Head(work) \in Calm(pos) /\ Tail(work) \in Seq(Calm(pos))
    BY <1>1, <1>2, HeadAndTail
  <1> QED
    BY <1>1, <1>2, <1>3 DEF Calm, Frame, held

LEMMA PosIsNat == ASSUME TypeOK PROVE pos \in Nat /\ Len(input) \in Nat /\ pos <= Len(input)
  BY DEF TypeOK

\* The conjuncts that depend on the rest of the state.
LEMMA RestStays ==
  ASSUME IInv, UNCHANGED <<input, pos, ret, messages, holes, crash>>,
         work' \in Seq(Calm(pos))
  PROVE  IInv'
  <1>1. pos \in Nat
    BY PosIsNat DEF IInv
  <1>2. Seq(Calm(pos)) \subseteq Seq(Calm(pos)')
    BY <1>1, CalmLater
  <1>3. WorkCalm'
    BY <1>2, WorkStaysCalm
  <1>4. work' \in Seq(Frame)
    BY CalmIsFrame
  <1>5. NullsCalm'
    BY DEF IInv, NullsCalm, CompoundRead
  <1>6. TypeOK'
    BY <1>4 DEF IInv, TypeOK
  <1> QED
    BY <1>3, <1>5, <1>6 DEF IInv

LEMMA EnterKeeps ==
  ASSUME IInv, NEW step, step \notin CompoundOps, NEW names \in Seq(Quiet),
         Enter(step, names)
  PROVE  IInv'
  <1>1. At(step)
    BY DEF Enter
  <1>2. Tail(work) \in Seq(Calm(pos))
    BY <1>1, CalmAt
  <1>3. Steps(names) \in Seq(Calm(pos))
    BY StepsAreCalm
  <1>4. Steps(names) \o Tail(work) \in Seq(Calm(pos))
    BY <1>2, <1>3, Concatenated
  <1> QED
    BY <1>4, RestStays DEF Enter

LEMMA HeldIsCalm ==
  ASSUME IInv, NEW construction \in Constructions, NEW n,
         construction = "MakeCompound" => CompoundRead(n)
  PROVE  <<[do |-> construction, with |-> ret]>> \in Seq(Calm(n))
  <1>1. construction \notin CompoundOps
    BY DEF Constructions, CompoundOps
  <1>2. ret \in Kind /\ (ret = "null" => messages # {})
    BY DEF IInv, TypeOK, NullsCalm
  <1>3. [do |-> construction, with |-> ret] \in Calm(n)
    BY <1>1, <1>2 DEF Calm, Frame
  <1> QED
    BY <1>3

LEMMA HoldKeeps ==
  ASSUME IInv, NEW step, step \notin CompoundOps,
         NEW before \in Seq(Quiet), NEW after \in Seq(Quiet),
         NEW construction \in Constructions, construction # "MakeCompound",
         Hold(step, before, construction, after)
  PROVE  IInv'
  <1> DEFINE one == <<[do |-> construction, with |-> ret]>>
  <1>1. At(step)
    BY DEF Hold
  <1>2. Tail(work) \in Seq(Calm(pos))
    BY <1>1, CalmAt
  <1>3. Steps(before) \in Seq(Calm(pos)) /\ Steps(after) \in Seq(Calm(pos))
    BY StepsAreCalm
  <1>4. one \in Seq(Calm(pos))
    BY HeldIsCalm
  <1>5. work' = Steps(before) \o one \o Steps(after) \o Tail(work)
    BY DEF Hold
  <1>6. UNCHANGED <<input, pos, ret, messages, holes, crash>>
    BY DEF Hold
  <1> HIDE DEF one
  <1>7. Steps(before) \o one \in Seq(Calm(pos))
    BY <1>3, <1>4, Concatenated
  <1>8. Steps(before) \o one \o Steps(after) \in Seq(Calm(pos))
    BY <1>3, <1>7, Concatenated
  <1>9. work' \in Seq(Calm(pos))
    BY <1>2, <1>5, <1>8, Concatenated
  <1> QED
    BY <1>6, <1>9, RestStays

\* The operator of a compound assignment is about to be read.
LEMMA HoldCompoundKeeps ==
  ASSUME IInv, Here(0) \in CompoundOps,
         Hold("MoreAssign", <<Here(0), "Expression">>, "MakeCompound", <<"MoreAssign">>)
  PROVE  IInv'
  <1> DEFINE step(name) == [do |-> name, with |-> "none"]
             make == [do |-> "MakeCompound", with |-> ret]
  <1>1. pos \in Nat /\ Len(input) \in Nat /\ pos + 1 \in Nat
    BY PosIsNat DEF IInv
  <1>2. pos < Len(input) /\ Here(0) = input[pos + 1]
    BY <1>1 DEF Here, CompoundOps
  <1>3. CompoundRead(pos + 1)
    BY <1>1, <1>2 DEF CompoundRead
  <1>4. Tail(work) \in Seq(Calm(pos + 1))
    <2>1. "MoreAssign" \notin CompoundOps /\ At("MoreAssign")
      BY DEF CompoundOps, Hold
    <2>2. Tail(work) \in Seq(Calm(pos))
      BY <2>1, CalmAt
    <2>3. Calm(pos) \subseteq Calm(pos + 1)
      BY <1>3 DEF Calm
    <2> QED
      BY <2>2, <2>3, SeqMonotone
  <1>5. /\ step("Expression") \in Calm(pos + 1)
        /\ step("MoreAssign") \in Calm(pos + 1)
        /\ make \in Calm(pos + 1)
    BY <1>3 DEF Calm, Frame, Procedures, Constructions, CompoundOps, IInv, TypeOK, NullsCalm
  <1>6. step(Here(0)) \in Frame
    BY DEF Frame, Symbols
  <1>7. UNCHANGED <<input, pos, ret, messages, holes, crash>>
    BY DEF Hold
  <1>8. PICK p \in Seq(Frame), q \in Seq(Calm(pos + 1)),
             r \in Seq(Calm(pos + 1)), t \in Seq(Calm(pos + 1)) :
          /\ p = Steps(<<Here(0), "Expression">>) /\ q = <<make>>
          /\ r = Steps(<<"MoreAssign">>) /\ t = Tail(work)
          /\ p # <<>> /\ Head(p) = step(Here(0)) /\ Tail(p) \in Seq(Calm(pos + 1))
    <2>1. /\ Steps(<<Here(0), "Expression">>) = <<step(Here(0)), step("Expression")>>
          /\ Steps(<<"MoreAssign">>) = <<step("MoreAssign")>>
      BY DEF Steps
    <2>2. step("Expression") \in Frame
      BY <1>5 DEF Calm
    <2>3. /\ <<step(Here(0)), step("Expression")>> \in Seq(Frame)
          /\ Head(<<step(Here(0)), step("Expression")>>) = step(Here(0))
          /\ Tail(<<step(Here(0)), step("Expression")>>) = <<step("Expression")>>
          /\ <<step(Here(0)), step("Expression")>> # <<>>
      <3> HIDE DEF step
      <3> QED
        BY <1>6, <2>2
    <2>4. /\ <<make>> \in Seq(Calm(pos + 1))
          /\ <<step("Expression")>> \in Seq(Calm(pos + 1))
          /\ <<step("MoreAssign")>> \in Seq(Calm(pos + 1))
      <3> HIDE DEF step, make
      <3> QED
        BY <1>5
    <2> HIDE DEF step, make
    <2> QED
      BY <1>4, <2>1, <2>3, <2>4
  <1>9. work' = p \o q \o r \o t
    BY <1>8, Zenon DEF Hold
  <1>10. /\ Calm(pos + 1) \subseteq Frame
         /\ p \o q \in Seq(Frame) /\ p \o q # <<>> /\ Head(p \o q) = Head(p)
         /\ Tail(p \o q) \in Seq(Calm(pos + 1))
    <2>1. Calm(pos + 1) \subseteq Frame
      BY DEF Calm
    <2> QED
      BY <1>8, <2>1, HeadOfJoined, TailOfJoined
  <1>11. /\ p \o q \o r \in Seq(Frame) /\ p \o q \o r # <<>>
         /\ Head(p \o q \o r) = Head(p)
         /\ Tail(p \o q \o r) \in Seq(Calm(pos + 1))
    BY <1>8, <1>10, HeadOfJoined, TailOfJoined
  <1>12. /\ work' \in Seq(Frame) /\ work' # <<>>
         /\ Head(work') = step(Here(0))
         /\ Tail(work') \in Seq(Calm(pos + 1))
    BY <1>8, <1>9, <1>10, <1>11, HeadOfJoined, TailOfJoined
  <1>13. TypeOK'
    BY <1>7, <1>12 DEF IInv, TypeOK
  <1>14. NullsCalm'
    BY <1>7 DEF IInv, NullsCalm, CompoundRead
  <1>15. WorkCalm'
    <2>1. Head(work').do = Here(0)
      BY <1>12
    <2>2. Pending'
      BY <1>12, <2>1 DEF Pending
    <2>3. Head(work').do = Here(0)'
      BY <1>7, <2>1 DEF Here
    <2>4. Calm(pos + 1)' = Calm(pos + 1)
      BY <1>7 DEF Calm, CompoundRead
    <2>5. Tail(work') \in Seq(Calm(pos + 1)')
      BY <1>12, <2>4
    <2> QED
      BY <2>2, <2>3, <2>5 DEF WorkCalm
  <1> QED
    BY <1>13, <1>14, <1>15 DEF IInv

LEMMA MakeKeeps ==
  ASSUME IInv, NEW construction, construction \notin CompoundOps,
         NEW fatal \in {"no", "missing", "copy", "thrown"},
         NEW gaps \in SUBSET {"missing", "copied"},
         NEW kind \in Kind,
         Make(construction, fatal, gaps, kind),
         kind = "null" => messages # {},
         "missing" \in gaps \/ fatal = "missing" => messages # {},
         "copied" \in gaps \/ fatal = "copy" => CompoundRead(pos)
  PROVE  IInv'
  <1>1. /\ work \in Seq(Calm(pos)) /\ Tail(work) \in Seq(Calm(pos))
    BY CalmAt DEF Make
  <1>2. UNCHANGED <<input, pos, messages>> /\ pos \in Nat
    BY PosIsNat DEF Make, IInv
  <1>3. Seq(Calm(pos)) \subseteq Seq(Calm(pos)')
    BY <1>2, CalmLater
  <1>4. CompoundRead(pos)' <=> CompoundRead(pos)
    BY <1>2 DEF CompoundRead
  <1>5. work' \in Seq(Calm(pos))
    BY <1>1 DEF Make
  <1>6. WorkCalm'
    BY <1>3, <1>5, WorkStaysCalm
  <1>7. \/ ret' = kind /\ holes' = holes \cup gaps /\ crash' = crash
        \/ ret' = ret /\ holes' = holes /\ crash' = fatal
    BY DEF Make
  <1>8. work' \in Seq(Frame)
    BY <1>5, CalmIsFrame
  <1>9. TypeOK'
    BY <1>2, <1>7, <1>8 DEF IInv, TypeOK
  <1>10. NullsCalm'
    BY <1>2, <1>4, <1>7 DEF IInv, NullsCalm
  <1> QED
    BY <1>6, <1>9, <1>10 DEF IInv

LEMMA PastNextIsPos ==
  ASSUME TypeOK
  PROVE  PastNext \in 0 .. Len(input) /\ PastNext \in Nat /\ pos <= PastNext
  BY PosIsNat DEF PastNext, TypeOK

LEMMA ExpectKeeps ==
  ASSUME IInv, NEW symbol \in Symbols, Expect(symbol)
  PROVE  IInv'
  <1>1. /\ pos' = PastNext /\ work' = Tail(work)
        /\ UNCHANGED <<input, ret, holes, crash>>
        /\ At(symbol)
    BY DEF Expect
  <1>2. /\ messages \subseteq messages'
        /\ messages' \subseteq messages \cup {Message(symbol)}
    BY DEF Expect
  <1>3. /\ pos \in Nat /\ Len(input) \in Nat
        /\ PastNext \in 0 .. Len(input) /\ PastNext \in Nat /\ pos <= PastNext
    BY PosIsNat, PastNextIsPos DEF IInv
  <1> PICK m \in Nat, n \in Nat : m = pos /\ n = PastNext
    BY <1>3
  <1>4. Tail(work) \in Seq(Calm(n)')
    <2>1. CASE symbol \in CompoundOps
      <3>1. Head(work).do = Here(0) /\ Tail(work) \in Seq(Calm(pos + 1))
        BY <1>1, <2>1 DEF At, Pending, IInv, WorkCalm
      <3>2. Here(0) # "END_OF_FILE"
        BY <1>1, <2>1, <3>1 DEF At, CompoundOps
      <3>3. n = pos + 1
        BY <1>3, <3>2 DEF Here, PastNext
      <3>4. Seq(Calm(n)) \subseteq Seq(Calm(n)')
        BY <1>1, <1>2, CalmLater
      <3> QED
        BY <3>1, <3>3, <3>4
    <2>2. CASE symbol \notin CompoundOps
      <3>1. Tail(work) \in Seq(Calm(m))
        BY <1>1, <2>2, CalmAt
      <3>2. Seq(Calm(m)) \subseteq Seq(Calm(n)')
        BY <1>1, <1>2, <1>3, CalmLater
      <3> QED
        BY <3>1, <3>2
    <2> QED
      BY <2>1, <2>2
  <1>5. work' \in Seq(Calm(pos)')
    <2>1. Calm(n)' = Calm(pos)'
      BY <1>1
    <2> QED
      BY <1>1, <1>4, <2>1
  <1>6. WorkCalm'
    BY <1>5, WorkStaysCalm
  <1>7. work' \in Seq(Frame)
    BY <1>1, HeadAndTail DEF IInv, TypeOK, At
  <1>8. CompoundRead(pos) => CompoundRead(pos)'
    BY <1>1, <1>3 DEF CompoundRead
  <1>9. NullsCalm'
    BY <1>1, <1>2, <1>8 DEF IInv, NullsCalm
  <1>10. Message(symbol) \in [at : 0 .. Len(input),
                              expected : Symbols \cup {"token", "declaration", "expression"}]
    BY <1>3 DEF Message, IInv, TypeOK
  <1>11. TypeOK'
    BY <1>1, <1>2, <1>3, <1>7, <1>10 DEF IInv, TypeOK
  <1> QED
    BY <1>6, <1>9, <1>11 DEF IInv

----------------------------------------------------------------------------
(***************************************************************************)
(* The steps that the procedures are made of are quiet.                    *)
(***************************************************************************)
LEMMA QuietSymbols == Symbols \ CompoundOps \subseteq Quiet
  BY DEF Quiet, Doable, Symbols, CompoundOps, ComparisonOps, AddSubOps, MulDivOps, UnaryOps,
         Literals

LEMMA QuietOperators ==
  ComparisonOps \cup AddSubOps \cup MulDivOps \cup UnaryOps \cup Literals \subseteq Quiet
  <1>1. ComparisonOps \cup AddSubOps \cup MulDivOps \cup UnaryOps \cup Literals
          \subseteq Symbols \ CompoundOps
    BY DEF Symbols, CompoundOps, ComparisonOps, AddSubOps, MulDivOps, UnaryOps, Literals
  <1> QED
    BY <1>1, QuietSymbols

LEMMA QuietTokens ==
  /\ "EQ" \in Quiet /\ "DOT" \in Quiet /\ "SUB_GT" \in Quiet /\ "MUL" \in Quiet
  /\ "COMMA" \in Quiet /\ "COLON" \in Quiet /\ "SEMICOLON" \in Quiet
  /\ "IDENT" \in Quiet /\ "STRING" \in Quiet
  /\ "OPEN_PAREN" \in Quiet /\ "CLOSE_PAREN" \in Quiet
  /\ "OPEN_BRACE" \in Quiet /\ "CLOSE_BRACE" \in Quiet
  /\ "OPEN_SQUARE" \in Quiet /\ "CLOSE_SQUARE" \in Quiet
  /\ "FUNCTION" \in Quiet /\ "STRUCT" \in Quiet /\ "IMPORT" \in Quiet
  /\ "IF" \in Quiet /\ "ELSE" \in Quiet /\ "WHILE" \in Quiet /\ "FOR" \in Quiet
  /\ "RETURN" \in Quiet /\ "LET" \in Quiet
  BY DEF Quiet, Doable, Symbols, CompoundOps, MulDivOps, Literals

LEMMA QuietProcedures == Procedures \subseteq Quiet
  BY DEF Quiet, Doable, Procedures, CompoundOps

LEMMA QuietDeclarations ==
  /\ "Document" \in Quiet /\ "Function" \in Quiet /\ "Params" \in Quiet
  /\ "MoreParams" \in Quiet /\ "FunctionBody" \in Quiet /\ "StructDecl" \in Quiet
  /\ "Fields" \in Quiet /\ "Import" \in Quiet /\ "ReadFile" \in Quiet
  /\ "TypeName" \in Quiet /\ "Stars" \in Quiet /\ "Block" \in Quiet
  BY QuietProcedures DEF Procedures

LEMMA QuietStatements ==
  /\ "Statements" \in Quiet /\ "MoreStatements" \in Quiet /\ "Statement" \in Quiet
  /\ "ReturnStatement" \in Quiet /\ "ReturnValue" \in Quiet
  /\ "IfStatement" \in Quiet /\ "IfRest" \in Quiet
  /\ "LetStatement" \in Quiet /\ "LetValue" \in Quiet
  /\ "WhileStatement" \in Quiet /\ "WhileCond" \in Quiet
  /\ "ForStatement" \in Quiet /\ "ForCond" \in Quiet
  BY QuietProcedures DEF Procedures

LEMMA QuietExpressions ==
  /\ "Expression" \in Quiet /\ "MoreAssign" \in Quiet
  /\ "Comparison" \in Quiet /\ "MoreComparison" \in Quiet
  /\ "AddSub" \in Quiet /\ "MoreAddSub" \in Quiet
  /\ "MulDiv" \in Quiet /\ "MoreMulDiv" \in Quiet
  /\ "Unary" \in Quiet /\ "DotOp" \in Quiet /\ "MoreDot" \in Quiet /\ "Primary" \in Quiet
  /\ "FunctionCall" \in Quiet /\ "Arguments" \in Quiet /\ "MoreArguments" \in Quiet
  /\ "ArrayAccess" \in Quiet /\ "Variable" \in Quiet
  /\ "StructInit" \in Quiet /\ "Inits" \in Quiet
  BY QuietProcedures DEF Procedures

LEMMA QuietConstructions ==
  /\ "MakePlain" \in Quiet /\ "MakeVariable" \in Quiet /\ "MakeAround" \in Quiet
  /\ "MakeArrayAccess" \in Quiet /\ "Keep" \in Quiet
  BY DEF Quiet, Doable, Constructions, CompoundOps

LEMMA QuietEnter ==
  ASSUME IInv, NEW step \in Quiet, NEW names \in Seq(Quiet), Enter(step, names)
  PROVE  IInv'
  BY EnterKeeps DEF Quiet

(***************************************************************************)
(* Every action keeps the invariant.                                       *)
(***************************************************************************)
LEMMA EndDocumentKeeps == ASSUME IInv, EndDocument PROVE IInv'
  <1>1. /\ work' = Tail(work) /\ UNCHANGED <<input, pos, ret, holes, crash>>
        /\ messages \subseteq messages'
        /\ messages' \subseteq messages \cup {Message("token")}
        /\ At("Document")
    BY DEF EndDocument
  <1>2. "Document" \notin CompoundOps /\ pos \in Nat /\ Len(input) \in Nat
    BY PosIsNat DEF CompoundOps, IInv
  <1>3. Tail(work) \in Seq(Calm(pos))
    BY <1>1, <1>2, CalmAt
  <1>4. Seq(Calm(pos)) \subseteq Seq(Calm(pos)')
    BY <1>1, <1>2, CalmLater
  <1>5. WorkCalm'
    BY <1>1, <1>3, <1>4, WorkStaysCalm
  <1>6. NullsCalm'
    BY <1>1 DEF IInv, NullsCalm, CompoundRead
  <1>7. work' \in Seq(Frame)
    BY <1>1, <1>3, CalmIsFrame
  <1>8. TypeOK'
    BY <1>1, <1>2, <1>7 DEF IInv, TypeOK, Message
  <1> QED
    BY <1>5, <1>6, <1>8 DEF IInv

LEMMA AbandonDocumentKeeps == ASSUME IInv, AbandonDocument PROVE IInv'
  <1>1. /\ work' = Tail(work) /\ pos' = PastNext
        /\ UNCHANGED <<input, ret, holes, crash>>
        /\ messages' = messages \cup {Message("declaration")}
        /\ At("Document")
    BY DEF AbandonDocument
  <1>2. /\ "Document" \notin CompoundOps /\ pos \in Nat /\ Len(input) \in Nat
        /\ PastNext \in 0 .. Len(input) /\ PastNext \in Nat /\ pos <= PastNext
    BY PosIsNat, PastNextIsPos DEF CompoundOps, IInv
  <1> PICK m \in Nat, n \in Nat : m = pos /\ n = PastNext
    BY <1>2
  <1>3. Tail(work) \in Seq(Calm(m))
    BY <1>1, <1>2, CalmAt
  <1>4. Seq(Calm(m)) \subseteq Seq(Calm(n)')
    BY <1>1, <1>2, CalmLater
  <1>5. Calm(n)' = Calm(pos)'
    BY <1>1
  <1>6. WorkCalm'
    BY <1>1, <1>3, <1>4, <1>5, WorkStaysCalm
  <1>7. CompoundRead(pos) => CompoundRead(pos)'
    BY <1>1, <1>2 DEF CompoundRead
  <1>8. NullsCalm'
    BY <1>1, <1>7 DEF IInv, NullsCalm
  <1>9. work' \in Seq(Frame)
    BY <1>1, <1>3, CalmIsFrame
  <1>10. TypeOK'
    BY <1>1, <1>2, <1>9 DEF IInv, TypeOK, Message
  <1> QED
    BY <1>6, <1>8, <1>10 DEF IInv

LEMMA DeclarationsKeep == ASSUME IInv, Declarations PROVE IInv'
  <1> USE QuietTokens, QuietDeclarations, QuietEnter
  <1>1. CASE ParseDeclaration
    <2>1. Here(0) \in DOMAIN Declaration
      BY <1>1 DEF ParseDeclaration
    <2>2. Declaration[Here(0)] \in Quiet
      BY <2>1 DEF Declaration
    <2>3. <<Declaration[Here(0)], "Document">> \in Seq(Quiet)
      BY <2>2
    <2> QED
      BY <1>1, <2>3 DEF ParseDeclaration
  <1>2. CASE EndDocument
    BY <1>2, EndDocumentKeeps
  <1>3. CASE AbandonDocument
    BY <1>3, AbandonDocumentKeeps
  <1>4. CASE ParseFunction
    <2>1. (<<"FUNCTION", "IDENT", "OPEN_PAREN", "Params", "CLOSE_PAREN",
          "COLON", "TypeName", "FunctionBody">>) \in Seq(Quiet)
      OBVIOUS
    <2> QED
      BY <1>4, <2>1 DEF ParseFunction
  <1>5. CASE ParseParams
    <2>1. (IF Here(0) = "CLOSE_PAREN" THEN <<>>
        ELSE <<"IDENT", "COLON", "TypeName", "MoreParams">>) \in Seq(Quiet)
      OBVIOUS
    <2> QED
      BY <1>5, <2>1 DEF ParseParams
  <1>6. CASE MoreParams
    <2>1. (IF Here(0) = "CLOSE_PAREN" THEN <<>> ELSE <<"COMMA", "Params">>) \in Seq(Quiet)
      OBVIOUS
    <2> QED
      BY <1>6, <2>1 DEF MoreParams
  <1>7. CASE ParseFunctionBody
    <2>1. (IF Here(0) = "SEMICOLON" THEN <<"SEMICOLON">> ELSE <<"Block">>) \in Seq(Quiet)
      OBVIOUS
    <2> QED
      BY <1>7, <2>1 DEF ParseFunctionBody
  <1>8. CASE ParseStructDecl
    <2>1. (<<"STRUCT", "IDENT", "OPEN_BRACE", "Fields", "CLOSE_BRACE">>) \in Seq(Quiet)
      OBVIOUS
    <2> QED
      BY <1>8, <2>1 DEF ParseStructDecl
  <1>9. CASE ParseFields
    <2>1. (IF Here(0) = "CLOSE_BRACE" THEN <<>>
        ELSE <<"IDENT", "COLON", "TypeName", "SEMICOLON", "Fields">>) \in Seq(Quiet)
      OBVIOUS
    <2> QED
      BY <1>9, <2>1 DEF ParseFields
  <1>10. CASE ParseImport
    <2>1. (<<"IMPORT", "STRING", "ReadFile">>) \in Seq(Quiet)
      OBVIOUS
    <2> QED
      BY <1>10, <2>1 DEF ParseImport
  <1>11. CASE ReadFile
    <2>1. "ReadFile" \notin CompoundOps /\ ret \in Kind /\ (ret = "null" => messages # {})
      BY DEF CompoundOps, IInv, TypeOK, NullsCalm
    <2> QED
      BY <1>11, <2>1, MakeKeeps DEF ReadFile
  <1>12. CASE ParseTypeName
    <2>1. (<<"IDENT", "Stars">>) \in Seq(Quiet)
      OBVIOUS
    <2> QED
      BY <1>12, <2>1 DEF ParseTypeName
  <1>13. CASE ParseStars
    <2>1. (IF Here(0) = "MUL" THEN <<"MUL", "Stars">> ELSE <<>>) \in Seq(Quiet)
      OBVIOUS
    <2> QED
      BY <1>13, <2>1 DEF ParseStars
  <1> QED
    BY <1>1, <1>2, <1>3, <1>4, <1>5, <1>6, <1>7, <1>8, <1>9, <1>10, <1>11, <1>12, <1>13 DEF Declarations

LEMMA StatementsKeep == ASSUME IInv, Statements PROVE IInv'
  <1> USE QuietTokens, QuietDeclarations, QuietStatements,
        QuietExpressions, QuietConstructions, QuietEnter
  <1>1. CASE ParseBlock
    <2>1. (<<"OPEN_BRACE", "Statements", "CLOSE_BRACE">>) \in Seq(Quiet)
      OBVIOUS
    <2> QED
      BY <1>1, <2>1 DEF ParseBlock
  <1>2. CASE ParseStatements
    <2>1. (IF Here(0) = "CLOSE_BRACE" THEN <<>>
        ELSE <<"Statement", "Keep", "MoreStatements">>) \in Seq(Quiet)
      OBVIOUS
    <2> QED
      BY <1>2, <2>1 DEF ParseStatements
  <1>3. CASE MoreStatements
    <2>1. (IF Here(0) = "SEMICOLON" THEN <<"SEMICOLON", "Statements">>
                                 ELSE <<"Statements">>) \in Seq(Quiet)
      OBVIOUS
    <2> QED
      BY <1>3, <2>1 DEF MoreStatements
  <1>4. CASE ParseStatement
    <2> DEFINE next == CASE Here(0) = "RETURN" -> "ReturnStatement"
                         [] Here(0) = "IF"     -> "IfStatement"
                         [] Here(0) = "LET"    -> "LetStatement"
                         [] Here(0) = "WHILE"  -> "WhileStatement"
                         [] Here(0) = "FOR"    -> "ForStatement"
                         [] OTHER              -> "Expression"
    <2>1. next \in Quiet
      OBVIOUS
    <2>2. Enter("Statement", <<next>>)
      BY <1>4 DEF ParseStatement
    <2> HIDE DEF next
    <2>3. <<next>> \in Seq(Quiet)
      BY <2>1
    <2> QED
      BY <2>2, <2>3
  <1>5. CASE ParseReturnStatement
    <2>1. (<<"RETURN", "ReturnValue">>) \in Seq(Quiet)
      OBVIOUS
    <2> QED
      BY <1>5, <2>1 DEF ParseReturnStatement
  <1>6. CASE ParseReturnValue
    <2>1. (IF Here(0) = "SEMICOLON" THEN <<"MakePlain">>
                                 ELSE <<"Expression", "MakePlain">>) \in Seq(Quiet)
      OBVIOUS
    <2> QED
      BY <1>6, <2>1 DEF ParseReturnValue
  <1>7. CASE ParseIfStatement
    <2>1. (<<"IF", "OPEN_PAREN", "Expression", "Keep", "CLOSE_PAREN",
          "Block", "IfRest">>) \in Seq(Quiet)
      OBVIOUS
    <2> QED
      BY <1>7, <2>1 DEF ParseIfStatement
  <1>8. CASE ParseIfRest
    <2>1. (CASE Here(0) = "ELSE" /\ Here(1) = "IF" -> <<"ELSE", "IfStatement">>
          [] Here(0) = "ELSE" /\ Here(1) # "IF" -> <<"ELSE", "Block", "MakePlain">>
          [] OTHER                              -> <<"MakePlain">>) \in Seq(Quiet)
      OBVIOUS
    <2> QED
      BY <1>8, <2>1 DEF ParseIfRest
  <1>9. CASE ParseLetStatement
    <2>1. (<<"LET", "IDENT", "COLON", "TypeName", "LetValue">>) \in Seq(Quiet)
      OBVIOUS
    <2> QED
      BY <1>9, <2>1 DEF ParseLetStatement
  <1>10. CASE ParseLetValue
    <2>1. (IF Here(0) = "EQ" THEN <<"EQ", "Expression", "Keep", "MakePlain">>
                          ELSE <<"MakePlain">>) \in Seq(Quiet)
      OBVIOUS
    <2> QED
      BY <1>10, <2>1 DEF ParseLetValue
  <1>11. CASE ParseWhileStatement
    <2>1. CASE Enter("WhileStatement", <<"WHILE", "OPEN_PAREN", "Expression", "WhileCond">>)
      <3>1. <<"WHILE", "OPEN_PAREN", "Expression", "WhileCond">>
              \in Seq(Quiet)
        OBVIOUS
      <3> QED
        BY <2>1, <3>1
    <2>2. CASE Hold("WhileCond", <<"CLOSE_PAREN", "Block">>, "MakeLoop", <<>>)
      <3>1. <<"CLOSE_PAREN", "Block">> \in Seq(Quiet)
            /\ <<>> \in Seq(Quiet)
        OBVIOUS
      <3>2. "WhileCond" \notin CompoundOps /\ "MakeLoop" \in Constructions
        BY DEF CompoundOps, Constructions
      <3> QED
        BY <2>2, <3>1, <3>2, HoldKeeps
    <2> QED
      BY <1>11, <2>1, <2>2 DEF ParseWhileStatement
  <1>12. CASE ParseForStatement
    <2>1. CASE Enter("ForStatement", <<"FOR", "OPEN_PAREN", "Statement", "Keep", "SEMICOLON", "Expression", "ForCond">>)
      <3>1. <<"FOR", "OPEN_PAREN", "Statement", "Keep", "SEMICOLON", "Expression", "ForCond">>
              \in Seq(Quiet)
        OBVIOUS
      <3> QED
        BY <2>1, <3>1
    <2>2. CASE Hold("ForCond", <<"SEMICOLON", "Expression", "Keep", "CLOSE_PAREN", "Block">>, "MakeLoop", <<>>)
      <3>1. <<"SEMICOLON", "Expression", "Keep", "CLOSE_PAREN", "Block">> \in Seq(Quiet)
            /\ <<>> \in Seq(Quiet)
        OBVIOUS
      <3>2. "ForCond" \notin CompoundOps /\ "MakeLoop" \in Constructions
        BY DEF CompoundOps, Constructions
      <3> QED
        BY <2>2, <3>1, <3>2, HoldKeeps
    <2> QED
      BY <1>12, <2>1, <2>2 DEF ParseForStatement
  <1> QED
    BY <1>1, <1>2, <1>3, <1>4, <1>5, <1>6, <1>7, <1>8, <1>9, <1>10, <1>11, <1>12 DEF Statements

\* The loop of a level of binary operators.
LEMMA MoreBinaryKeeps ==
  ASSUME IInv, NEW loop \in Quiet, NEW operand \in Quiet, NEW operators,
         operators \subseteq Quiet, MoreBinary(loop, operators, operand)
  PROVE  IInv'
  <1>1. CASE Here(0) \in operators
    <2>1. /\ <<Here(0), operand>> \in Seq(Quiet) /\ <<loop>> \in Seq(Quiet)
          /\ loop \notin CompoundOps
      BY <1>1 DEF Quiet
    <2>2. "MakeBinary" \in Constructions /\ "MakeBinary" # "MakeCompound"
      BY DEF Constructions
    <2>3. Hold(loop, <<Here(0), operand>>, "MakeBinary", <<loop>>)
      BY <1>1 DEF MoreBinary
    <2> QED
      BY <2>1, <2>2, <2>3, HoldKeeps
  <1>2. CASE Here(0) \notin operators
    <2>1. <<>> \in Seq(Quiet) /\ Enter(loop, <<>>)
      BY <1>2 DEF MoreBinary
    <2> QED
      BY <2>1, QuietEnter
  <1> QED
    BY <1>1, <1>2

LEMMA MoreAssignKeeps == ASSUME IInv, MoreAssign PROVE IInv'
  <1>1. CASE Here(0) = "EQ"
    <2>1. <<"EQ", "Expression">> \in Seq(Quiet) /\ <<"MoreAssign">> \in Seq(Quiet)
      BY QuietTokens, QuietExpressions
    <2>2. /\ "MakeAssign" \in Constructions /\ "MakeAssign" # "MakeCompound"
          /\ "MoreAssign" \notin CompoundOps
      BY DEF Constructions, CompoundOps
    <2>3. Hold("MoreAssign", <<"EQ", "Expression">>, "MakeAssign", <<"MoreAssign">>)
      BY <1>1 DEF MoreAssign, CompoundOps
    <2> QED
      BY <2>1, <2>2, <2>3, HoldKeeps
  <1>2. CASE Here(0) \in CompoundOps
    <2>1. Hold("MoreAssign", <<Here(0), "Expression">>, "MakeCompound", <<"MoreAssign">>)
      BY <1>2 DEF MoreAssign, CompoundOps
    <2> QED
      BY <1>2, <2>1, HoldCompoundKeeps
  <1>3. CASE Here(0) \notin CompoundOps \cup {"EQ"}
    <2>1. Enter("MoreAssign", <<>>) /\ <<>> \in Seq(Quiet)
      BY <1>3 DEF MoreAssign
    <2> QED
      BY <2>1, QuietExpressions, QuietEnter
  <1> QED
    BY <1>1, <1>2, <1>3

LEMMA ParsePrimaryKeeps == ASSUME IInv, ParsePrimary PROVE IInv'
  <1> USE QuietTokens, QuietExpressions, QuietConstructions
  <1> DEFINE call == CASE Here(1) = "OPEN_PAREN"  -> "FunctionCall"
                       [] Here(1) = "OPEN_SQUARE" -> "ArrayAccess"
                       [] Here(1) = "OPEN_BRACE"  -> "StructInit"
                       [] OTHER                   -> "Variable"
             names == CASE Here(0) = "IDENT" -> <<call>>
                        [] Here(0) = "OPEN_PAREN" ->
                             <<"OPEN_PAREN", "Expression", "CLOSE_PAREN">>
                        [] Here(0) \in Literals -> <<Here(0), "MakePlain">>
  <1>1. call \in Quiet
    OBVIOUS
  <1>2. Enter("Primary", names) /\ Here(0) \in {"IDENT", "OPEN_PAREN"} \cup Literals
    BY DEF ParsePrimary
  <1> HIDE DEF call
  <1>3. names \in Seq(Quiet)
    <2>1. Here(0) \in Literals => Here(0) \in Quiet
      BY QuietOperators
    <2>2. CASE Here(0) = "IDENT"
      <3>1. names = <<call>>
        BY <2>2 DEF Literals
      <3> HIDE DEF names
      <3> QED
        BY <1>1, <3>1
    <2>3. CASE Here(0) = "OPEN_PAREN"
      <3>1. names = <<"OPEN_PAREN", "Expression", "CLOSE_PAREN">>
        BY <2>3 DEF Literals
      <3> HIDE DEF names
      <3> QED
        BY <3>1
    <2>4. CASE Here(0) \in Literals
      <3>1. names = <<Here(0), "MakePlain">>
        BY <2>4 DEF Literals
      <3> HIDE DEF names
      <3> QED
        BY <2>1, <2>4, <3>1
    <2> QED
      BY <1>2, <2>2, <2>3, <2>4
  <1> HIDE DEF names
  <1> QED
    BY <1>2, <1>3, QuietEnter

LEMMA MissPrimaryKeeps == ASSUME IInv, MissPrimary PROVE IInv'
  <1>1. /\ work' = Tail(work) /\ ret' = "null"
        /\ UNCHANGED <<input, pos, holes, crash>>
        /\ messages' = messages \cup {Message("expression")}
        /\ At("Primary")
    BY DEF MissPrimary
  <1>2. "Primary" \notin CompoundOps /\ pos \in Nat /\ Len(input) \in Nat
    BY PosIsNat DEF CompoundOps, IInv
  <1>3. Tail(work) \in Seq(Calm(pos))
    BY <1>1, <1>2, CalmAt
  <1>4. Seq(Calm(pos)) \subseteq Seq(Calm(pos)')
    BY <1>1, <1>2, CalmLater
  <1>5. WorkCalm'
    BY <1>1, <1>3, <1>4, WorkStaysCalm
  <1>6. NullsCalm'
    BY <1>1 DEF IInv, NullsCalm, CompoundRead
  <1>7. work' \in Seq(Frame)
    BY <1>1, <1>3, CalmIsFrame
  <1>8. TypeOK'
    BY <1>1, <1>2, <1>7 DEF IInv, TypeOK, Message, Kind
  <1> QED
    BY <1>5, <1>6, <1>8 DEF IInv

LEMMA ExpressionsKeep == ASSUME IInv, Expressions PROVE IInv'
  <1> USE QuietTokens, QuietExpressions, QuietConstructions, QuietEnter
  <1>1. CASE ParseExpression
    <2>1. (<<"Comparison", "MoreAssign">>) \in Seq(Quiet)
      OBVIOUS
    <2> QED
      BY <1>1, <2>1 DEF ParseExpression
  <1>2. CASE MoreAssign
    BY <1>2, MoreAssignKeeps
  <1>3. CASE ParseComparison
    <2>1. CASE Enter("Comparison", <<"AddSub", "MoreComparison">>)
      <3>1. <<"AddSub", "MoreComparison">> \in Seq(Quiet)
        OBVIOUS
      <3> QED
        BY <2>1, <3>1
    <2>2. CASE MoreBinary("MoreComparison", ComparisonOps, "AddSub")
      BY <2>2, QuietOperators, MoreBinaryKeeps
    <2> QED
      BY <1>3, <2>1, <2>2 DEF ParseComparison
  <1>4. CASE ParseAddSub
    <2>1. CASE Enter("AddSub", <<"MulDiv", "MoreAddSub">>)
      <3>1. <<"MulDiv", "MoreAddSub">> \in Seq(Quiet)
        OBVIOUS
      <3> QED
        BY <2>1, <3>1
    <2>2. CASE MoreBinary("MoreAddSub", AddSubOps, "MulDiv")
      BY <2>2, QuietOperators, MoreBinaryKeeps
    <2> QED
      BY <1>4, <2>1, <2>2 DEF ParseAddSub
  <1>5. CASE ParseMulDiv
    <2>1. CASE Enter("MulDiv", <<"Unary", "MoreMulDiv">>)
      <3>1. <<"Unary", "MoreMulDiv">> \in Seq(Quiet)
        OBVIOUS
      <3> QED
        BY <2>1, <3>1
    <2>2. CASE MoreBinary("MoreMulDiv", MulDivOps, "Unary")
      BY <2>2, QuietOperators, MoreBinaryKeeps
    <2> QED
      BY <1>5, <2>1, <2>2 DEF ParseMulDiv
  <1>6. CASE ParseUnary
    <2>1. Here(0) \in UnaryOps => Here(0) \in Quiet
      BY QuietOperators
    <2>2. (IF Here(0) \in UnaryOps THEN <<Here(0), "Unary", "MakeAround">>
           ELSE <<"DotOp">>) \in Seq(Quiet)
      BY <2>1
    <2> QED
      BY <1>6, <2>2 DEF ParseUnary
  <1>7. CASE ParseDotOp
    <2>1. Here(0) \in {"DOT", "SUB_GT"} => Here(0) \in Quiet
      OBVIOUS
    <2>2. (IF Here(0) \in {"DOT", "SUB_GT"}
           THEN <<Here(0), "IDENT", "MakeAround", "MoreDot">>
           ELSE <<>>) \in Seq(Quiet)
      BY <2>1
    <2>3. <<"Primary", "MoreDot">> \in Seq(Quiet)
      OBVIOUS
    <2> QED
      BY <1>7, <2>2, <2>3 DEF ParseDotOp
  <1>8. CASE ParsePrimary
    BY <1>8, ParsePrimaryKeeps
  <1>9. CASE MissPrimary
    BY <1>9, MissPrimaryKeeps
  <1>10. CASE ParseFunctionCall
    <2>1. (<<"IDENT", "OPEN_PAREN", "Arguments", "CLOSE_PAREN", "MakePlain">>) \in Seq(Quiet)
      OBVIOUS
    <2> QED
      BY <1>10, <2>1 DEF ParseFunctionCall
  <1>11. CASE ParseArguments
    <2>1. (IF Here(0) = "CLOSE_PAREN" THEN <<>>
        ELSE <<"Expression", "Keep", "MoreArguments">>) \in Seq(Quiet)
      OBVIOUS
    <2> QED
      BY <1>11, <2>1 DEF ParseArguments
  <1>12. CASE MoreArguments
    <2>1. (IF Here(0) = "CLOSE_PAREN" THEN <<>> ELSE <<"COMMA", "Arguments">>) \in Seq(Quiet)
      OBVIOUS
    <2> QED
      BY <1>12, <2>1 DEF MoreArguments
  <1>13. CASE ParseArrayAccess
    <2>1. (<<"Variable", "OPEN_SQUARE", "Expression", "CLOSE_SQUARE",
          "MakeArrayAccess">>) \in Seq(Quiet)
      OBVIOUS
    <2> QED
      BY <1>13, <2>1 DEF ParseArrayAccess
  <1>14. CASE ParseVariable
    <2>1. (<<"IDENT", "MakeVariable">>) \in Seq(Quiet)
      OBVIOUS
    <2> QED
      BY <1>14, <2>1 DEF ParseVariable
  <1>15. CASE ParseStructInit
    <2>1. (<<"IDENT", "OPEN_BRACE", "Inits", "CLOSE_BRACE", "MakePlain">>) \in Seq(Quiet)
      OBVIOUS
    <2> QED
      BY <1>15, <2>1 DEF ParseStructInit
  <1>16. CASE ParseInits
    <2>1. (IF Here(0) = "CLOSE_BRACE" THEN <<>>
        ELSE <<"IDENT", "COLON", "Expression", "COMMA", "Keep", "Inits">>) \in Seq(Quiet)
      OBVIOUS
    <2> QED
      BY <1>16, <2>1 DEF ParseInits
  <1> QED
    BY <1>1, <1>2, <1>3, <1>4, <1>5, <1>6, <1>7, <1>8, <1>9, <1>10, <1>11, <1>12, <1>13, <1>14, <1>15, <1>16 DEF Expressions

\* The nodes are built of what the work and the last expression have to give.
LEMMA MakingKeep == ASSUME IInv, Making PROVE IInv'
  <1> USE MakeKeeps
  <1>1. /\ ret \in Kind /\ (ret = "null" => messages # {})
        /\ Around(ret) \in Kind /\ (Around(ret) = "null" => ret = "null")
        /\ Indexed(ret) \in Kind \ {"null"}
        /\ "plain" \in Kind /\ "copies" \in Kind
    BY DEF IInv, TypeOK, NullsCalm, Kind, Around, Indexed
  <1>2. /\ Missing(ret) \in SUBSET {"missing", "copied"}
        /\ "copied" \notin Missing(ret)
        /\ Missing(ret) # {} => ret = "null"
        /\ Dereferenced(ret) \in {"no", "missing"}
        /\ Dereferenced(ret) = "missing" => ret = "null"
    BY DEF Missing, Dereferenced
  <1>3. /\ Missing(held) \in SUBSET {"missing", "copied"}
        /\ "copied" \notin Missing(held)
        /\ Missing(held) # {} => held = "null"
        /\ Dereferenced(held) \in {"no", "missing"}
        /\ Dereferenced(held) = "missing" => held = "null"
    BY DEF Missing, Dereferenced
  <1>4. ASSUME NEW construction \in Constructions, At(construction)
        PROVE  /\ construction \notin CompoundOps
               /\ held = "null" => messages # {}
               /\ construction = "MakeCompound" => CompoundRead(pos)
    <2>1. construction \notin CompoundOps
      BY DEF Constructions, CompoundOps
    <2>2. Head(work) \in Calm(pos) /\ (held = "null" => messages # {})
      BY <1>4, <2>1, CalmAt
    <2> QED
      BY <1>4, <2>1, <2>2 DEF At, Calm
  <1>5. CASE MakeAssign
    <2>1. "MakeAssign" \in Constructions /\ At("MakeAssign")
      BY <1>5 DEF Constructions, MakeAssign, Make
    <2> QED
      BY <1>1, <1>2, <1>3, <1>4, <1>5, <2>1 DEF MakeAssign
  <1>6. CASE MakeCompound
    <2> DEFINE fatal == CASE held = "null"                 -> "missing"
                          [] held \in {"plain", "crashes"} -> "copy"
                          [] OTHER                         -> "no"
               gaps == Missing(ret) \cup (IF held = "holes" THEN {"copied"} ELSE {})
    <2>1. Make("MakeCompound", fatal, gaps, "plain")
      BY <1>6 DEF MakeCompound
    <2>2. "MakeCompound" \in Constructions /\ At("MakeCompound")
      BY <2>1 DEF Constructions, Make
    <2>3. /\ fatal \in {"no", "missing", "copy", "thrown"}
          /\ fatal = "missing" => held = "null"
      OBVIOUS
    <2>4. /\ gaps \in SUBSET {"missing", "copied"}
          /\ "missing" \in gaps => ret = "null"
      BY <1>2
    <2> HIDE DEF fatal, gaps
    <2>5. CompoundRead(pos) /\ (held = "null" => messages # {})
      BY <1>4, <2>2
    <2>6. "MakeCompound" \notin CompoundOps
      BY <1>4, <2>2
    <2> QED
      BY <1>1, <2>1, <2>3, <2>4, <2>5, <2>6
  <1>7. CASE MakeBinary
    <2>1. "MakeBinary" \in Constructions /\ At("MakeBinary")
      BY <1>7 DEF Constructions, MakeBinary, Make
    <2> QED
      BY <1>1, <1>2, <1>3, <1>4, <1>7, <2>1 DEF MakeBinary
  <1>8. CASE MakeAround
    <2>1. "MakeAround" \in Constructions /\ At("MakeAround")
      BY <1>8 DEF Constructions, MakeAround, Make
    <2>2. Make("MakeAround", Dereferenced(ret), {}, Around(ret)) /\ "MakeAround" \notin CompoundOps
      BY <1>8, <1>4, <2>1 DEF MakeAround
    <2>3. {} \in SUBSET {"missing", "copied"}
      OBVIOUS
    <2> QED
      BY <1>1, <1>2, <2>2, <2>3
  <1>9. CASE MakeArrayAccess
    <2>1. "MakeArrayAccess" \in Constructions /\ At("MakeArrayAccess")
      BY <1>9 DEF Constructions, MakeArrayAccess, Make
    <2> QED
      BY <1>1, <1>2, <1>4, <1>9, <2>1 DEF MakeArrayAccess
  <1>10. CASE MakeVariable
    <2>1. "MakeVariable" \in Constructions /\ At("MakeVariable")
      BY <1>10 DEF Constructions, MakeVariable, Make
    <2> QED
      BY <1>1, <1>4, <1>10, <2>1 DEF MakeVariable
  <1>11. CASE MakeLoop
    <2>1. "MakeLoop" \in Constructions /\ At("MakeLoop")
      BY <1>11 DEF Constructions, MakeLoop, Make
    <2>2. Make("MakeLoop", Dereferenced(held), {}, "plain") /\ "MakeLoop" \notin CompoundOps
      BY <1>11, <1>4, <2>1 DEF MakeLoop
    <2>3. {} \in SUBSET {"missing", "copied"} /\ (held = "null" => messages # {})
      BY <1>4, <2>1
    <2> QED
      BY <1>1, <1>3, <2>2, <2>3
  <1>12. CASE MakePlain
    <2>1. "MakePlain" \in Constructions /\ At("MakePlain")
      BY <1>12 DEF Constructions, MakePlain, Make
    <2> QED
      BY <1>1, <1>4, <1>12, <2>1 DEF MakePlain
  <1>13. CASE Keep
    <2>1. "Keep" \in Constructions /\ At("Keep")
      BY <1>13 DEF Constructions, Keep, Make
    <2> QED
      BY <1>1, <1>2, <1>4, <1>13, <2>1 DEF Keep
  <1> QED
    BY <1>5, <1>6, <1>7, <1>8, <1>9, <1>10, <1>11, <1>12, <1>13 DEF Making

----------------------------------------------------------------------------
(***************************************************************************)
(* The invariant holds throughout.                                         *)
(***************************************************************************)
LEMMA InitIsCalm == ASSUME Init PROVE IInv
  <1> DEFINE first == [do |-> "Document", with |-> "none"]
  <1>1. first \in Calm(0) /\ "Document" \notin CompoundOps
    BY DEF Calm, Frame, Procedures, CompoundOps
  <1>2. work = <<first>> /\ pos = 0 /\ first.do = "Document"
    BY DEF Init
  <1>3. first \in Frame
    BY <1>1 DEF Calm
  <1> HIDE DEF first
  <1>4. /\ work \in Seq(Calm(0)) /\ work \in Seq(Frame)
        /\ work # <<>> /\ Head(work) = first
    BY <1>1, <1>2, <1>3
  <1>5. WorkCalm
    BY <1>1, <1>2, <1>4 DEF WorkCalm, Pending
  <1>6. input \in Seq(STRING)
    BY InputsAssumption DEF Init
  <1>7. TypeOK
    BY <1>4, <1>6 DEF Init, TypeOK, Kind
  <1>8. NullsCalm
    BY DEF Init, NullsCalm
  <1> QED
    BY <1>5, <1>7, <1>8 DEF IInv

LEMMA StutterKeeps == ASSUME IInv, UNCHANGED vars PROVE IInv'
  <1>1. UNCHANGED <<input, pos, work, ret, messages, holes, crash>>
    BY DEF vars
  <1>2. CompoundRead(pos)' <=> CompoundRead(pos)
    BY <1>1 DEF CompoundRead
  <1>3. /\ Calm(pos)' = Calm(pos) /\ Calm(pos + 1)' = Calm(pos + 1)
        /\ Here(0)' = Here(0) /\ Pending' = Pending
    BY <1>1 DEF Calm, CompoundRead, Here, Pending
  <1>4. WorkCalm'
    BY <1>1, <1>3 DEF IInv, WorkCalm
  <1>5. TypeOK'
    BY <1>1 DEF IInv, TypeOK
  <1>6. NullsCalm'
    BY <1>1, <1>2 DEF IInv, NullsCalm
  <1> QED
    BY <1>4, <1>5, <1>6 DEF IInv

LEMMA NextKeeps == ASSUME IInv, Next PROVE IInv'
  BY ExpectKeeps, DeclarationsKeep, StatementsKeep, ExpressionsKeep, MakingKeep DEF Next

\* What no step of the parser breaks.
THEOREM Invariance == Spec => []IInv
  <1>1. Init => IInv
    BY InitIsCalm
  <1>2. IInv /\ [Next]_vars => IInv'
    BY NextKeeps, StutterKeeps
  <1> QED
    BY <1>1, <1>2, PTL DEF Spec

(***************************************************************************)
(* The variables keep their types, whatever the text: in particular next() *)
(* never takes the parser past the end of the tokens.                      *)
(***************************************************************************)
THEOREM TypeCorrect == Spec => []TypeOK
  BY Invariance, PTL DEF IInv

(***************************************************************************)
(* For every text: the tree holds a null pointer, or the parser falls on   *)
(* one, only if it has reported an error or has read a compound assignment.*)
(***************************************************************************)
THEOREM NullsAreExplained == Spec => []NullsExplained
  <1>1. IInv => NullsExplained
    <2> SUFFICES ASSUME IInv PROVE NullsExplained
      OBVIOUS
    <2>1. pos \in Nat
      BY PosIsNat DEF IInv
    <2> QED
      BY <2>1 DEF IInv, NullsCalm, NullsExplained, CompoundRead
  <1> QED
    BY <1>1, Invariance, PTL

HIDE InputsAssumption

----------------------------------------------------------------------------
(***************************************************************************)
(* Forms: the symbols that the rest of a text has to be, or the steps that *)
(* are left to do. Then(x, y) is the form y behind x, and a form that is   *)
(* written out is taken apart symbol by symbol.                            *)
(***************************************************************************)
\* A sequence over some set: no one set holds the sequences of all symbols.
IsForm(y) == \E S : y \in Seq(S)

Then(x, y) == <<x>> \o y

LEMMA ThenIs ==
  ASSUME NEW S, NEW x \in S, NEW y \in Seq(S)
  PROVE  /\ <<x>> \o y \in Seq(S) /\ Len(<<x>> \o y) = Len(y) + 1 /\ Len(y) \in Nat
         /\ (<<x>> \o y)[1] = x
         /\ \A i \in 1 .. Len(y) : (<<x>> \o y)[i + 1] = y[i]
  <1>1. PICK one : one = <<x>>
    OBVIOUS
  <1>2. one \in Seq(S) /\ Len(one) = 1 /\ one[1] = x
    BY <1>1
  <1>3. Len(y) \in Nat
    OBVIOUS
  <1> QED
    BY <1>1, <1>2, <1>3, ConcatProperties

LEMMA ThenIn ==
  ASSUME NEW S, NEW x \in S, NEW y \in Seq(S)
  PROVE  /\ Then(x, y) \in Seq(S) /\ Then(x, y) # <<>>
         /\ Head(Then(x, y)) = x /\ Tail(Then(x, y)) = y
  <1>1. PICK z : z = <<x>> \o y
    OBVIOUS
  <1>2. /\ z \in Seq(S) /\ Len(z) = Len(y) + 1 /\ Len(y) \in Nat
        /\ z[1] = x /\ \A i \in 1 .. Len(y) : z[i + 1] = y[i]
    BY <1>1, ThenIs
  <1>3. z # <<>> /\ Head(z) = x
    BY <1>2
  <1>4. Tail(z) \in Seq(S) /\ Len(Tail(z)) = Len(y) /\ \A i \in 1 .. Len(y) : Tail(z)[i] = y[i]
    BY <1>2, <1>3, HeadTailProperties
  <1>5. Tail(z) = y
    BY <1>4, SeqEqual
  <1> QED
    BY <1>1, <1>2, <1>3, <1>5 DEF Then

LEMMA ThenFacts ==
  ASSUME NEW x, NEW y, IsForm(y)
  PROVE  /\ IsForm(Then(x, y)) /\ Then(x, y) # <<>>
         /\ Head(Then(x, y)) = x /\ Tail(Then(x, y)) = y
  <1>1. PICK S : y \in Seq(S)
    BY DEF IsForm
  <1>2. PICK T : T = S \cup {x}
    OBVIOUS
  <1>3. x \in T /\ y \in Seq(T)
    BY <1>1, <1>2, SeqMonotone
  <1> QED
    BY <1>3, ThenIn DEF IsForm

LEMMA ThenThen ==
  ASSUME NEW x, NEW y, IsForm(y), NEW z, IsForm(z)
  PROVE  Then(x, y) \o z = Then(x, y \o z) /\ IsForm(y \o z)
  <1>1. PICK S, T : y \in Seq(S) /\ z \in Seq(T)
    BY DEF IsForm
  <1>2. PICK U : U = S \cup T \cup {x}
    OBVIOUS
  <1>3. x \in U /\ y \in Seq(U) /\ z \in Seq(U)
    BY <1>1, <1>2, SeqMonotone
  <1>4. PICK one : one = <<x>>
    OBVIOUS
  <1>5. one \in Seq(U)
    BY <1>3, <1>4
  <1>6. (one \o y) \o z = one \o (y \o z) /\ y \o z \in Seq(U)
    BY <1>3, <1>5, ConcatAssociative, ConcatProperties
  <1> QED
    BY <1>4, <1>6 DEF Then, IsForm

LEMMA Nothing ==
  /\ IsForm(<<>>)
  /\ \A y : IsForm(y) => <<>> \o y = y /\ y \o <<>> = y
  <1>1. <<>> \in Seq({})
    OBVIOUS
  <1> QED
    BY <1>1, ConcatEmptySeq DEF IsForm

\* Sequences that are written out, before a form.
LEMMA ChainOne ==
  ASSUME NEW a
  PROVE  /\ IsForm(<<a>>)
         /\ \A y : IsForm(y) => <<a>> \o y = Then(a, y)
  <1>1. <<a>> \in Seq({a})
    OBVIOUS
  <1> QED
    BY <1>1 DEF Then, IsForm

LEMMA ChainTwo ==
  ASSUME NEW a, NEW b
  PROVE  /\ IsForm(<<a, b>>)
         /\ \A y : IsForm(y) => <<a, b>> \o y = Then(a, Then(b, y))
  <1>1. PICK S : S = {a, b}
    OBVIOUS
  <1>2. a \in S /\ b \in S
    BY <1>1
  <1>3. PICK one, two : one = <<a>> /\ two = <<b>>
    OBVIOUS
  <1>4. /\ one \in Seq(S) /\ two \in Seq(S) /\ Len(one) = 1 /\ Len(two) = 1
        /\ one[1] = a /\ two[1] = b
    BY <1>2, <1>3
  <1>5. /\ one \o two \in Seq(S)
        /\ Len(one \o two) = 2
        /\ (one \o two)[1] = a
        /\ (one \o two)[2] = b
    BY <1>4, ConcatProperties
  <1>6. <<a, b>> = one \o two
    <2>1. PICK both : both = <<a, b>>
      OBVIOUS
    <2>2. both \in Seq(S) /\ Len(both) = 2 /\ both[1] = a /\ both[2] = b
      BY <1>2, <2>1
    <2>3. both = one \o two
      BY <1>5, <2>2, SeqEqual
    <2> QED
      BY <2>1, <2>3
  <1>7. <<a, b>> = Then(a, <<b>>)
    BY <1>3, <1>6 DEF Then
  <1>8. IsForm(<<b>>)
    BY ChainOne
  <1>9. PICK r : r = <<b>>
    OBVIOUS
  <1>10. IsForm(r) /\ <<a, b>> = Then(a, r) /\ \A y : IsForm(y) => r \o y = Then(b, y)
    BY <1>7, <1>8, <1>9, ChainOne
  <1>11. \A y : IsForm(y) => Then(a, r) \o y = Then(a, r \o y)
    <2>1. IsForm(r)
      BY <1>10
    <2> QED
      BY <2>1, ThenThen
  <1>12. IsForm(Then(a, r))
    BY <1>10, ThenFacts
  <1>13. PICK t : t = <<a, b>>
    OBVIOUS
  <1>14. t = Then(a, r)
    BY <1>10, <1>13
  <1>15. IsForm(t) /\ \A y : IsForm(y) => t \o y = Then(a, Then(b, y))
    <2>1. ASSUME NEW y, IsForm(y) PROVE t \o y = Then(a, Then(b, y))
      <3>1. t \o y = Then(a, r \o y)
        BY <1>11, <1>14, <2>1
      <3>2. r \o y = Then(b, y)
        BY <1>10, <2>1
      <3> QED
        BY <3>1, <3>2
    <2> QED
      BY <1>12, <1>14, <2>1
  <1> QED
    BY <1>13, <1>15

LEMMA ChainThree ==
  ASSUME NEW a, NEW b, NEW c
  PROVE  /\ IsForm(<<a, b, c>>)
         /\ \A y : IsForm(y) => <<a, b, c>> \o y = Then(a, Then(b, Then(c, y)))
  <1>1. PICK S : S = {a, b, c}
    OBVIOUS
  <1>2. a \in S /\ b \in S /\ c \in S
    BY <1>1
  <1>3. <<a, b, c>> = <<a>> \o <<b, c>>
    BY <1>2
  <1>4. <<a, b, c>> = Then(a, <<b, c>>)
    BY <1>3 DEF Then
  <1>5. IsForm(<<b, c>>)
    BY ChainTwo
  <1>6. PICK r : r = <<b, c>>
    OBVIOUS
  <1>7. /\ IsForm(r)
        /\ <<a, b, c>> = Then(a, r)
        /\ \A y : IsForm(y) => r \o y = Then(b, Then(c, y))
    BY <1>4, <1>5, <1>6, ChainTwo
  <1>8. \A y : IsForm(y) => Then(a, r) \o y = Then(a, r \o y)
    <2>1. IsForm(r)
      BY <1>7
    <2> QED
      BY <2>1, ThenThen
  <1>9. IsForm(Then(a, r))
    BY <1>7, ThenFacts
  <1>10. PICK t : t = <<a, b, c>>
    OBVIOUS
  <1>11. t = Then(a, r)
    BY <1>7, <1>10
  <1>12. IsForm(t) /\ \A y : IsForm(y) => t \o y = Then(a, Then(b, Then(c, y)))
    <2>1. ASSUME NEW y, IsForm(y) PROVE t \o y = Then(a, Then(b, Then(c, y)))
      <3>1. t \o y = Then(a, r \o y)
        BY <1>8, <1>11, <2>1
      <3>2. r \o y = Then(b, Then(c, y))
        BY <1>7, <2>1
      <3> QED
        BY <3>1, <3>2
    <2> QED
      BY <1>9, <1>11, <2>1
  <1> QED
    BY <1>10, <1>12

LEMMA ChainFour ==
  ASSUME NEW a, NEW b, NEW c, NEW d
  PROVE  /\ IsForm(<<a, b, c, d>>)
         /\ \A y : IsForm(y) => <<a, b, c, d>> \o y = Then(a, Then(b, Then(c, Then(d, y))))
  <1>1. PICK S : S = {a, b, c, d}
    OBVIOUS
  <1>2. a \in S /\ b \in S /\ c \in S /\ d \in S
    BY <1>1
  <1>3. <<a, b, c, d>> = <<a>> \o <<b, c, d>>
    BY <1>2
  <1>4. <<a, b, c, d>> = Then(a, <<b, c, d>>)
    BY <1>3 DEF Then
  <1>5. IsForm(<<b, c, d>>)
    BY ChainThree
  <1>6. PICK r : r = <<b, c, d>>
    OBVIOUS
  <1>7. /\ IsForm(r)
        /\ <<a, b, c, d>> = Then(a, r)
        /\ \A y : IsForm(y) => r \o y = Then(b, Then(c, Then(d, y)))
    BY <1>4, <1>5, <1>6, ChainThree
  <1>8. \A y : IsForm(y) => Then(a, r) \o y = Then(a, r \o y)
    <2>1. IsForm(r)
      BY <1>7
    <2> QED
      BY <2>1, ThenThen
  <1>9. IsForm(Then(a, r))
    BY <1>7, ThenFacts
  <1>10. PICK t : t = <<a, b, c, d>>
    OBVIOUS
  <1>11. t = Then(a, r)
    BY <1>7, <1>10
  <1>12. IsForm(t) /\ \A y : IsForm(y) => t \o y = Then(a, Then(b, Then(c, Then(d, y))))
    <2>1. ASSUME NEW y, IsForm(y) PROVE t \o y = Then(a, Then(b, Then(c, Then(d, y))))
      <3>1. t \o y = Then(a, r \o y)
        BY <1>8, <1>11, <2>1
      <3>2. r \o y = Then(b, Then(c, Then(d, y)))
        BY <1>7, <2>1
      <3> QED
        BY <3>1, <3>2
    <2> QED
      BY <1>9, <1>11, <2>1
  <1> QED
    BY <1>10, <1>12

LEMMA ChainFive ==
  ASSUME NEW a, NEW b, NEW c, NEW d, NEW e
  PROVE  /\ IsForm(<<a, b, c, d, e>>)
         /\ \A y :
              IsForm(y) =>
                <<a, b, c, d, e>> \o y = Then(a, Then(b, Then(c, Then(d, Then(e, y)))))
  <1>1. PICK S : S = {a, b, c, d, e}
    OBVIOUS
  <1>2. a \in S /\ b \in S /\ c \in S /\ d \in S /\ e \in S
    BY <1>1
  <1>3. <<a, b, c, d, e>> = <<a>> \o <<b, c, d, e>>
    BY <1>2
  <1>4. <<a, b, c, d, e>> = Then(a, <<b, c, d, e>>)
    BY <1>3 DEF Then
  <1>5. IsForm(<<b, c, d, e>>)
    BY ChainFour
  <1>6. PICK r : r = <<b, c, d, e>>
    OBVIOUS
  <1>7. /\ IsForm(r)
        /\ <<a, b, c, d, e>> = Then(a, r)
        /\ \A y : IsForm(y) => r \o y = Then(b, Then(c, Then(d, Then(e, y))))
    BY <1>4, <1>5, <1>6, ChainFour
  <1>8. \A y : IsForm(y) => Then(a, r) \o y = Then(a, r \o y)
    <2>1. IsForm(r)
      BY <1>7
    <2> QED
      BY <2>1, ThenThen
  <1>9. IsForm(Then(a, r))
    BY <1>7, ThenFacts
  <1>10. PICK t : t = <<a, b, c, d, e>>
    OBVIOUS
  <1>11. t = Then(a, r)
    BY <1>7, <1>10
  <1>12. /\ IsForm(t)
         /\ \A y : IsForm(y) => t \o y = Then(a, Then(b, Then(c, Then(d, Then(e, y)))))
    <2>1. ASSUME NEW y, IsForm(y) PROVE t \o y = Then(a, Then(b, Then(c, Then(d, Then(e, y)))))
      <3>1. t \o y = Then(a, r \o y)
        BY <1>8, <1>11, <2>1
      <3>2. r \o y = Then(b, Then(c, Then(d, Then(e, y))))
        BY <1>7, <2>1
      <3> QED
        BY <3>1, <3>2
    <2> QED
      BY <1>9, <1>11, <2>1
  <1> QED
    BY <1>10, <1>12

LEMMA ChainSix ==
  ASSUME NEW a, NEW b, NEW c, NEW d, NEW e, NEW f
  PROVE  /\ IsForm(<<a, b, c, d, e, f>>)
         /\ \A y :
              IsForm(y) =>
                <<a, b, c, d, e, f>> \o y =
                    Then(a, Then(b, Then(c, Then(d, Then(e, Then(f, y))))))
  <1>1. PICK S : S = {a, b, c, d, e, f}
    OBVIOUS
  <1>2. a \in S /\ b \in S /\ c \in S /\ d \in S /\ e \in S /\ f \in S
    BY <1>1
  <1>3. <<a, b, c, d, e, f>> = <<a>> \o <<b, c, d, e, f>>
    BY <1>2
  <1>4. <<a, b, c, d, e, f>> = Then(a, <<b, c, d, e, f>>)
    BY <1>3 DEF Then
  <1>5. IsForm(<<b, c, d, e, f>>)
    BY ChainFive
  <1>6. PICK r : r = <<b, c, d, e, f>>
    OBVIOUS
  <1>7. /\ IsForm(r)
        /\ <<a, b, c, d, e, f>> = Then(a, r)
        /\ \A y : IsForm(y) => r \o y = Then(b, Then(c, Then(d, Then(e, Then(f, y)))))
    BY <1>4, <1>5, <1>6, ChainFive
  <1>8. \A y : IsForm(y) => Then(a, r) \o y = Then(a, r \o y)
    <2>1. IsForm(r)
      BY <1>7
    <2> QED
      BY <2>1, ThenThen
  <1>9. IsForm(Then(a, r))
    BY <1>7, ThenFacts
  <1>10. PICK t : t = <<a, b, c, d, e, f>>
    OBVIOUS
  <1>11. t = Then(a, r)
    BY <1>7, <1>10
  <1>12. /\ IsForm(t)
         /\ \A y : IsForm(y) => t \o y = Then(a, Then(b, Then(c, Then(d, Then(e, Then(f, y))))))
    <2>1. ASSUME NEW y, IsForm(y)
          PROVE  t \o y = Then(a, Then(b, Then(c, Then(d, Then(e, Then(f, y))))))
      <3>1. t \o y = Then(a, r \o y)
        BY <1>8, <1>11, <2>1
      <3>2. r \o y = Then(b, Then(c, Then(d, Then(e, Then(f, y)))))
        BY <1>7, <2>1
      <3> QED
        BY <3>1, <3>2
    <2> QED
      BY <1>9, <1>11, <2>1
  <1> QED
    BY <1>10, <1>12

LEMMA ChainSeven ==
  ASSUME NEW a, NEW b, NEW c, NEW d, NEW e, NEW f, NEW g
  PROVE  /\ IsForm(<<a, b, c, d, e, f, g>>)
         /\ \A y :
              IsForm(y) =>
                <<a, b, c, d, e, f, g>> \o y =
                    Then(a, Then(b, Then(c, Then(d, Then(e, Then(f, Then(g, y)))))))
  <1>1. PICK S : S = {a, b, c, d, e, f, g}
    OBVIOUS
  <1>2. a \in S /\ b \in S /\ c \in S /\ d \in S /\ e \in S /\ f \in S /\ g \in S
    BY <1>1
  <1>3. <<a, b, c, d, e, f, g>> = <<a>> \o <<b, c, d, e, f, g>>
    BY <1>2
  <1>4. <<a, b, c, d, e, f, g>> = Then(a, <<b, c, d, e, f, g>>)
    BY <1>3 DEF Then
  <1>5. IsForm(<<b, c, d, e, f, g>>)
    BY ChainSix
  <1>6. PICK r : r = <<b, c, d, e, f, g>>
    OBVIOUS
  <1>7. /\ IsForm(r)
        /\ <<a, b, c, d, e, f, g>> = Then(a, r)
        /\ \A y : IsForm(y) => r \o y = Then(b, Then(c, Then(d, Then(e, Then(f, Then(g, y))))))
    BY <1>4, <1>5, <1>6, ChainSix
  <1>8. \A y : IsForm(y) => Then(a, r) \o y = Then(a, r \o y)
    <2>1. IsForm(r)
      BY <1>7
    <2> QED
      BY <2>1, ThenThen
  <1>9. IsForm(Then(a, r))
    BY <1>7, ThenFacts
  <1>10. PICK t : t = <<a, b, c, d, e, f, g>>
    OBVIOUS
  <1>11. t = Then(a, r)
    BY <1>7, <1>10
  <1>12. /\ IsForm(t)
         /\ \A y :
              IsForm(y) =>
                t \o y = Then(a, Then(b, Then(c, Then(d, Then(e, Then(f, Then(g, y)))))))
    <2>1. ASSUME NEW y, IsForm(y)
          PROVE  t \o y = Then(a, Then(b, Then(c, Then(d, Then(e, Then(f, Then(g, y)))))))
      <3>1. t \o y = Then(a, r \o y)
        BY <1>8, <1>11, <2>1
      <3>2. r \o y = Then(b, Then(c, Then(d, Then(e, Then(f, Then(g, y))))))
        BY <1>7, <2>1
      <3> QED
        BY <3>1, <3>2
    <2> QED
      BY <1>9, <1>11, <2>1
  <1> QED
    BY <1>10, <1>12

LEMMA ChainEight ==
  ASSUME NEW a, NEW b, NEW c, NEW d, NEW e, NEW f, NEW g, NEW h
  PROVE  /\ IsForm(<<a, b, c, d, e, f, g, h>>)
         /\ \A y :
              IsForm(y) =>
                <<a, b, c, d, e, f, g, h>> \o y =
                    Then(a, Then(b, Then(c, Then(d, Then(e, Then(f, Then(g, Then(h, y))))))))
  <1>1. PICK S : S = {a, b, c, d, e, f, g, h}
    OBVIOUS
  <1>2. a \in S /\ b \in S /\ c \in S /\ d \in S /\ e \in S /\ f \in S /\ g \in S /\ h \in S
    BY <1>1
  <1>3. <<a, b, c, d, e, f, g, h>> = <<a>> \o <<b, c, d, e, f, g, h>>
    BY <1>2
  <1>4. <<a, b, c, d, e, f, g, h>> = Then(a, <<b, c, d, e, f, g, h>>)
    BY <1>3 DEF Then
  <1>5. IsForm(<<b, c, d, e, f, g, h>>)
    BY ChainSeven
  <1>6. PICK r : r = <<b, c, d, e, f, g, h>>
    OBVIOUS
  <1>7. /\ IsForm(r)
        /\ <<a, b, c, d, e, f, g, h>> = Then(a, r)
        /\ \A y :
             IsForm(y) =>
               r \o y = Then(b, Then(c, Then(d, Then(e, Then(f, Then(g, Then(h, y)))))))
    BY <1>4, <1>5, <1>6, ChainSeven
  <1>8. \A y : IsForm(y) => Then(a, r) \o y = Then(a, r \o y)
    <2>1. IsForm(r)
      BY <1>7
    <2> QED
      BY <2>1, ThenThen
  <1>9. IsForm(Then(a, r))
    BY <1>7, ThenFacts
  <1>10. PICK t : t = <<a, b, c, d, e, f, g, h>>
    OBVIOUS
  <1>11. t = Then(a, r)
    BY <1>7, <1>10
  <1>12. /\ IsForm(t)
         /\ \A y :
              IsForm(y) =>
                t \o y =
                    Then(a, Then(b, Then(c, Then(d, Then(e, Then(f, Then(g, Then(h, y))))))))
    <2>1. ASSUME NEW y, IsForm(y)
          PROVE  t \o y =
                     Then(a, Then(b, Then(c, Then(d, Then(e, Then(f, Then(g, Then(h, y))))))))
      <3>1. t \o y = Then(a, r \o y)
        BY <1>8, <1>11, <2>1
      <3>2. r \o y = Then(b, Then(c, Then(d, Then(e, Then(f, Then(g, Then(h, y)))))))
        BY <1>7, <2>1
      <3> QED
        BY <3>1, <3>2
    <2> QED
      BY <1>9, <1>11, <2>1
  <1> QED
    BY <1>10, <1>12

LEMMA ChainNine ==
  ASSUME NEW a, NEW b, NEW c, NEW d, NEW e, NEW f, NEW g, NEW h, NEW i
  PROVE  /\ IsForm(<<a, b, c, d, e, f, g, h, i>>)
         /\ \A y :
              IsForm(y) =>
                <<a, b, c, d, e, f, g, h, i>> \o y =
                    Then(a, Then(b, Then(c, Then(d, Then(e, Then(f, Then(g, Then(h,
                      Then(i, y)))))))))
  <1>1. PICK S : S = {a, b, c, d, e, f, g, h, i}
    OBVIOUS
  <1>2. /\ a \in S
        /\ b \in S
        /\ c \in S
        /\ d \in S
        /\ e \in S
        /\ f \in S
        /\ g \in S
        /\ h \in S
        /\ i \in S
    BY <1>1
  <1>3. <<a, b, c, d, e, f, g, h, i>> = <<a>> \o <<b, c, d, e, f, g, h, i>>
    BY <1>2
  <1>4. <<a, b, c, d, e, f, g, h, i>> = Then(a, <<b, c, d, e, f, g, h, i>>)
    BY <1>3 DEF Then
  <1>5. IsForm(<<b, c, d, e, f, g, h, i>>)
    BY ChainEight
  <1>6. PICK r : r = <<b, c, d, e, f, g, h, i>>
    OBVIOUS
  <1>7. /\ IsForm(r)
        /\ <<a, b, c, d, e, f, g, h, i>> = Then(a, r)
        /\ \A y :
             IsForm(y) =>
               r \o y =
                   Then(b, Then(c, Then(d, Then(e, Then(f, Then(g, Then(h, Then(i, y))))))))
    BY <1>4, <1>5, <1>6, ChainEight
  <1>8. \A y : IsForm(y) => Then(a, r) \o y = Then(a, r \o y)
    <2>1. IsForm(r)
      BY <1>7
    <2> QED
      BY <2>1, ThenThen
  <1>9. IsForm(Then(a, r))
    BY <1>7, ThenFacts
  <1>10. PICK t : t = <<a, b, c, d, e, f, g, h, i>>
    OBVIOUS
  <1>11. t = Then(a, r)
    BY <1>7, <1>10
  <1>12. /\ IsForm(t)
         /\ \A y :
              IsForm(y) =>
                t \o y =
                    Then(a, Then(b, Then(c, Then(d, Then(e, Then(f, Then(g, Then(h,
                      Then(i, y)))))))))
    <2>1. ASSUME NEW y, IsForm(y)
          PROVE  t \o y =
                     Then(a, Then(b, Then(c, Then(d, Then(e, Then(f, Then(g, Then(h,
                       Then(i, y)))))))))
      <3>1. t \o y = Then(a, r \o y)
        BY <1>8, <1>11, <2>1
      <3>2. r \o y = Then(b, Then(c, Then(d, Then(e, Then(f, Then(g, Then(h, Then(i, y))))))))
        BY <1>7, <2>1
      <3> QED
        BY <3>1, <3>2
    <2> QED
      BY <1>9, <1>11, <2>1
  <1> QED
    BY <1>10, <1>12

----------------------------------------------------------------------------
(***************************************************************************)
(* The forms that a nonterminal before the form y may be replaced by.      *)
(***************************************************************************)
Choices(x, y) == {a \o y : a \in Alternatives[x]}

LEMMA Choices_document ==
  ASSUME NEW y, IsForm(y)
  PROVE  /\ "document" \in DOMAIN Alternatives
         /\ Choices("document", y) =
                {y,
                 Then("FUNCTION", Then("IDENT", Then("OPEN_PAREN", Then("params",
                   Then("CLOSE_PAREN", Then("COLON", Then("type", Then("body",
                   Then("document", y))))))))),
                 Then("STRUCT", Then("IDENT", Then("OPEN_BRACE", Then("fields",
                   Then("CLOSE_BRACE", Then("document", y)))))),
                 Then("IMPORT", Then("STRING", Then("document", y)))}
         /\ \A a \in Alternatives["document"] : IsForm(a)
  <1>1. /\ "document" \in DOMAIN Alternatives
        /\ Alternatives["document"] =
               {<<>>,
                <<"FUNCTION", "IDENT", "OPEN_PAREN", "params", "CLOSE_PAREN", "COLON", "type",
                  "body", "document">>,
                <<"STRUCT", "IDENT", "OPEN_BRACE", "fields", "CLOSE_BRACE", "document">>,
                <<"IMPORT", "STRING", "document">>}
    BY DEF Alternatives
  <1>2. IsForm(<<>>) /\ <<>> \o y = y
    BY Nothing
  <1>3. /\ IsForm(<<"FUNCTION", "IDENT", "OPEN_PAREN", "params", "CLOSE_PAREN", "COLON", "type",
                    "body", "document">>)
        /\ <<"FUNCTION", "IDENT", "OPEN_PAREN", "params", "CLOSE_PAREN", "COLON", "type",
             "body", "document">> \o y =
               Then("FUNCTION", Then("IDENT", Then("OPEN_PAREN", Then("params",
                 Then("CLOSE_PAREN", Then("COLON", Then("type", Then("body",
                 Then("document", y)))))))))
    BY ChainNine
  <1>4. /\ IsForm(<<"STRUCT", "IDENT", "OPEN_BRACE", "fields", "CLOSE_BRACE", "document">>)
        /\ <<"STRUCT", "IDENT", "OPEN_BRACE", "fields", "CLOSE_BRACE", "document">> \o y =
               Then("STRUCT", Then("IDENT", Then("OPEN_BRACE", Then("fields",
                 Then("CLOSE_BRACE", Then("document", y))))))
    BY ChainSix
  <1>5. /\ IsForm(<<"IMPORT", "STRING", "document">>)
        /\ <<"IMPORT", "STRING", "document">> \o y =
               Then("IMPORT", Then("STRING", Then("document", y)))
    BY ChainThree
  <1> QED
    BY <1>1, <1>2, <1>3, <1>4, <1>5 DEF Choices

LEMMA Choices_params ==
  ASSUME NEW y, IsForm(y)
  PROVE  /\ "params" \in DOMAIN Alternatives
         /\ Choices("params", y) =
                {y, Then("IDENT", Then("COLON", Then("type", Then("more", y))))}
         /\ \A a \in Alternatives["params"] : IsForm(a)
  <1>1. /\ "params" \in DOMAIN Alternatives
        /\ Alternatives["params"] = {<<>>, <<"IDENT", "COLON", "type", "more">>}
    BY DEF Alternatives
  <1>2. IsForm(<<>>) /\ <<>> \o y = y
    BY Nothing
  <1>3. /\ IsForm(<<"IDENT", "COLON", "type", "more">>)
        /\ <<"IDENT", "COLON", "type", "more">> \o y =
               Then("IDENT", Then("COLON", Then("type", Then("more", y))))
    BY ChainFour
  <1> QED
    BY <1>1, <1>2, <1>3 DEF Choices

LEMMA Choices_more ==
  ASSUME NEW y, IsForm(y)
  PROVE  /\ "more" \in DOMAIN Alternatives
         /\ Choices("more", y) = {y, Then("COMMA", Then("params", y))}
         /\ \A a \in Alternatives["more"] : IsForm(a)
  <1>1. "more" \in DOMAIN Alternatives /\ Alternatives["more"] = {<<>>, <<"COMMA", "params">>}
    BY DEF Alternatives
  <1>2. IsForm(<<>>) /\ <<>> \o y = y
    BY Nothing
  <1>3. /\ IsForm(<<"COMMA", "params">>)
        /\ <<"COMMA", "params">> \o y = Then("COMMA", Then("params", y))
    BY ChainTwo
  <1> QED
    BY <1>1, <1>2, <1>3 DEF Choices

LEMMA Choices_fields ==
  ASSUME NEW y, IsForm(y)
  PROVE  /\ "fields" \in DOMAIN Alternatives
         /\ Choices("fields", y) =
                {y,
                 Then("IDENT", Then("COLON", Then("type", Then("SEMICOLON",
                   Then("fields", y)))))}
         /\ \A a \in Alternatives["fields"] : IsForm(a)
  <1>1. /\ "fields" \in DOMAIN Alternatives
        /\ Alternatives["fields"] = {<<>>, <<"IDENT", "COLON", "type", "SEMICOLON", "fields">>}
    BY DEF Alternatives
  <1>2. IsForm(<<>>) /\ <<>> \o y = y
    BY Nothing
  <1>3. /\ IsForm(<<"IDENT", "COLON", "type", "SEMICOLON", "fields">>)
        /\ <<"IDENT", "COLON", "type", "SEMICOLON", "fields">> \o y =
               Then("IDENT", Then("COLON", Then("type", Then("SEMICOLON", Then("fields", y)))))
    BY ChainFive
  <1> QED
    BY <1>1, <1>2, <1>3 DEF Choices

LEMMA Choices_type ==
  ASSUME NEW y, IsForm(y)
  PROVE  /\ "type" \in DOMAIN Alternatives
         /\ Choices("type", y) = {Then("IDENT", Then("stars", y))}
         /\ \A a \in Alternatives["type"] : IsForm(a)
  <1>1. "type" \in DOMAIN Alternatives /\ Alternatives["type"] = {<<"IDENT", "stars">>}
    BY DEF Alternatives
  <1>2. /\ IsForm(<<"IDENT", "stars">>)
        /\ <<"IDENT", "stars">> \o y = Then("IDENT", Then("stars", y))
    BY ChainTwo
  <1> QED
    BY <1>1, <1>2 DEF Choices

LEMMA Choices_stars ==
  ASSUME NEW y, IsForm(y)
  PROVE  /\ "stars" \in DOMAIN Alternatives
         /\ Choices("stars", y) = {y, Then("MUL", Then("stars", y))}
         /\ \A a \in Alternatives["stars"] : IsForm(a)
  <1>1. "stars" \in DOMAIN Alternatives /\ Alternatives["stars"] = {<<>>, <<"MUL", "stars">>}
    BY DEF Alternatives
  <1>2. IsForm(<<>>) /\ <<>> \o y = y
    BY Nothing
  <1>3. IsForm(<<"MUL", "stars">>) /\ <<"MUL", "stars">> \o y = Then("MUL", Then("stars", y))
    BY ChainTwo
  <1> QED
    BY <1>1, <1>2, <1>3 DEF Choices

LEMMA Choices_body ==
  ASSUME NEW y, IsForm(y)
  PROVE  /\ "body" \in DOMAIN Alternatives
         /\ Choices("body", y) = {Then("SEMICOLON", y), Then("block", y)}
         /\ \A a \in Alternatives["body"] : IsForm(a)
  <1>1. "body" \in DOMAIN Alternatives /\ Alternatives["body"] = {<<"SEMICOLON">>, <<"block">>}
    BY DEF Alternatives
  <1>2. IsForm(<<"SEMICOLON">>) /\ <<"SEMICOLON">> \o y = Then("SEMICOLON", y)
    BY ChainOne
  <1>3. IsForm(<<"block">>) /\ <<"block">> \o y = Then("block", y)
    BY ChainOne
  <1> QED
    BY <1>1, <1>2, <1>3 DEF Choices

LEMMA Choices_block ==
  ASSUME NEW y, IsForm(y)
  PROVE  /\ "block" \in DOMAIN Alternatives
         /\ Choices("block", y) =
                {Then("OPEN_BRACE", Then("statements", Then("CLOSE_BRACE", y)))}
         /\ \A a \in Alternatives["block"] : IsForm(a)
  <1>1. /\ "block" \in DOMAIN Alternatives
        /\ Alternatives["block"] = {<<"OPEN_BRACE", "statements", "CLOSE_BRACE">>}
    BY DEF Alternatives
  <1>2. /\ IsForm(<<"OPEN_BRACE", "statements", "CLOSE_BRACE">>)
        /\ <<"OPEN_BRACE", "statements", "CLOSE_BRACE">> \o y =
               Then("OPEN_BRACE", Then("statements", Then("CLOSE_BRACE", y)))
    BY ChainThree
  <1> QED
    BY <1>1, <1>2 DEF Choices

LEMMA Choices_statements ==
  ASSUME NEW y, IsForm(y)
  PROVE  /\ "statements" \in DOMAIN Alternatives
         /\ Choices("statements", y) = {y, Then("statement", Then("statements", y))}
         /\ \A a \in Alternatives["statements"] : IsForm(a)
  <1>1. /\ "statements" \in DOMAIN Alternatives
        /\ Alternatives["statements"] = {<<>>, <<"statement", "statements">>}
    BY DEF Alternatives
  <1>2. IsForm(<<>>) /\ <<>> \o y = y
    BY Nothing
  <1>3. /\ IsForm(<<"statement", "statements">>)
        /\ <<"statement", "statements">> \o y = Then("statement", Then("statements", y))
    BY ChainTwo
  <1> QED
    BY <1>1, <1>2, <1>3 DEF Choices

LEMMA Choices_statement ==
  ASSUME NEW y, IsForm(y)
  PROVE  /\ "statement" \in DOMAIN Alternatives
         /\ Choices("statement", y) =
                {Then("simple", Then("semicolon", y)), Then("RETURN", Then("result", y))}
         /\ \A a \in Alternatives["statement"] : IsForm(a)
  <1>1. /\ "statement" \in DOMAIN Alternatives
        /\ Alternatives["statement"] = {<<"simple", "semicolon">>, <<"RETURN", "result">>}
    BY DEF Alternatives
  <1>2. /\ IsForm(<<"simple", "semicolon">>)
        /\ <<"simple", "semicolon">> \o y = Then("simple", Then("semicolon", y))
    BY ChainTwo
  <1>3. /\ IsForm(<<"RETURN", "result">>)
        /\ <<"RETURN", "result">> \o y = Then("RETURN", Then("result", y))
    BY ChainTwo
  <1> QED
    BY <1>1, <1>2, <1>3 DEF Choices

LEMMA Choices_semicolon ==
  ASSUME NEW y, IsForm(y)
  PROVE  /\ "semicolon" \in DOMAIN Alternatives
         /\ Choices("semicolon", y) = {y, Then("SEMICOLON", y)}
         /\ \A a \in Alternatives["semicolon"] : IsForm(a)
  <1>1. /\ "semicolon" \in DOMAIN Alternatives
        /\ Alternatives["semicolon"] = {<<>>, <<"SEMICOLON">>}
    BY DEF Alternatives
  <1>2. IsForm(<<>>) /\ <<>> \o y = y
    BY Nothing
  <1>3. IsForm(<<"SEMICOLON">>) /\ <<"SEMICOLON">> \o y = Then("SEMICOLON", y)
    BY ChainOne
  <1> QED
    BY <1>1, <1>2, <1>3 DEF Choices

LEMMA Choices_result ==
  ASSUME NEW y, IsForm(y)
  PROVE  /\ "result" \in DOMAIN Alternatives
         /\ Choices("result", y) =
                {Then("SEMICOLON", y), Then("expression", Then("semicolon", y))}
         /\ \A a \in Alternatives["result"] : IsForm(a)
  <1>1. /\ "result" \in DOMAIN Alternatives
        /\ Alternatives["result"] = {<<"SEMICOLON">>, <<"expression", "semicolon">>}
    BY DEF Alternatives
  <1>2. IsForm(<<"SEMICOLON">>) /\ <<"SEMICOLON">> \o y = Then("SEMICOLON", y)
    BY ChainOne
  <1>3. /\ IsForm(<<"expression", "semicolon">>)
        /\ <<"expression", "semicolon">> \o y = Then("expression", Then("semicolon", y))
    BY ChainTwo
  <1> QED
    BY <1>1, <1>2, <1>3 DEF Choices

LEMMA Choices_init ==
  ASSUME NEW y, IsForm(y)
  PROVE  /\ "init" \in DOMAIN Alternatives
         /\ Choices("init", y) =
                {Then("simple", Then("SEMICOLON", y)), Then("RETURN", Then("ended", y))}
         /\ \A a \in Alternatives["init"] : IsForm(a)
  <1>1. /\ "init" \in DOMAIN Alternatives
        /\ Alternatives["init"] = {<<"simple", "SEMICOLON">>, <<"RETURN", "ended">>}
    BY DEF Alternatives
  <1>2. /\ IsForm(<<"simple", "SEMICOLON">>)
        /\ <<"simple", "SEMICOLON">> \o y = Then("simple", Then("SEMICOLON", y))
    BY ChainTwo
  <1>3. /\ IsForm(<<"RETURN", "ended">>)
        /\ <<"RETURN", "ended">> \o y = Then("RETURN", Then("ended", y))
    BY ChainTwo
  <1> QED
    BY <1>1, <1>2, <1>3 DEF Choices

LEMMA Choices_ended ==
  ASSUME NEW y, IsForm(y)
  PROVE  /\ "ended" \in DOMAIN Alternatives
         /\ Choices("ended", y) =
                {Then("SEMICOLON", y), Then("expression", Then("SEMICOLON", y))}
         /\ \A a \in Alternatives["ended"] : IsForm(a)
  <1>1. /\ "ended" \in DOMAIN Alternatives
        /\ Alternatives["ended"] = {<<"SEMICOLON">>, <<"expression", "SEMICOLON">>}
    BY DEF Alternatives
  <1>2. IsForm(<<"SEMICOLON">>) /\ <<"SEMICOLON">> \o y = Then("SEMICOLON", y)
    BY ChainOne
  <1>3. /\ IsForm(<<"expression", "SEMICOLON">>)
        /\ <<"expression", "SEMICOLON">> \o y = Then("expression", Then("SEMICOLON", y))
    BY ChainTwo
  <1> QED
    BY <1>1, <1>2, <1>3 DEF Choices

LEMMA Choices_simple ==
  ASSUME NEW y, IsForm(y)
  PROVE  /\ "simple" \in DOMAIN Alternatives
         /\ Choices("simple", y) =
                {Then("expression", y), Then("arms", y),
                 Then("LET", Then("IDENT", Then("COLON", Then("type", Then("value", y))))),
                 Then("WHILE", Then("OPEN_PAREN", Then("expression", Then("CLOSE_PAREN",
                   Then("block", y))))),
                 Then("FOR", Then("OPEN_PAREN", Then("init", Then("expression",
                   Then("SEMICOLON", Then("expression", Then("CLOSE_PAREN",
                   Then("block", y))))))))}
         /\ \A a \in Alternatives["simple"] : IsForm(a)
  <1>1. /\ "simple" \in DOMAIN Alternatives
        /\ Alternatives["simple"] =
               {<<"expression">>, <<"arms">>, <<"LET", "IDENT", "COLON", "type", "value">>,
                <<"WHILE", "OPEN_PAREN", "expression", "CLOSE_PAREN", "block">>,
                <<"FOR", "OPEN_PAREN", "init", "expression", "SEMICOLON", "expression",
                  "CLOSE_PAREN", "block">>}
    BY DEF Alternatives
  <1>2. IsForm(<<"expression">>) /\ <<"expression">> \o y = Then("expression", y)
    BY ChainOne
  <1>3. IsForm(<<"arms">>) /\ <<"arms">> \o y = Then("arms", y)
    BY ChainOne
  <1>4. /\ IsForm(<<"LET", "IDENT", "COLON", "type", "value">>)
        /\ <<"LET", "IDENT", "COLON", "type", "value">> \o y =
               Then("LET", Then("IDENT", Then("COLON", Then("type", Then("value", y)))))
    BY ChainFive
  <1>5. /\ IsForm(<<"WHILE", "OPEN_PAREN", "expression", "CLOSE_PAREN", "block">>)
        /\ <<"WHILE", "OPEN_PAREN", "expression", "CLOSE_PAREN", "block">> \o y =
               Then("WHILE", Then("OPEN_PAREN", Then("expression", Then("CLOSE_PAREN",
                 Then("block", y)))))
    BY ChainFive
  <1>6. /\ IsForm(<<"FOR", "OPEN_PAREN", "init", "expression", "SEMICOLON", "expression",
                    "CLOSE_PAREN", "block">>)
        /\ <<"FOR", "OPEN_PAREN", "init", "expression", "SEMICOLON", "expression",
             "CLOSE_PAREN", "block">> \o y =
               Then("FOR", Then("OPEN_PAREN", Then("init", Then("expression", Then("SEMICOLON",
                 Then("expression", Then("CLOSE_PAREN", Then("block", y))))))))
    BY ChainEight
  <1> QED
    BY <1>1, <1>2, <1>3, <1>4, <1>5, <1>6 DEF Choices

LEMMA Choices_arms ==
  ASSUME NEW y, IsForm(y)
  PROVE  /\ "arms" \in DOMAIN Alternatives
         /\ Choices("arms", y) =
                {Then("IF", Then("OPEN_PAREN", Then("expression", Then("CLOSE_PAREN",
                   Then("block", Then("others", y))))))}
         /\ \A a \in Alternatives["arms"] : IsForm(a)
  <1>1. /\ "arms" \in DOMAIN Alternatives
        /\ Alternatives["arms"] =
               {<<"IF", "OPEN_PAREN", "expression", "CLOSE_PAREN", "block", "others">>}
    BY DEF Alternatives
  <1>2. /\ IsForm(<<"IF", "OPEN_PAREN", "expression", "CLOSE_PAREN", "block", "others">>)
        /\ <<"IF", "OPEN_PAREN", "expression", "CLOSE_PAREN", "block", "others">> \o y =
               Then("IF", Then("OPEN_PAREN", Then("expression", Then("CLOSE_PAREN",
                 Then("block", Then("others", y))))))
    BY ChainSix
  <1> QED
    BY <1>1, <1>2 DEF Choices

LEMMA Choices_others ==
  ASSUME NEW y, IsForm(y)
  PROVE  /\ "others" \in DOMAIN Alternatives
         /\ Choices("others", y) =
                {y, Then("ELSE", Then("arms", y)), Then("ELSE", Then("block", y))}
         /\ \A a \in Alternatives["others"] : IsForm(a)
  <1>1. /\ "others" \in DOMAIN Alternatives
        /\ Alternatives["others"] = {<<>>, <<"ELSE", "arms">>, <<"ELSE", "block">>}
    BY DEF Alternatives
  <1>2. IsForm(<<>>) /\ <<>> \o y = y
    BY Nothing
  <1>3. IsForm(<<"ELSE", "arms">>) /\ <<"ELSE", "arms">> \o y = Then("ELSE", Then("arms", y))
    BY ChainTwo
  <1>4. IsForm(<<"ELSE", "block">>) /\ <<"ELSE", "block">> \o y = Then("ELSE", Then("block", y))
    BY ChainTwo
  <1> QED
    BY <1>1, <1>2, <1>3, <1>4 DEF Choices

LEMMA Choices_value ==
  ASSUME NEW y, IsForm(y)
  PROVE  /\ "value" \in DOMAIN Alternatives
         /\ Choices("value", y) = {y, Then("EQ", Then("expression", y))}
         /\ \A a \in Alternatives["value"] : IsForm(a)
  <1>1. /\ "value" \in DOMAIN Alternatives
        /\ Alternatives["value"] = {<<>>, <<"EQ", "expression">>}
    BY DEF Alternatives
  <1>2. IsForm(<<>>) /\ <<>> \o y = y
    BY Nothing
  <1>3. /\ IsForm(<<"EQ", "expression">>)
        /\ <<"EQ", "expression">> \o y = Then("EQ", Then("expression", y))
    BY ChainTwo
  <1> QED
    BY <1>1, <1>2, <1>3 DEF Choices

LEMMA Choices_expression ==
  ASSUME NEW y, IsForm(y)
  PROVE  /\ "expression" \in DOMAIN Alternatives
         /\ Choices("expression", y) = {Then("operand", Then("operations", y))}
         /\ \A a \in Alternatives["expression"] : IsForm(a)
  <1>1. /\ "expression" \in DOMAIN Alternatives
        /\ Alternatives["expression"] = {<<"operand", "operations">>}
    BY DEF Alternatives
  <1>2. /\ IsForm(<<"operand", "operations">>)
        /\ <<"operand", "operations">> \o y = Then("operand", Then("operations", y))
    BY ChainTwo
  <1> QED
    BY <1>1, <1>2 DEF Choices

LEMMA Choices_members ==
  ASSUME NEW y, IsForm(y)
  PROVE  /\ "members" \in DOMAIN Alternatives
         /\ Choices("members", y) =
                {y, Then("DOT", Then("IDENT", Then("members", y))),
                 Then("SUB_GT", Then("IDENT", Then("members", y)))}
         /\ \A a \in Alternatives["members"] : IsForm(a)
  <1>1. /\ "members" \in DOMAIN Alternatives
        /\ Alternatives["members"] =
               {<<>>, <<"DOT", "IDENT", "members">>, <<"SUB_GT", "IDENT", "members">>}
    BY DEF Alternatives
  <1>2. IsForm(<<>>) /\ <<>> \o y = y
    BY Nothing
  <1>3. /\ IsForm(<<"DOT", "IDENT", "members">>)
        /\ <<"DOT", "IDENT", "members">> \o y = Then("DOT", Then("IDENT", Then("members", y)))
    BY ChainThree
  <1>4. /\ IsForm(<<"SUB_GT", "IDENT", "members">>)
        /\ <<"SUB_GT", "IDENT", "members">> \o y =
               Then("SUB_GT", Then("IDENT", Then("members", y)))
    BY ChainThree
  <1> QED
    BY <1>1, <1>2, <1>3, <1>4 DEF Choices

LEMMA Choices_primary ==
  ASSUME NEW y, IsForm(y)
  PROVE  /\ "primary" \in DOMAIN Alternatives
         /\ Choices("primary", y) =
                {Then("INT", y), Then("FLOAT", y), Then("STRING", y), Then("IDENT", y),
                 Then("OPEN_PAREN", Then("expression", Then("CLOSE_PAREN", y))),
                 Then("IDENT", Then("OPEN_PAREN", Then("arguments", Then("CLOSE_PAREN", y)))),
                 Then("IDENT", Then("OPEN_SQUARE", Then("expression", Then("CLOSE_SQUARE", y)))),
                 Then("IDENT", Then("OPEN_BRACE", Then("inits", Then("CLOSE_BRACE", y))))}
         /\ \A a \in Alternatives["primary"] : IsForm(a)
  <1>1. /\ "primary" \in DOMAIN Alternatives
        /\ Alternatives["primary"] =
               {<<"INT">>, <<"FLOAT">>, <<"STRING">>, <<"IDENT">>,
                <<"OPEN_PAREN", "expression", "CLOSE_PAREN">>,
                <<"IDENT", "OPEN_PAREN", "arguments", "CLOSE_PAREN">>,
                <<"IDENT", "OPEN_SQUARE", "expression", "CLOSE_SQUARE">>,
                <<"IDENT", "OPEN_BRACE", "inits", "CLOSE_BRACE">>}
    BY DEF Alternatives
  <1>2. IsForm(<<"INT">>) /\ <<"INT">> \o y = Then("INT", y)
    BY ChainOne
  <1>3. IsForm(<<"FLOAT">>) /\ <<"FLOAT">> \o y = Then("FLOAT", y)
    BY ChainOne
  <1>4. IsForm(<<"STRING">>) /\ <<"STRING">> \o y = Then("STRING", y)
    BY ChainOne
  <1>5. IsForm(<<"IDENT">>) /\ <<"IDENT">> \o y = Then("IDENT", y)
    BY ChainOne
  <1>6. /\ IsForm(<<"OPEN_PAREN", "expression", "CLOSE_PAREN">>)
        /\ <<"OPEN_PAREN", "expression", "CLOSE_PAREN">> \o y =
               Then("OPEN_PAREN", Then("expression", Then("CLOSE_PAREN", y)))
    BY ChainThree
  <1>7. /\ IsForm(<<"IDENT", "OPEN_PAREN", "arguments", "CLOSE_PAREN">>)
        /\ <<"IDENT", "OPEN_PAREN", "arguments", "CLOSE_PAREN">> \o y =
               Then("IDENT", Then("OPEN_PAREN", Then("arguments", Then("CLOSE_PAREN", y))))
    BY ChainFour
  <1>8. /\ IsForm(<<"IDENT", "OPEN_SQUARE", "expression", "CLOSE_SQUARE">>)
        /\ <<"IDENT", "OPEN_SQUARE", "expression", "CLOSE_SQUARE">> \o y =
               Then("IDENT", Then("OPEN_SQUARE", Then("expression", Then("CLOSE_SQUARE", y))))
    BY ChainFour
  <1>9. /\ IsForm(<<"IDENT", "OPEN_BRACE", "inits", "CLOSE_BRACE">>)
        /\ <<"IDENT", "OPEN_BRACE", "inits", "CLOSE_BRACE">> \o y =
               Then("IDENT", Then("OPEN_BRACE", Then("inits", Then("CLOSE_BRACE", y))))
    BY ChainFour
  <1> QED
    BY <1>1, <1>2, <1>3, <1>4, <1>5, <1>6, <1>7, <1>8, <1>9 DEF Choices

LEMMA Choices_arguments ==
  ASSUME NEW y, IsForm(y)
  PROVE  /\ "arguments" \in DOMAIN Alternatives
         /\ Choices("arguments", y) = {y, Then("expression", Then("further", y))}
         /\ \A a \in Alternatives["arguments"] : IsForm(a)
  <1>1. /\ "arguments" \in DOMAIN Alternatives
        /\ Alternatives["arguments"] = {<<>>, <<"expression", "further">>}
    BY DEF Alternatives
  <1>2. IsForm(<<>>) /\ <<>> \o y = y
    BY Nothing
  <1>3. /\ IsForm(<<"expression", "further">>)
        /\ <<"expression", "further">> \o y = Then("expression", Then("further", y))
    BY ChainTwo
  <1> QED
    BY <1>1, <1>2, <1>3 DEF Choices

LEMMA Choices_further ==
  ASSUME NEW y, IsForm(y)
  PROVE  /\ "further" \in DOMAIN Alternatives
         /\ Choices("further", y) = {y, Then("COMMA", Then("arguments", y))}
         /\ \A a \in Alternatives["further"] : IsForm(a)
  <1>1. /\ "further" \in DOMAIN Alternatives
        /\ Alternatives["further"] = {<<>>, <<"COMMA", "arguments">>}
    BY DEF Alternatives
  <1>2. IsForm(<<>>) /\ <<>> \o y = y
    BY Nothing
  <1>3. /\ IsForm(<<"COMMA", "arguments">>)
        /\ <<"COMMA", "arguments">> \o y = Then("COMMA", Then("arguments", y))
    BY ChainTwo
  <1> QED
    BY <1>1, <1>2, <1>3 DEF Choices

LEMMA Choices_inits ==
  ASSUME NEW y, IsForm(y)
  PROVE  /\ "inits" \in DOMAIN Alternatives
         /\ Choices("inits", y) =
                {y,
                 Then("IDENT", Then("COLON", Then("expression", Then("COMMA",
                   Then("inits", y)))))}
         /\ \A a \in Alternatives["inits"] : IsForm(a)
  <1>1. /\ "inits" \in DOMAIN Alternatives
        /\ Alternatives["inits"] = {<<>>, <<"IDENT", "COLON", "expression", "COMMA", "inits">>}
    BY DEF Alternatives
  <1>2. IsForm(<<>>) /\ <<>> \o y = y
    BY Nothing
  <1>3. /\ IsForm(<<"IDENT", "COLON", "expression", "COMMA", "inits">>)
        /\ <<"IDENT", "COLON", "expression", "COMMA", "inits">> \o y =
               Then("IDENT", Then("COLON", Then("expression", Then("COMMA", Then("inits", y)))))
    BY ChainFive
  <1> QED
    BY <1>1, <1>2, <1>3 DEF Choices

LEMMA Choices_operations ==
  ASSUME NEW y, IsForm(y)
  PROVE  /\ "operations" \in DOMAIN Alternatives
         /\ Choices("operations", y)
              = {y} \cup {Then(op, Then("operand", Then("operations", y))) : op \in Operators}
         /\ \A a \in Alternatives["operations"] : IsForm(a)
  <1>1. /\ "operations" \in DOMAIN Alternatives
        /\ Alternatives["operations"] =
               {<<>>} \cup {<<op, "operand", "operations">> : op \in Operators}
    BY DEF Alternatives
  <1>2. \A op \in Operators :
          /\ IsForm(<<op, "operand", "operations">>)
          /\ <<op, "operand", "operations">> \o y =
                 Then(op, Then("operand", Then("operations", y)))
    BY ChainThree
  <1>3. IsForm(<<>>) /\ <<>> \o y = y
    BY Nothing
  <1> QED
    BY <1>1, <1>2, <1>3 DEF Choices

LEMMA Choices_operand ==
  ASSUME NEW y, IsForm(y)
  PROVE  /\ "operand" \in DOMAIN Alternatives
         /\ Choices("operand", y)
              = {Then("primary", Then("members", y))}
                  \cup {Then(op, Then("operand", y)) : op \in UnaryOps}
         /\ \A a \in Alternatives["operand"] : IsForm(a)
  <1>1. /\ "operand" \in DOMAIN Alternatives
        /\ Alternatives["operand"] =
               {<<"primary", "members">>} \cup {<<op, "operand">> : op \in UnaryOps}
    BY DEF Alternatives, UnaryOps
  <1>2. \A op \in UnaryOps :
          IsForm(<<op, "operand">>) /\ <<op, "operand">> \o y = Then(op, Then("operand", y))
    BY ChainTwo
  <1>3. /\ IsForm(<<"primary", "members">>)
        /\ <<"primary", "members">> \o y = Then("primary", Then("members", y))
    BY ChainTwo
  <1> QED
    BY <1>1, <1>2, <1>3 DEF Choices

----------------------------------------------------------------------------
(***************************************************************************)
(* What a derivation can read. It makes a number of steps that is not      *)
(* known beforehand, and none of them is written down here: a place is out *)
(* of its reach if some set that holds the derivation, and with each one   *)
(* all that it may be a step later, has none that has read so far.         *)
(***************************************************************************)
Closed(s, S) == \A d \in S : Onward(s, d) \subseteq S

\* The derivation d can go on until it has read j tokens.
CanRead(s, d, j) ==
  \A S : d \in S /\ Closed(s, S) => \E e \in S : e.read = j

LEMMA ReadsHere ==
  ASSUME NEW s, NEW d PROVE CanRead(s, d, d.read)
  BY DEF CanRead

LEMMA ReadsLater ==
  ASSUME NEW s, NEW d, NEW e \in Onward(s, d), NEW j, CanRead(s, e, j)
  PROVE  CanRead(s, d, j)
  BY DEF CanRead, Closed

LEMMA ReadsOnward ==
  ASSUME NEW s, NEW d, NEW j, CanRead(s, d, j), d.read # j
  PROVE  \E e \in Onward(s, d) : CanRead(s, e, j)
  <1> SUFFICES ASSUME \A e \in Onward(s, d) : ~ CanRead(s, e, j)
               PROVE  FALSE
    OBVIOUS
  <1> DEFINE Bad(e, S) == e \in S /\ Closed(s, S) /\ \A f \in S : f.read # j
             C(e) == CHOOSE S : Bad(e, S)
             All == {d} \cup UNION {C(e) : e \in Onward(s, d)}
  <1>1. ASSUME NEW e \in Onward(s, d) PROVE Bad(e, C(e))
    <2>1. \E S : Bad(e, S)
      BY DEF CanRead
    <2> QED
      BY <2>1
  <1> HIDE DEF C
  <1>2. Closed(s, All)
    BY <1>1 DEF Closed
  <1>3. \A f \in All : f.read # j
    BY <1>1
  <1> QED
    BY <1>2, <1>3 DEF CanRead

\* From the place i, the form f can read to the place j.
Reach(s, f, i, j) == CanRead(s, Derivation(f, i), j)

\* Past the place i, f reads no further than g can.
Within(s, i, f, g) == \A j \in Nat : j > i /\ Reach(s, f, i, j) => Reach(s, g, i, j)

\* The form f reads nothing past the place i.
Stuck(s, i, f) == \A j \in Nat : j > i => ~ Reach(s, f, i, j)

LEMMA DerivationIs == ASSUME NEW f, NEW i
                      PROVE  Derivation(f, i).form = f /\ Derivation(f, i).read = i
  BY DEF Derivation

LEMMA OnwardNonterminal ==
  ASSUME NEW s, NEW i, NEW x \in DOMAIN Alternatives, NEW y, IsForm(y)
  PROVE  Onward(s, Derivation(Then(x, y), i)) = {Derivation(f, i) : f \in Choices(x, y)}
  <1>1. PICK d : d = Derivation(Then(x, y), i)
    OBVIOUS
  <1>2. d.form # <<>> /\ Head(d.form) = x /\ Tail(d.form) = y /\ d.read = i
    BY <1>1, ThenFacts, DerivationIs
  <1>3. Onward(s, d) = {Derivation(a \o y, i) : a \in Alternatives[x]}
    BY <1>2, Zenon DEF Onward
  <1>4. {Derivation(a \o y, i) : a \in Alternatives[x]} =
            {Derivation(f, i) : f \in Choices(x, y)}
    BY DEF Choices
  <1> QED
    BY <1>1, <1>3, <1>4

LEMMA OnwardToken ==
  ASSUME NEW s, NEW i, NEW x, x \notin DOMAIN Alternatives, NEW y, IsForm(y)
  PROVE  Onward(s, Derivation(Then(x, y), i)) =
           IF Reads(s, i, x) THEN {Derivation(y, i + 1)} ELSE {}
  <1>1. PICK d : d = Derivation(Then(x, y), i)
    OBVIOUS
  <1>2. d.form # <<>> /\ Head(d.form) = x /\ Tail(d.form) = y /\ d.read = i
    BY <1>1, ThenFacts, DerivationIs
  <1>3. Onward(s, d) = IF Reads(s, i, x) THEN {Derivation(y, i + 1)} ELSE {}
    BY <1>2, Zenon DEF Onward
  <1> QED
    BY <1>1, <1>3

LEMMA WithinIs ==
  ASSUME NEW s, NEW i
  PROVE  /\ \A f : Within(s, i, f, f)
         /\ \A f, g : Stuck(s, i, f) => Within(s, i, f, g)
         /\ \A f, g, h : Within(s, i, f, g) /\ Within(s, i, g, h) => Within(s, i, f, h)
         /\ \A f, g : Within(s, i, f, g) /\ Stuck(s, i, g) => Stuck(s, i, f)
  BY DEF Within, Stuck

LEMMA Taken ==
  ASSUME NEW s, NEW i, NEW x \in DOMAIN Alternatives, NEW y, IsForm(y), NEW f \in Choices(x, y)
  PROVE  Within(s, i, f, Then(x, y))
  <1>1. Derivation(f, i) \in Onward(s, Derivation(Then(x, y), i))
    BY OnwardNonterminal
  <1> QED
    BY <1>1, ReadsLater DEF Within, Reach

LEMMA AllWithin ==
  ASSUME NEW s, NEW i \in Nat, NEW x \in DOMAIN Alternatives, NEW y, IsForm(y), NEW g,
         \A f \in Choices(x, y) : Within(s, i, f, g)
  PROVE  Within(s, i, Then(x, y), g)
  <1> SUFFICES ASSUME NEW j \in Nat, j > i, Reach(s, Then(x, y), i, j)
               PROVE  Reach(s, g, i, j)
    BY DEF Within
  <1>1. PICK e \in Onward(s, Derivation(Then(x, y), i)) : CanRead(s, e, j)
    BY ReadsOnward, DerivationIs DEF Reach
  <1>2. PICK f \in Choices(x, y) : e = Derivation(f, i)
    BY <1>1, OnwardNonterminal
  <1> QED
    BY <1>1, <1>2 DEF Within, Reach

LEMMA AllStuck ==
  ASSUME NEW s, NEW i \in Nat, NEW x \in DOMAIN Alternatives, NEW y, IsForm(y),
         \A f \in Choices(x, y) : Stuck(s, i, f)
  PROVE  Stuck(s, i, Then(x, y))
  <1> SUFFICES ASSUME NEW j \in Nat, j > i, Reach(s, Then(x, y), i, j)
               PROVE  FALSE
    BY DEF Stuck
  <1>1. PICK e \in Onward(s, Derivation(Then(x, y), i)) : CanRead(s, e, j)
    BY ReadsOnward, DerivationIs DEF Reach
  <1>2. PICK f \in Choices(x, y) : e = Derivation(f, i)
    BY <1>1, OnwardNonterminal
  <1> QED
    BY <1>1, <1>2 DEF Stuck, Reach

LEMMA TokenStuck ==
  ASSUME NEW s, NEW i \in Nat, NEW x, x \notin DOMAIN Alternatives, NEW y, IsForm(y),
         ~ Reads(s, i, x)
  PROVE  Stuck(s, i, Then(x, y))
  <1> SUFFICES ASSUME NEW j \in Nat, j > i, Reach(s, Then(x, y), i, j)
               PROVE  FALSE
    BY DEF Stuck
  <1>1. PICK e \in Onward(s, Derivation(Then(x, y), i)) : CanRead(s, e, j)
    BY ReadsOnward, DerivationIs DEF Reach
  <1> QED
    BY <1>1, OnwardToken

LEMMA TokenReads ==
  ASSUME NEW s, NEW i \in Nat, NEW x, x \notin DOMAIN Alternatives, NEW y, IsForm(y),
         Reads(s, i, x)
  PROVE  /\ Reach(s, Then(x, y), i, i + 1)
         /\ \A j \in Nat : j > i => (Reach(s, Then(x, y), i, j) <=> Reach(s, y, i + 1, j))
  <1>1. Onward(s, Derivation(Then(x, y), i)) = {Derivation(y, i + 1)}
    BY OnwardToken
  <1>2. CanRead(s, Derivation(y, i + 1), i + 1)
    BY ReadsHere, DerivationIs
  <1>3. \A j : Reach(s, y, i + 1, j) => Reach(s, Then(x, y), i, j)
    BY <1>1, ReadsLater DEF Reach
  <1>4. ASSUME NEW j \in Nat, j > i, Reach(s, Then(x, y), i, j)
        PROVE  Reach(s, y, i + 1, j)
    <2>1. PICK e \in Onward(s, Derivation(Then(x, y), i)) : CanRead(s, e, j)
      BY <1>4, ReadsOnward, DerivationIs DEF Reach
    <2> QED
      BY <1>1, <2>1 DEF Reach
  <1> QED
    BY <1>2, <1>3, <1>4 DEF Reach

LEMMA TokenWithin ==
  ASSUME NEW s, NEW i \in Nat, NEW x, x \notin DOMAIN Alternatives, NEW f, IsForm(f),
         NEW g, IsForm(g), Within(s, i + 1, f, g)
  PROVE  Within(s, i, Then(x, f), Then(x, g))
  <1>1. CASE Reads(s, i, x)
    <2> SUFFICES ASSUME NEW j \in Nat, j > i, Reach(s, Then(x, f), i, j)
                 PROVE  Reach(s, Then(x, g), i, j)
      BY DEF Within
    <2>1. CASE j = i + 1
      BY <1>1, <2>1, TokenReads
    <2>2. CASE j # i + 1
      <3>1. Reach(s, f, i + 1, j)
        BY <1>1, TokenReads
      <3>2. Reach(s, g, i + 1, j)
        BY <3>1, <2>2 DEF Within
      <3> QED
        BY <1>1, <3>2, TokenReads
    <2> QED
      BY <2>1, <2>2
  <1>2. CASE ~ Reads(s, i, x)
    BY <1>2, TokenStuck, WithinIs
  <1> QED
    BY <1>1, <1>2

----------------------------------------------------------------------------
(***************************************************************************)
(* What a symbol can begin with. Every alternative of a nonterminal is     *)
(* empty, and it is one of the Nullables, or begins with a symbol that     *)
(* cannot be empty and has no other first tokens than the nonterminal.     *)
(***************************************************************************)
\* The nonterminals that may be empty.
Nullables ==
  {"document", "params", "more", "fields", "stars", "statements", "semicolon", "others",
   "value", "operations", "members", "arguments", "further", "inits"}

Primaries == {"INT", "FLOAT", "STRING", "IDENT", "OPEN_PAREN"}

Operands == Primaries \cup UnaryOps

Keywords == {"IF", "LET", "WHILE", "FOR"}

\* The tokens that a nonterminal can begin with.
Firsts ==
  [ document   |-> {"FUNCTION", "STRUCT", "IMPORT"},
    params     |-> {"IDENT"},
    more       |-> {"COMMA"},
    fields     |-> {"IDENT"},
    type       |-> {"IDENT"},
    stars      |-> {"MUL"},
    body       |-> {"SEMICOLON", "OPEN_BRACE"},
    block      |-> {"OPEN_BRACE"},
    statements |-> Operands \cup Keywords \cup {"RETURN"},
    statement  |-> Operands \cup Keywords \cup {"RETURN"},
    semicolon  |-> {"SEMICOLON"},
    result     |-> Operands \cup {"SEMICOLON"},
    init       |-> Operands \cup Keywords \cup {"RETURN"},
    ended      |-> Operands \cup {"SEMICOLON"},
    simple     |-> Operands \cup Keywords,
    arms       |-> {"IF"},
    others     |-> {"ELSE"},
    value      |-> {"EQ"},
    expression |-> Operands,
    operations |-> Operators,
    operand    |-> Operands,
    members    |-> {"DOT", "SUB_GT"},
    primary    |-> Primaries,
    arguments  |-> Operands,
    further    |-> {"COMMA"},
    inits      |-> {"IDENT"} ]

FirstOf(x) == IF x \in DOMAIN Alternatives THEN Firsts[x] ELSE {x}

\* The form y is what is left of x y, or begins with a symbol that x begins with.
Opens(x, y, f) ==
  \/ x \in Nullables /\ f = y
  \/ \E z, w : /\ f = Then(z, w) /\ IsForm(w)
              /\ z \notin Nullables /\ FirstOf(z) \subseteq FirstOf(x)

LEMMA Opening ==
  ASSUME NEW x, NEW y, NEW z, NEW w, IsForm(w), z \notin Nullables,
         FirstOf(z) \subseteq FirstOf(x)
  PROVE  Opens(x, y, Then(z, w))
  BY DEF Opens

LEMMA Keeping ==
  ASSUME NEW x \in Nullables, NEW y
  PROVE  Opens(x, y, y)
  BY DEF Opens

LEMMA Opens_document ==
  ASSUME NEW y, IsForm(y)
  PROVE  \A f \in Choices("document", y) : Opens("document", y, f)
  <1>1. Opens("document", y, y)
    BY Keeping DEF Nullables
  <1>2. Opens("document", y,
              Then("FUNCTION", Then("IDENT", Then("OPEN_PAREN", Then("params",
                Then("CLOSE_PAREN", Then("COLON", Then("type", Then("body",
                Then("document", y))))))))))
    <2>1. IsForm(Then("IDENT", Then("OPEN_PAREN", Then("params", Then("CLOSE_PAREN",
                   Then("COLON", Then("type", Then("body", Then("document", y)))))))))
      BY ThenFacts
    <2>2. "FUNCTION" \notin Nullables /\ FirstOf("FUNCTION") \subseteq FirstOf("document")
      BY DEF FirstOf, Firsts, Nullables, Alternatives, Operands, Primaries, Keywords, UnaryOps
    <2> QED
      BY <2>1, <2>2, Opening
  <1>3. Opens("document", y,
              Then("STRUCT", Then("IDENT", Then("OPEN_BRACE", Then("fields", Then("CLOSE_BRACE",
                Then("document", y)))))))
    <2>1. IsForm(Then("IDENT", Then("OPEN_BRACE", Then("fields", Then("CLOSE_BRACE",
                   Then("document", y))))))
      BY ThenFacts
    <2>2. "STRUCT" \notin Nullables /\ FirstOf("STRUCT") \subseteq FirstOf("document")
      BY DEF FirstOf, Firsts, Nullables, Alternatives, Operands, Primaries, Keywords, UnaryOps
    <2> QED
      BY <2>1, <2>2, Opening
  <1>4. Opens("document", y, Then("IMPORT", Then("STRING", Then("document", y))))
    <2>1. IsForm(Then("STRING", Then("document", y)))
      BY ThenFacts
    <2>2. "IMPORT" \notin Nullables /\ FirstOf("IMPORT") \subseteq FirstOf("document")
      BY DEF FirstOf, Firsts, Nullables, Alternatives, Operands, Primaries, Keywords, UnaryOps
    <2> QED
      BY <2>1, <2>2, Opening
  <1> QED
    BY <1>1, <1>2, <1>3, <1>4, Choices_document

LEMMA Opens_params ==
  ASSUME NEW y, IsForm(y)
  PROVE  \A f \in Choices("params", y) : Opens("params", y, f)
  <1>1. Opens("params", y, y)
    BY Keeping DEF Nullables
  <1>2. Opens("params", y, Then("IDENT", Then("COLON", Then("type", Then("more", y)))))
    <2>1. IsForm(Then("COLON", Then("type", Then("more", y))))
      BY ThenFacts
    <2>2. "IDENT" \notin Nullables /\ FirstOf("IDENT") \subseteq FirstOf("params")
      BY DEF FirstOf, Firsts, Nullables, Alternatives, Operands, Primaries, Keywords, UnaryOps
    <2> QED
      BY <2>1, <2>2, Opening
  <1> QED
    BY <1>1, <1>2, Choices_params

LEMMA Opens_more ==
  ASSUME NEW y, IsForm(y)
  PROVE  \A f \in Choices("more", y) : Opens("more", y, f)
  <1>1. Opens("more", y, y)
    BY Keeping DEF Nullables
  <1>2. Opens("more", y, Then("COMMA", Then("params", y)))
    <2>1. IsForm(Then("params", y))
      BY ThenFacts
    <2>2. "COMMA" \notin Nullables /\ FirstOf("COMMA") \subseteq FirstOf("more")
      BY DEF FirstOf, Firsts, Nullables, Alternatives, Operands, Primaries, Keywords, UnaryOps
    <2> QED
      BY <2>1, <2>2, Opening
  <1> QED
    BY <1>1, <1>2, Choices_more

LEMMA Opens_fields ==
  ASSUME NEW y, IsForm(y)
  PROVE  \A f \in Choices("fields", y) : Opens("fields", y, f)
  <1>1. Opens("fields", y, y)
    BY Keeping DEF Nullables
  <1>2. Opens("fields", y,
              Then("IDENT", Then("COLON", Then("type", Then("SEMICOLON", Then("fields", y))))))
    <2>1. IsForm(Then("COLON", Then("type", Then("SEMICOLON", Then("fields", y)))))
      BY ThenFacts
    <2>2. "IDENT" \notin Nullables /\ FirstOf("IDENT") \subseteq FirstOf("fields")
      BY DEF FirstOf, Firsts, Nullables, Alternatives, Operands, Primaries, Keywords, UnaryOps
    <2> QED
      BY <2>1, <2>2, Opening
  <1> QED
    BY <1>1, <1>2, Choices_fields

LEMMA Opens_type ==
  ASSUME NEW y, IsForm(y)
  PROVE  \A f \in Choices("type", y) : Opens("type", y, f)
  <1>1. Opens("type", y, Then("IDENT", Then("stars", y)))
    <2>1. IsForm(Then("stars", y))
      BY ThenFacts
    <2>2. "IDENT" \notin Nullables /\ FirstOf("IDENT") \subseteq FirstOf("type")
      BY DEF FirstOf, Firsts, Nullables, Alternatives, Operands, Primaries, Keywords, UnaryOps
    <2> QED
      BY <2>1, <2>2, Opening
  <1> QED
    BY <1>1, Choices_type

LEMMA Opens_stars ==
  ASSUME NEW y, IsForm(y)
  PROVE  \A f \in Choices("stars", y) : Opens("stars", y, f)
  <1>1. Opens("stars", y, y)
    BY Keeping DEF Nullables
  <1>2. Opens("stars", y, Then("MUL", Then("stars", y)))
    <2>1. IsForm(Then("stars", y))
      BY ThenFacts
    <2>2. "MUL" \notin Nullables /\ FirstOf("MUL") \subseteq FirstOf("stars")
      BY DEF FirstOf, Firsts, Nullables, Alternatives, Operands, Primaries, Keywords, UnaryOps
    <2> QED
      BY <2>1, <2>2, Opening
  <1> QED
    BY <1>1, <1>2, Choices_stars

LEMMA Opens_body ==
  ASSUME NEW y, IsForm(y)
  PROVE  \A f \in Choices("body", y) : Opens("body", y, f)
  <1>1. Opens("body", y, Then("SEMICOLON", y))
    <2>2. "SEMICOLON" \notin Nullables /\ FirstOf("SEMICOLON") \subseteq FirstOf("body")
      BY DEF FirstOf, Firsts, Nullables, Alternatives, Operands, Primaries, Keywords, UnaryOps
    <2> QED
      BY <2>2, Opening
  <1>2. Opens("body", y, Then("block", y))
    <2>2. "block" \notin Nullables /\ FirstOf("block") \subseteq FirstOf("body")
      BY DEF FirstOf, Firsts, Nullables, Alternatives, Operands, Primaries, Keywords, UnaryOps
    <2> QED
      BY <2>2, Opening
  <1> QED
    BY <1>1, <1>2, Choices_body

LEMMA Opens_block ==
  ASSUME NEW y, IsForm(y)
  PROVE  \A f \in Choices("block", y) : Opens("block", y, f)
  <1>1. Opens("block", y, Then("OPEN_BRACE", Then("statements", Then("CLOSE_BRACE", y))))
    <2>1. IsForm(Then("statements", Then("CLOSE_BRACE", y)))
      BY ThenFacts
    <2>2. "OPEN_BRACE" \notin Nullables /\ FirstOf("OPEN_BRACE") \subseteq FirstOf("block")
      BY DEF FirstOf, Firsts, Nullables, Alternatives, Operands, Primaries, Keywords, UnaryOps
    <2> QED
      BY <2>1, <2>2, Opening
  <1> QED
    BY <1>1, Choices_block

LEMMA Opens_statements ==
  ASSUME NEW y, IsForm(y)
  PROVE  \A f \in Choices("statements", y) : Opens("statements", y, f)
  <1>1. Opens("statements", y, y)
    BY Keeping DEF Nullables
  <1>2. Opens("statements", y, Then("statement", Then("statements", y)))
    <2>1. IsForm(Then("statements", y))
      BY ThenFacts
    <2>2. "statement" \notin Nullables /\ FirstOf("statement") \subseteq FirstOf("statements")
      BY DEF FirstOf, Firsts, Nullables, Alternatives, Operands, Primaries, Keywords, UnaryOps
    <2> QED
      BY <2>1, <2>2, Opening
  <1> QED
    BY <1>1, <1>2, Choices_statements

LEMMA Opens_statement ==
  ASSUME NEW y, IsForm(y)
  PROVE  \A f \in Choices("statement", y) : Opens("statement", y, f)
  <1>1. Opens("statement", y, Then("simple", Then("semicolon", y)))
    <2>1. IsForm(Then("semicolon", y))
      BY ThenFacts
    <2>2. "simple" \notin Nullables /\ FirstOf("simple") \subseteq FirstOf("statement")
      BY DEF FirstOf, Firsts, Nullables, Alternatives, Operands, Primaries, Keywords, UnaryOps
    <2> QED
      BY <2>1, <2>2, Opening
  <1>2. Opens("statement", y, Then("RETURN", Then("result", y)))
    <2>1. IsForm(Then("result", y))
      BY ThenFacts
    <2>2. "RETURN" \notin Nullables /\ FirstOf("RETURN") \subseteq FirstOf("statement")
      BY DEF FirstOf, Firsts, Nullables, Alternatives, Operands, Primaries, Keywords, UnaryOps
    <2> QED
      BY <2>1, <2>2, Opening
  <1> QED
    BY <1>1, <1>2, Choices_statement

LEMMA Opens_semicolon ==
  ASSUME NEW y, IsForm(y)
  PROVE  \A f \in Choices("semicolon", y) : Opens("semicolon", y, f)
  <1>1. Opens("semicolon", y, y)
    BY Keeping DEF Nullables
  <1>2. Opens("semicolon", y, Then("SEMICOLON", y))
    <2>2. "SEMICOLON" \notin Nullables /\ FirstOf("SEMICOLON") \subseteq FirstOf("semicolon")
      BY DEF FirstOf, Firsts, Nullables, Alternatives, Operands, Primaries, Keywords, UnaryOps
    <2> QED
      BY <2>2, Opening
  <1> QED
    BY <1>1, <1>2, Choices_semicolon

LEMMA Opens_result ==
  ASSUME NEW y, IsForm(y)
  PROVE  \A f \in Choices("result", y) : Opens("result", y, f)
  <1>1. Opens("result", y, Then("SEMICOLON", y))
    <2>2. "SEMICOLON" \notin Nullables /\ FirstOf("SEMICOLON") \subseteq FirstOf("result")
      BY DEF FirstOf, Firsts, Nullables, Alternatives, Operands, Primaries, Keywords, UnaryOps
    <2> QED
      BY <2>2, Opening
  <1>2. Opens("result", y, Then("expression", Then("semicolon", y)))
    <2>1. IsForm(Then("semicolon", y))
      BY ThenFacts
    <2>2. "expression" \notin Nullables /\ FirstOf("expression") \subseteq FirstOf("result")
      BY DEF FirstOf, Firsts, Nullables, Alternatives, Operands, Primaries, Keywords, UnaryOps
    <2> QED
      BY <2>1, <2>2, Opening
  <1> QED
    BY <1>1, <1>2, Choices_result

LEMMA Opens_init ==
  ASSUME NEW y, IsForm(y)
  PROVE  \A f \in Choices("init", y) : Opens("init", y, f)
  <1>1. Opens("init", y, Then("simple", Then("SEMICOLON", y)))
    <2>1. IsForm(Then("SEMICOLON", y))
      BY ThenFacts
    <2>2. "simple" \notin Nullables /\ FirstOf("simple") \subseteq FirstOf("init")
      BY DEF FirstOf, Firsts, Nullables, Alternatives, Operands, Primaries, Keywords, UnaryOps
    <2> QED
      BY <2>1, <2>2, Opening
  <1>2. Opens("init", y, Then("RETURN", Then("ended", y)))
    <2>1. IsForm(Then("ended", y))
      BY ThenFacts
    <2>2. "RETURN" \notin Nullables /\ FirstOf("RETURN") \subseteq FirstOf("init")
      BY DEF FirstOf, Firsts, Nullables, Alternatives, Operands, Primaries, Keywords, UnaryOps
    <2> QED
      BY <2>1, <2>2, Opening
  <1> QED
    BY <1>1, <1>2, Choices_init

LEMMA Opens_ended ==
  ASSUME NEW y, IsForm(y)
  PROVE  \A f \in Choices("ended", y) : Opens("ended", y, f)
  <1>1. Opens("ended", y, Then("SEMICOLON", y))
    <2>2. "SEMICOLON" \notin Nullables /\ FirstOf("SEMICOLON") \subseteq FirstOf("ended")
      BY DEF FirstOf, Firsts, Nullables, Alternatives, Operands, Primaries, Keywords, UnaryOps
    <2> QED
      BY <2>2, Opening
  <1>2. Opens("ended", y, Then("expression", Then("SEMICOLON", y)))
    <2>1. IsForm(Then("SEMICOLON", y))
      BY ThenFacts
    <2>2. "expression" \notin Nullables /\ FirstOf("expression") \subseteq FirstOf("ended")
      BY DEF FirstOf, Firsts, Nullables, Alternatives, Operands, Primaries, Keywords, UnaryOps
    <2> QED
      BY <2>1, <2>2, Opening
  <1> QED
    BY <1>1, <1>2, Choices_ended

LEMMA Opens_simple ==
  ASSUME NEW y, IsForm(y)
  PROVE  \A f \in Choices("simple", y) : Opens("simple", y, f)
  <1>1. Opens("simple", y, Then("expression", y))
    <2>2. "expression" \notin Nullables /\ FirstOf("expression") \subseteq FirstOf("simple")
      BY DEF FirstOf, Firsts, Nullables, Alternatives, Operands, Primaries, Keywords, UnaryOps
    <2> QED
      BY <2>2, Opening
  <1>2. Opens("simple", y, Then("arms", y))
    <2>2. "arms" \notin Nullables /\ FirstOf("arms") \subseteq FirstOf("simple")
      BY DEF FirstOf, Firsts, Nullables, Alternatives, Operands, Primaries, Keywords, UnaryOps
    <2> QED
      BY <2>2, Opening
  <1>3. Opens("simple", y,
              Then("LET", Then("IDENT", Then("COLON", Then("type", Then("value", y))))))
    <2>1. IsForm(Then("IDENT", Then("COLON", Then("type", Then("value", y)))))
      BY ThenFacts
    <2>2. "LET" \notin Nullables /\ FirstOf("LET") \subseteq FirstOf("simple")
      BY DEF FirstOf, Firsts, Nullables, Alternatives, Operands, Primaries, Keywords, UnaryOps
    <2> QED
      BY <2>1, <2>2, Opening
  <1>4. Opens("simple", y,
              Then("WHILE", Then("OPEN_PAREN", Then("expression", Then("CLOSE_PAREN",
                Then("block", y))))))
    <2>1. IsForm(Then("OPEN_PAREN", Then("expression", Then("CLOSE_PAREN", Then("block", y)))))
      BY ThenFacts
    <2>2. "WHILE" \notin Nullables /\ FirstOf("WHILE") \subseteq FirstOf("simple")
      BY DEF FirstOf, Firsts, Nullables, Alternatives, Operands, Primaries, Keywords, UnaryOps
    <2> QED
      BY <2>1, <2>2, Opening
  <1>5. Opens("simple", y,
              Then("FOR", Then("OPEN_PAREN", Then("init", Then("expression", Then("SEMICOLON",
                Then("expression", Then("CLOSE_PAREN", Then("block", y)))))))))
    <2>1. IsForm(Then("OPEN_PAREN", Then("init", Then("expression", Then("SEMICOLON",
                   Then("expression", Then("CLOSE_PAREN", Then("block", y))))))))
      BY ThenFacts
    <2>2. "FOR" \notin Nullables /\ FirstOf("FOR") \subseteq FirstOf("simple")
      BY DEF FirstOf, Firsts, Nullables, Alternatives, Operands, Primaries, Keywords, UnaryOps
    <2> QED
      BY <2>1, <2>2, Opening
  <1> QED
    BY <1>1, <1>2, <1>3, <1>4, <1>5, Choices_simple

LEMMA Opens_arms ==
  ASSUME NEW y, IsForm(y)
  PROVE  \A f \in Choices("arms", y) : Opens("arms", y, f)
  <1>1. Opens("arms", y,
              Then("IF", Then("OPEN_PAREN", Then("expression", Then("CLOSE_PAREN", Then("block",
                Then("others", y)))))))
    <2>1. IsForm(Then("OPEN_PAREN", Then("expression", Then("CLOSE_PAREN", Then("block",
                   Then("others", y))))))
      BY ThenFacts
    <2>2. "IF" \notin Nullables /\ FirstOf("IF") \subseteq FirstOf("arms")
      BY DEF FirstOf, Firsts, Nullables, Alternatives, Operands, Primaries, Keywords, UnaryOps
    <2> QED
      BY <2>1, <2>2, Opening
  <1> QED
    BY <1>1, Choices_arms

LEMMA Opens_others ==
  ASSUME NEW y, IsForm(y)
  PROVE  \A f \in Choices("others", y) : Opens("others", y, f)
  <1>1. Opens("others", y, y)
    BY Keeping DEF Nullables
  <1>2. Opens("others", y, Then("ELSE", Then("arms", y)))
    <2>1. IsForm(Then("arms", y))
      BY ThenFacts
    <2>2. "ELSE" \notin Nullables /\ FirstOf("ELSE") \subseteq FirstOf("others")
      BY DEF FirstOf, Firsts, Nullables, Alternatives, Operands, Primaries, Keywords, UnaryOps
    <2> QED
      BY <2>1, <2>2, Opening
  <1>3. Opens("others", y, Then("ELSE", Then("block", y)))
    <2>1. IsForm(Then("block", y))
      BY ThenFacts
    <2>2. "ELSE" \notin Nullables /\ FirstOf("ELSE") \subseteq FirstOf("others")
      BY DEF FirstOf, Firsts, Nullables, Alternatives, Operands, Primaries, Keywords, UnaryOps
    <2> QED
      BY <2>1, <2>2, Opening
  <1> QED
    BY <1>1, <1>2, <1>3, Choices_others

LEMMA Opens_value ==
  ASSUME NEW y, IsForm(y)
  PROVE  \A f \in Choices("value", y) : Opens("value", y, f)
  <1>1. Opens("value", y, y)
    BY Keeping DEF Nullables
  <1>2. Opens("value", y, Then("EQ", Then("expression", y)))
    <2>1. IsForm(Then("expression", y))
      BY ThenFacts
    <2>2. "EQ" \notin Nullables /\ FirstOf("EQ") \subseteq FirstOf("value")
      BY DEF FirstOf, Firsts, Nullables, Alternatives, Operands, Primaries, Keywords, UnaryOps
    <2> QED
      BY <2>1, <2>2, Opening
  <1> QED
    BY <1>1, <1>2, Choices_value

LEMMA Opens_expression ==
  ASSUME NEW y, IsForm(y)
  PROVE  \A f \in Choices("expression", y) : Opens("expression", y, f)
  <1>1. Opens("expression", y, Then("operand", Then("operations", y)))
    <2>1. IsForm(Then("operations", y))
      BY ThenFacts
    <2>2. "operand" \notin Nullables /\ FirstOf("operand") \subseteq FirstOf("expression")
      BY DEF FirstOf, Firsts, Nullables, Alternatives, Operands, Primaries, Keywords, UnaryOps
    <2> QED
      BY <2>1, <2>2, Opening
  <1> QED
    BY <1>1, Choices_expression

LEMMA Opens_members ==
  ASSUME NEW y, IsForm(y)
  PROVE  \A f \in Choices("members", y) : Opens("members", y, f)
  <1>1. Opens("members", y, y)
    BY Keeping DEF Nullables
  <1>2. Opens("members", y, Then("DOT", Then("IDENT", Then("members", y))))
    <2>1. IsForm(Then("IDENT", Then("members", y)))
      BY ThenFacts
    <2>2. "DOT" \notin Nullables /\ FirstOf("DOT") \subseteq FirstOf("members")
      BY DEF FirstOf, Firsts, Nullables, Alternatives, Operands, Primaries, Keywords, UnaryOps
    <2> QED
      BY <2>1, <2>2, Opening
  <1>3. Opens("members", y, Then("SUB_GT", Then("IDENT", Then("members", y))))
    <2>1. IsForm(Then("IDENT", Then("members", y)))
      BY ThenFacts
    <2>2. "SUB_GT" \notin Nullables /\ FirstOf("SUB_GT") \subseteq FirstOf("members")
      BY DEF FirstOf, Firsts, Nullables, Alternatives, Operands, Primaries, Keywords, UnaryOps
    <2> QED
      BY <2>1, <2>2, Opening
  <1> QED
    BY <1>1, <1>2, <1>3, Choices_members

LEMMA Opens_primary ==
  ASSUME NEW y, IsForm(y)
  PROVE  \A f \in Choices("primary", y) : Opens("primary", y, f)
  <1>1. Opens("primary", y, Then("INT", y))
    <2>2. "INT" \notin Nullables /\ FirstOf("INT") \subseteq FirstOf("primary")
      BY DEF FirstOf, Firsts, Nullables, Alternatives, Operands, Primaries, Keywords, UnaryOps
    <2> QED
      BY <2>2, Opening
  <1>2. Opens("primary", y, Then("FLOAT", y))
    <2>2. "FLOAT" \notin Nullables /\ FirstOf("FLOAT") \subseteq FirstOf("primary")
      BY DEF FirstOf, Firsts, Nullables, Alternatives, Operands, Primaries, Keywords, UnaryOps
    <2> QED
      BY <2>2, Opening
  <1>3. Opens("primary", y, Then("STRING", y))
    <2>2. "STRING" \notin Nullables /\ FirstOf("STRING") \subseteq FirstOf("primary")
      BY DEF FirstOf, Firsts, Nullables, Alternatives, Operands, Primaries, Keywords, UnaryOps
    <2> QED
      BY <2>2, Opening
  <1>4. Opens("primary", y, Then("IDENT", y))
    <2>2. "IDENT" \notin Nullables /\ FirstOf("IDENT") \subseteq FirstOf("primary")
      BY DEF FirstOf, Firsts, Nullables, Alternatives, Operands, Primaries, Keywords, UnaryOps
    <2> QED
      BY <2>2, Opening
  <1>5. Opens("primary", y, Then("OPEN_PAREN", Then("expression", Then("CLOSE_PAREN", y))))
    <2>1. IsForm(Then("expression", Then("CLOSE_PAREN", y)))
      BY ThenFacts
    <2>2. "OPEN_PAREN" \notin Nullables /\ FirstOf("OPEN_PAREN") \subseteq FirstOf("primary")
      BY DEF FirstOf, Firsts, Nullables, Alternatives, Operands, Primaries, Keywords, UnaryOps
    <2> QED
      BY <2>1, <2>2, Opening
  <1>6. Opens("primary", y,
              Then("IDENT", Then("OPEN_PAREN", Then("arguments", Then("CLOSE_PAREN", y)))))
    <2>1. IsForm(Then("OPEN_PAREN", Then("arguments", Then("CLOSE_PAREN", y))))
      BY ThenFacts
    <2>2. "IDENT" \notin Nullables /\ FirstOf("IDENT") \subseteq FirstOf("primary")
      BY DEF FirstOf, Firsts, Nullables, Alternatives, Operands, Primaries, Keywords, UnaryOps
    <2> QED
      BY <2>1, <2>2, Opening
  <1>7. Opens("primary", y,
              Then("IDENT", Then("OPEN_SQUARE", Then("expression", Then("CLOSE_SQUARE", y)))))
    <2>1. IsForm(Then("OPEN_SQUARE", Then("expression", Then("CLOSE_SQUARE", y))))
      BY ThenFacts
    <2>2. "IDENT" \notin Nullables /\ FirstOf("IDENT") \subseteq FirstOf("primary")
      BY DEF FirstOf, Firsts, Nullables, Alternatives, Operands, Primaries, Keywords, UnaryOps
    <2> QED
      BY <2>1, <2>2, Opening
  <1>8. Opens("primary", y,
              Then("IDENT", Then("OPEN_BRACE", Then("inits", Then("CLOSE_BRACE", y)))))
    <2>1. IsForm(Then("OPEN_BRACE", Then("inits", Then("CLOSE_BRACE", y))))
      BY ThenFacts
    <2>2. "IDENT" \notin Nullables /\ FirstOf("IDENT") \subseteq FirstOf("primary")
      BY DEF FirstOf, Firsts, Nullables, Alternatives, Operands, Primaries, Keywords, UnaryOps
    <2> QED
      BY <2>1, <2>2, Opening
  <1> QED
    BY <1>1, <1>2, <1>3, <1>4, <1>5, <1>6, <1>7, <1>8, Choices_primary

LEMMA Opens_arguments ==
  ASSUME NEW y, IsForm(y)
  PROVE  \A f \in Choices("arguments", y) : Opens("arguments", y, f)
  <1>1. Opens("arguments", y, y)
    BY Keeping DEF Nullables
  <1>2. Opens("arguments", y, Then("expression", Then("further", y)))
    <2>1. IsForm(Then("further", y))
      BY ThenFacts
    <2>2. "expression" \notin Nullables /\ FirstOf("expression") \subseteq FirstOf("arguments")
      BY DEF FirstOf, Firsts, Nullables, Alternatives, Operands, Primaries, Keywords, UnaryOps
    <2> QED
      BY <2>1, <2>2, Opening
  <1> QED
    BY <1>1, <1>2, Choices_arguments

LEMMA Opens_further ==
  ASSUME NEW y, IsForm(y)
  PROVE  \A f \in Choices("further", y) : Opens("further", y, f)
  <1>1. Opens("further", y, y)
    BY Keeping DEF Nullables
  <1>2. Opens("further", y, Then("COMMA", Then("arguments", y)))
    <2>1. IsForm(Then("arguments", y))
      BY ThenFacts
    <2>2. "COMMA" \notin Nullables /\ FirstOf("COMMA") \subseteq FirstOf("further")
      BY DEF FirstOf, Firsts, Nullables, Alternatives, Operands, Primaries, Keywords, UnaryOps
    <2> QED
      BY <2>1, <2>2, Opening
  <1> QED
    BY <1>1, <1>2, Choices_further

LEMMA Opens_inits ==
  ASSUME NEW y, IsForm(y)
  PROVE  \A f \in Choices("inits", y) : Opens("inits", y, f)
  <1>1. Opens("inits", y, y)
    BY Keeping DEF Nullables
  <1>2. Opens("inits", y,
              Then("IDENT", Then("COLON", Then("expression", Then("COMMA", Then("inits", y))))))
    <2>1. IsForm(Then("COLON", Then("expression", Then("COMMA", Then("inits", y)))))
      BY ThenFacts
    <2>2. "IDENT" \notin Nullables /\ FirstOf("IDENT") \subseteq FirstOf("inits")
      BY DEF FirstOf, Firsts, Nullables, Alternatives, Operands, Primaries, Keywords, UnaryOps
    <2> QED
      BY <2>1, <2>2, Opening
  <1> QED
    BY <1>1, <1>2, Choices_inits

LEMMA Opens_operations ==
  ASSUME NEW y, IsForm(y)
  PROVE  \A f \in Choices("operations", y) : Opens("operations", y, f)
  <1>1. Opens("operations", y, y)
    BY Keeping DEF Nullables
  <1>2. ASSUME NEW op \in Operators
        PROVE  Opens("operations", y, Then(op, Then("operand", Then("operations", y))))
    <2>1. IsForm(Then("operand", Then("operations", y)))
      BY ThenFacts
    <2>2. op \notin Nullables /\ FirstOf(op) \subseteq FirstOf("operations")
      BY DEF FirstOf, Firsts, Nullables, Alternatives, Operators
    <2> QED
      BY <2>1, <2>2, Opening
  <1> QED
    BY <1>1, <1>2, Choices_operations

LEMMA Opens_operand ==
  ASSUME NEW y, IsForm(y)
  PROVE  \A f \in Choices("operand", y) : Opens("operand", y, f)
  <1>1. Opens("operand", y, Then("primary", Then("members", y)))
    <2>1. IsForm(Then("members", y))
      BY ThenFacts
    <2>2. "primary" \notin Nullables /\ FirstOf("primary") \subseteq FirstOf("operand")
      BY DEF FirstOf, Firsts, Nullables, Alternatives, Operands
    <2> QED
      BY <2>1, <2>2, Opening
  <1>2. ASSUME NEW op \in UnaryOps
        PROVE  Opens("operand", y, Then(op, Then("operand", y)))
    <2>1. IsForm(Then("operand", y))
      BY ThenFacts
    <2>2. op \notin Nullables /\ FirstOf(op) \subseteq FirstOf("operand")
      BY DEF FirstOf, Firsts, Nullables, Alternatives, Operands, UnaryOps
    <2> QED
      BY <2>1, <2>2, Opening
  <1> QED
    BY <1>1, <1>2, Choices_operand

LEMMA Beginnings ==
  ASSUME NEW x \in DOMAIN Alternatives, NEW y, IsForm(y), NEW f \in Choices(x, y)
  PROVE  Opens(x, y, f)
  <1>1. x \in {"document", "params", "more", "fields", "type", "stars", "body", "block"}
               \cup {"statements", "statement", "semicolon", "result", "init", "ended", "simple"}
               \cup {"arms", "others", "value", "expression", "operations", "operand"}
               \cup {"members", "primary", "arguments", "further", "inits"}
    BY DEF Alternatives
  <1>2. CASE x \in {"document", "params", "more", "fields", "type", "stars", "body", "block"}
    BY <1>2, Opens_document, Opens_params, Opens_more, Opens_fields, Opens_type, Opens_stars,
       Opens_body, Opens_block
  <1>3. CASE x \in {"statements", "statement", "semicolon", "result", "init", "ended", "simple"}
    BY <1>3, Opens_statements, Opens_statement, Opens_semicolon, Opens_result, Opens_init,
       Opens_ended, Opens_simple
  <1>4. CASE x \in {"arms", "others", "value", "expression", "operations", "operand"}
    BY <1>4, Opens_arms, Opens_others, Opens_value, Opens_expression, Opens_operations,
       Opens_operand
  <1>5. CASE x \in {"members", "primary", "arguments", "further", "inits"}
    BY <1>5, Opens_members, Opens_primary, Opens_arguments, Opens_further, Opens_inits
  <1> QED
    BY <1>1, <1>2, <1>3, <1>4, <1>5

----------------------------------------------------------------------------
(***************************************************************************)
(* What cannot begin with the token at hand reads nothing.                 *)
(***************************************************************************)
\* The next token is one that x can begin with.
Begins(s, i, x) == \E t \in FirstOf(x) : Reads(s, i, t)

LEMMA AlternativesAreForms ==
  ASSUME NEW x \in DOMAIN Alternatives, NEW a \in Alternatives[x]
  PROVE  IsForm(a)
  <1>1. x \in {"document", "params", "more", "fields", "type", "stars", "body", "block"}
               \cup {"statements", "statement", "semicolon", "result", "init", "ended", "simple"}
               \cup {"arms", "others", "value", "expression", "operations", "operand"}
               \cup {"members", "primary", "arguments", "further", "inits"}
    BY DEF Alternatives
  <1>2. CASE x \in {"document", "params", "more", "fields", "type", "stars", "body", "block"}
    BY <1>2, Nothing, Choices_document, Choices_params, Choices_more, Choices_fields,
       Choices_type, Choices_stars, Choices_body, Choices_block
  <1>3. CASE x \in {"statements", "statement", "semicolon", "result", "init", "ended", "simple"}
    BY <1>3, Nothing, Choices_statements, Choices_statement, Choices_semicolon, Choices_result,
       Choices_init, Choices_ended, Choices_simple
  <1>4. CASE x \in {"arms", "others", "value", "expression", "operations", "operand"}
    BY <1>4, Nothing, Choices_arms, Choices_others, Choices_value, Choices_expression,
       Choices_operations, Choices_operand
  <1>5. CASE x \in {"members", "primary", "arguments", "further", "inits"}
    BY <1>5, Nothing, Choices_members, Choices_primary, Choices_arguments, Choices_further,
       Choices_inits
  <1> QED
    BY <1>1, <1>2, <1>3, <1>4, <1>5

\* Words that a form may hold, so that there is a set of all forms of them.
LEMMA SameForms ==
  ASSUME NEW W, NEW a \in Seq(W), NEW y \in Seq(W)
  PROVE  a \o y \in Seq(W)
  BY ConcatProperties

WordsOf(a) == CHOOSE W : a \in Seq(W)

\* All symbols of the grammar.
Words == UNION {UNION {WordsOf(a) : a \in Alternatives[x]} : x \in DOMAIN Alternatives}

LEMMA OverWords ==
  ASSUME NEW W, Words \subseteq W, NEW x \in DOMAIN Alternatives, NEW a \in Alternatives[x]
  PROVE  a \in Seq(W)
  <1>1. a \in Seq(WordsOf(a))
    BY AlternativesAreForms DEF IsForm, WordsOf
  <1>2. WordsOf(a) \subseteq W
    BY DEF Words
  <1> QED
    BY <1>1, <1>2, SeqMonotone

\* What cannot be empty has to begin.
LEMMA HardStuck ==
  ASSUME NEW s, NEW i \in Nat, NEW x, x \notin Nullables, ~ Begins(s, i, x), NEW y, IsForm(y)
  PROVE  Stuck(s, i, Then(x, y))
  <1>1. PICK S : y \in Seq(S)
    BY DEF IsForm
  <1>2. PICK W : W = S \cup Words \cup {x}
    OBVIOUS
  <1>3. y \in Seq(W) /\ Then(x, y) \in Seq(W) /\ Words \subseteq W
    BY <1>1, <1>2, SeqMonotone, ThenIn
  <1> DEFINE Hard(g) == \E z, w : /\ g = Then(z, w) /\ w \in Seq(W)
                                /\ z \notin Nullables /\ ~ Begins(s, i, z)
             All == {Derivation(g, i) : g \in {f \in Seq(W) : Hard(f)}}
  <1>4. ASSUME NEW g \in Seq(W), Hard(g), NEW e \in Onward(s, Derivation(g, i))
        PROVE  e \in All
    <2>1. PICK z, w : /\ g = Then(z, w) /\ w \in Seq(W)
                      /\ z \notin Nullables /\ ~ Begins(s, i, z)
      BY <1>4
    <2>2. IsForm(w)
      BY <2>1 DEF IsForm
    <2>3. z \in DOMAIN Alternatives
      <3>1. SUFFICES ASSUME z \notin DOMAIN Alternatives PROVE FALSE
        OBVIOUS
      <3>2. ~ Reads(s, i, z)
        BY <2>1, <3>1 DEF Begins, FirstOf
      <3> QED
        BY <1>4, <2>1, <2>2, <3>1, <3>2, OnwardToken
    <2>4. PICK f \in Choices(z, w) : e = Derivation(f, i)
      <3>1. Onward(s, Derivation(Then(z, w), i)) = {Derivation(f, i) : f \in Choices(z, w)}
        BY <2>2, <2>3, OnwardNonterminal
      <3> QED
        BY <1>4, <2>1, <3>1
    <2>5. f \in Seq(W)
      <3>1. PICK a \in Alternatives[z] : f = a \o w
        BY <2>4 DEF Choices
      <3>2. a \in Seq(W)
        BY <1>3, <2>3, OverWords
      <3> QED
        BY <2>1, <3>1, <3>2, SameForms
    <2>6. PICK u, v : /\ f = Then(u, v)
                      /\ IsForm(v)
                      /\ u \notin Nullables
                      /\ FirstOf(u) \subseteq FirstOf(z)
      BY <2>1, <2>2, <2>3, <2>4, Beginnings DEF Opens
    <2>7. v \in Seq(W)
      <3>1. f # <<>> /\ Tail(f) = v
        BY <2>6, ThenFacts
      <3> QED
        BY <2>5, <3>1, HeadTailProperties
    <2>8. ~ Begins(s, i, u)
      BY <2>1, <2>6 DEF Begins
    <2>9. Hard(f)
      BY <2>6, <2>7, <2>8
    <2> QED
      BY <2>4, <2>5, <2>9
  <1>5. Closed(s, All)
    BY <1>4 DEF Closed
  <1>6. Derivation(Then(x, y), i) \in All
    <2>1. Hard(Then(x, y))
      BY <1>3
    <2> QED
      BY <1>3, <2>1
  <1>7. \A e \in All : e.read = i
    BY DerivationIs
  <1> HIDE DEF All
  <1> QED
    BY <1>5, <1>6, <1>7 DEF Stuck, Reach, CanRead

\* What does not begin may only be empty.
LEMMA SoftStuck ==
  ASSUME NEW s, NEW i \in Nat, NEW x, ~ Begins(s, i, x), NEW y, IsForm(y), Stuck(s, i, y)
  PROVE  Stuck(s, i, Then(x, y))
  <1>1. CASE x \in Nullables
    <2>1. x \in DOMAIN Alternatives
      BY <1>1 DEF Nullables, Alternatives
    <2>2. ASSUME NEW f \in Choices(x, y) PROVE Stuck(s, i, f)
      <3>1. CASE f = y
        BY <3>1
      <3>2. CASE f # y
        <4>1. PICK u, v : /\ f = Then(u, v)
                          /\ IsForm(v)
                          /\ u \notin Nullables
                          /\ FirstOf(u) \subseteq FirstOf(x)
          BY <2>1, <3>2, Beginnings DEF Opens
        <4>2. ~ Begins(s, i, u)
          BY <4>1 DEF Begins
        <4> QED
          BY <4>1, <4>2, HardStuck
      <3> QED
        BY <3>1, <3>2
    <2> QED
      BY <2>1, <2>2, AllStuck
  <1>2. CASE x \notin Nullables
    BY <1>2, HardStuck
  <1> QED
    BY <1>1, <1>2

----------------------------------------------------------------------------
(***************************************************************************)
(* A symbol that may be empty can be put into a form.                      *)
(***************************************************************************)
LEMMA FormIsThen ==
  ASSUME NEW W, NEW a \in Seq(W), a # <<>>
  PROVE  Head(a) \in W /\ Tail(a) \in Seq(W) /\ a = Then(Head(a), Tail(a))
  <1>1. Head(a) \in W /\ Tail(a) \in Seq(W)
    OBVIOUS
  <1>2. PICK z : z = Then(Head(a), Tail(a))
    OBVIOUS
  <1>3. /\ z \in Seq(W) /\ Len(z) = Len(Tail(a)) + 1 /\ Len(Tail(a)) \in Nat
        /\ z[1] = Head(a) /\ \A i \in 1 .. Len(Tail(a)) : z[i + 1] = Tail(a)[i]
    BY <1>1, <1>2, ThenIs DEF Then
  <1>4. Len(Tail(a)) = Len(a) - 1 /\ Len(a) \in Nat /\ Head(a) = a[1]
        /\ \A i \in 1 .. Len(a) - 1 : Tail(a)[i] = a[i + 1]
    OBVIOUS
  <1>5. \A i \in 1 .. Len(a) : z[i] = a[i]
    <2> SUFFICES ASSUME NEW i \in 1 .. Len(a) PROVE z[i] = a[i]
      OBVIOUS
    <2>1. CASE i = 1
      BY <1>3, <1>4, <2>1
    <2>2. CASE i # 1
      <3>1. i - 1 \in 1 .. Len(a) - 1 /\ i = (i - 1) + 1
        BY <1>4, <2>2
      <3> QED
        BY <1>3, <1>4, <3>1
    <2> QED
      BY <2>1, <2>2
  <1>6. z = a
    BY <1>3, <1>4, <1>5, SeqEqual
  <1> QED
    BY <1>1, <1>2, <1>6

\* The forms over a set of words.
FormsOver(W) == Seq(W)

LEMMA JoinedSeq ==
  ASSUME NEW W, NEW a \in Seq(W), NEW b \in Seq(W), NEW c \in Seq(W)
  PROVE  a \o (b \o c) = (a \o b) \o c /\ a \o b \in Seq(W)
  BY ConcatAssociative, ConcatProperties

\* The same as \o, that the provers do not look into.
Join(a, y) == a \o y

LEMMA Joined ==
  ASSUME NEW W, NEW a \in FormsOver(W), NEW b \in FormsOver(W), NEW c \in FormsOver(W)
  PROVE  Join(a, Join(b, c)) = Join(Join(a, b), c) /\ Join(a, b) \in FormsOver(W)
  BY JoinedSeq DEF FormsOver, Join

LEMMA JoinedThen ==
  ASSUME NEW x, NEW a, NEW y, IsForm(a), IsForm(y)
  PROVE  Join(Then(x, a), y) = Then(x, Join(a, y)) /\ IsForm(Join(a, y))
  BY ThenThen DEF Join

LEMMA JoinedNothing ==
  ASSUME NEW y, IsForm(y)
  PROVE  Join(<<>>, y) = y
  BY Nothing DEF Join

LEMMA JoinedChoices ==
  ASSUME NEW x, NEW y
  PROVE  Choices(x, y) = {Join(a, y) : a \in Alternatives[x]}
  BY DEF Choices, Join

\* What may be empty, put before what follows, takes nothing from what can be read.
LEMMA Inserted ==
  ASSUME NEW s, NEW i \in Nat, NEW x, NEW y, IsForm(y),
         NEW n \in DOMAIN Alternatives, y \in Choices(n, y)
  PROVE  Within(s, i, Then(x, y), Then(x, Then(n, y)))
  <1> SUFFICES ASSUME NEW j \in Nat, Reach(s, Then(x, y), i, j),
                      NEW S, Derivation(Then(x, Then(n, y)), i) \in S, Closed(s, S)
               PROVE  \E e \in S : e.read = j
    BY DEF Within, Reach, CanRead
  <1>1. PICK V : y \in Seq(V)
    BY DEF IsForm
  <1>2. PICK W : W = V \cup Words \cup {x, n}
    OBVIOUS
  <1>3. /\ y \in FormsOver(W)
        /\ Then(n, y) \in FormsOver(W)
        /\ Words \subseteq W
        /\ IsForm(Then(n, y))
    BY <1>1, <1>2, SeqMonotone, ThenIn, ThenFacts DEF FormsOver
  <1>4. PICK more : more = Then(n, y)
    OBVIOUS
  <1> DEFINE Known(a, r) == Derivation(Join(a, more), r) \in S
             Less == {Derivation(Join(a, y), e.read) : a \in FormsOver(W), e \in S}
             All == S \cup {d \in Less : \E a \in FormsOver(W) :
                                 d = Derivation(Join(a, y), d.read) /\ Known(a, d.read)}
  <1>5. ASSUME NEW a \in FormsOver(W), NEW r, Known(a, r)
        PROVE  Derivation(Join(a, y), r) \in All
    <2>1. PICK f, d : f = Derivation(Join(a, more), r) /\ d = Derivation(Join(a, y), r)
      OBVIOUS
    <2>2. f.read = r /\ d.read = r
      BY <2>1, DerivationIs
    <2>3. d \in Less
      BY <1>5, <2>1, <2>2
    <2> HIDE DEF Less
    <2> QED
      BY <1>5, <2>1, <2>2, <2>3
  <1>6. ASSUME NEW d \in All, d \notin S
         PROVE  \E a \in FormsOver(W) : d = Derivation(Join(a, y), d.read) /\ Known(a, d.read)
    BY <1>6
  <1>7. S \subseteq All
    OBVIOUS
  <1>8. ASSUME NEW a, NEW r, Known(a, r) PROVE Derivation(Join(a, more), r) \in S
    BY <1>8
  <1>9. ASSUME NEW a, NEW r, Derivation(Join(a, more), r) \in S PROVE Known(a, r)
    BY <1>9
  <1>10. /\ IsForm(more)
         /\ more \in FormsOver(W)
         /\ y \in Choices(n, y)
         /\ Derivation(Then(x, more), i) \in S
    BY <1>4, <1>3
  <1> HIDE DEF All, Less, Known
  <1>11. ASSUME NEW d \in All PROVE Onward(s, d) \subseteq All
    <2>1. CASE d \in S
      BY <1>7, <2>1 DEF Closed
    <2>2. CASE d \notin S
      <3>0. PICK r : \E a \in FormsOver(W) : d = Derivation(Join(a, y), r) /\ Known(a, r)
        BY <1>6, <2>2
      <3>1. PICK a \in FormsOver(W) : d = Derivation(Join(a, y), r) /\ Known(a, r)
        BY <3>0
      <3>2. Derivation(Join(a, more), r) \in S
        BY <1>8, <3>1
      <3>3. CASE a = <<>>
        <4>1. Join(a, y) = y /\ Join(a, more) = more
          BY <1>10, <3>3, JoinedNothing
        <4>2. Derivation(more, r) \in S
          BY <3>2, <4>1
        <4>3. Derivation(y, r) \in Onward(s, Derivation(more, r))
          <5>1. Onward(s, Derivation(Then(n, y), r)) = {Derivation(f, r) : f \in Choices(n, y)}
            BY OnwardNonterminal
          <5> QED
            BY <1>4, <1>10, <5>1
        <4>4. d \in S
          BY <3>1, <4>1, <4>2, <4>3, Zenon DEF Closed
        <4> QED
          BY <2>2, <4>4
      <3>4. CASE a # <<>>
        <4>1. PICK h \in W, t \in FormsOver(W) : a = Then(h, t)
          <5>1. Head(a) \in W /\ Tail(a) \in FormsOver(W) /\ a = Then(Head(a), Tail(a))
            BY <3>4, FormIsThen DEF FormsOver
          <5> QED
            BY <5>1
        <4>2. /\ IsForm(t) /\ IsForm(Join(t, y)) /\ IsForm(Join(t, more))
              /\ Join(a, y) = Then(h, Join(t, y)) /\ Join(a, more) = Then(h, Join(t, more))
          <5>1. IsForm(t) /\ IsForm(y) /\ IsForm(more)
            BY <1>10 DEF IsForm, FormsOver
          <5>2. Join(Then(h, t), y) = Then(h, Join(t, y)) /\ IsForm(Join(t, y))
            BY <5>1, JoinedThen
          <5>3. Join(Then(h, t), more) = Then(h, Join(t, more)) /\ IsForm(Join(t, more))
            BY <5>1, JoinedThen
          <5> QED
            BY <4>1, <5>1, <5>2, <5>3
        <4>3. /\ d = Derivation(Then(h, Join(t, y)), r)
              /\ Derivation(Then(h, Join(t, more)), r) \in S
          BY <3>1, <3>2, <4>2
        <4>4. CASE h \in DOMAIN Alternatives
          <5>1. ASSUME NEW b \in Alternatives[h]
                PROVE  Derivation(Join(b, Join(t, y)), r) \in All
            <6>1. b \in FormsOver(W)
              BY <1>3, <4>4, OverWords DEF FormsOver
            <6>2. /\ Join(b, Join(t, y)) = Join(Join(b, t), y)
                  /\ Join(b, Join(t, more)) = Join(Join(b, t), more)
                  /\ Join(b, t) \in FormsOver(W)
              <7>1. y \in FormsOver(W) /\ more \in FormsOver(W)
              BY <1>3, <1>10
              <7>2. Join(b, Join(t, y)) = Join(Join(b, t), y) /\ Join(b, t) \in FormsOver(W)
                BY <6>1, <7>1, Joined
              <7>3. Join(b, Join(t, more)) = Join(Join(b, t), more)
                BY <6>1, <7>1, Joined
              <7> QED
                BY <7>2, <7>3
            <6>3. Join(b, Join(t, more)) \in Choices(h, Join(t, more))
              BY JoinedChoices
            <6>4. Derivation(Join(b, Join(t, more)), r)
                    \in Onward(s, Derivation(Then(h, Join(t, more)), r))
              <7>1. Onward(s, Derivation(Then(h, Join(t, more)), r))
                      = {Derivation(f, r) : f \in Choices(h, Join(t, more))}
                BY <4>2, <4>4, OnwardNonterminal
              <7> QED
                BY <6>3, <7>1
            <6>5. Derivation(Join(b, Join(t, more)), r) \in S
              BY <4>3, <6>4 DEF Closed
            <6>6. Known(Join(b, t), r)
              BY <1>9, <6>2, <6>5
            <6> QED
              BY <1>5, <6>2, <6>6
          <5>2. Onward(s, Derivation(Then(h, Join(t, y)), r))
                  = {Derivation(f, r) : f \in Choices(h, Join(t, y))}
            BY <4>2, <4>4, OnwardNonterminal
          <5> QED
            BY <4>3, <5>1, <5>2, JoinedChoices
        <4>5. CASE h \notin DOMAIN Alternatives
          <5>1. CASE Reads(s, r, h)
            <6>1. Onward(s, Derivation(Then(h, Join(t, more)), r))
                    = {Derivation(Join(t, more), r + 1)}
              BY <4>2, <4>5, <5>1, OnwardToken
            <6>2. Onward(s, Derivation(Then(h, Join(t, y)), r))
                    = {Derivation(Join(t, y), r + 1)}
              BY <4>2, <4>5, <5>1, OnwardToken
            <6>3. Known(t, r + 1)
              BY <1>9, <4>3, <6>1 DEF Closed
            <6>4. Derivation(Join(t, y), r + 1) \in All
              BY <1>5, <6>3
            <6> QED
              BY <4>3, <6>2, <6>4
          <5>2. CASE ~ Reads(s, r, h)
            <6>1. Onward(s, Derivation(Then(h, Join(t, y)), r)) = {}
              BY <4>2, <4>5, <5>2, OnwardToken
            <6> QED
              BY <4>3, <6>1
          <5> QED
            BY <5>1, <5>2
        <4> QED
          BY <4>4, <4>5
      <3> QED
        BY <3>3, <3>4
    <2> QED
      BY <2>1, <2>2
  <1>12. Closed(s, All)
    BY <1>11 DEF Closed
  <1>13. Derivation(Then(x, y), i) \in All
    <2>1. PICK a : a = <<x>>
      OBVIOUS
    <2>2. /\ a \in FormsOver(W) /\ Join(a, y) = Then(x, y) /\ Join(a, more) = Then(x, more)
      BY <1>2, <2>1 DEF Then, FormsOver, Join
    <2>3. Known(a, i)
      BY <1>9, <1>10, <2>2
    <2> QED
      BY <1>5, <2>2, <2>3
  <1>14. PICK e \in All : e.read = j
    <2> QED
      BY <1>12, <1>13 DEF Reach, CanRead
  <1>15. CASE e \in S
    BY <1>14, <1>15
  <1>16. CASE e \notin S
    <2>1. PICK a \in FormsOver(W) : Known(a, e.read)
      BY <1>6, <1>16
    <2> QED
      BY <1>8, <1>14, <2>1, DerivationIs
  <1> QED
    BY <1>15, <1>16

----------------------------------------------------------------------------
(***************************************************************************)
(* What is left of the work is to read what is left of the text. A         *)
(* prospect is the form that is still to be read, and a bar: the operators *)
(* that cannot come here, for a level of the expression that is over would *)
(* have taken them.                                                        *)
(***************************************************************************)
Prospect(f, bar) == [form |-> f, bar |-> bar]

Plain(f) == Prospect(f, {})

Last == Prospect(Then("END_OF_FILE", <<>>), {"END"})

\* The form y begins with x.
Opened(y, x) == \E z : IsForm(z) /\ y = Then(x, z)

\* The statements of a block, from one to the next.
InBlock(z) == \E u : IsForm(u) /\ z = Then("statements", Then("CLOSE_BRACE", u))

\* What can follow a statement, an expression, a type, an operand and a primary.
AfterStatement(y) ==
  \/ Opened(y, "SEMICOLON")
  \/ \E z : InBlock(z) /\ y = Then("semicolon", z)

AfterExpression(y) ==
  \/ AfterStatement(y)
  \/ Opened(y, "CLOSE_PAREN")
  \/ Opened(y, "CLOSE_SQUARE")
  \/ Opened(y, "COMMA")
  \/ \E z : IsForm(z) /\ y = Then("further", Then("CLOSE_PAREN", z))

AfterType(y) ==
  \/ Opened(y, "body")
  \/ Opened(y, "SEMICOLON")
  \/ \E z : IsForm(z) /\ y = Then("more", Then("CLOSE_PAREN", z))
  \/ \E z : AfterStatement(z) /\ y = Then("value", z)

\* What ends a statement whose own part is x, or ended, and whose rest is y.
Closing(f, x, ended, y) ==
  \/ \E z : InBlock(z) /\ f = Then(x, z) /\ y = Then("semicolon", z)
  \/ \E z : IsForm(z) /\ f = Then(ended, z) /\ y = Then("SEMICOLON", z)

AfterOperand(y) == \E z : AfterExpression(z) /\ y = Then("operations", z)

AfterPrimary(y) == \E z : AfterOperand(z) /\ y = Then("members", z)

\* The procedure p of a declaration reads f, before work that reads y.
OfDeclaration(p, f, y) ==
  CASE p = "Function" ->
         f = Then("FUNCTION", Then("IDENT", Then("OPEN_PAREN", Then("params", Then("CLOSE_PAREN",
               Then("COLON", Then("type", Then("body", y))))))))
    [] p = "Params" -> f = Then("params", y) /\ Opened(y, "CLOSE_PAREN")
    [] p = "MoreParams" -> f = Then("more", y) /\ Opened(y, "CLOSE_PAREN")
    [] p = "FunctionBody" -> f = Then("body", y)
    [] p = "StructDecl" ->
         f =
             Then("STRUCT", Then("IDENT", Then("OPEN_BRACE", Then("fields",
               Then("CLOSE_BRACE", y)))))
    [] p = "Fields" -> f = Then("fields", y) /\ Opened(y, "CLOSE_BRACE")
    [] p = "Import" -> f = Then("IMPORT", Then("STRING", y))
    [] p = "TypeName" -> f = Then("type", y) /\ AfterType(y)
    [] p = "Stars" -> f = Then("stars", y) /\ AfterType(y)
    [] OTHER -> FALSE

\* The same of a statement,
OfStatement(p, f, y) ==
  CASE p = "Block" -> f = Then("block", y)
    [] p = "Statements" -> f = Then("statements", y) /\ Opened(y, "CLOSE_BRACE")
    [] p = "MoreStatements" ->
         f = Then("semicolon", Then("statements", y)) /\ Opened(y, "CLOSE_BRACE")
    [] p = "Statement" -> Closing(f, "statement", "init", y)
    [] p = "ReturnStatement" -> \E g : f = Then("RETURN", g) /\ Closing(g, "result", "ended", y)
    [] p = "ReturnValue" -> Closing(f, "result", "ended", y)
    [] p = "IfStatement" -> f = Then("arms", y) /\ AfterStatement(y)
    [] p = "IfRest" -> f = Then("others", y) /\ AfterStatement(y)
    [] p = "LetStatement" ->
         /\ f = Then("LET", Then("IDENT", Then("COLON", Then("type", Then("value", y)))))
         /\ AfterStatement(y)
    [] p = "LetValue" -> f = Then("value", y) /\ AfterStatement(y)
    [] p = "WhileStatement" ->
         f =
             Then("WHILE", Then("OPEN_PAREN", Then("expression", Then("CLOSE_PAREN",
               Then("block", y)))))
    [] p = "WhileCond" -> f = Then("CLOSE_PAREN", Then("block", y))
    [] p = "ForStatement" ->
         f = Then("FOR", Then("OPEN_PAREN", Then("init", Then("expression", Then("SEMICOLON",
               Then("expression", Then("CLOSE_PAREN", Then("block", y))))))))
    [] p = "ForCond" ->
         f = Then("SEMICOLON", Then("expression", Then("CLOSE_PAREN", Then("block", y))))
    [] OTHER -> FALSE

\* and of an operand and its parts.
OfPrimary(p, f, y) ==
  CASE p = "MoreDot" -> f = Then("members", y) /\ AfterOperand(y)
    [] p = "Primary" -> f = Then("primary", y) /\ AfterPrimary(y)
    [] p = "FunctionCall" ->
         f = Then("IDENT", Then("OPEN_PAREN", Then("arguments", Then("CLOSE_PAREN", y))))
    [] p = "Arguments" -> f = Then("arguments", y) /\ Opened(y, "CLOSE_PAREN")
    [] p = "MoreArguments" -> f = Then("further", y) /\ Opened(y, "CLOSE_PAREN")
    [] p = "ArrayAccess" ->
         f = Then("IDENT", Then("OPEN_SQUARE", Then("expression", Then("CLOSE_SQUARE", y))))
    [] p = "Variable" -> f = Then("IDENT", y)
    [] p = "StructInit" ->
         f = Then("IDENT", Then("OPEN_BRACE", Then("inits", Then("CLOSE_BRACE", y))))
    [] p = "Inits" -> f = Then("inits", y) /\ Opened(y, "CLOSE_BRACE")
    [] p = "DotOp" -> f = Then("primary", Then("members", y)) /\ AfterOperand(y)
    [] p = "Unary" -> f = Then("operand", y) /\ AfterOperand(y)
    [] OTHER -> FALSE

\* The operators that each level leaves none of behind it.
Factors == MulDivOps

Terms == MulDivOps \cup AddSubOps

Comparisons == MulDivOps \cup AddSubOps \cup ComparisonOps

\* A level of binary operators: an operand, or the rest of the operations.
OfBinary(p, a, b) ==
  CASE p = "Comparison" -> a = Plain(Then("operand", b.form)) /\ b.bar = Comparisons
    [] p = "AddSub" -> a = Plain(Then("operand", b.form)) /\ b.bar = Terms
    [] p = "MulDiv" -> a = Plain(Then("operand", b.form)) /\ b.bar = Factors
    [] p = "MoreComparison" -> a = Prospect(b.form, Terms) /\ b.bar = Comparisons
    [] p = "MoreAddSub" -> a = Prospect(b.form, Factors) /\ b.bar = Terms
    [] p = "MoreMulDiv" -> a = Plain(b.form) /\ b.bar = Factors
    [] OTHER -> FALSE

\* The expression on the right of an assignment leaves what follows it to be read by both.
OfExpression(p, a, b) ==
  CASE p = "Expression" ->
         \/ a = Plain(Then("expression", b.form)) /\ b.bar = {} /\ AfterExpression(b.form)
         \/ a = Plain(Then("operand", b.form)) /\ b.bar = Comparisons /\ AfterOperand(b.form)
    [] p = "MoreAssign" ->
         \/ /\ a = Prospect(Then("operations", b.form), Comparisons)
            /\ b.bar = {} /\ AfterExpression(b.form)
         \/ /\ a = Prospect(b.form, Comparisons)
            /\ b.bar = Comparisons /\ AfterOperand(b.form)
    [] OTHER -> FALSE

\* The step p takes the work from the prospect a to the prospect b.
Stage(p, a, b) ==
  /\ b = Prospect(b.form, b.bar) /\ IsForm(b.form)
  /\ \/ p \in Constructions \cup {"ReadFile"} /\ a = b /\ b # Last
     \/ p \in Symbols /\ a = Plain(Then(p, b.form)) /\ b.bar = {}
     \/ p = "Document" /\ a = Plain(Then("document", b.form)) /\ b = Last
     \/ OfDeclaration(p, a.form, b.form) /\ a = Plain(a.form) /\ b.bar = {}
     \/ OfStatement(p, a.form, b.form) /\ a = Plain(a.form) /\ b.bar = {}
     \/ OfPrimary(p, a.form, b.form) /\ a = Plain(a.form) /\ b.bar = {}
     \/ OfBinary(p, a, b) /\ AfterOperand(b.form)
     \/ OfExpression(p, a, b)

\* Prospects lead from step to step through the work w, from a to the end of the text.
Fits(w, a) ==
  \E F : /\ F[1] = a
         /\ F[Len(w) + 1] = Last
         /\ \A k \in 1 .. Len(w) : Stage(w[k].do, F[k], F[k + 1])

LEMMA ProspectIs ==
  ASSUME NEW f, NEW bar
  PROVE  Prospect(f, bar).form = f /\ Prospect(f, bar).bar = bar
  BY DEF Prospect

LEMMA FitsEmpty ==
  /\ Fits(<<>>, Last)
  /\ \A a : Fits(<<>>, a) => a = Last
  <1>1. Len(<<>>) = 0
    OBVIOUS
  <1>2. Fits(<<>>, Last)
    <2> DEFINE F == [k \in {1} |-> Last]
    <2>1. F[1] = Last
      OBVIOUS
    <2> HIDE DEF F
    <2> QED
      BY <1>1, <2>1 DEF Fits
  <1> QED
    BY <1>1, <1>2 DEF Fits

LEMMA FitsPush ==
  ASSUME NEW f, NEW w, IsForm(w), NEW a, NEW b, Stage(f.do, a, b), Fits(w, b)
  PROVE  Fits(Then(f, w), a)
  <1>1. PICK S : w \in Seq(S)
    BY DEF IsForm
  <1>2. PICK T : T = S \cup {f}
    OBVIOUS
  <1>3. f \in T /\ w \in Seq(T)
    BY <1>1, <1>2, SeqMonotone
  <1>4. PICK v : v = Then(f, w)
    OBVIOUS
  <1>5. /\ Len(v) = Len(w) + 1 /\ Len(w) \in Nat /\ v[1] = f
        /\ \A i \in 1 .. Len(w) : v[i + 1] = w[i]
    BY <1>3, <1>4, ThenIs DEF Then
  <1>6. PICK G : /\ G[1] = b /\ G[Len(w) + 1] = Last
                 /\ \A k \in 1 .. Len(w) : Stage(w[k].do, G[k], G[k + 1])
    BY DEF Fits
  <1> DEFINE F == [k \in 1 .. Len(w) + 2 |-> IF k = 1 THEN a ELSE G[k - 1]]
  <1>7. F[1] = a /\ \A k \in 1 .. Len(w) + 1 : F[k + 1] = G[k]
    BY <1>5
  <1> HIDE DEF F
  <1>8. F[Len(v) + 1] = Last
    BY <1>5, <1>6, <1>7
  <1>9. ASSUME NEW k \in 1 .. Len(v) PROVE Stage(v[k].do, F[k], F[k + 1])
    <2>1. CASE k = 1
      BY <1>5, <1>6, <1>7, <2>1
    <2>2. CASE k # 1
      <3>1. PICK i \in 1 .. Len(w) : k = i + 1
        <4>1. k - 1 \in 1 .. Len(w) /\ k = (k - 1) + 1
          BY <1>5, <2>2
        <4> QED
          BY <4>1
      <3>2. i \in 1 .. Len(w) + 1 /\ i + 1 \in 1 .. Len(w) + 1
        BY <1>5
      <3>3. F[k] = G[i] /\ F[k + 1] = G[i + 1] /\ v[k] = w[i]
        BY <1>5, <1>7, <3>1, <3>2
      <3> QED
        BY <1>6, <3>3
    <2> QED
      BY <2>1, <2>2
  <1> QED
    BY <1>4, <1>7, <1>8, <1>9 DEF Fits

LEMMA FitsPop ==
  ASSUME NEW S, NEW w \in Seq(S), w # <<>>, NEW a, Fits(w, a)
  PROVE  \E b : Stage(Head(w).do, a, b) /\ Fits(Tail(w), b)
  <1>1. PICK F : /\ F[1] = a /\ F[Len(w) + 1] = Last
                 /\ \A k \in 1 .. Len(w) : Stage(w[k].do, F[k], F[k + 1])
    BY DEF Fits
  <1>2. PICK v : v = Tail(w)
    OBVIOUS
  <1>3. /\ Len(w) \in Nat /\ Len(w) > 0 /\ Len(v) = Len(w) - 1 /\ Head(w) = w[1]
        /\ \A k \in 1 .. Len(w) - 1 : v[k] = w[k + 1]
    BY <1>2
  <1>4. Stage(Head(w).do, a, F[2])
    <2>1. 1 \in 1 .. Len(w) /\ 1 + 1 = 2
      BY <1>3
    <2> QED
      BY <1>1, <1>3, <2>1
  <1> DEFINE G == [k \in 1 .. Len(w) |-> F[k + 1]]
  <1>5. \A k \in 1 .. Len(w) : G[k] = F[k + 1]
    OBVIOUS
  <1> HIDE DEF G
  <1>6. G[1] = F[2] /\ G[Len(v) + 1] = Last
    <2>1. 1 \in 1 .. Len(w) /\ 1 + 1 = 2 /\ Len(v) + 1 = Len(w) /\ Len(w) \in 1 .. Len(w)
      BY <1>3
    <2> QED
      BY <1>1, <1>5, <2>1
  <1>7. ASSUME NEW k \in 1 .. Len(v) PROVE Stage(v[k].do, G[k], G[k + 1])
    <2>1. k \in 1 .. Len(w) /\ k + 1 \in 1 .. Len(w) /\ k \in 1 .. Len(w) - 1
      BY <1>3
    <2> QED
      BY <1>1, <1>3, <1>5, <2>1
  <1> QED
    BY <1>2, <1>4, <1>6, <1>7 DEF Fits

----------------------------------------------------------------------------
(***************************************************************************)
(* Which alternative it is that the next token chooses, where the parser   *)
(* looks at it: none of the others can read on. In four places one can,    *)
(* and the one that is chosen can read all that it does: an operation, a   *)
(* star and the arguments of a call could also begin the next statement,   *)
(* as no semicolon has to come before it.                                  *)
(***************************************************************************)
\* From the place i, the two forms read the same.
Same(s, i, f, g) == Within(s, i, f, g) /\ Within(s, i, g, f)

\* The one symbol that can be read.
Ahead(s, i, t) == \A x : Reads(s, i, x) => x = t

LEMMA SameIs ==
  ASSUME NEW s, NEW i
  PROVE  /\ \A f : Same(s, i, f, f)
         /\ \A f, g : Stuck(s, i, f) /\ Stuck(s, i, g) => Same(s, i, f, g)
         /\ \A f, g : Same(s, i, f, g) => Same(s, i, g, f)
         /\ \A f, g, h : Same(s, i, f, g) /\ Same(s, i, g, h) => Same(s, i, f, h)
         /\ \A f, g : Same(s, i, f, g) /\ Stuck(s, i, g) => Stuck(s, i, f)
  BY DEF Same, Within, Stuck

LEMMA Chosen ==
  ASSUME NEW s, NEW i \in Nat, NEW x \in DOMAIN Alternatives, NEW y, IsForm(y),
         NEW f \in Choices(x, y),
         \A g \in Choices(x, y) : g = f \/ Stuck(s, i, g) \/ Within(s, i, g, f)
  PROVE  Same(s, i, Then(x, y), f)
  <1>1. \A g \in Choices(x, y) : Within(s, i, g, f)
    BY WithinIs
  <1>2. Within(s, i, Then(x, y), f)
    BY <1>1, AllWithin
  <1>3. Within(s, i, f, Then(x, y))
    BY Taken
  <1> QED
    BY <1>2, <1>3 DEF Same

LEMMA OnlyChoice ==
  ASSUME NEW s, NEW i \in Nat, NEW x \in DOMAIN Alternatives, NEW y, IsForm(y), NEW f,
         Choices(x, y) = {f}
  PROVE  Same(s, i, Then(x, y), f)
  BY Chosen

LEMMA ChosenOfTwo ==
  ASSUME NEW s, NEW i \in Nat, NEW x \in DOMAIN Alternatives, NEW y, IsForm(y), NEW f, NEW g,
         Choices(x, y) = {f, g}
  PROVE  /\ Stuck(s, i, g) => Same(s, i, Then(x, y), f)
         /\ Stuck(s, i, f) => Same(s, i, Then(x, y), g)
  BY Chosen

LEMMA HardApart ==
  ASSUME NEW s, NEW i \in Nat, NEW t, Ahead(s, i, t), NEW x, x \notin Nullables,
         t \notin FirstOf(x), NEW y, IsForm(y)
  PROVE  Stuck(s, i, Then(x, y))
  <1>1. ~ Begins(s, i, x)
    BY DEF Begins, Ahead
  <1> QED
    BY <1>1, HardStuck

LEMMA SoftApart ==
  ASSUME NEW s, NEW i \in Nat, NEW t, Ahead(s, i, t), NEW x,
         t \notin FirstOf(x), NEW y, IsForm(y), Stuck(s, i, y)
  PROVE  Stuck(s, i, Then(x, y))
  <1>1. ~ Begins(s, i, x)
    BY DEF Begins, Ahead
  <1> QED
    BY <1>1, SoftStuck

\* The tokens that the grammar names.
TheTokens ==
  {"FUNCTION", "STRUCT", "IMPORT", "IF", "ELSE", "WHILE", "FOR", "RETURN", "LET",
   "INT", "FLOAT", "STRING", "IDENT", "EQ", "MUL", "SUB", "AND", "DOT", "SUB_GT",
   "OPEN_PAREN", "CLOSE_PAREN", "OPEN_BRACE", "CLOSE_BRACE", "OPEN_SQUARE", "CLOSE_SQUARE",
   "COLON", "COMMA", "SEMICOLON", "END_OF_FILE"} \cup Operators

LEMMA TokensAre ==
  ASSUME NEW x \in TheTokens
  PROVE  x \notin Nullables /\ x \notin DOMAIN Alternatives /\ FirstOf(x) = {x}
  BY DEF TheTokens, Nullables, FirstOf, Alternatives, Operators

LEMMA Solid ==
  {"type", "body", "block", "statement", "result", "init", "ended", "simple", "arms",
   "expression", "operand", "primary"} \cap Nullables = {}
  BY DEF Nullables

LEMMA FirstTable ==
  /\ FirstOf("document") = {"FUNCTION", "STRUCT", "IMPORT"}
  /\ FirstOf("params") = {"IDENT"} /\ FirstOf("more") = {"COMMA"}
  /\ FirstOf("fields") = {"IDENT"} /\ FirstOf("type") = {"IDENT"} /\ FirstOf("stars") = {"MUL"}
  /\ FirstOf("body") = {"SEMICOLON", "OPEN_BRACE"} /\ FirstOf("block") = {"OPEN_BRACE"}
  /\ FirstOf("statements") = Operands \cup Keywords \cup {"RETURN"}
  /\ FirstOf("statement") = Operands \cup Keywords \cup {"RETURN"}
  /\ FirstOf("semicolon") = {"SEMICOLON"}
  /\ FirstOf("result") = Operands \cup {"SEMICOLON"}
  /\ FirstOf("init") = Operands \cup Keywords \cup {"RETURN"}
  /\ FirstOf("ended") = Operands \cup {"SEMICOLON"}
  /\ FirstOf("simple") = Operands \cup Keywords
  /\ FirstOf("arms") = {"IF"} /\ FirstOf("others") = {"ELSE"} /\ FirstOf("value") = {"EQ"}
  /\ FirstOf("expression") = Operands /\ FirstOf("operations") = Operators
  /\ FirstOf("operand") = Operands /\ FirstOf("members") = {"DOT", "SUB_GT"}
  /\ FirstOf("primary") = Primaries /\ FirstOf("arguments") = Operands
  /\ FirstOf("further") = {"COMMA"} /\ FirstOf("inits") = {"IDENT"}
  BY DEF FirstOf, Firsts, Alternatives

LEMMA TokenApart ==
  ASSUME NEW s, NEW i \in Nat, NEW t, Ahead(s, i, t), NEW x \in TheTokens, x # t, NEW y,
         IsForm(y)
  PROVE  Stuck(s, i, Then(x, y))
  BY HardApart, TokensAre

LEMMA OpenedIs ==
  ASSUME NEW y, NEW x, Opened(y, x)
  PROVE  IsForm(y)
  BY ThenFacts DEF Opened

LEMMA OpenedApart ==
  ASSUME NEW s, NEW i \in Nat, NEW t, Ahead(s, i, t), NEW x \in TheTokens, x # t,
         NEW y, Opened(y, x)
  PROVE  Stuck(s, i, y)
  BY TokenApart DEF Opened

LEMMA DocumentChosen ==
  ASSUME NEW s, NEW i \in Nat, NEW t, Ahead(s, i, t), NEW y, Opened(y, "END_OF_FILE")
  PROVE  /\ t = "FUNCTION" => Same(s, i, Then("document", y),
              Then("FUNCTION", Then("IDENT", Then("OPEN_PAREN", Then("params",
                Then("CLOSE_PAREN", Then("COLON", Then("type", Then("body",
                  Then("document", y))))))))))
         /\ t = "STRUCT" => Same(s, i, Then("document", y),
              Then("STRUCT", Then("IDENT", Then("OPEN_BRACE", Then("fields",
                Then("CLOSE_BRACE", Then("document", y)))))))
         /\ t = "IMPORT" => Same(s, i, Then("document", y),
              Then("IMPORT", Then("STRING", Then("document", y))))
         /\ t \notin {"FUNCTION", "STRUCT", "IMPORT"} => Same(s, i, Then("document", y), y)
  <1> DEFINE one == Then("IDENT", Then("OPEN_PAREN", Then("params",
                Then("CLOSE_PAREN", Then("COLON", Then("type", Then("body",
                  Then("document", y))))))))
             two == Then("IDENT", Then("OPEN_BRACE", Then("fields",
                Then("CLOSE_BRACE", Then("document", y)))))
             three == Then("STRING", Then("document", y))
  <1>1. IsForm(y)
    BY OpenedIs
  <1>2. IsForm(one) /\ IsForm(two) /\ IsForm(three)
    BY <1>1, ThenFacts
  <1>3. /\ "document" \in DOMAIN Alternatives
        /\ Choices("document", y)
             = {y, Then("FUNCTION", one), Then("STRUCT", two), Then("IMPORT", three)}
    BY <1>1, Choices_document
  <1> HIDE DEF one, two, three
  <1>4. /\ t # "FUNCTION" => Stuck(s, i, Then("FUNCTION", one))
        /\ t # "STRUCT" => Stuck(s, i, Then("STRUCT", two))
        /\ t # "IMPORT" => Stuck(s, i, Then("IMPORT", three))
        /\ t # "END_OF_FILE" => Stuck(s, i, y)
    BY <1>2, TokenApart, OpenedApart DEF TheTokens
  <1>5. /\ t = "FUNCTION" => Same(s, i, Then("document", y), Then("FUNCTION", one))
        /\ t = "STRUCT" => Same(s, i, Then("document", y), Then("STRUCT", two))
        /\ t = "IMPORT" => Same(s, i, Then("document", y), Then("IMPORT", three))
        /\ t \notin {"FUNCTION", "STRUCT", "IMPORT"} => Same(s, i, Then("document", y), y)
    BY <1>1, <1>3, <1>4, Chosen
  <1> QED
    BY <1>5 DEF one, two, three

\* The lists that a closing token ends.
LEMMA ListsChosen ==
  ASSUME NEW s, NEW i \in Nat, NEW t, Ahead(s, i, t), NEW y
  PROVE  /\ Opened(y, "CLOSE_PAREN") =>
              /\ t = "CLOSE_PAREN" =>
                   /\ Same(s, i, Then("params", y), y) /\ Same(s, i, Then("more", y), y)
                   /\ Same(s, i, Then("arguments", y), y) /\ Same(s, i, Then("further", y), y)
              /\ t # "CLOSE_PAREN" =>
                   /\ Same(s, i, Then("params", y),
                           Then("IDENT", Then("COLON", Then("type", Then("more", y)))))
                   /\ Same(s, i, Then("more", y), Then("COMMA", Then("params", y)))
                   /\ Same(s, i, Then("arguments", y), Then("expression", Then("further", y)))
                   /\ Same(s, i, Then("further", y), Then("COMMA", Then("arguments", y)))
         /\ Opened(y, "CLOSE_BRACE") =>
              /\ t = "CLOSE_BRACE" =>
                   /\ Same(s, i, Then("fields", y), y) /\ Same(s, i, Then("inits", y), y)
                   /\ Same(s, i, Then("statements", y), y)
              /\ t # "CLOSE_BRACE" =>
                   /\ Same(s, i, Then("fields", y),
                           Then("IDENT", Then("COLON", Then("type", Then("SEMICOLON",
                             Then("fields", y))))))
                   /\ Same(s, i, Then("inits", y),
                           Then("IDENT", Then("COLON", Then("expression", Then("COMMA",
                             Then("inits", y))))))
                   /\ Same(s, i, Then("statements", y), Then("statement", Then("statements", y)))
  <1>1. CASE Opened(y, "CLOSE_PAREN")
    <2>1. IsForm(y) /\ (t # "CLOSE_PAREN" => Stuck(s, i, y))
      BY <1>1, OpenedIs, OpenedApart DEF TheTokens
    <2>2. /\ IsForm(Then("COLON", Then("type", Then("more", y)))) /\ IsForm(Then("params", y))
          /\ IsForm(Then("further", y)) /\ IsForm(Then("arguments", y))
      BY <2>1, ThenFacts
    <2>3. t = "CLOSE_PAREN" =>
            /\ Stuck(s, i, Then("IDENT", Then("COLON", Then("type", Then("more", y)))))
            /\ Stuck(s, i, Then("COMMA", Then("params", y)))
            /\ Stuck(s, i, Then("expression", Then("further", y)))
            /\ Stuck(s, i, Then("COMMA", Then("arguments", y)))
      <3>1. "expression" \notin Nullables /\ "CLOSE_PAREN" \notin FirstOf("expression")
        BY FirstTable, Solid DEF Operands, Primaries, UnaryOps
      <3> QED
        BY <2>2, <3>1, TokenApart, HardApart DEF TheTokens
    <2>4. /\ t = "CLOSE_PAREN" => Same(s, i, Then("params", y), y)
          /\ t # "CLOSE_PAREN" =>
               Same(s, i, Then("params", y),
                    Then("IDENT", Then("COLON", Then("type", Then("more", y)))))
      BY <2>1, <2>3, Choices_params, ChosenOfTwo
    <2>5. /\ t = "CLOSE_PAREN" => Same(s, i, Then("more", y), y)
          /\ t # "CLOSE_PAREN" => Same(s, i, Then("more", y), Then("COMMA", Then("params", y)))
      BY <2>1, <2>3, Choices_more, ChosenOfTwo
    <2>6. /\ t = "CLOSE_PAREN" => Same(s, i, Then("arguments", y), y)
          /\ t # "CLOSE_PAREN" =>
               Same(s, i, Then("arguments", y), Then("expression", Then("further", y)))
      BY <2>1, <2>3, Choices_arguments, ChosenOfTwo
    <2>7. /\ t = "CLOSE_PAREN" => Same(s, i, Then("further", y), y)
          /\ t # "CLOSE_PAREN" =>
               Same(s, i, Then("further", y), Then("COMMA", Then("arguments", y)))
      BY <2>1, <2>3, Choices_further, ChosenOfTwo
    <2>8. ~ Opened(y, "CLOSE_BRACE")
      <3>1. SUFFICES ASSUME Opened(y, "CLOSE_BRACE") PROVE FALSE
        OBVIOUS
      <3>2. PICK u, v : /\ IsForm(u)
                        /\ y = Then("CLOSE_PAREN", u)
                        /\ IsForm(v)
                        /\ y = Then("CLOSE_BRACE", v)
        BY <1>1, <3>1 DEF Opened
      <3>3. Head(y) = "CLOSE_PAREN"
        BY <3>2, ThenFacts
      <3>4. Head(y) = "CLOSE_BRACE"
        BY <3>2, ThenFacts
      <3> QED
        BY <3>3, <3>4
    <2> QED
      BY <2>4, <2>5, <2>6, <2>7, <2>8
  <1>2. CASE Opened(y, "CLOSE_BRACE") /\ ~ Opened(y, "CLOSE_PAREN")
    <2>1. IsForm(y) /\ (t # "CLOSE_BRACE" => Stuck(s, i, y))
      BY <1>2, OpenedIs, OpenedApart DEF TheTokens
    <2>2. /\ IsForm(Then("COLON", Then("type", Then("SEMICOLON", Then("fields", y)))))
          /\ IsForm(Then("COLON", Then("expression", Then("COMMA", Then("inits", y)))))
          /\ IsForm(Then("statements", y))
      BY <2>1, ThenFacts
    <2>3. t = "CLOSE_BRACE" =>
            /\ Stuck(s, i,
                     Then("IDENT", Then("COLON", Then("type", Then("SEMICOLON",
                       Then("fields", y))))))
            /\ Stuck(s, i,
                     Then("IDENT", Then("COLON", Then("expression", Then("COMMA",
                       Then("inits", y))))))
            /\ Stuck(s, i, Then("statement", Then("statements", y)))
      <3>1. "statement" \notin Nullables /\ "CLOSE_BRACE" \notin FirstOf("statement")
        BY FirstTable, Solid DEF Operands, Primaries, UnaryOps, Keywords
      <3> QED
        BY <2>2, <3>1, TokenApart, HardApart DEF TheTokens
    <2>4. /\ t = "CLOSE_BRACE" => Same(s, i, Then("fields", y), y)
          /\ t # "CLOSE_BRACE" =>
               Same(s, i, Then("fields", y),
                    Then("IDENT", Then("COLON", Then("type", Then("SEMICOLON",
                      Then("fields", y))))))
      BY <2>1, <2>3, Choices_fields, ChosenOfTwo
    <2>5. /\ t = "CLOSE_BRACE" => Same(s, i, Then("inits", y), y)
          /\ t # "CLOSE_BRACE" =>
               Same(s, i, Then("inits", y),
                    Then("IDENT", Then("COLON", Then("expression", Then("COMMA",
                      Then("inits", y))))))
      BY <2>1, <2>3, Choices_inits, ChosenOfTwo
    <2>6. /\ t = "CLOSE_BRACE" => Same(s, i, Then("statements", y), y)
          /\ t # "CLOSE_BRACE" =>
               Same(s, i, Then("statements", y), Then("statement", Then("statements", y)))
      BY <2>1, <2>3, Choices_statements, ChosenOfTwo
    <2> QED
      BY <1>2, <2>4, <2>5, <2>6
  <1> QED
    BY <1>1, <1>2

LEMMA BodyChosen ==
  ASSUME NEW s, NEW i \in Nat, NEW t, Ahead(s, i, t), NEW y, IsForm(y)
  PROVE  /\ t = "SEMICOLON" => Same(s, i, Then("body", y), Then("SEMICOLON", y))
         /\ t # "SEMICOLON" => Same(s, i, Then("body", y), Then("block", y))
         /\ Same(s, i, Then("block", y),
                 Then("OPEN_BRACE", Then("statements", Then("CLOSE_BRACE", y))))
  <1>1. t = "SEMICOLON" => Stuck(s, i, Then("block", y))
    <2>1. "block" \notin Nullables /\ "SEMICOLON" \notin FirstOf("block")
      BY FirstTable, Solid
    <2> QED
      BY <2>1, HardApart
  <1>2. t # "SEMICOLON" => Stuck(s, i, Then("SEMICOLON", y))
    BY TokenApart DEF TheTokens
  <1>3. /\ t = "SEMICOLON" => Same(s, i, Then("body", y), Then("SEMICOLON", y))
        /\ t # "SEMICOLON" => Same(s, i, Then("body", y), Then("block", y))
    BY <1>1, <1>2, Choices_body, ChosenOfTwo
  <1>4. Same(s, i, Then("block", y),
             Then("OPEN_BRACE", Then("statements", Then("CLOSE_BRACE", y))))
    BY Choices_block, OnlyChoice
  <1> QED
    BY <1>3, <1>4

LEMMA OnlyChoices ==
  ASSUME NEW s, NEW i \in Nat, NEW y, IsForm(y)
  PROVE  /\ Same(s, i, Then("type", y), Then("IDENT", Then("stars", y)))
         /\ Same(s, i, Then("arms", y),
                 Then("IF", Then("OPEN_PAREN", Then("expression", Then("CLOSE_PAREN",
                   Then("block", Then("others", y)))))))
         /\ Same(s, i, Then("expression", y), Then("operand", Then("operations", y)))
  BY Choices_type, Choices_arms, Choices_expression, OnlyChoice

\* Within a block.
LEMMA InBlockIs ==
  ASSUME NEW z, InBlock(z)
  PROVE  IsForm(z) /\ \E y : Opened(y, "CLOSE_BRACE") /\ z = Then("statements", y)
  BY ThenFacts DEF InBlock, Opened

\* What a statement or the end of the block can begin with.
LEMMA InBlockApart ==
  ASSUME NEW s, NEW i \in Nat, NEW t, Ahead(s, i, t), NEW z, InBlock(z),
         t \notin Operands \cup Keywords \cup {"RETURN", "CLOSE_BRACE"}
  PROVE  Stuck(s, i, z)
  <1>1. PICK y : Opened(y, "CLOSE_BRACE") /\ z = Then("statements", y)
    BY InBlockIs
  <1>2. Stuck(s, i, y) /\ IsForm(y)
    BY <1>1, OpenedApart, OpenedIs DEF TheTokens
  <1>3. t \notin FirstOf("statements")
    BY FirstTable
  <1> QED
    BY <1>1, <1>2, <1>3, SoftApart

LEMMA SemicolonChosen ==
  ASSUME NEW s, NEW i \in Nat, NEW t, Ahead(s, i, t), NEW z, InBlock(z)
  PROVE  /\ t = "SEMICOLON" => Same(s, i, Then("semicolon", z), Then("SEMICOLON", z))
         /\ t # "SEMICOLON" => Same(s, i, Then("semicolon", z), z)
  <1>1. IsForm(z)
    BY InBlockIs
  <1>2. t = "SEMICOLON" => Stuck(s, i, z)
    BY InBlockApart DEF Operands, Primaries, UnaryOps, Keywords
  <1>3. t # "SEMICOLON" => Stuck(s, i, Then("SEMICOLON", z))
    BY <1>1, TokenApart DEF TheTokens
  <1> QED
    BY <1>1, <1>2, <1>3, Choices_semicolon, ChosenOfTwo

LEMMA AfterStatementIs ==
  ASSUME NEW y, AfterStatement(y)
  PROVE  IsForm(y)
  BY OpenedIs, InBlockIs, ThenFacts DEF AfterStatement

LEMMA AfterStatementApart ==
  ASSUME NEW s, NEW i \in Nat, NEW t, Ahead(s, i, t), NEW y, AfterStatement(y),
         t \notin Operands \cup Keywords \cup {"RETURN", "CLOSE_BRACE", "SEMICOLON"}
  PROVE  Stuck(s, i, y)
  <1>1. CASE Opened(y, "SEMICOLON")
    BY <1>1, OpenedApart DEF TheTokens
  <1>2. ASSUME NEW z, InBlock(z), y = Then("semicolon", z) PROVE Stuck(s, i, y)
    BY <1>2, InBlockApart, SemicolonChosen, SameIs
  <1> QED
    BY <1>1, <1>2 DEF AfterStatement

LEMMA AfterExpressionIs ==
  ASSUME NEW y, AfterExpression(y)
  PROVE  IsForm(y)
  BY AfterStatementIs, OpenedIs, ThenFacts DEF AfterExpression

LEMMA AfterExpressionApart ==
  ASSUME NEW s, NEW i \in Nat, NEW t, Ahead(s, i, t), NEW y, AfterExpression(y),
         t \notin Operands \cup Keywords \cup {"RETURN", "CLOSE_BRACE", "SEMICOLON"},
         t \notin {"CLOSE_PAREN", "CLOSE_SQUARE", "COMMA"}
  PROVE  Stuck(s, i, y)
  <1>1. CASE AfterStatement(y)
    BY <1>1, AfterStatementApart
  <1>2. CASE Opened(y, "CLOSE_PAREN") \/ Opened(y, "CLOSE_SQUARE") \/ Opened(y, "COMMA")
    BY <1>2, OpenedApart DEF TheTokens
  <1>3. ASSUME NEW z, IsForm(z), y = Then("further", Then("CLOSE_PAREN", z))
        PROVE  Stuck(s, i, y)
    <2>1. Stuck(s, i, Then("CLOSE_PAREN", z)) /\ IsForm(Then("CLOSE_PAREN", z))
      BY <1>3, TokenApart, ThenFacts DEF TheTokens
    <2>2. t \notin FirstOf("further")
      BY FirstTable
    <2> QED
      BY <1>3, <2>1, <2>2, SoftApart
  <1> QED
    BY <1>1, <1>2, <1>3 DEF AfterExpression

LEMMA StatementChosen ==
  ASSUME NEW s, NEW i \in Nat, NEW t, Ahead(s, i, t), NEW z, IsForm(z)
  PROVE  /\ t = "RETURN" => Same(s, i, Then("statement", z), Then("RETURN", Then("result", z)))
         /\ t # "RETURN" =>
              Same(s, i, Then("statement", z), Then("simple", Then("semicolon", z)))
         /\ t = "RETURN" => Same(s, i, Then("init", z), Then("RETURN", Then("ended", z)))
         /\ t # "RETURN" => Same(s, i, Then("init", z), Then("simple", Then("SEMICOLON", z)))
  <1>1. /\ IsForm(Then("result", z)) /\ IsForm(Then("ended", z))
        /\ IsForm(Then("semicolon", z)) /\ IsForm(Then("SEMICOLON", z))
    BY ThenFacts
  <1>2. t = "RETURN" =>
          /\ Stuck(s, i, Then("simple", Then("semicolon", z)))
          /\ Stuck(s, i, Then("simple", Then("SEMICOLON", z)))
    <2>1. "simple" \notin Nullables /\ "RETURN" \notin FirstOf("simple")
      BY FirstTable, Solid DEF Operands, Primaries, UnaryOps, Keywords
    <2> QED
      BY <1>1, <2>1, HardApart
  <1>3. t # "RETURN" =>
          /\ Stuck(s, i, Then("RETURN", Then("result", z)))
          /\ Stuck(s, i, Then("RETURN", Then("ended", z)))
    BY <1>1, TokenApart DEF TheTokens
  <1>4. /\ t = "RETURN" => Same(s, i, Then("statement", z), Then("RETURN", Then("result", z)))
        /\ t # "RETURN" =>
             Same(s, i, Then("statement", z), Then("simple", Then("semicolon", z)))
    BY <1>2, <1>3, Choices_statement, ChosenOfTwo
  <1>5. /\ t = "RETURN" => Same(s, i, Then("init", z), Then("RETURN", Then("ended", z)))
        /\ t # "RETURN" => Same(s, i, Then("init", z), Then("simple", Then("SEMICOLON", z)))
    BY <1>2, <1>3, Choices_init, ChosenOfTwo
  <1> QED
    BY <1>4, <1>5

LEMMA SimpleChosen ==
  ASSUME NEW s, NEW i \in Nat, NEW t, Ahead(s, i, t), NEW y, IsForm(y)
  PROVE  /\ t = "IF" => Same(s, i, Then("simple", y), Then("arms", y))
         /\ t = "LET" =>
              Same(s, i, Then("simple", y),
                   Then("LET", Then("IDENT", Then("COLON", Then("type", Then("value", y))))))
         /\ t = "WHILE" => Same(s, i, Then("simple", y),
                                Then("WHILE", Then("OPEN_PAREN", Then("expression",
                                  Then("CLOSE_PAREN", Then("block", y))))))
         /\ t = "FOR" => Same(s, i, Then("simple", y),
              Then("FOR", Then("OPEN_PAREN", Then("init", Then("expression", Then("SEMICOLON",
                Then("expression", Then("CLOSE_PAREN", Then("block", y)))))))))
         /\ t \notin Keywords => Same(s, i, Then("simple", y), Then("expression", y))
  <1> DEFINE let == Then("IDENT", Then("COLON", Then("type", Then("value", y))))
             while ==
               Then("OPEN_PAREN", Then("expression", Then("CLOSE_PAREN", Then("block", y))))
             for ==
               Then("OPEN_PAREN", Then("init", Then("expression", Then("SEMICOLON",
                 Then("expression", Then("CLOSE_PAREN", Then("block", y)))))))
  <1>1. IsForm(let) /\ IsForm(while) /\ IsForm(for)
    BY ThenFacts
  <1>2. /\ "simple" \in DOMAIN Alternatives
        /\ Choices("simple", y) = {Then("expression", y), Then("arms", y), Then("LET", let),
                                   Then("WHILE", while), Then("FOR", for)}
    BY Choices_simple
  <1> HIDE DEF let, while, for
  <1>3. /\ t # "LET" => Stuck(s, i, Then("LET", let))
        /\ t # "WHILE" => Stuck(s, i, Then("WHILE", while))
        /\ t # "FOR" => Stuck(s, i, Then("FOR", for))
    BY <1>1, TokenApart DEF TheTokens
  <1>4. t # "IF" => Stuck(s, i, Then("arms", y))
    <2>1. "arms" \notin Nullables /\ FirstOf("arms") = {"IF"}
      BY FirstTable, Solid
    <2> QED
      BY <2>1, HardApart
  <1>5. t \in Keywords => Stuck(s, i, Then("expression", y))
    <2>1. "expression" \notin Nullables /\ Keywords \cap FirstOf("expression") = {}
      BY FirstTable, Solid DEF Operands, Primaries, UnaryOps, Keywords
    <2> QED
      BY <2>1, HardApart
  <1>6. /\ t = "IF" => Same(s, i, Then("simple", y), Then("arms", y))
        /\ t = "LET" => Same(s, i, Then("simple", y), Then("LET", let))
        /\ t = "WHILE" => Same(s, i, Then("simple", y), Then("WHILE", while))
        /\ t = "FOR" => Same(s, i, Then("simple", y), Then("FOR", for))
        /\ t \notin Keywords => Same(s, i, Then("simple", y), Then("expression", y))
    BY <1>2, <1>3, <1>4, <1>5, Chosen DEF Keywords
  <1> QED
    BY <1>6 DEF let, while, for

\* What is returned, or nothing.
LEMMA ResultChosen ==
  ASSUME NEW s, NEW i \in Nat, NEW t, Ahead(s, i, t), NEW z
  PROVE  /\ IsForm(z) =>
              /\ t = "SEMICOLON" => Same(s, i, Then("ended", z), Then("SEMICOLON", z))
              /\ t # "SEMICOLON" =>
                   Same(s, i, Then("ended", z), Then("expression", Then("SEMICOLON", z)))
         /\ InBlock(z) =>
              /\ t = "SEMICOLON" => Same(s, i, Then("result", z), Then("semicolon", z))
              /\ t # "SEMICOLON" =>
                   Same(s, i, Then("result", z), Then("expression", Then("semicolon", z)))
  <1> SUFFICES ASSUME IsForm(z)
               PROVE  /\ t = "SEMICOLON" => Same(s, i, Then("ended", z), Then("SEMICOLON", z))
                      /\ t # "SEMICOLON" =>
                           Same(s, i, Then("ended", z), Then("expression", Then("SEMICOLON", z)))
                      /\ t = "SEMICOLON" => Same(s, i, Then("result", z), Then("SEMICOLON", z))
                      /\ t # "SEMICOLON" =>
                           Same(s, i, Then("result", z),
                                Then("expression", Then("semicolon", z)))
    <2>1. InBlock(z) => IsForm(z)
      BY InBlockIs
    <2>2. InBlock(z) /\ t = "SEMICOLON" =>
            Same(s, i, Then("semicolon", z), Then("SEMICOLON", z))
      BY SemicolonChosen
    <2> QED
      BY <2>1, <2>2, SameIs
  <1>1. IsForm(Then("SEMICOLON", z)) /\ IsForm(Then("semicolon", z))
    BY ThenFacts
  <1>2. t = "SEMICOLON" =>
          /\ Stuck(s, i, Then("expression", Then("SEMICOLON", z)))
          /\ Stuck(s, i, Then("expression", Then("semicolon", z)))
    <2>1. "expression" \notin Nullables /\ "SEMICOLON" \notin FirstOf("expression")
      BY FirstTable, Solid DEF Operands, Primaries, UnaryOps
    <2> QED
      BY <1>1, <2>1, HardApart
  <1>3. t # "SEMICOLON" => Stuck(s, i, Then("SEMICOLON", z))
    BY TokenApart DEF TheTokens
  <1>4. /\ t = "SEMICOLON" => Same(s, i, Then("ended", z), Then("SEMICOLON", z))
        /\ t # "SEMICOLON" =>
             Same(s, i, Then("ended", z), Then("expression", Then("SEMICOLON", z)))
    BY <1>2, <1>3, Choices_ended, ChosenOfTwo
  <1>5. /\ t = "SEMICOLON" => Same(s, i, Then("result", z), Then("SEMICOLON", z))
        /\ t # "SEMICOLON" =>
             Same(s, i, Then("result", z), Then("expression", Then("semicolon", z)))
    BY <1>2, <1>3, Choices_result, ChosenOfTwo
  <1> QED
    BY <1>4, <1>5

LEMMA OthersChosen ==
  ASSUME NEW s, NEW i \in Nat, NEW t, Ahead(s, i, t), NEW u, Ahead(s, i + 1, u),
         NEW y, AfterStatement(y)
  PROVE  /\ t = "ELSE" /\ u = "IF" =>
              Same(s, i, Then("others", y), Then("ELSE", Then("arms", y)))
         /\ t = "ELSE" /\ u # "IF" =>
              Same(s, i, Then("others", y), Then("ELSE", Then("block", y)))
         /\ t # "ELSE" => Same(s, i, Then("others", y), y)
  <1>1. IsForm(y) /\ IsForm(Then("arms", y)) /\ IsForm(Then("block", y))
    BY AfterStatementIs, ThenFacts
  <1>2. t = "ELSE" => Stuck(s, i, y)
    BY AfterStatementApart DEF Operands, Primaries, UnaryOps, Keywords
  <1>3. t # "ELSE" =>
          /\ Stuck(s, i, Then("ELSE", Then("arms", y)))
          /\ Stuck(s, i, Then("ELSE", Then("block", y)))
    BY <1>1, TokenApart DEF TheTokens
  <1>4. u = "IF" => Within(s, i, Then("ELSE", Then("block", y)), Then("ELSE", Then("arms", y)))
    <2>1. SUFFICES ASSUME u = "IF" PROVE Within(s, i + 1, Then("block", y), Then("arms", y))
      BY <1>1, TokenWithin, TokensAre DEF TheTokens
    <2>2. "block" \notin Nullables /\ "IF" \notin FirstOf("block")
      BY FirstTable, Solid
    <2> QED
      BY <1>1, <2>1, <2>2, HardApart, WithinIs
  <1>5. u # "IF" => Within(s, i, Then("ELSE", Then("arms", y)), Then("ELSE", Then("block", y)))
    <2>1. SUFFICES ASSUME u # "IF" PROVE Within(s, i + 1, Then("arms", y), Then("block", y))
      BY <1>1, TokenWithin, TokensAre DEF TheTokens
    <2>2. "arms" \notin Nullables /\ FirstOf("arms") = {"IF"}
      BY FirstTable, Solid
    <2> QED
      BY <1>1, <2>1, <2>2, HardApart, WithinIs
  <1>6. /\ "others" \in DOMAIN Alternatives
        /\ Choices("others", y) =
               {y, Then("ELSE", Then("arms", y)), Then("ELSE", Then("block", y))}
    BY <1>1, Choices_others
  <1>7. t = "ELSE" /\ u = "IF" => Same(s, i, Then("others", y), Then("ELSE", Then("arms", y)))
    BY <1>1, <1>2, <1>4, <1>6, Chosen
  <1>8. t = "ELSE" /\ u # "IF" => Same(s, i, Then("others", y), Then("ELSE", Then("block", y)))
    BY <1>1, <1>2, <1>5, <1>6, Chosen
  <1>9. t # "ELSE" => Same(s, i, Then("others", y), y)
    BY <1>1, <1>3, <1>6, Chosen
  <1> QED
    BY <1>7, <1>8, <1>9

LEMMA ValueChosen ==
  ASSUME NEW s, NEW i \in Nat, NEW t, Ahead(s, i, t), NEW y, AfterStatement(y)
  PROVE  /\ t = "EQ" => Same(s, i, Then("value", y), Then("EQ", Then("expression", y)))
         /\ t # "EQ" => Same(s, i, Then("value", y), y)
  <1>1. IsForm(y) /\ IsForm(Then("expression", y))
    BY AfterStatementIs, ThenFacts
  <1>2. t = "EQ" => Stuck(s, i, y)
    BY AfterStatementApart DEF Operands, Primaries, UnaryOps, Keywords
  <1>3. t # "EQ" => Stuck(s, i, Then("EQ", Then("expression", y)))
    BY <1>1, TokenApart DEF TheTokens
  <1> QED
    BY <1>1, <1>2, <1>3, Choices_value, ChosenOfTwo

\* The next statement, where it is an expression.
LEMMA NextStatement ==
  ASSUME NEW s, NEW i \in Nat, NEW t \in Operands, Ahead(s, i, t), NEW z, InBlock(z)
  PROVE  Same(s, i, Then("semicolon", z),
              Then("operand", Then("operations", Then("semicolon", z))))
  <1>1. PICK y : Opened(y, "CLOSE_BRACE") /\ z = Then("statements", y)
    BY InBlockIs
  <1>2. /\ t # "CLOSE_BRACE" /\ t # "SEMICOLON" /\ t # "RETURN" /\ t \notin Keywords
    BY DEF Operands, Primaries, UnaryOps, Keywords
  <1>3. IsForm(z) /\ IsForm(Then("semicolon", z))
    BY InBlockIs, ThenFacts
  <1>4. Same(s, i, Then("semicolon", z), z)
    BY <1>2, SemicolonChosen
  <1>5. Same(s, i, z, Then("statement", z))
    BY <1>1, <1>2, ListsChosen
  <1>6. Same(s, i, Then("statement", z), Then("simple", Then("semicolon", z)))
    BY <1>2, <1>3, StatementChosen
  <1>7. Same(s, i, Then("simple", Then("semicolon", z)),
             Then("expression", Then("semicolon", z)))
    BY <1>2, <1>3, SimpleChosen
  <1>8. Same(s, i, Then("expression", Then("semicolon", z)),
             Then("operand", Then("operations", Then("semicolon", z))))
    BY <1>3, OnlyChoices
  <1> QED
    BY <1>4, <1>5, <1>6, <1>7, <1>8, SameIs

\* Whatever comes: an expression can be the next statement.
LEMMA StatementMayFollow ==
  ASSUME NEW s, NEW i \in Nat, NEW z, InBlock(z)
  PROVE  Within(s, i, Then("operand", Then("operations", Then("semicolon", z))),
                Then("semicolon", z))
  <1>1. PICK y : Opened(y, "CLOSE_BRACE") /\ z = Then("statements", y)
    BY InBlockIs
  <1>2. IsForm(z) /\ IsForm(y) /\ IsForm(Then("semicolon", z))
    BY <1>1, OpenedIs, InBlockIs, ThenFacts
  <1>3. Within(s, i, z, Then("semicolon", z))
    BY <1>2, Choices_semicolon, Taken
  <1>4. Within(s, i, Then("statement", z), z)
    BY <1>1, <1>2, Choices_statements, Taken
  <1>5. Within(s, i, Then("simple", Then("semicolon", z)), Then("statement", z))
    BY <1>2, Choices_statement, Taken
  <1>6. Within(s, i, Then("expression", Then("semicolon", z)),
               Then("simple", Then("semicolon", z)))
    BY <1>2, Choices_simple, Taken
  <1>7. Within(s, i, Then("operand", Then("operations", Then("semicolon", z))),
               Then("expression", Then("semicolon", z)))
    BY <1>2, Choices_expression, Taken
  <1> QED
    BY <1>3, <1>4, <1>5, <1>6, <1>7, WithinIs

LEMMA OperandChosen ==
  ASSUME NEW s, NEW i \in Nat, NEW t, Ahead(s, i, t), NEW y, IsForm(y)
  PROVE  /\ t \in UnaryOps => Same(s, i, Then("operand", y), Then(t, Then("operand", y)))
         /\ t \notin UnaryOps =>
              Same(s, i, Then("operand", y), Then("primary", Then("members", y)))
  <1>1. IsForm(Then("operand", y)) /\ IsForm(Then("members", y))
    BY ThenFacts
  <1>2. t \in UnaryOps => Stuck(s, i, Then("primary", Then("members", y)))
    <2>1. "primary" \notin Nullables /\ FirstOf("primary") \cap UnaryOps = {}
      BY FirstTable, Solid DEF Primaries, UnaryOps
    <2> QED
      BY <1>1, <2>1, HardApart
  <1>3. \A op \in UnaryOps : op # t => Stuck(s, i, Then(op, Then("operand", y)))
    BY <1>1, TokenApart DEF TheTokens, UnaryOps
  <1>4. /\ "operand" \in DOMAIN Alternatives
        /\ Choices("operand", y)
             = {Then("primary", Then("members", y))}
               \cup {Then(op, Then("operand", y)) : op \in UnaryOps}
    BY Choices_operand
  <1>5. t \in UnaryOps => Same(s, i, Then("operand", y), Then(t, Then("operand", y)))
    BY <1>2, <1>3, <1>4, Chosen
  <1>6. t \notin UnaryOps => Same(s, i, Then("operand", y), Then("primary", Then("members", y)))
    BY <1>3, <1>4, Chosen
  <1> QED
    BY <1>5, <1>6

\* What is read as one more operation can also begin the next statement.
LEMMA OperationOrStatement ==
  ASSUME NEW s, NEW i \in Nat, NEW t \in Operators, Ahead(s, i, t), NEW y, AfterExpression(y)
  PROVE  Within(s, i, y, Then(t, Then("operand", Then("operations", y))))
  <1>1. CASE t \notin Operands
    <2>1. Operators \cap (Keywords \cup {"RETURN", "CLOSE_BRACE", "SEMICOLON"}) = {}
          /\ Operators \cap {"CLOSE_PAREN", "CLOSE_SQUARE", "COMMA"} = {}
      BY DEF Operators, Keywords
    <2> QED
      BY <1>1, <2>1, AfterExpressionApart, WithinIs
  <1>2. CASE t \in Operands
    <2>0. t \in UnaryOps /\ t \notin {"SEMICOLON", "CLOSE_PAREN", "CLOSE_SQUARE", "COMMA"}
      BY <1>2 DEF Operators, Operands, Primaries, UnaryOps
    <2>1. CASE Opened(y, "SEMICOLON") \/ Opened(y, "CLOSE_PAREN") \/ Opened(y, "CLOSE_SQUARE")
                 \/ Opened(y, "COMMA")
      BY <2>0, <2>1, OpenedApart, WithinIs DEF TheTokens
    <2>2. ASSUME NEW z, IsForm(z), y = Then("further", Then("CLOSE_PAREN", z))
          PROVE  Within(s, i, y, Then(t, Then("operand", Then("operations", y))))
      <3>1. Stuck(s, i, Then("CLOSE_PAREN", z)) /\ IsForm(Then("CLOSE_PAREN", z))
        BY <2>0, <2>2, TokenApart, ThenFacts DEF TheTokens
      <3>2. t \notin FirstOf("further")
        BY <2>0, FirstTable
      <3>3. Stuck(s, i, y)
        BY <2>2, <3>1, <3>2, SoftApart
      <3> QED
        BY <3>3, WithinIs
    <2>3. ASSUME NEW z, InBlock(z), y = Then("semicolon", z)
          PROVE  Within(s, i, y, Then(t, Then("operand", Then("operations", y))))
      <3>1. Same(s, i, y, Then("operand", Then("operations", y)))
        BY <1>2, <2>3, NextStatement
      <3>2. IsForm(Then("operations", y))
        BY AfterExpressionIs, ThenFacts
      <3>3. Same(s, i, Then("operand", Then("operations", y)),
                 Then(t, Then("operand", Then("operations", y))))
        BY <2>0, <3>2, OperandChosen
      <3> QED
        BY <3>1, <3>3, SameIs DEF Same
    <2> QED
      BY <2>1, <2>2, <2>3 DEF AfterExpression, AfterStatement
  <1> QED
    BY <1>1, <1>2

LEMMA OperationsChosen ==
  ASSUME NEW s, NEW i \in Nat, NEW t, Ahead(s, i, t), NEW y, AfterExpression(y)
  PROVE  /\ t \in Operators =>
              Same(s, i, Then("operations", y), Then(t, Then("operand", Then("operations", y))))
         /\ t \notin Operators => Same(s, i, Then("operations", y), y)
  <1>1. IsForm(y) /\ IsForm(Then("operand", Then("operations", y)))
    BY AfterExpressionIs, ThenFacts
  <1>2. t \in Operators => Within(s, i, y, Then(t, Then("operand", Then("operations", y))))
    BY OperationOrStatement
  <1>3. \A op \in Operators :
          op # t => Stuck(s, i, Then(op, Then("operand", Then("operations", y))))
    BY <1>1, TokenApart DEF TheTokens
  <1>4. /\ "operations" \in DOMAIN Alternatives
        /\ Choices("operations", y)
             = {y} \cup {Then(op, Then("operand", Then("operations", y))) : op \in Operators}
    BY <1>1, Choices_operations
  <1>5. t \in Operators =>
          Same(s, i, Then("operations", y), Then(t, Then("operand", Then("operations", y))))
    BY <1>1, <1>2, <1>3, <1>4, Chosen
  <1>6. t \notin Operators => Same(s, i, Then("operations", y), y)
    BY <1>1, <1>3, <1>4, Chosen
  <1> QED
    BY <1>5, <1>6

LEMMA AfterOperandIs ==
  ASSUME NEW y, AfterOperand(y)
  PROVE  IsForm(y)
  BY AfterExpressionIs, ThenFacts DEF AfterOperand

LEMMA AfterOperandApart ==
  ASSUME NEW s, NEW i \in Nat, NEW t, Ahead(s, i, t), NEW y, AfterOperand(y),
         t \notin Operands \cup Keywords \cup {"RETURN", "CLOSE_BRACE", "SEMICOLON"},
         t \notin {"CLOSE_PAREN", "CLOSE_SQUARE", "COMMA"} \cup Operators
  PROVE  Stuck(s, i, y)
  <1>1. PICK z : AfterExpression(z) /\ y = Then("operations", z)
    BY DEF AfterOperand
  <1>2. Stuck(s, i, z)
    BY <1>1, AfterExpressionApart
  <1> QED
    BY <1>1, <1>2, OperationsChosen, SameIs

LEMMA MembersChosen ==
  ASSUME NEW s, NEW i \in Nat, NEW t, Ahead(s, i, t), NEW y, AfterOperand(y)
  PROVE  /\ t = "DOT" =>
              Same(s, i, Then("members", y), Then("DOT", Then("IDENT", Then("members", y))))
         /\ t = "SUB_GT" =>
              Same(s, i, Then("members", y), Then("SUB_GT", Then("IDENT", Then("members", y))))
         /\ t \notin {"DOT", "SUB_GT"} => Same(s, i, Then("members", y), y)
  <1>1. IsForm(y) /\ IsForm(Then("IDENT", Then("members", y)))
    BY AfterOperandIs, ThenFacts
  <1>2. t \in {"DOT", "SUB_GT"} => Stuck(s, i, y)
    BY AfterOperandApart DEF Operands, Primaries, UnaryOps, Keywords, Operators
  <1>3. /\ t # "DOT" => Stuck(s, i, Then("DOT", Then("IDENT", Then("members", y))))
        /\ t # "SUB_GT" => Stuck(s, i, Then("SUB_GT", Then("IDENT", Then("members", y))))
    BY <1>1, TokenApart DEF TheTokens
  <1>4. /\ "members" \in DOMAIN Alternatives
        /\ Choices("members", y) =
               {y, Then("DOT", Then("IDENT", Then("members", y))),
                Then("SUB_GT", Then("IDENT", Then("members", y)))}
    BY <1>1, Choices_members
  <1> QED
    BY <1>1, <1>2, <1>3, <1>4, Chosen

LEMMA AfterTypeIs ==
  ASSUME NEW y, AfterType(y)
  PROVE  IsForm(y)
  BY OpenedIs, AfterStatementIs, ThenFacts DEF AfterType

\* A star after a type could also begin the next statement.
LEMMA StarsChosen ==
  ASSUME NEW s, NEW i \in Nat, NEW t, Ahead(s, i, t), NEW y, AfterType(y)
  PROVE  /\ t = "MUL" => Same(s, i, Then("stars", y), Then("MUL", Then("stars", y)))
         /\ t # "MUL" => Same(s, i, Then("stars", y), y)
  <1>1. IsForm(y) /\ IsForm(Then("stars", y))
    BY AfterTypeIs, ThenFacts
  <1>2. t # "MUL" => Stuck(s, i, Then("MUL", Then("stars", y)))
    BY <1>1, TokenApart DEF TheTokens
  <1>3. ASSUME t = "MUL" PROVE Within(s, i, y, Then("MUL", Then("stars", y)))
    <2>1. CASE Opened(y, "body")
      <3>1. PICK z : IsForm(z) /\ y = Then("body", z)
        BY <2>1 DEF Opened
      <3>2. "body" \notin Nullables /\ t \notin FirstOf("body")
        BY <1>3, FirstTable, Solid
      <3> QED
        BY <3>1, <3>2, HardApart, WithinIs
    <2>2. CASE Opened(y, "SEMICOLON")
      BY <1>3, <2>2, OpenedApart, WithinIs DEF TheTokens
    <2>3. ASSUME NEW z, IsForm(z), y = Then("more", Then("CLOSE_PAREN", z))
          PROVE  Within(s, i, y, Then("MUL", Then("stars", y)))
      <3>1. Stuck(s, i, Then("CLOSE_PAREN", z)) /\ IsForm(Then("CLOSE_PAREN", z))
        BY <1>3, <2>3, TokenApart, ThenFacts DEF TheTokens
      <3>2. t \notin FirstOf("more")
        BY <1>3, FirstTable
      <3> QED
        BY <2>3, <3>1, <3>2, SoftApart, WithinIs
    <2>4. ASSUME NEW w, AfterStatement(w), y = Then("value", w)
          PROVE  Within(s, i, y, Then("MUL", Then("stars", y)))
      <3>1. Same(s, i, y, w)
        BY <1>3, <2>4, ValueChosen
      <3>2. CASE Opened(w, "SEMICOLON")
        <4>1. Stuck(s, i, w)
          BY <1>3, <3>2, OpenedApart DEF TheTokens
        <4> QED
          BY <3>1, <4>1, SameIs, WithinIs
      <3>3. ASSUME NEW z, InBlock(z), w = Then("semicolon", z)
            PROVE  Within(s, i, y, Then("MUL", Then("stars", y)))
        <4>1. t \in Operands /\ t \in UnaryOps
          BY <1>3 DEF Operands, UnaryOps
        <4>2. /\ IsForm(w)
              /\ IsForm(Then("operations", w))
              /\ IsForm(Then("operand", Then("operations", w)))
          BY <2>4, AfterStatementIs, ThenFacts
        <4>3. Same(s, i, w, Then("operand", Then("operations", w)))
          BY <3>3, <4>1, NextStatement
        <4>4. Same(s, i, Then("operand", Then("operations", w)),
                   Then("MUL", Then("operand", Then("operations", w))))
          BY <1>3, <4>1, <4>2, OperandChosen
        <4>5. Within(s, i + 1, Then("operand", Then("operations", w)), w)
          BY <3>3, StatementMayFollow
        <4>6. Within(s, i + 1, w, y)
          BY <2>4, <4>2, Choices_value, Taken
        <4>7. Within(s, i + 1, y, Then("stars", y))
          BY <1>1, Choices_stars, Taken
        <4>8. Within(s, i + 1, Then("operand", Then("operations", w)), Then("stars", y))
          BY <4>5, <4>6, <4>7, WithinIs
        <4>9. Within(s, i, Then("MUL", Then("operand", Then("operations", w))),
                     Then("MUL", Then("stars", y)))
          BY <1>1, <4>2, <4>8, TokenWithin, TokensAre DEF TheTokens
        <4> QED
          BY <3>1, <4>3, <4>4, <4>9, WithinIs DEF Same
      <3> QED
        BY <2>4, <3>2, <3>3 DEF AfterStatement
    <2> QED
      BY <2>1, <2>2, <2>3, <2>4 DEF AfterType
  <1>4. /\ "stars" \in DOMAIN Alternatives
        /\ Choices("stars", y) = {y, Then("MUL", Then("stars", y))}
    BY <1>1, Choices_stars
  <1> QED
    BY <1>1, <1>2, <1>3, <1>4, Chosen

LEMMA AfterPrimaryIs ==
  ASSUME NEW y, AfterPrimary(y)
  PROVE  /\ IsForm(y)
         /\ \E z : AfterExpression(z) /\ IsForm(z) /\ y = Then("members", Then("operations", z))
  BY AfterOperandIs, AfterExpressionIs, ThenFacts DEF AfterPrimary, AfterOperand

\* The alternatives of primary that begin with another token.
LEMMA PrimariesApart ==
  ASSUME NEW s, NEW i \in Nat, NEW t, Ahead(s, i, t), NEW y, IsForm(y)
  PROVE  /\ \A x \in Literals \cup {"IDENT"} : x # t => Stuck(s, i, Then(x, y))
         /\ t # "OPEN_PAREN" =>
              Stuck(s, i, Then("OPEN_PAREN", Then("expression", Then("CLOSE_PAREN", y))))
         /\ t # "IDENT" =>
              /\ Stuck(s, i,
                       Then("IDENT", Then("OPEN_PAREN", Then("arguments",
                         Then("CLOSE_PAREN", y)))))
              /\ Stuck(s, i,
                       Then("IDENT", Then("OPEN_SQUARE", Then("expression",
                         Then("CLOSE_SQUARE", y)))))
              /\ Stuck(s, i,
                       Then("IDENT", Then("OPEN_BRACE", Then("inits", Then("CLOSE_BRACE", y)))))
  <1>1. /\ IsForm(Then("expression", Then("CLOSE_PAREN", y)))
        /\ IsForm(Then("OPEN_PAREN", Then("arguments", Then("CLOSE_PAREN", y))))
        /\ IsForm(Then("OPEN_SQUARE", Then("expression", Then("CLOSE_SQUARE", y))))
        /\ IsForm(Then("OPEN_BRACE", Then("inits", Then("CLOSE_BRACE", y))))
    BY ThenFacts
  <1> QED
    BY <1>1, TokenApart DEF TheTokens, Literals

LEMMA PrimaryChosen ==
  ASSUME NEW s, NEW i \in Nat, NEW t, Ahead(s, i, t), NEW y, IsForm(y)
  PROVE  /\ t \in Literals => Same(s, i, Then("primary", y), Then(t, y))
         /\ t = "OPEN_PAREN" =>
              Same(s, i, Then("primary", y),
                   Then("OPEN_PAREN", Then("expression", Then("CLOSE_PAREN", y))))
         /\ t \notin Primaries => Stuck(s, i, Then("primary", y))
  <1>1. /\ "primary" \in DOMAIN Alternatives
        /\ Choices("primary", y) =
             {Then("INT", y), Then("FLOAT", y), Then("STRING", y), Then("IDENT", y),
              Then("OPEN_PAREN", Then("expression", Then("CLOSE_PAREN", y))),
              Then("IDENT", Then("OPEN_PAREN", Then("arguments", Then("CLOSE_PAREN", y)))),
              Then("IDENT", Then("OPEN_SQUARE", Then("expression", Then("CLOSE_SQUARE", y)))),
              Then("IDENT", Then("OPEN_BRACE", Then("inits", Then("CLOSE_BRACE", y))))}
    BY Choices_primary
  <1>2. ASSUME t \in Literals
        PROVE  Same(s, i, Then("primary", y), Then(t, y))
    <2>1. \A g \in Choices("primary", y) : g = Then(t, y) \/ Stuck(s, i, g)
      <3>1. t # "IDENT" /\ t # "OPEN_PAREN" /\ Literals = {"INT", "FLOAT", "STRING"}
        BY <1>2 DEF Literals
      <3>2. \A x \in {"INT", "FLOAT", "STRING", "IDENT"} : x = t \/ Stuck(s, i, Then(x, y))
        BY <3>1, PrimariesApart
      <3> QED
        BY <1>1, <3>1, <3>2, PrimariesApart
    <2>2. Then(t, y) \in Choices("primary", y)
      BY <1>1, <1>2 DEF Literals
    <2> QED
      BY <1>1, <2>1, <2>2, Chosen
  <1>3. ASSUME t = "OPEN_PAREN"
        PROVE  Same(s, i, Then("primary", y),
                    Then("OPEN_PAREN", Then("expression", Then("CLOSE_PAREN", y))))
    <2>1. \A g \in Choices("primary", y) :
            g = Then("OPEN_PAREN", Then("expression", Then("CLOSE_PAREN", y))) \/ Stuck(s, i, g)
      BY <1>1, <1>3, PrimariesApart DEF Literals
    <2> QED
      BY <1>1, <2>1, Chosen
  <1>4. ASSUME t \notin Primaries PROVE Stuck(s, i, Then("primary", y))
    BY <1>4, HardApart, Solid, FirstTable
  <1> QED
    BY <1>2, <1>3, <1>4

\* After a name, a parenthesis can also begin the next statement, and is then read as a call.
LEMMA CallOrStatement ==
  ASSUME NEW s, NEW i \in Nat, Ahead(s, i, "OPEN_PAREN"), NEW y, AfterPrimary(y)
  PROVE  Within(s, i, y, Then("OPEN_PAREN", Then("arguments", Then("CLOSE_PAREN", y))))
  <1>1. PICK z : AfterExpression(z) /\ IsForm(z) /\ y = Then("members", Then("operations", z))
    BY AfterPrimaryIs
  <1>2. IsForm(y) /\ IsForm(Then("CLOSE_PAREN", y)) /\ IsForm(Then("operations", z))
    BY <1>1, AfterPrimaryIs, ThenFacts
  <1>3. Same(s, i, y, z)
    <2>1. Same(s, i, y, Then("operations", z))
      BY <1>1, MembersChosen DEF AfterOperand
    <2>2. Same(s, i, Then("operations", z), z)
      BY <1>1, OperationsChosen DEF Operators
    <2> QED
      BY <2>1, <2>2, SameIs
  <1>4. CASE Opened(z, "SEMICOLON") \/ Opened(z, "CLOSE_PAREN") \/ Opened(z, "CLOSE_SQUARE")
               \/ Opened(z, "COMMA")
    <2>1. Stuck(s, i, z)
      BY <1>4, OpenedApart DEF TheTokens
    <2> QED
      BY <1>3, <2>1, SameIs, WithinIs
  <1>5. ASSUME NEW w, IsForm(w), z = Then("further", Then("CLOSE_PAREN", w))
        PROVE  Within(s, i, y, Then("OPEN_PAREN", Then("arguments", Then("CLOSE_PAREN", y))))
    <2>1. Stuck(s, i, Then("CLOSE_PAREN", w)) /\ IsForm(Then("CLOSE_PAREN", w))
      BY <1>5, TokenApart, ThenFacts DEF TheTokens
    <2>2. "OPEN_PAREN" \notin FirstOf("further")
      BY FirstTable
    <2>3. Stuck(s, i, z)
      BY <1>5, <2>1, <2>2, SoftApart
    <2> QED
      BY <1>3, <2>3, SameIs, WithinIs
  <1>6. ASSUME NEW v, InBlock(v), z = Then("semicolon", v)
        PROVE  Within(s, i, y, Then("OPEN_PAREN", Then("arguments", Then("CLOSE_PAREN", y))))
    <2>1. "OPEN_PAREN" \in Operands /\ "OPEN_PAREN" \notin UnaryOps
      BY DEF Operands, Primaries, UnaryOps
    <2>2. Same(s, i, z, Then("operand", Then("operations", z)))
      BY <1>6, <2>1, NextStatement
    <2>3. Same(s, i, Then("operand", Then("operations", z)), Then("primary", y))
      BY <1>1, <1>2, <2>1, OperandChosen
    <2>4. Same(s, i, Then("primary", y),
               Then("OPEN_PAREN", Then("expression", Then("CLOSE_PAREN", y))))
      BY <1>2, PrimaryChosen
    <2>5. Within(s, i + 1, Then("expression", Then("CLOSE_PAREN", y)),
                 Then("arguments", Then("CLOSE_PAREN", y)))
      <3>1. PICK c : c = Then("CLOSE_PAREN", y)
        OBVIOUS
      <3>2. IsForm(c) /\ i + 1 \in Nat
        BY <1>2, <3>1
      <3>3. "further" \in DOMAIN Alternatives /\ c \in Choices("further", c)
        BY <3>2, Choices_further
      <3>4. Within(s, i + 1, Then("expression", c), Then("expression", Then("further", c)))
        BY <3>2, <3>3, Inserted
      <3>5. Within(s, i + 1, Then("expression", Then("further", c)), Then("arguments", c))
        BY <3>2, Choices_arguments, Taken
      <3> QED
        BY <3>1, <3>4, <3>5, WithinIs
    <2>6. Within(s, i, Then("OPEN_PAREN", Then("expression", Then("CLOSE_PAREN", y))),
                 Then("OPEN_PAREN", Then("arguments", Then("CLOSE_PAREN", y))))
      <3>1. /\ IsForm(Then("expression", Then("CLOSE_PAREN", y)))
            /\ IsForm(Then("arguments", Then("CLOSE_PAREN", y)))
        BY <1>2, ThenFacts
      <3> QED
        BY <2>5, <3>1, TokenWithin, TokensAre DEF TheTokens
    <2> QED
      BY <1>3, <2>2, <2>3, <2>4, <2>6, WithinIs DEF Same
  <1> QED
    BY <1>1, <1>4, <1>5, <1>6 DEF AfterExpression, AfterStatement

\* What can follow a name, unless it is a call, an access or an initialisation.
LEMMA AfterNameApart ==
  ASSUME NEW s, NEW i \in Nat, NEW t \in {"OPEN_SQUARE", "OPEN_BRACE"}, Ahead(s, i, t),
         NEW y, AfterPrimary(y)
  PROVE  Stuck(s, i, y)
  <1>1. PICK z : AfterOperand(z) /\ y = Then("members", z)
    BY DEF AfterPrimary
  <1>2. Stuck(s, i, z)
    BY <1>1, AfterOperandApart DEF Operands, Primaries, UnaryOps, Keywords, Operators
  <1> QED
    BY <1>1, <1>2, MembersChosen, SameIs

LEMMA NameChosen ==
  ASSUME NEW s, NEW i \in Nat, Ahead(s, i, "IDENT"), NEW u, Ahead(s, i + 1, u),
         NEW y, AfterPrimary(y)
  PROVE  /\ u = "OPEN_PAREN" =>
              Same(s, i, Then("primary", y),
                   Then("IDENT", Then("OPEN_PAREN", Then("arguments", Then("CLOSE_PAREN", y)))))
         /\ u = "OPEN_SQUARE" =>
              Same(s, i, Then("primary", y),
                   Then("IDENT", Then("OPEN_SQUARE", Then("expression",
                     Then("CLOSE_SQUARE", y)))))
         /\ u = "OPEN_BRACE" =>
              Same(s, i, Then("primary", y),
                   Then("IDENT", Then("OPEN_BRACE", Then("inits", Then("CLOSE_BRACE", y)))))
         /\ u \notin {"OPEN_PAREN", "OPEN_SQUARE", "OPEN_BRACE"} =>
              Same(s, i, Then("primary", y), Then("IDENT", y))
  <1> DEFINE call == Then("arguments", Then("CLOSE_PAREN", y))
             access == Then("expression", Then("CLOSE_SQUARE", y))
             values == Then("inits", Then("CLOSE_BRACE", y))
  <1>1. /\ IsForm(y) /\ i + 1 \in Nat
        /\ IsForm(call) /\ IsForm(access) /\ IsForm(values)
    BY AfterPrimaryIs, ThenFacts
  <1>2. /\ "primary" \in DOMAIN Alternatives
        /\ Choices("primary", y) =
             {Then("INT", y), Then("FLOAT", y), Then("STRING", y), Then("IDENT", y),
              Then("OPEN_PAREN", Then("expression", Then("CLOSE_PAREN", y))),
              Then("IDENT", Then("OPEN_PAREN", call)),
              Then("IDENT", Then("OPEN_SQUARE", access)),
              Then("IDENT", Then("OPEN_BRACE", values))}
    BY <1>1, Choices_primary
  <1>3. /\ Stuck(s, i, Then("INT", y))
        /\ Stuck(s, i, Then("FLOAT", y))
        /\ Stuck(s, i, Then("STRING", y))
        /\ Stuck(s, i, Then("OPEN_PAREN", Then("expression", Then("CLOSE_PAREN", y))))
    <2>1. "IDENT" \notin {"INT", "FLOAT", "STRING", "OPEN_PAREN"}
          /\ {"INT", "FLOAT", "STRING"} = Literals
      BY DEF Literals
    <2> QED
      BY <1>1, <2>1, PrimariesApart
  <1> HIDE DEF call, access, values
  <1>4. /\ IsForm(Then("OPEN_PAREN", call)) /\ IsForm(Then("OPEN_SQUARE", access))
        /\ IsForm(Then("OPEN_BRACE", values))
    BY <1>1, ThenFacts
  <1>5. /\ u # "OPEN_PAREN" => Stuck(s, i + 1, Then("OPEN_PAREN", call))
        /\ u # "OPEN_SQUARE" => Stuck(s, i + 1, Then("OPEN_SQUARE", access))
        /\ u # "OPEN_BRACE" => Stuck(s, i + 1, Then("OPEN_BRACE", values))
        /\ u \in {"OPEN_SQUARE", "OPEN_BRACE"} => Stuck(s, i + 1, y)
    BY <1>1, TokenApart, AfterNameApart DEF TheTokens
  <1>6. \A f, g : IsForm(f) /\ IsForm(g) /\ (Stuck(s, i + 1, f) \/ Within(s, i + 1, f, g)) =>
          Within(s, i, Then("IDENT", f), Then("IDENT", g))
    BY WithinIs, TokenWithin, TokensAre DEF TheTokens
  <1>7. ASSUME u = "OPEN_PAREN"
        PROVE  Same(s, i, Then("primary", y), Then("IDENT", Then("OPEN_PAREN", call)))
    <2>1. Within(s, i + 1, y, Then("OPEN_PAREN", call))
      BY <1>1, <1>7, CallOrStatement DEF call
    <2> QED
      BY <1>1, <1>2, <1>3, <1>4, <1>5, <1>6, <1>7, <2>1, Chosen
  <1>8. ASSUME u = "OPEN_SQUARE"
        PROVE  Same(s, i, Then("primary", y), Then("IDENT", Then("OPEN_SQUARE", access)))
    BY <1>1, <1>2, <1>3, <1>4, <1>5, <1>6, <1>8, Chosen
  <1>9. ASSUME u = "OPEN_BRACE"
        PROVE  Same(s, i, Then("primary", y), Then("IDENT", Then("OPEN_BRACE", values)))
    BY <1>1, <1>2, <1>3, <1>4, <1>5, <1>6, <1>9, Chosen
  <1>10. ASSUME u \notin {"OPEN_PAREN", "OPEN_SQUARE", "OPEN_BRACE"}
         PROVE  Same(s, i, Then("primary", y), Then("IDENT", y))
    BY <1>1, <1>2, <1>3, <1>4, <1>5, <1>6, <1>10, Chosen
  <1> QED
    BY <1>7, <1>8, <1>9, <1>10 DEF call, access, values

----------------------------------------------------------------------------
(***************************************************************************)
(* The steps that a procedure is replaced by.                              *)
(***************************************************************************)
\* A step that holds no expression, as Steps makes them.
Undone(x) == [do |-> x, with |-> "none"]

LEMMA UndoneIs == ASSUME NEW x PROVE Undone(x).do = x
  BY DEF Undone

LEMMA StepsNone ==
  ASSUME NEW w, IsForm(w) PROVE Join(Steps(<<>>), w) = w
  <1>1. Steps(<<>>) = <<>>
    BY DEF Steps
  <1> QED
    BY <1>1, Nothing DEF Join

LEMMA StepsOne ==
  ASSUME NEW a, NEW w, IsForm(w)
  PROVE  Join(Steps(<<a>>), w) = Then(Undone(a), w)
  <1>1. Steps(<<a>>) = <<Undone(a)>>
    BY DEF Steps, Undone
  <1>2. <<Undone(a)>> \o w = Then(Undone(a), w)
    BY ChainOne
  <1> QED
    BY <1>1, <1>2, Zenon DEF Join

LEMMA StepsTwo ==
  ASSUME NEW a, NEW b, NEW w, IsForm(w)
  PROVE  Join(Steps(<<a, b>>), w) = Then(Undone(a), Then(Undone(b), w))
  <1>1. Steps(<<a, b>>) = <<Undone(a), Undone(b)>>
    BY DEF Steps, Undone
  <1>2. <<Undone(a), Undone(b)>> \o w = Then(Undone(a), Then(Undone(b), w))
    BY ChainTwo
  <1> QED
    BY <1>1, <1>2, Zenon DEF Join

LEMMA StepsThree ==
  ASSUME NEW a, NEW b, NEW c, NEW w, IsForm(w)
  PROVE  Join(Steps(<<a, b, c>>), w) = Then(Undone(a), Then(Undone(b), Then(Undone(c), w)))
  <1>1. Steps(<<a, b, c>>) = <<Undone(a), Undone(b), Undone(c)>>
    BY DEF Steps, Undone
  <1>2. <<Undone(a), Undone(b), Undone(c)>> \o w =
            Then(Undone(a), Then(Undone(b), Then(Undone(c), w)))
    BY ChainThree
  <1> QED
    BY <1>1, <1>2, Zenon DEF Join

LEMMA StepsFour ==
  ASSUME NEW a, NEW b, NEW c, NEW d, NEW w, IsForm(w)
  PROVE  Join(Steps(<<a, b, c, d>>), w) =
             Then(Undone(a), Then(Undone(b), Then(Undone(c), Then(Undone(d), w))))
  <1>1. Steps(<<a, b, c, d>>) = <<Undone(a), Undone(b), Undone(c), Undone(d)>>
    BY DEF Steps, Undone
  <1>2. <<Undone(a), Undone(b), Undone(c), Undone(d)>> \o w =
            Then(Undone(a), Then(Undone(b), Then(Undone(c), Then(Undone(d), w))))
    BY ChainFour
  <1> QED
    BY <1>1, <1>2, Zenon DEF Join

LEMMA StepsFive ==
  ASSUME NEW a, NEW b, NEW c, NEW d, NEW e, NEW w, IsForm(w)
  PROVE  Join(Steps(<<a, b, c, d, e>>), w) =
             Then(Undone(a), Then(Undone(b), Then(Undone(c), Then(Undone(d),
               Then(Undone(e), w)))))
  <1>1. Steps(<<a, b, c, d, e>>) = <<Undone(a), Undone(b), Undone(c), Undone(d), Undone(e)>>
    BY DEF Steps, Undone
  <1>2. <<Undone(a), Undone(b), Undone(c), Undone(d), Undone(e)>> \o w =
            Then(Undone(a), Then(Undone(b), Then(Undone(c), Then(Undone(d),
              Then(Undone(e), w)))))
    BY ChainFive
  <1> QED
    BY <1>1, <1>2, Zenon DEF Join

LEMMA StepsSix ==
  ASSUME NEW a, NEW b, NEW c, NEW d, NEW e, NEW f, NEW w, IsForm(w)
  PROVE  Join(Steps(<<a, b, c, d, e, f>>), w) =
             Then(Undone(a), Then(Undone(b), Then(Undone(c), Then(Undone(d), Then(Undone(e),
               Then(Undone(f), w))))))
  <1>1. Steps(<<a, b, c, d, e, f>>) =
            <<Undone(a), Undone(b), Undone(c), Undone(d), Undone(e), Undone(f)>>
    BY DEF Steps, Undone
  <1>2. <<Undone(a), Undone(b), Undone(c), Undone(d), Undone(e), Undone(f)>> \o w =
            Then(Undone(a), Then(Undone(b), Then(Undone(c), Then(Undone(d), Then(Undone(e),
              Then(Undone(f), w))))))
    BY ChainSix
  <1> QED
    BY <1>1, <1>2, Zenon DEF Join

LEMMA StepsSeven ==
  ASSUME NEW a, NEW b, NEW c, NEW d, NEW e, NEW f, NEW g, NEW w, IsForm(w)
  PROVE  Join(Steps(<<a, b, c, d, e, f, g>>), w) =
             Then(Undone(a), Then(Undone(b), Then(Undone(c), Then(Undone(d), Then(Undone(e),
               Then(Undone(f), Then(Undone(g), w)))))))
  <1>1. Steps(<<a, b, c, d, e, f, g>>) =
            <<Undone(a), Undone(b), Undone(c), Undone(d), Undone(e), Undone(f), Undone(g)>>
    BY DEF Steps, Undone
  <1>2. <<Undone(a), Undone(b), Undone(c), Undone(d), Undone(e), Undone(f), Undone(g)>> \o w =
            Then(Undone(a), Then(Undone(b), Then(Undone(c), Then(Undone(d), Then(Undone(e),
              Then(Undone(f), Then(Undone(g), w)))))))
    BY ChainSeven
  <1> QED
    BY <1>1, <1>2, Zenon DEF Join

LEMMA StepsEight ==
  ASSUME NEW a, NEW b, NEW c, NEW d, NEW e, NEW f, NEW g, NEW h, NEW w, IsForm(w)
  PROVE  Join(Steps(<<a, b, c, d, e, f, g, h>>), w) =
             Then(Undone(a), Then(Undone(b), Then(Undone(c), Then(Undone(d), Then(Undone(e),
               Then(Undone(f), Then(Undone(g), Then(Undone(h), w))))))))
  <1>1. Steps(<<a, b, c, d, e, f, g, h>>) =
            <<Undone(a), Undone(b), Undone(c), Undone(d), Undone(e), Undone(f), Undone(g),
              Undone(h)>>
    BY DEF Steps, Undone
  <1>2. <<Undone(a), Undone(b), Undone(c), Undone(d), Undone(e), Undone(f), Undone(g), Undone(h)>> \o w =
            Then(Undone(a), Then(Undone(b), Then(Undone(c), Then(Undone(d), Then(Undone(e),
              Then(Undone(f), Then(Undone(g), Then(Undone(h), w))))))))
    BY ChainEight
  <1> QED
    BY <1>1, <1>2, Zenon DEF Join

----------------------------------------------------------------------------
(***************************************************************************)
(* The work and its prospect.                                              *)
(***************************************************************************)
\* The work w is all that is needed to read what is foreseen by a.
Awaits(w, a) == IsForm(w) /\ IsForm(a.form) /\ Fits(w, a)

LEMMA PlainIs ==
  ASSUME NEW f
  PROVE  /\ Plain(f).form = f /\ Plain(f).bar = {}
         /\ Plain(f) = Prospect(f, {}) /\ Plain(f) # Last
  BY ProspectIs DEF Plain, Last, Prospect

LEMMA AwaitsStage ==
  ASSUME NEW f, NEW w, NEW a, NEW b, Stage(f.do, a, b), IsForm(a.form), Awaits(w, b)
  PROVE  Awaits(Then(f, w), a)
  BY FitsPush, ThenFacts DEF Awaits

LEMMA AwaitsToken ==
  ASSUME NEW x \in Symbols, NEW w, NEW y, Awaits(w, Plain(y))
  PROVE  Awaits(Then(Undone(x), w), Plain(Then(x, y)))
  <1>1. IsForm(y) /\ IsForm(Then(x, y))
    BY PlainIs, ThenFacts DEF Awaits
  <1>2. Stage(x, Plain(Then(x, y)), Plain(y))
    BY <1>1, PlainIs DEF Stage
  <1> QED
    BY <1>1, <1>2, PlainIs, UndoneIs, AwaitsStage

LEMMA AwaitsDeclaration ==
  ASSUME NEW p, NEW w, NEW f, IsForm(f), NEW y, Awaits(w, Plain(y)), OfDeclaration(p, f, y)
  PROVE  Awaits(Then(Undone(p), w), Plain(f))
  <1>1. IsForm(y)
    BY PlainIs DEF Awaits
  <1>2. Stage(p, Plain(f), Plain(y))
    BY <1>1, PlainIs DEF Stage
  <1> QED
    BY <1>1, <1>2, PlainIs, UndoneIs, AwaitsStage

LEMMA AwaitsStatement ==
  ASSUME NEW p, NEW w, NEW f, IsForm(f), NEW y, Awaits(w, Plain(y)), OfStatement(p, f, y)
  PROVE  Awaits(Then(Undone(p), w), Plain(f))
  <1>1. IsForm(y)
    BY PlainIs DEF Awaits
  <1>2. Stage(p, Plain(f), Plain(y))
    BY <1>1, PlainIs DEF Stage
  <1> QED
    BY <1>1, <1>2, PlainIs, UndoneIs, AwaitsStage

LEMMA AwaitsPrimary ==
  ASSUME NEW p, NEW w, NEW f, IsForm(f), NEW y, Awaits(w, Plain(y)), OfPrimary(p, f, y)
  PROVE  Awaits(Then(Undone(p), w), Plain(f))
  <1>1. IsForm(y)
    BY PlainIs DEF Awaits
  <1>2. Stage(p, Plain(f), Plain(y))
    BY <1>1, PlainIs DEF Stage
  <1> QED
    BY <1>1, <1>2, PlainIs, UndoneIs, AwaitsStage

LEMMA AwaitsBinary ==
  ASSUME NEW p, NEW w, NEW a, IsForm(a.form), NEW y, NEW bar, Awaits(w, Prospect(y, bar)),
         OfBinary(p, a, Prospect(y, bar)), AfterOperand(y)
  PROVE  Awaits(Then(Undone(p), w), a)
  <1>1. IsForm(y)
    BY ProspectIs DEF Awaits
  <1>2. Stage(p, a, Prospect(y, bar))
    BY <1>1, ProspectIs DEF Stage
  <1> QED
    BY <1>1, <1>2, UndoneIs, AwaitsStage

LEMMA AwaitsExpression ==
  ASSUME NEW p, NEW w, NEW a, IsForm(a.form), NEW y, NEW bar, Awaits(w, Prospect(y, bar)),
         OfExpression(p, a, Prospect(y, bar))
  PROVE  Awaits(Then(Undone(p), w), a)
  <1>1. IsForm(y)
    BY ProspectIs DEF Awaits
  <1>2. Stage(p, a, Prospect(y, bar))
    BY <1>1, ProspectIs DEF Stage
  <1> QED
    BY <1>1, <1>2, UndoneIs, AwaitsStage

LEMMA AwaitsNode ==
  ASSUME NEW f, f.do \in Constructions \cup {"ReadFile"}, NEW w, NEW y, NEW bar,
         Prospect(y, bar) # Last, Awaits(w, Prospect(y, bar))
  PROVE  Awaits(Then(f, w), Prospect(y, bar))
  <1>1. IsForm(y)
    BY ProspectIs DEF Awaits
  <1>2. Stage(f.do, Prospect(y, bar), Prospect(y, bar))
    BY <1>1, ProspectIs DEF Stage
  <1> QED
    BY <1>1, <1>2, ProspectIs, AwaitsStage

\* The names of the procedures that a stage is about.
Declaring ==
  {"Function", "Params", "MoreParams", "FunctionBody", "StructDecl", "Fields", "Import",
   "TypeName", "Stars"}

Stating ==
  {"Block", "Statements", "MoreStatements", "Statement", "ReturnStatement", "ReturnValue",
   "IfStatement", "IfRest", "LetStatement", "LetValue", "WhileStatement", "WhileCond",
   "ForStatement", "ForCond"}

Naming ==
  {"MoreDot", "Primary", "FunctionCall", "Arguments", "MoreArguments", "ArrayAccess",
   "Variable", "StructInit", "Inits", "DotOp", "Unary"}

Operating ==
  {"Comparison", "AddSub", "MulDiv", "MoreComparison", "MoreAddSub", "MoreMulDiv"}

LEMMA NamesApart ==
  /\ Declaring \cap
       (Stating \cup Naming \cup Operating \cup {"Document", "Expression", "MoreAssign", "ReadFile"}
          \cup Symbols \cup Constructions) = {}
  /\ Stating \cap
       (Naming \cup Operating \cup {"Document", "Expression", "MoreAssign", "ReadFile"}
          \cup Symbols \cup Constructions) = {}
  /\ Naming \cap
       (Operating \cup {"Document", "Expression", "MoreAssign", "ReadFile"}
          \cup Symbols \cup Constructions) = {}
  /\ Operating \cap
       ({"Document", "Expression", "MoreAssign", "ReadFile"}
          \cup Symbols \cup Constructions) = {}
  /\ {"Document", "Expression", "MoreAssign", "ReadFile"} \cap (Symbols \cup Constructions) = {}
  /\ Symbols \cap Constructions = {}
  BY DEF Declaring, Stating, Naming, Operating, Symbols, Constructions, CompoundOps, ComparisonOps,
      AddSubOps, MulDivOps, UnaryOps, Literals

LEMMA OfWhat ==
  ASSUME NEW p
  PROVE  /\ \A f, y : OfDeclaration(p, f, y) => p \in Declaring
         /\ \A f, y : OfStatement(p, f, y) => p \in Stating
         /\ \A f, y : OfPrimary(p, f, y) => p \in Naming
         /\ \A a, b : OfBinary(p, a, b) => p \in Operating
         /\ \A a, b : OfExpression(p, a, b) => p \in {"Expression", "MoreAssign"}
  <1>1. \A f, y : OfDeclaration(p, f, y) => p \in Declaring
    BY DEF OfDeclaration, Declaring
  <1>2. \A f, y : OfStatement(p, f, y) => p \in Stating
    BY DEF OfStatement, Stating
  <1>3. \A f, y : OfPrimary(p, f, y) => p \in Naming
    BY DEF OfPrimary, Naming
  <1>4. \A a, b : OfBinary(p, a, b) => p \in Operating
    BY DEF OfBinary, Operating
  <1>5. \A a, b : OfExpression(p, a, b) => p \in {"Expression", "MoreAssign"}
    BY DEF OfExpression
  <1> QED
    BY <1>1, <1>2, <1>3, <1>4, <1>5

LEMMA StageIs ==
  ASSUME NEW p, NEW a, NEW b, Stage(p, a, b)
  PROVE  /\ b = Prospect(b.form, b.bar) /\ IsForm(b.form)
         /\ p \in Constructions \cup {"ReadFile"} => a = b /\ b # Last
         /\ p \in Symbols => a = Plain(Then(p, b.form)) /\ b = Plain(b.form)
         /\ p = "Document" => a = Plain(Then("document", b.form)) /\ b = Last
         /\ p \in Declaring =>
              OfDeclaration(p, a.form, b.form) /\ a = Plain(a.form) /\ b = Plain(b.form)
         /\ p \in Stating =>
              OfStatement(p, a.form, b.form) /\ a = Plain(a.form) /\ b = Plain(b.form)
         /\ p \in Naming =>
              OfPrimary(p, a.form, b.form) /\ a = Plain(a.form) /\ b = Plain(b.form)
         /\ p \in Operating => OfBinary(p, a, b) /\ AfterOperand(b.form)
         /\ p \in {"Expression", "MoreAssign"} => OfExpression(p, a, b)
  BY OfWhat, NamesApart DEF Stage, Plain

(***************************************************************************)
(* All that can still be read of the text, by any derivation, is what can  *)
(* be read of the form f from the place i; or nothing.                     *)
(***************************************************************************)
Foreseen(s, i, f) ==
  /\ CanRead(s, Begun, i)
  /\ \A j \in Nat : j > i => (CanRead(s, Begun, j) <=> Reach(s, f, i, j))

\* The place i is the last that any derivation reads to.
Farthest(s, i) ==
  /\ CanRead(s, Begun, i)
  /\ \A j \in Nat : CanRead(s, Begun, j) => j <= i

LEMMA ForeseenSame ==
  ASSUME NEW s, NEW i \in Nat, NEW f, NEW g, Foreseen(s, i, f), Same(s, i, f, g)
  PROVE  Foreseen(s, i, g)
  BY DEF Foreseen, Same, Within

LEMMA ForeseenRead ==
  ASSUME NEW s, NEW i \in Nat, NEW x, x \notin DOMAIN Alternatives, NEW y, IsForm(y),
         Foreseen(s, i, Then(x, y)), Reads(s, i, x)
  PROVE  Foreseen(s, i + 1, y)
  <1>1. /\ Reach(s, Then(x, y), i, i + 1)
        /\ \A j \in Nat : j > i => (Reach(s, Then(x, y), i, j) <=> Reach(s, y, i + 1, j))
    BY TokenReads
  <1>2. \A j \in Nat : j > i + 1 => j > i
    OBVIOUS
  <1>3. i + 1 \in Nat /\ i + 1 > i
    OBVIOUS
  <1> QED
    BY <1>1, <1>2, <1>3 DEF Foreseen

LEMMA ForeseenStuck ==
  ASSUME NEW s, NEW i \in Nat, NEW f, Foreseen(s, i, f), Stuck(s, i, f)
  PROVE  Farthest(s, i)
  BY DEF Foreseen, Farthest, Stuck

LEMMA SymbolsAreTokens == Symbols \subseteq TheTokens /\ Symbols \cap DOMAIN Alternatives = {}
  <1>1. Symbols \subseteq TheTokens
    BY DEF Symbols, TheTokens, Operators, CompoundOps, ComparisonOps, AddSubOps, MulDivOps,
        UnaryOps, Literals
  <1> QED
    BY <1>1, TokensAre

LEMMA TheSymbols ==
  /\ {"FUNCTION", "STRUCT", "IMPORT", "IF", "ELSE", "WHILE", "FOR", "RETURN", "LET"} \subseteq Symbols
  /\ {"IDENT", "STRING", "EQ", "MUL", "DOT", "SUB_GT", "COLON", "COMMA", "SEMICOLON"} \subseteq Symbols
  /\ {"OPEN_PAREN", "CLOSE_PAREN", "OPEN_BRACE", "CLOSE_BRACE", "OPEN_SQUARE", "CLOSE_SQUARE"} \subseteq Symbols
  /\ UnaryOps \cup Literals \cup Operators \subseteq Symbols
  BY DEF Symbols, Operators, CompoundOps, ComparisonOps, AddSubOps, MulDivOps, UnaryOps, Literals

LEMMA AwaitsTokens ==
  ASSUME NEW w, NEW y, Awaits(w, Plain(y))
  PROVE  /\ Awaits(Then(Undone("FUNCTION"), w), Plain(Then("FUNCTION", y)))
         /\ Awaits(Then(Undone("STRUCT"), w), Plain(Then("STRUCT", y)))
         /\ Awaits(Then(Undone("IMPORT"), w), Plain(Then("IMPORT", y)))
         /\ Awaits(Then(Undone("IF"), w), Plain(Then("IF", y)))
         /\ Awaits(Then(Undone("ELSE"), w), Plain(Then("ELSE", y)))
         /\ Awaits(Then(Undone("WHILE"), w), Plain(Then("WHILE", y)))
         /\ Awaits(Then(Undone("FOR"), w), Plain(Then("FOR", y)))
         /\ Awaits(Then(Undone("RETURN"), w), Plain(Then("RETURN", y)))
         /\ Awaits(Then(Undone("LET"), w), Plain(Then("LET", y)))
         /\ Awaits(Then(Undone("IDENT"), w), Plain(Then("IDENT", y)))
         /\ Awaits(Then(Undone("STRING"), w), Plain(Then("STRING", y)))
         /\ Awaits(Then(Undone("EQ"), w), Plain(Then("EQ", y)))
         /\ Awaits(Then(Undone("MUL"), w), Plain(Then("MUL", y)))
         /\ Awaits(Then(Undone("DOT"), w), Plain(Then("DOT", y)))
         /\ Awaits(Then(Undone("SUB_GT"), w), Plain(Then("SUB_GT", y)))
         /\ Awaits(Then(Undone("COLON"), w), Plain(Then("COLON", y)))
         /\ Awaits(Then(Undone("COMMA"), w), Plain(Then("COMMA", y)))
         /\ Awaits(Then(Undone("SEMICOLON"), w), Plain(Then("SEMICOLON", y)))
         /\ Awaits(Then(Undone("OPEN_PAREN"), w), Plain(Then("OPEN_PAREN", y)))
         /\ Awaits(Then(Undone("CLOSE_PAREN"), w), Plain(Then("CLOSE_PAREN", y)))
         /\ Awaits(Then(Undone("OPEN_BRACE"), w), Plain(Then("OPEN_BRACE", y)))
         /\ Awaits(Then(Undone("CLOSE_BRACE"), w), Plain(Then("CLOSE_BRACE", y)))
         /\ Awaits(Then(Undone("OPEN_SQUARE"), w), Plain(Then("OPEN_SQUARE", y)))
         /\ Awaits(Then(Undone("CLOSE_SQUARE"), w), Plain(Then("CLOSE_SQUARE", y)))
  BY AwaitsToken, TheSymbols

\* The work of each procedure, and the form that it is to read.
LEMMA AwaitsDeclaring ==
  ASSUME NEW w, NEW y, Awaits(w, Plain(y))
  PROVE  /\ Awaits(Then(Undone("FunctionBody"), w), Plain(Then("body", y)))
         /\ AfterType(y) => /\ Awaits(Then(Undone("TypeName"), w), Plain(Then("type", y)))
                            /\ Awaits(Then(Undone("Stars"), w), Plain(Then("stars", y)))
         /\ Opened(y, "CLOSE_PAREN") => /\ Awaits(Then(Undone("Params"), w),
                                                  Plain(Then("params", y)))
                                        /\ Awaits(Then(Undone("MoreParams"), w),
                                                  Plain(Then("more", y)))
         /\ Opened(y, "CLOSE_BRACE") =>
              Awaits(Then(Undone("Fields"), w), Plain(Then("fields", y)))
         /\ Awaits(Then(Undone("Function"), w),
              Plain(Then("FUNCTION", Then("IDENT", Then("OPEN_PAREN", Then("params",
                      Then("CLOSE_PAREN", Then("COLON", Then("type", Then("body", y))))))))))
         /\ Awaits(Then(Undone("StructDecl"), w),
              Plain(Then("STRUCT", Then("IDENT", Then("OPEN_BRACE", Then("fields",
                      Then("CLOSE_BRACE", y)))))))
         /\ Awaits(Then(Undone("Import"), w), Plain(Then("IMPORT", Then("STRING", y))))
  <1>1. IsForm(y) /\ \A x, f : IsForm(f) => IsForm(Then(x, f))
    BY PlainIs, ThenFacts DEF Awaits
  <1>2. \A p, f : OfDeclaration(p, f, y) /\ IsForm(f) => Awaits(Then(Undone(p), w), Plain(f))
    BY AwaitsDeclaration
  <1>3. /\ OfDeclaration("FunctionBody", Then("body", y), y)
        /\ AfterType(y) => /\ OfDeclaration("TypeName", Then("type", y), y)
                           /\ OfDeclaration("Stars", Then("stars", y), y)
        /\ Opened(y, "CLOSE_PAREN") => /\ OfDeclaration("Params", Then("params", y), y)
                                       /\ OfDeclaration("MoreParams", Then("more", y), y)
        /\ Opened(y, "CLOSE_BRACE") => OfDeclaration("Fields", Then("fields", y), y)
        /\ OfDeclaration("Function",
                         Then("FUNCTION", Then("IDENT", Then("OPEN_PAREN", Then("params",
                           Then("CLOSE_PAREN", Then("COLON", Then("type", Then("body", y)))))))),
                         y)
        /\ OfDeclaration("StructDecl",
                         Then("STRUCT", Then("IDENT", Then("OPEN_BRACE", Then("fields",
                           Then("CLOSE_BRACE", y))))),
                         y)
        /\ OfDeclaration("Import", Then("IMPORT", Then("STRING", y)), y)
    BY DEF OfDeclaration
  <1>4. /\ IsForm(Then("type", y)) /\ IsForm(Then("stars", y)) /\ IsForm(Then("body", y))
        /\ IsForm(Then("params", y)) /\ IsForm(Then("more", y)) /\ IsForm(Then("fields", y))
        /\ IsForm(Then("FUNCTION", Then("IDENT", Then("OPEN_PAREN", Then("params",
                    Then("CLOSE_PAREN", Then("COLON", Then("type", Then("body", y)))))))))
        /\ IsForm(Then("STRUCT", Then("IDENT", Then("OPEN_BRACE", Then("fields",
                    Then("CLOSE_BRACE", y))))))
        /\ IsForm(Then("IMPORT", Then("STRING", y)))
    BY <1>1
  <1> QED
    BY <1>2, <1>3, <1>4

LEMMA AwaitsStating ==
  ASSUME NEW w, NEW y, Awaits(w, Plain(y))
  PROVE  /\ Awaits(Then(Undone("Block"), w), Plain(Then("block", y)))
         /\ AfterStatement(y) =>
              /\ Awaits(Then(Undone("IfStatement"), w), Plain(Then("arms", y)))
              /\ Awaits(Then(Undone("IfRest"), w), Plain(Then("others", y)))
              /\ Awaits(Then(Undone("LetValue"), w), Plain(Then("value", y)))
              /\ Awaits(Then(Undone("LetStatement"), w),
                        Plain(Then("LET", Then("IDENT", Then("COLON", Then("type",
                                Then("value", y)))))))
         /\ Opened(y, "CLOSE_BRACE") =>
              /\ Awaits(Then(Undone("Statements"), w), Plain(Then("statements", y)))
              /\ Awaits(Then(Undone("MoreStatements"), w),
                        Plain(Then("semicolon", Then("statements", y))))
         /\ Awaits(Then(Undone("WhileStatement"), w),
                   Plain(Then("WHILE", Then("OPEN_PAREN", Then("expression", Then("CLOSE_PAREN",
                           Then("block", y)))))))
         /\ Awaits(Then(Undone("WhileCond"), w), Plain(Then("CLOSE_PAREN", Then("block", y))))
         /\ Awaits(Then(Undone("ForStatement"), w),
              Plain(Then("FOR", Then("OPEN_PAREN", Then("init", Then("expression",
                      Then("SEMICOLON", Then("expression", Then("CLOSE_PAREN",
                      Then("block", y))))))))))
         /\ Awaits(Then(Undone("ForCond"), w),
                   Plain(Then("SEMICOLON", Then("expression", Then("CLOSE_PAREN",
                           Then("block", y))))))
  <1>1. IsForm(y) /\ \A x, f : IsForm(f) => IsForm(Then(x, f))
    BY PlainIs, ThenFacts DEF Awaits
  <1>2. \A p, f : OfStatement(p, f, y) /\ IsForm(f) => Awaits(Then(Undone(p), w), Plain(f))
    BY AwaitsStatement
  <1>3. /\ OfStatement("Block", Then("block", y), y)
        /\ AfterStatement(y) =>
             /\ OfStatement("IfStatement", Then("arms", y), y)
             /\ OfStatement("IfRest", Then("others", y), y)
             /\ OfStatement("LetValue", Then("value", y), y)
             /\ OfStatement("LetStatement",
                            Then("LET", Then("IDENT", Then("COLON", Then("type",
                              Then("value", y))))),
                            y)
        /\ Opened(y, "CLOSE_BRACE") =>
             /\ OfStatement("Statements", Then("statements", y), y)
             /\ OfStatement("MoreStatements", Then("semicolon", Then("statements", y)), y)
        /\ OfStatement("WhileStatement",
                       Then("WHILE", Then("OPEN_PAREN", Then("expression", Then("CLOSE_PAREN",
                         Then("block", y))))),
                       y)
        /\ OfStatement("WhileCond", Then("CLOSE_PAREN", Then("block", y)), y)
        /\ OfStatement("ForStatement",
             Then("FOR", Then("OPEN_PAREN", Then("init", Then("expression", Then("SEMICOLON",
               Then("expression", Then("CLOSE_PAREN", Then("block", y)))))))),
             y)
        /\ OfStatement("ForCond",
                       Then("SEMICOLON", Then("expression", Then("CLOSE_PAREN",
                         Then("block", y)))),
                       y)
    BY DEF OfStatement
  <1>4. /\ IsForm(Then("block", y))
        /\ IsForm(Then("arms", y))
        /\ IsForm(Then("others", y))
        /\ IsForm(Then("value", y))
        /\ IsForm(Then("statements", y)) /\ IsForm(Then("semicolon", Then("statements", y)))
        /\ IsForm(Then("LET", Then("IDENT", Then("COLON", Then("type", Then("value", y))))))
        /\ IsForm(Then("WHILE", Then("OPEN_PAREN", Then("expression", Then("CLOSE_PAREN",
                    Then("block", y))))))
        /\ IsForm(Then("FOR", Then("OPEN_PAREN", Then("init", Then("expression",
                    Then("SEMICOLON", Then("expression", Then("CLOSE_PAREN",
                    Then("block", y)))))))))
        /\ IsForm(Then("CLOSE_PAREN", Then("block", y)))
        /\ IsForm(Then("SEMICOLON", Then("expression", Then("CLOSE_PAREN", Then("block", y)))))
    BY <1>1
  <1> QED
    BY <1>2, <1>3, <1>4

LEMMA AwaitsNaming ==
  ASSUME NEW w, NEW y, Awaits(w, Plain(y))
  PROVE  /\ Opened(y, "CLOSE_PAREN") =>
              /\ Awaits(Then(Undone("Arguments"), w), Plain(Then("arguments", y)))
              /\ Awaits(Then(Undone("MoreArguments"), w), Plain(Then("further", y)))
         /\ Opened(y, "CLOSE_BRACE") =>
              Awaits(Then(Undone("Inits"), w), Plain(Then("inits", y)))
         /\ AfterOperand(y) =>
              /\ Awaits(Then(Undone("MoreDot"), w), Plain(Then("members", y)))
              /\ Awaits(Then(Undone("DotOp"), w), Plain(Then("primary", Then("members", y))))
              /\ Awaits(Then(Undone("Unary"), w), Plain(Then("operand", y)))
         /\ AfterPrimary(y) => Awaits(Then(Undone("Primary"), w), Plain(Then("primary", y)))
         /\ Awaits(Then(Undone("Variable"), w), Plain(Then("IDENT", y)))
         /\ Awaits(Then(Undone("FunctionCall"), w),
                   Plain(Then("IDENT", Then("OPEN_PAREN", Then("arguments",
                           Then("CLOSE_PAREN", y))))))
         /\ Awaits(Then(Undone("ArrayAccess"), w),
                   Plain(Then("IDENT", Then("OPEN_SQUARE", Then("expression",
                           Then("CLOSE_SQUARE", y))))))
         /\ Awaits(Then(Undone("StructInit"), w),
                   Plain(Then("IDENT", Then("OPEN_BRACE", Then("inits",
                           Then("CLOSE_BRACE", y))))))
  <1>1. IsForm(y) /\ \A x, f : IsForm(f) => IsForm(Then(x, f))
    BY PlainIs, ThenFacts DEF Awaits
  <1>2. \A p, f : OfPrimary(p, f, y) /\ IsForm(f) => Awaits(Then(Undone(p), w), Plain(f))
    BY AwaitsPrimary
  <1>3. /\ Opened(y, "CLOSE_PAREN") =>
             /\ OfPrimary("Arguments", Then("arguments", y), y)
             /\ OfPrimary("MoreArguments", Then("further", y), y)
        /\ Opened(y, "CLOSE_BRACE") => OfPrimary("Inits", Then("inits", y), y)
        /\ AfterOperand(y) =>
             /\ OfPrimary("MoreDot", Then("members", y), y)
             /\ OfPrimary("DotOp", Then("primary", Then("members", y)), y)
             /\ OfPrimary("Unary", Then("operand", y), y)
        /\ AfterPrimary(y) => OfPrimary("Primary", Then("primary", y), y)
        /\ OfPrimary("Variable", Then("IDENT", y), y)
        /\ OfPrimary("FunctionCall",
                     Then("IDENT", Then("OPEN_PAREN", Then("arguments",
                       Then("CLOSE_PAREN", y)))),
                     y)
        /\ OfPrimary("ArrayAccess",
                     Then("IDENT", Then("OPEN_SQUARE", Then("expression",
                       Then("CLOSE_SQUARE", y)))),
                     y)
        /\ OfPrimary("StructInit",
                     Then("IDENT", Then("OPEN_BRACE", Then("inits", Then("CLOSE_BRACE", y)))), y)
    BY DEF OfPrimary
  <1>4. /\ IsForm(Then("arguments", y))
        /\ IsForm(Then("further", y))
        /\ IsForm(Then("inits", y))
        /\ IsForm(Then("members", y))
        /\ IsForm(Then("primary", Then("members", y)))
        /\ IsForm(Then("operand", y))
        /\ IsForm(Then("primary", y)) /\ IsForm(Then("IDENT", y))
        /\ IsForm(Then("IDENT", Then("OPEN_PAREN", Then("arguments", Then("CLOSE_PAREN", y)))))
        /\ IsForm(Then("IDENT", Then("OPEN_SQUARE", Then("expression",
                    Then("CLOSE_SQUARE", y)))))
        /\ IsForm(Then("IDENT", Then("OPEN_BRACE", Then("inits", Then("CLOSE_BRACE", y)))))
    BY <1>1
  <1> QED
    BY <1>2, <1>3, <1>4

LEMMA AwaitsAny ==
  ASSUME NEW w, NEW y, Awaits(w, Plain(y)), AfterExpression(y)
  PROVE  Awaits(Then(Undone("Expression"), w), Plain(Then("expression", y)))
  <1>1. OfExpression("Expression", Plain(Then("expression", y)), Prospect(y, {}))
    BY PlainIs DEF OfExpression
  <1>2. IsForm(Plain(Then("expression", y)).form)
    BY PlainIs, ThenFacts DEF Awaits
  <1> QED
    BY <1>1, <1>2, AwaitsExpression DEF Plain

\* A construction, a file to be read, or an expression to be kept.
LEMMA AwaitsMade ==
  ASSUME NEW w, NEW y, Awaits(w, Plain(y)), NEW p \in Constructions \cup {"ReadFile"}
  PROVE  Awaits(Then(Undone(p), w), Plain(y))
  BY AwaitsNode, UndoneIs, PlainIs

----------------------------------------------------------------------------
(***************************************************************************)
(* Where the procedures lead: before the work that awaits y, the steps     *)
(* that the next token chooses await a form that reads the same as what    *)
(* the procedure is to read.                                               *)
(***************************************************************************)
\* With the steps v before it, the work that awaits y awaits what f is at the place i.
Leads(s, i, v, f, y) ==
  \A w : Awaits(w, Plain(y)) => \E g : Awaits(Join(v, w), Plain(g)) /\ Same(s, i, f, g)

LEMMA AwaitsIs ==
  ASSUME NEW w, NEW y, Awaits(w, Plain(y))
  PROVE  IsForm(w) /\ IsForm(y)
  BY PlainIs DEF Awaits

LEMMA LeadsOn ==
  ASSUME NEW s, NEW i, NEW v, NEW f, NEW y, NEW g, Same(s, i, f, g),
         \A w : Awaits(w, Plain(y)) => Awaits(Join(v, w), Plain(g))
  PROVE  Leads(s, i, v, f, y)
  BY DEF Leads

LEMMA LeadsNowhere ==
  ASSUME NEW s, NEW i, NEW f, NEW y, Same(s, i, f, y)
  PROVE  Leads(s, i, Steps(<<>>), f, y)
  BY StepsNone, AwaitsIs, LeadsOn

LEMMA LeadsOne ==
  ASSUME NEW s, NEW i, NEW f, NEW y, NEW a
  PROVE  \A g : /\ Same(s, i, f, g)
                /\ \A w : Awaits(w, Plain(y)) => Awaits(Then(Undone(a), w), Plain(g))
                => Leads(s, i, Steps(<<a>>), f, y)
  <1> DEFINE H(w) == Then(Undone(a), w)
  <1>1. ASSUME NEW w, IsForm(w) PROVE Join(Steps(<<a>>), w) = H(w)
    BY <1>1, StepsOne
  <1>2. PICK v : v = Steps(<<a>>)
    OBVIOUS
  <1> HIDE DEF H
  <1>3. \A w : IsForm(w) => Join(v, w) = H(w)
    BY <1>1, <1>2
  <1>4. \A g : /\ Same(s, i, f, g)
               /\ \A w : Awaits(w, Plain(y)) => Awaits(H(w), Plain(g))
               => Leads(s, i, v, f, y)
    BY <1>3, AwaitsIs, LeadsOn
  <1> QED
    BY <1>2, <1>4 DEF H

LEMMA LeadsTwo ==
  ASSUME NEW s, NEW i, NEW f, NEW y, NEW a, NEW b
  PROVE  \A g : /\ Same(s, i, f, g)
                /\ \A w :
                     Awaits(w, Plain(y)) =>
                       Awaits(Then(Undone(a), Then(Undone(b), w)), Plain(g))
                => Leads(s, i, Steps(<<a, b>>), f, y)
  <1> DEFINE H(w) == Then(Undone(a), Then(Undone(b), w))
  <1>1. ASSUME NEW w, IsForm(w) PROVE Join(Steps(<<a, b>>), w) = H(w)
    BY <1>1, StepsTwo
  <1>2. PICK v : v = Steps(<<a, b>>)
    OBVIOUS
  <1> HIDE DEF H
  <1>3. \A w : IsForm(w) => Join(v, w) = H(w)
    BY <1>1, <1>2
  <1>4. \A g : /\ Same(s, i, f, g)
               /\ \A w : Awaits(w, Plain(y)) => Awaits(H(w), Plain(g))
               => Leads(s, i, v, f, y)
    BY <1>3, AwaitsIs, LeadsOn
  <1> QED
    BY <1>2, <1>4 DEF H

LEMMA LeadsThree ==
  ASSUME NEW s, NEW i, NEW f, NEW y, NEW a, NEW b, NEW c
  PROVE  \A g : /\ Same(s, i, f, g)
                /\ \A w :
                     Awaits(w, Plain(y)) =>
                       Awaits(Then(Undone(a), Then(Undone(b), Then(Undone(c), w))), Plain(g))
                => Leads(s, i, Steps(<<a, b, c>>), f, y)
  <1> DEFINE H(w) == Then(Undone(a), Then(Undone(b), Then(Undone(c), w)))
  <1>1. ASSUME NEW w, IsForm(w) PROVE Join(Steps(<<a, b, c>>), w) = H(w)
    BY <1>1, StepsThree
  <1>2. PICK v : v = Steps(<<a, b, c>>)
    OBVIOUS
  <1> HIDE DEF H
  <1>3. \A w : IsForm(w) => Join(v, w) = H(w)
    BY <1>1, <1>2
  <1>4. \A g : /\ Same(s, i, f, g)
               /\ \A w : Awaits(w, Plain(y)) => Awaits(H(w), Plain(g))
               => Leads(s, i, v, f, y)
    BY <1>3, AwaitsIs, LeadsOn
  <1> QED
    BY <1>2, <1>4 DEF H

LEMMA LeadsFour ==
  ASSUME NEW s, NEW i, NEW f, NEW y, NEW a, NEW b, NEW c, NEW d
  PROVE  \A g : /\ Same(s, i, f, g)
                /\ \A w :
                     Awaits(w, Plain(y)) =>
                       Awaits(Then(Undone(a), Then(Undone(b), Then(Undone(c),
                                Then(Undone(d), w)))),
                              Plain(g))
                => Leads(s, i, Steps(<<a, b, c, d>>), f, y)
  <1> DEFINE H(w) == Then(Undone(a), Then(Undone(b), Then(Undone(c), Then(Undone(d), w))))
  <1>1. ASSUME NEW w, IsForm(w) PROVE Join(Steps(<<a, b, c, d>>), w) = H(w)
    BY <1>1, StepsFour
  <1>2. PICK v : v = Steps(<<a, b, c, d>>)
    OBVIOUS
  <1> HIDE DEF H
  <1>3. \A w : IsForm(w) => Join(v, w) = H(w)
    BY <1>1, <1>2
  <1>4. \A g : /\ Same(s, i, f, g)
               /\ \A w : Awaits(w, Plain(y)) => Awaits(H(w), Plain(g))
               => Leads(s, i, v, f, y)
    BY <1>3, AwaitsIs, LeadsOn
  <1> QED
    BY <1>2, <1>4 DEF H

LEMMA LeadsFive ==
  ASSUME NEW s, NEW i, NEW f, NEW y, NEW a, NEW b, NEW c, NEW d, NEW e
  PROVE  \A g : /\ Same(s, i, f, g)
                /\ \A w :
                     Awaits(w, Plain(y)) =>
                       Awaits(Then(Undone(a), Then(Undone(b), Then(Undone(c), Then(Undone(d),
                                Then(Undone(e), w))))),
                              Plain(g))
                => Leads(s, i, Steps(<<a, b, c, d, e>>), f, y)
  <1> DEFINE H(w) == Then(Undone(a), Then(Undone(b), Then(Undone(c), Then(Undone(d),
                       Then(Undone(e), w)))))
  <1>1. ASSUME NEW w, IsForm(w) PROVE Join(Steps(<<a, b, c, d, e>>), w) = H(w)
    BY <1>1, StepsFive
  <1>2. PICK v : v = Steps(<<a, b, c, d, e>>)
    OBVIOUS
  <1> HIDE DEF H
  <1>3. \A w : IsForm(w) => Join(v, w) = H(w)
    BY <1>1, <1>2
  <1>4. \A g : /\ Same(s, i, f, g)
               /\ \A w : Awaits(w, Plain(y)) => Awaits(H(w), Plain(g))
               => Leads(s, i, v, f, y)
    BY <1>3, AwaitsIs, LeadsOn
  <1> QED
    BY <1>2, <1>4 DEF H

LEMMA LeadsSix ==
  ASSUME NEW s, NEW i, NEW f, NEW y, NEW a, NEW b, NEW c, NEW d, NEW e, NEW h
  PROVE  \A g : /\ Same(s, i, f, g)
                /\ \A w :
                     Awaits(w, Plain(y)) =>
                       Awaits(Then(Undone(a), Then(Undone(b), Then(Undone(c), Then(Undone(d),
                                Then(Undone(e), Then(Undone(h), w)))))),
                              Plain(g))
                => Leads(s, i, Steps(<<a, b, c, d, e, h>>), f, y)
  <1> DEFINE H(w) == Then(Undone(a), Then(Undone(b), Then(Undone(c), Then(Undone(d),
                       Then(Undone(e), Then(Undone(h), w))))))
  <1>1. ASSUME NEW w, IsForm(w) PROVE Join(Steps(<<a, b, c, d, e, h>>), w) = H(w)
    BY <1>1, StepsSix
  <1>2. PICK v : v = Steps(<<a, b, c, d, e, h>>)
    OBVIOUS
  <1> HIDE DEF H
  <1>3. \A w : IsForm(w) => Join(v, w) = H(w)
    BY <1>1, <1>2
  <1>4. \A g : /\ Same(s, i, f, g)
               /\ \A w : Awaits(w, Plain(y)) => Awaits(H(w), Plain(g))
               => Leads(s, i, v, f, y)
    BY <1>3, AwaitsIs, LeadsOn
  <1> QED
    BY <1>2, <1>4 DEF H

LEMMA LeadsSeven ==
  ASSUME NEW s, NEW i, NEW f, NEW y, NEW a, NEW b, NEW c, NEW d, NEW e, NEW h, NEW k
  PROVE  \A g : /\ Same(s, i, f, g)
                /\ \A w :
                     Awaits(w, Plain(y)) =>
                       Awaits(Then(Undone(a), Then(Undone(b), Then(Undone(c), Then(Undone(d),
                                Then(Undone(e), Then(Undone(h), Then(Undone(k), w))))))),
                              Plain(g))
                => Leads(s, i, Steps(<<a, b, c, d, e, h, k>>), f, y)
  <1> DEFINE H(w) == Then(Undone(a), Then(Undone(b), Then(Undone(c), Then(Undone(d),
                       Then(Undone(e), Then(Undone(h), Then(Undone(k), w)))))))
  <1>1. ASSUME NEW w, IsForm(w) PROVE Join(Steps(<<a, b, c, d, e, h, k>>), w) = H(w)
    BY <1>1, StepsSeven
  <1>2. PICK v : v = Steps(<<a, b, c, d, e, h, k>>)
    OBVIOUS
  <1> HIDE DEF H
  <1>3. \A w : IsForm(w) => Join(v, w) = H(w)
    BY <1>1, <1>2
  <1>4. \A g : /\ Same(s, i, f, g)
               /\ \A w : Awaits(w, Plain(y)) => Awaits(H(w), Plain(g))
               => Leads(s, i, v, f, y)
    BY <1>3, AwaitsIs, LeadsOn
  <1> QED
    BY <1>2, <1>4 DEF H

LEMMA LeadsEight ==
  ASSUME NEW s, NEW i, NEW f, NEW y, NEW a, NEW b, NEW c, NEW d, NEW e, NEW h, NEW k, NEW l
  PROVE  \A g : /\ Same(s, i, f, g)
                /\ \A w :
                     Awaits(w, Plain(y)) =>
                       Awaits(Then(Undone(a), Then(Undone(b), Then(Undone(c), Then(Undone(d),
                                Then(Undone(e), Then(Undone(h), Then(Undone(k),
                                Then(Undone(l), w)))))))),
                              Plain(g))
                => Leads(s, i, Steps(<<a, b, c, d, e, h, k, l>>), f, y)
  <1> DEFINE H(w) == Then(Undone(a), Then(Undone(b), Then(Undone(c), Then(Undone(d),
                       Then(Undone(e), Then(Undone(h), Then(Undone(k), Then(Undone(l), w))))))))
  <1>1. ASSUME NEW w, IsForm(w) PROVE Join(Steps(<<a, b, c, d, e, h, k, l>>), w) = H(w)
    BY <1>1, StepsEight
  <1>2. PICK v : v = Steps(<<a, b, c, d, e, h, k, l>>)
    OBVIOUS
  <1> HIDE DEF H
  <1>3. \A w : IsForm(w) => Join(v, w) = H(w)
    BY <1>1, <1>2
  <1>4. \A g : /\ Same(s, i, f, g)
               /\ \A w : Awaits(w, Plain(y)) => Awaits(H(w), Plain(g))
               => Leads(s, i, v, f, y)
    BY <1>3, AwaitsIs, LeadsOn
  <1> QED
    BY <1>2, <1>4 DEF H

LEMMA FunctionLeads ==
  ASSUME NEW s, NEW i \in Nat, NEW f, NEW y, IsForm(y), OfDeclaration("Function", f, y)
  PROVE  Leads(s, i, Steps(<<"FUNCTION", "IDENT", "OPEN_PAREN", "Params", "CLOSE_PAREN",
                             "COLON", "TypeName", "FunctionBody">>), f, y)
  <1>1. f =
            Then("FUNCTION", Then("IDENT", Then("OPEN_PAREN", Then("params", Then("CLOSE_PAREN",
              Then("COLON", Then("type", Then("body", y))))))))
    BY DEF OfDeclaration
  <1>2. ASSUME NEW w, Awaits(w, Plain(y))
        PROVE  Awaits(Then(Undone("FUNCTION"), Then(Undone("IDENT"), Then(Undone("OPEN_PAREN"),
                        Then(Undone("Params"), Then(Undone("CLOSE_PAREN"), Then(Undone("COLON"),
                        Then(Undone("TypeName"), Then(Undone("FunctionBody"), w)))))))),
                      Plain(f))
    <2>1. Awaits(Then(Undone("FunctionBody"), w), Plain(Then("body", y)))
      BY <1>2, AwaitsDeclaring
    <2>2. Awaits(Then(Undone("TypeName"), Then(Undone("FunctionBody"), w)),
                 Plain(Then("type", Then("body", y))))
      BY <2>1, AwaitsDeclaring DEF AfterType, Opened
    <2>3. Awaits(Then(Undone("CLOSE_PAREN"), Then(Undone("COLON"), Then(Undone("TypeName"),
                   Then(Undone("FunctionBody"), w)))),
                 Plain(Then("CLOSE_PAREN", Then("COLON", Then("type", Then("body", y))))))
      BY <2>2, AwaitsTokens
    <2>4. IsForm(Then("COLON", Then("type", Then("body", y))))
      BY ThenFacts
    <2>5. Awaits(Then(Undone("Params"), Then(Undone("CLOSE_PAREN"), Then(Undone("COLON"),
                   Then(Undone("TypeName"), Then(Undone("FunctionBody"), w))))),
                 Plain(Then("params", Then("CLOSE_PAREN", Then("COLON", Then("type",
                         Then("body", y)))))))
      BY <2>3, <2>4, AwaitsDeclaring DEF Opened
    <2> QED
      BY <1>1, <2>5, AwaitsTokens
  <1> QED
    BY <1>2, SameIs, LeadsEight

LEMMA ParamsLead ==
  ASSUME NEW s, NEW i \in Nat, NEW t, Ahead(s, i, t), NEW f, NEW y, IsForm(y)
  PROVE  /\ OfDeclaration("Params", f, y) =>
              Leads(s, i, Steps(IF t = "CLOSE_PAREN" THEN <<>>
                                ELSE <<"IDENT", "COLON", "TypeName", "MoreParams">>), f, y)
         /\ OfDeclaration("MoreParams", f, y) =>
              Leads(s, i, Steps(IF t = "CLOSE_PAREN" THEN <<>> ELSE <<"COMMA", "Params">>), f, y)
  <1>1. CASE Opened(y, "CLOSE_PAREN") /\ t = "CLOSE_PAREN"
    <2>1. Same(s, i, Then("params", y), y) /\ Same(s, i, Then("more", y), y)
      BY <1>1, ListsChosen
    <2> QED
      BY <1>1, <2>1, LeadsNowhere DEF OfDeclaration
  <1>2. CASE Opened(y, "CLOSE_PAREN") /\ t # "CLOSE_PAREN"
    <2>1. /\ Same(s, i, Then("params", y),
                  Then("IDENT", Then("COLON", Then("type", Then("more", y)))))
          /\ Same(s, i, Then("more", y), Then("COMMA", Then("params", y)))
      BY <1>2, ListsChosen
    <2>2. ASSUME NEW w, Awaits(w, Plain(y))
          PROVE  /\ Awaits(Then(Undone("IDENT"), Then(Undone("COLON"), Then(Undone("TypeName"),
                             Then(Undone("MoreParams"), w)))),
                           Plain(Then("IDENT", Then("COLON", Then("type", Then("more", y))))))
                 /\ Awaits(Then(Undone("COMMA"), Then(Undone("Params"), w)),
                           Plain(Then("COMMA", Then("params", y))))
      <3>1. AfterType(Then("more", y))
        BY <1>2 DEF AfterType, Opened
      <3>2. /\ Awaits(Then(Undone("MoreParams"), w), Plain(Then("more", y)))
            /\ Awaits(Then(Undone("Params"), w), Plain(Then("params", y)))
        BY <1>2, <2>2, AwaitsDeclaring
      <3>3. Awaits(Then(Undone("TypeName"), Then(Undone("MoreParams"), w)),
                   Plain(Then("type", Then("more", y))))
        BY <3>1, <3>2, AwaitsDeclaring
      <3> QED
        BY <3>2, <3>3, AwaitsTokens
    <2>3. Leads(s, i, Steps(<<"IDENT", "COLON", "TypeName", "MoreParams">>), Then("params", y),
                y)
      BY <2>1, <2>2, LeadsFour
    <2>4. Leads(s, i, Steps(<<"COMMA", "Params">>), Then("more", y), y)
      BY <2>1, <2>2, LeadsTwo
    <2> QED
      BY <1>2, <2>3, <2>4 DEF OfDeclaration
  <1> QED
    BY <1>1, <1>2 DEF OfDeclaration

LEMMA FunctionBodyLeads ==
  ASSUME NEW s, NEW i \in Nat, NEW t, Ahead(s, i, t), NEW f, NEW y, IsForm(y),
         OfDeclaration("FunctionBody", f, y)
  PROVE  Leads(s, i, Steps(IF t = "SEMICOLON" THEN <<"SEMICOLON">> ELSE <<"Block">>), f, y)
  <1>1. f = Then("body", y)
    BY DEF OfDeclaration
  <1>2. \A w : Awaits(w, Plain(y)) =>
          /\ Awaits(Then(Undone("SEMICOLON"), w), Plain(Then("SEMICOLON", y)))
          /\ Awaits(Then(Undone("Block"), w), Plain(Then("block", y)))
    BY AwaitsTokens, AwaitsStating
  <1>3. t = "SEMICOLON" => Leads(s, i, Steps(<<"SEMICOLON">>), f, y)
    BY <1>1, <1>2, BodyChosen, LeadsOne
  <1>4. t # "SEMICOLON" => Leads(s, i, Steps(<<"Block">>), f, y)
    BY <1>1, <1>2, BodyChosen, LeadsOne
  <1> QED
    BY <1>3, <1>4

LEMMA StructDeclLeads ==
  ASSUME NEW s, NEW i \in Nat, NEW f, NEW y, IsForm(y), OfDeclaration("StructDecl", f, y)
  PROVE  Leads(s, i, Steps(<<"STRUCT", "IDENT", "OPEN_BRACE", "Fields", "CLOSE_BRACE">>), f, y)
  <1>1. f =
            Then("STRUCT", Then("IDENT", Then("OPEN_BRACE", Then("fields",
              Then("CLOSE_BRACE", y)))))
    BY DEF OfDeclaration
  <1>2. ASSUME NEW w, Awaits(w, Plain(y))
        PROVE  Awaits(Then(Undone("STRUCT"), Then(Undone("IDENT"), Then(Undone("OPEN_BRACE"),
                        Then(Undone("Fields"), Then(Undone("CLOSE_BRACE"), w))))),
                      Plain(f))
    <2>1. /\ Awaits(Then(Undone("CLOSE_BRACE"), w), Plain(Then("CLOSE_BRACE", y)))
          /\ Opened(Then("CLOSE_BRACE", y), "CLOSE_BRACE")
      BY <1>2, AwaitsTokens DEF Opened
    <2>2. Awaits(Then(Undone("Fields"), Then(Undone("CLOSE_BRACE"), w)),
                 Plain(Then("fields", Then("CLOSE_BRACE", y))))
      BY <2>1, AwaitsDeclaring
    <2> QED
      BY <1>1, <2>2, AwaitsTokens
  <1> QED
    BY <1>2, SameIs, LeadsFive

LEMMA FieldsLead ==
  ASSUME NEW s, NEW i \in Nat, NEW t, Ahead(s, i, t), NEW f, NEW y, IsForm(y),
         OfDeclaration("Fields", f, y)
  PROVE  Leads(s, i, Steps(IF t = "CLOSE_BRACE" THEN <<>>
                           ELSE <<"IDENT", "COLON", "TypeName", "SEMICOLON", "Fields">>), f, y)
  <1>1. f = Then("fields", y) /\ Opened(y, "CLOSE_BRACE")
    BY DEF OfDeclaration
  <1>2. ASSUME NEW w, Awaits(w, Plain(y))
        PROVE  Awaits(Then(Undone("IDENT"), Then(Undone("COLON"), Then(Undone("TypeName"),
                        Then(Undone("SEMICOLON"), Then(Undone("Fields"), w))))),
                      Plain(Then("IDENT", Then("COLON", Then("type", Then("SEMICOLON",
                              Then("fields", y)))))))
    <2>1. Awaits(Then(Undone("Fields"), w), Plain(Then("fields", y)))
      BY <1>1, <1>2, AwaitsDeclaring
    <2>2. Awaits(Then(Undone("SEMICOLON"), Then(Undone("Fields"), w)),
                 Plain(Then("SEMICOLON", Then("fields", y))))
      BY <2>1, AwaitsTokens
    <2>3. AfterType(Then("SEMICOLON", Then("fields", y)))
      BY ThenFacts DEF AfterType, Opened
    <2>4. Awaits(Then(Undone("TypeName"), Then(Undone("SEMICOLON"), Then(Undone("Fields"), w))),
                 Plain(Then("type", Then("SEMICOLON", Then("fields", y)))))
      BY <2>2, <2>3, AwaitsDeclaring
    <2> QED
      BY <2>4, AwaitsTokens
  <1>3. t = "CLOSE_BRACE" => Leads(s, i, Steps(<<>>), f, y)
    BY <1>1, ListsChosen, LeadsNowhere
  <1>4. t # "CLOSE_BRACE" =>
          Leads(s, i, Steps(<<"IDENT", "COLON", "TypeName", "SEMICOLON", "Fields">>), f, y)
    <2>1. t # "CLOSE_BRACE" =>
            Same(s, i, f,
                 Then("IDENT", Then("COLON", Then("type", Then("SEMICOLON",
                   Then("fields", y))))))
      BY <1>1, ListsChosen
    <2> QED
      BY <1>2, <2>1, LeadsFive
  <1> QED
    BY <1>3, <1>4

LEMMA ImportLeads ==
  ASSUME NEW s, NEW i \in Nat, NEW f, NEW y, IsForm(y), OfDeclaration("Import", f, y)
  PROVE  Leads(s, i, Steps(<<"IMPORT", "STRING", "ReadFile">>), f, y)
  <1>1. f = Then("IMPORT", Then("STRING", y))
    BY DEF OfDeclaration
  <1>2. ASSUME NEW w, Awaits(w, Plain(y))
        PROVE  Awaits(Then(Undone("IMPORT"), Then(Undone("STRING"),
                        Then(Undone("ReadFile"), w))),
                      Plain(f))
    <2>1. Awaits(Then(Undone("ReadFile"), w), Plain(y))
      BY <1>2, AwaitsMade
    <2> QED
      BY <1>1, <2>1, AwaitsTokens
  <1> QED
    BY <1>2, SameIs, LeadsThree

LEMMA TypeLeads ==
  ASSUME NEW s, NEW i \in Nat, NEW t, Ahead(s, i, t), NEW f, NEW y, IsForm(y)
  PROVE  /\ OfDeclaration("TypeName", f, y) => Leads(s, i, Steps(<<"IDENT", "Stars">>), f, y)
         /\ OfDeclaration("Stars", f, y) =>
              Leads(s, i, Steps(IF t = "MUL" THEN <<"MUL", "Stars">> ELSE <<>>), f, y)
  <1>1. ASSUME AfterType(y)
        PROVE  /\ Leads(s, i, Steps(<<"IDENT", "Stars">>), Then("type", y), y)
               /\ t = "MUL" => Leads(s, i, Steps(<<"MUL", "Stars">>), Then("stars", y), y)
               /\ t # "MUL" => Leads(s, i, Steps(<<>>), Then("stars", y), y)
    <2>1. \A w : Awaits(w, Plain(y)) =>
            /\ Awaits(Then(Undone("IDENT"), Then(Undone("Stars"), w)),
                      Plain(Then("IDENT", Then("stars", y))))
            /\ Awaits(Then(Undone("MUL"), Then(Undone("Stars"), w)),
                      Plain(Then("MUL", Then("stars", y))))
      BY <1>1, AwaitsDeclaring, AwaitsTokens
    <2>2. Same(s, i, Then("type", y), Then("IDENT", Then("stars", y)))
      BY OnlyChoices
    <2>3. /\ t = "MUL" => Same(s, i, Then("stars", y), Then("MUL", Then("stars", y)))
          /\ t # "MUL" => Same(s, i, Then("stars", y), y)
      BY <1>1, StarsChosen
    <2>4. t # "MUL" => Leads(s, i, Steps(<<>>), Then("stars", y), y)
      BY <2>3, LeadsNowhere
    <2>5. t = "MUL" => Leads(s, i, Steps(<<"MUL", "Stars">>), Then("stars", y), y)
      BY <2>1, <2>3, LeadsTwo
    <2>6. Leads(s, i, Steps(<<"IDENT", "Stars">>), Then("type", y), y)
      BY <2>1, <2>2, LeadsTwo
    <2> QED
      BY <2>4, <2>5, <2>6
  <1> QED
    BY <1>1 DEF OfDeclaration

LEMMA BlockLeads ==
  ASSUME NEW s, NEW i \in Nat, NEW f, NEW y, IsForm(y), OfStatement("Block", f, y)
  PROVE  Leads(s, i, Steps(<<"OPEN_BRACE", "Statements", "CLOSE_BRACE">>), f, y)
  <1>1. f = Then("block", y)
    BY DEF OfStatement
  <1>2. Same(s, i, f, Then("OPEN_BRACE", Then("statements", Then("CLOSE_BRACE", y))))
    <2>1. /\ "block" \in DOMAIN Alternatives
          /\ Choices("block", y) =
                 {Then("OPEN_BRACE", Then("statements", Then("CLOSE_BRACE", y)))}
      BY Choices_block
    <2> QED
      BY <1>1, <2>1, OnlyChoice
  <1>3. ASSUME NEW w, Awaits(w, Plain(y))
        PROVE  Awaits(Then(Undone("OPEN_BRACE"), Then(Undone("Statements"),
                        Then(Undone("CLOSE_BRACE"), w))),
                      Plain(Then("OPEN_BRACE", Then("statements", Then("CLOSE_BRACE", y)))))
    <2>1. /\ Awaits(Then(Undone("CLOSE_BRACE"), w), Plain(Then("CLOSE_BRACE", y)))
          /\ Opened(Then("CLOSE_BRACE", y), "CLOSE_BRACE")
      BY <1>3, AwaitsTokens DEF Opened
    <2>2. Awaits(Then(Undone("Statements"), Then(Undone("CLOSE_BRACE"), w)),
                 Plain(Then("statements", Then("CLOSE_BRACE", y))))
      BY <2>1, AwaitsStating
    <2> QED
      BY <2>2, AwaitsTokens
  <1> QED
    BY <1>2, <1>3, LeadsThree

LEMMA AwaitsClosing ==
  ASSUME NEW w, NEW y, Awaits(w, Plain(y)), NEW f, IsForm(f)
  PROVE  /\ Closing(f, "statement", "init", y) => Awaits(Then(Undone("Statement"), w), Plain(f))
         /\ Closing(f, "result", "ended", y) =>
              /\ Awaits(Then(Undone("ReturnValue"), w), Plain(f))
              /\ Awaits(Then(Undone("ReturnStatement"), w), Plain(Then("RETURN", f)))
  <1>1. /\ Closing(f, "statement", "init", y) => OfStatement("Statement", f, y)
        /\ Closing(f, "result", "ended", y) =>
             /\ OfStatement("ReturnValue", f, y)
             /\ OfStatement("ReturnStatement", Then("RETURN", f), y)
    BY DEF OfStatement
  <1>2. IsForm(Then("RETURN", f))
    BY ThenFacts
  <1> QED
    BY <1>1, <1>2, AwaitsStatement

LEMMA StatementsLead ==
  ASSUME NEW s, NEW i \in Nat, NEW t, Ahead(s, i, t), NEW f, NEW y, IsForm(y)
  PROVE  /\ OfStatement("Statements", f, y) =>
              Leads(s, i, Steps(IF t = "CLOSE_BRACE" THEN <<>>
                                ELSE <<"Statement", "Keep", "MoreStatements">>), f, y)
         /\ OfStatement("MoreStatements", f, y) =>
              Leads(s, i, Steps(IF t = "SEMICOLON" THEN <<"SEMICOLON", "Statements">>
                                                   ELSE <<"Statements">>), f, y)
  <1>1. ASSUME Opened(y, "CLOSE_BRACE")
        PROVE  /\ t = "CLOSE_BRACE" => Leads(s, i, Steps(<<>>), Then("statements", y), y)
               /\ t # "CLOSE_BRACE" =>
                    Leads(s, i, Steps(<<"Statement", "Keep", "MoreStatements">>),
                          Then("statements", y), y)
               /\ t = "SEMICOLON" =>
                    Leads(s, i, Steps(<<"SEMICOLON", "Statements">>),
                          Then("semicolon", Then("statements", y)), y)
               /\ t # "SEMICOLON" =>
                    Leads(s, i, Steps(<<"Statements">>),
                          Then("semicolon", Then("statements", y)), y)
    <2>1. /\ InBlock(Then("statements", y))
          /\ IsForm(Then("statements", y))
          /\ IsForm(Then("statement", Then("statements", y)))
      BY <1>1, ThenFacts DEF InBlock, Opened
    <2>2. ASSUME NEW w, Awaits(w, Plain(y))
          PROVE  Awaits(Then(Undone("Statement"), Then(Undone("Keep"),
                          Then(Undone("MoreStatements"), w))),
                        Plain(Then("statement", Then("statements", y))))
      <3>1. Awaits(Then(Undone("MoreStatements"), w),
                   Plain(Then("semicolon", Then("statements", y))))
        BY <1>1, <2>2, AwaitsStating
      <3>2. Awaits(Then(Undone("Keep"), Then(Undone("MoreStatements"), w)),
                   Plain(Then("semicolon", Then("statements", y))))
        BY <3>1, AwaitsMade DEF Constructions
      <3>3. Closing(Then("statement", Then("statements", y)), "statement", "init",
                    Then("semicolon", Then("statements", y)))
        BY <2>1 DEF Closing
      <3> QED
        BY <2>1, <3>2, <3>3, AwaitsClosing
    <2>3. \A w : Awaits(w, Plain(y)) =>
            /\ Awaits(Then(Undone("Statements"), w), Plain(Then("statements", y)))
            /\ Awaits(Then(Undone("SEMICOLON"), Then(Undone("Statements"), w)),
                      Plain(Then("SEMICOLON", Then("statements", y))))
      BY <1>1, AwaitsStating, AwaitsTokens
    <2>4. /\ t = "CLOSE_BRACE" => Same(s, i, Then("statements", y), y)
          /\ t # "CLOSE_BRACE" =>
               Same(s, i, Then("statements", y), Then("statement", Then("statements", y)))
      BY <1>1, ListsChosen
    <2>5. /\ t = "SEMICOLON" =>
               Same(s, i, Then("semicolon", Then("statements", y)),
                    Then("SEMICOLON", Then("statements", y)))
          /\ t # "SEMICOLON" =>
               Same(s, i, Then("semicolon", Then("statements", y)), Then("statements", y))
      BY <2>1, SemicolonChosen
    <2>6. t = "CLOSE_BRACE" => Leads(s, i, Steps(<<>>), Then("statements", y), y)
      BY <2>4, LeadsNowhere
    <2>7. t # "CLOSE_BRACE" =>
            Leads(s, i, Steps(<<"Statement", "Keep", "MoreStatements">>), Then("statements", y),
                  y)
      BY <2>2, <2>4, LeadsThree
    <2>8. t = "SEMICOLON" =>
            Leads(s, i, Steps(<<"SEMICOLON", "Statements">>),
                  Then("semicolon", Then("statements", y)), y)
      BY <2>3, <2>5, LeadsTwo
    <2>9. t # "SEMICOLON" =>
            Leads(s, i, Steps(<<"Statements">>), Then("semicolon", Then("statements", y)), y)
      BY <2>3, <2>5, LeadsOne
    <2> QED
      BY <2>6, <2>7, <2>8, <2>9
  <1> QED
    BY <1>1 DEF OfStatement

\* Steps with a construction among them, as Hold puts them before the work.
Holding(before, c, after) == Steps(before) \o <<c>> \o Steps(after)

LEMMA JoinOne ==
  ASSUME NEW x, NEW z, IsForm(z)
  PROVE  Join(<<x>>, z) = Then(x, z) /\ IsForm(<<x>>)
  BY ChainOne, Zenon DEF Join

LEMMA JoinTwo ==
  ASSUME NEW a, NEW b, NEW z, IsForm(z)
  PROVE  Join(<<a, b>>, z) = Then(a, Then(b, z))
  <1>1. <<a, b>> \o z = Then(a, Then(b, z))
    BY ChainTwo
  <1> QED
    BY <1>1, Zenon DEF Join

LEMMA JoinFive ==
  ASSUME NEW a, NEW b, NEW c, NEW d, NEW e, NEW z, IsForm(z)
  PROVE  Join(<<a, b, c, d, e>>, z) = Then(a, Then(b, Then(c, Then(d, Then(e, z)))))
  <1>1. <<a, b, c, d, e>> \o z = Then(a, Then(b, Then(c, Then(d, Then(e, z)))))
    BY ChainFive
  <1> QED
    BY <1>1, Zenon DEF Join

LEMMA HoldingTwo ==
  ASSUME NEW a, NEW b, NEW c, NEW w, IsForm(w)
  PROVE  Join(Holding(<<a, b>>, c, <<>>), w) = Then(Undone(a), Then(Undone(b), Then(c, w)))
  <1>1. Steps(<<a, b>>) = <<Undone(a), Undone(b)>> /\ Steps(<<>>) = <<>>
    BY DEF Steps, Undone
  <1>2. Holding(<<a, b>>, c, <<>>) = Join(Join(<<Undone(a), Undone(b)>>, <<c>>), <<>>)
    BY <1>1, Zenon DEF Holding, Join
  <1>3. PICK x : x = <<c>>
    OBVIOUS
  <1>4. IsForm(x) /\ Join(x, <<>>) = x /\ Join(x, w) = Then(c, w)
    BY <1>3, JoinOne, Nothing DEF Join
  <1>5. Join(<<Undone(a), Undone(b)>>, x) = Then(Undone(a), Then(Undone(b), x))
    BY <1>4, JoinTwo
  <1>6. Join(Then(Undone(a), Then(Undone(b), x)), <<>>) = Then(Undone(a), Then(Undone(b), x))
    BY <1>4, JoinedThen, ThenFacts, Nothing
  <1>7. Join(Then(Undone(a), Then(Undone(b), x)), w) =
            Then(Undone(a), Then(Undone(b), Then(c, w)))
    BY <1>4, JoinedThen, ThenFacts
  <1> QED
    BY <1>2, <1>3, <1>5, <1>6, <1>7, Zenon

LEMMA HoldingLoop ==
  ASSUME NEW a, NEW b, NEW c, NEW d, NEW w, IsForm(w)
  PROVE  Join(Holding(<<a, b>>, c, <<d>>), w) =
             Then(Undone(a), Then(Undone(b), Then(c, Then(Undone(d), w))))
  <1>1. Steps(<<a, b>>) = <<Undone(a), Undone(b)>> /\ Steps(<<d>>) = <<Undone(d)>>
    BY DEF Steps, Undone
  <1>2. Holding(<<a, b>>, c, <<d>>) = Join(Join(<<Undone(a), Undone(b)>>, <<c>>), <<Undone(d)>>)
    BY <1>1, Zenon DEF Holding, Join
  <1>3. PICK x, y : x = <<c>> /\ y = <<Undone(d)>>
    OBVIOUS
  <1>4. IsForm(x) /\ IsForm(y) /\ Join(x, y) = Then(c, y) /\ Join(y, w) = Then(Undone(d), w)
    BY <1>3, JoinOne
  <1>5. Join(<<Undone(a), Undone(b)>>, x) = Then(Undone(a), Then(Undone(b), x))
    BY <1>4, JoinTwo
  <1>6. Join(Then(Undone(a), Then(Undone(b), x)), y) =
            Then(Undone(a), Then(Undone(b), Then(c, y)))
    BY <1>4, JoinedThen, ThenFacts
  <1>7. Join(Then(Undone(a), Then(Undone(b), Then(c, y))), w) =
            Then(Undone(a), Then(Undone(b), Then(c, Then(Undone(d), w))))
    BY <1>4, JoinedThen, ThenFacts
  <1> QED
    BY <1>2, <1>3, <1>5, <1>6, <1>7, Zenon

LEMMA HoldingFive ==
  ASSUME NEW a, NEW b, NEW d, NEW e, NEW g, NEW c, NEW w, IsForm(w)
  PROVE  Join(Holding(<<a, b, d, e, g>>, c, <<>>), w) =
             Then(Undone(a), Then(Undone(b), Then(Undone(d), Then(Undone(e), Then(Undone(g),
               Then(c, w))))))
  <1>1. Steps(<<a, b, d, e, g>>) = <<Undone(a), Undone(b), Undone(d), Undone(e), Undone(g)>>
        /\ Steps(<<>>) = <<>>
    BY DEF Steps, Undone
  <1>2. Holding(<<a, b, d, e, g>>, c, <<>>)
          = Join(Join(<<Undone(a), Undone(b), Undone(d), Undone(e), Undone(g)>>, <<c>>), <<>>)
    BY <1>1, Zenon DEF Holding, Join
  <1>3. PICK x : x = <<c>>
    OBVIOUS
  <1>4. IsForm(x) /\ Join(x, <<>>) = x /\ Join(x, w) = Then(c, w)
    BY <1>3, JoinOne, Nothing DEF Join
  <1>5. Join(<<Undone(a), Undone(b), Undone(d), Undone(e), Undone(g)>>, x) =
            Then(Undone(a), Then(Undone(b), Then(Undone(d), Then(Undone(e),
              Then(Undone(g), x)))))
    BY <1>4, JoinFive
  <1>6. Join(Then(Undone(a), Then(Undone(b), Then(Undone(d), Then(Undone(e),
               Then(Undone(g), x))))), <<>>) =
            Then(Undone(a), Then(Undone(b), Then(Undone(d), Then(Undone(e),
              Then(Undone(g), x)))))
    BY <1>4, JoinedThen, ThenFacts, Nothing
  <1>7. Join(Then(Undone(a), Then(Undone(b), Then(Undone(d), Then(Undone(e),
               Then(Undone(g), x))))), w) =
            Then(Undone(a), Then(Undone(b), Then(Undone(d), Then(Undone(e), Then(Undone(g),
              Then(c, w))))))
    BY <1>4, JoinedThen, ThenFacts
  <1> QED
    BY <1>2, <1>3, <1>5, <1>6, <1>7, Zenon

LEMMA ClosingChosen ==
  ASSUME NEW s, NEW i \in Nat, NEW t, Ahead(s, i, t), NEW f, NEW y,
         Closing(f, "statement", "init", y)
  PROVE  /\ AfterStatement(y)
         /\ t # "RETURN" => Same(s, i, f, Then("simple", y))
         /\ t = "RETURN" =>
              \E g :
                /\ IsForm(g)
                /\ Closing(g, "result", "ended", y)
                /\ Same(s, i, f, Then("RETURN", g))
  <1>1. ASSUME NEW z, InBlock(z), f = Then("statement", z), y = Then("semicolon", z)
        PROVE  /\ AfterStatement(y)
               /\ t # "RETURN" => Same(s, i, f, Then("simple", y))
               /\ t = "RETURN" =>
                    \E g :
                      /\ IsForm(g)
                      /\ Closing(g, "result", "ended", y)
                      /\ Same(s, i, f, Then("RETURN", g))
    <2>1. IsForm(z) /\ IsForm(Then("result", z))
      BY <1>1, InBlockIs, ThenFacts
    <2>2. Closing(Then("result", z), "result", "ended", y)
      BY <1>1 DEF Closing
    <2>3. AfterStatement(y)
      BY <1>1 DEF AfterStatement
    <2>4. /\ t # "RETURN" => Same(s, i, f, Then("simple", y))
          /\ t = "RETURN" => Same(s, i, f, Then("RETURN", Then("result", z)))
      BY <1>1, <2>1, StatementChosen
    <2> QED
      BY <2>1, <2>2, <2>3, <2>4
  <1>2. ASSUME NEW z, IsForm(z), f = Then("init", z), y = Then("SEMICOLON", z)
        PROVE  /\ AfterStatement(y)
               /\ t # "RETURN" => Same(s, i, f, Then("simple", y))
               /\ t = "RETURN" =>
                    \E g :
                      /\ IsForm(g)
                      /\ Closing(g, "result", "ended", y)
                      /\ Same(s, i, f, Then("RETURN", g))
    <2>1. IsForm(Then("ended", z))
      BY <1>2, ThenFacts
    <2>2. Closing(Then("ended", z), "result", "ended", y)
      BY <1>2 DEF Closing
    <2>3. AfterStatement(y)
      BY <1>2 DEF AfterStatement, Opened
    <2>4. /\ t # "RETURN" => Same(s, i, f, Then("simple", y))
          /\ t = "RETURN" => Same(s, i, f, Then("RETURN", Then("ended", z)))
      BY <1>2, StatementChosen
    <2> QED
      BY <2>1, <2>2, <2>3, <2>4
  <1> QED
    BY <1>1, <1>2 DEF Closing

LEMMA ResultClosing ==
  ASSUME NEW s, NEW i \in Nat, NEW t, Ahead(s, i, t), NEW f, NEW y,
         Closing(f, "result", "ended", y)
  PROVE  /\ AfterStatement(y)
         /\ t = "SEMICOLON" => Same(s, i, f, y)
         /\ t # "SEMICOLON" => Same(s, i, f, Then("expression", y))
  <1>1. ASSUME NEW z, InBlock(z), f = Then("result", z), y = Then("semicolon", z)
        PROVE  /\ AfterStatement(y)
               /\ t = "SEMICOLON" => Same(s, i, f, y)
               /\ t # "SEMICOLON" => Same(s, i, f, Then("expression", y))
    BY <1>1, ResultChosen DEF AfterStatement
  <1>2. ASSUME NEW z, IsForm(z), f = Then("ended", z), y = Then("SEMICOLON", z)
        PROVE  /\ AfterStatement(y)
               /\ t = "SEMICOLON" => Same(s, i, f, y)
               /\ t # "SEMICOLON" => Same(s, i, f, Then("expression", y))
    BY <1>2, ResultChosen DEF AfterStatement, Opened
  <1> QED
    BY <1>1, <1>2 DEF Closing

LEMMA StatementLeads ==
  ASSUME NEW s, NEW i \in Nat, NEW t, Ahead(s, i, t), NEW f, NEW y, IsForm(y),
         OfStatement("Statement", f, y)
  PROVE  /\ t = "RETURN" => Leads(s, i, Steps(<<"ReturnStatement">>), f, y)
         /\ t = "IF" => Leads(s, i, Steps(<<"IfStatement">>), f, y)
         /\ t = "LET" => Leads(s, i, Steps(<<"LetStatement">>), f, y)
         /\ t = "WHILE" => Leads(s, i, Steps(<<"WhileStatement">>), f, y)
         /\ t = "FOR" => Leads(s, i, Steps(<<"ForStatement">>), f, y)
         /\ t \notin {"RETURN", "IF", "LET", "WHILE", "FOR"} =>
              Leads(s, i, Steps(<<"Expression">>), f, y)
  <1>1. Closing(f, "statement", "init", y)
    BY DEF OfStatement
  <1>2. ASSUME t = "RETURN"
        PROVE  Leads(s, i, Steps(<<"ReturnStatement">>), f, y)
    <2>1. PICK g : /\ IsForm(g)
                   /\ Closing(g, "result", "ended", y)
                   /\ Same(s, i, f, Then("RETURN", g))
      BY <1>1, <1>2, ClosingChosen
    <2>2. \A w :
            Awaits(w, Plain(y)) =>
              Awaits(Then(Undone("ReturnStatement"), w), Plain(Then("RETURN", g)))
      BY <2>1, AwaitsClosing
    <2> QED
      BY <2>1, <2>2, LeadsOne
  <1>3. ASSUME t # "RETURN"
        PROVE  AfterStatement(y) /\ AfterExpression(y) /\ Same(s, i, f, Then("simple", y))
    BY <1>1, <1>3, ClosingChosen DEF AfterExpression
  <1>4. ASSUME t # "RETURN", NEW w, Awaits(w, Plain(y))
        PROVE  /\ Awaits(Then(Undone("IfStatement"), w), Plain(Then("arms", y)))
               /\ Awaits(Then(Undone("LetStatement"), w),
                         Plain(Then("LET", Then("IDENT", Then("COLON", Then("type",
                                 Then("value", y)))))))
               /\ Awaits(Then(Undone("WhileStatement"), w),
                         Plain(Then("WHILE", Then("OPEN_PAREN", Then("expression",
                                 Then("CLOSE_PAREN", Then("block", y)))))))
               /\ Awaits(Then(Undone("ForStatement"), w),
                    Plain(Then("FOR", Then("OPEN_PAREN", Then("init", Then("expression",
                            Then("SEMICOLON", Then("expression", Then("CLOSE_PAREN",
                            Then("block", y))))))))))
               /\ Awaits(Then(Undone("Expression"), w), Plain(Then("expression", y)))
    BY <1>3, <1>4, AwaitsStating, AwaitsAny
  <1>5. ASSUME t = "IF" PROVE Leads(s, i, Steps(<<"IfStatement">>), f, y)
    <2>1. Same(s, i, f, Then("arms", y))
      BY <1>3, <1>5, SimpleChosen, SameIs
    <2> QED
      BY <1>4, <1>5, <2>1, LeadsOne
  <1>6. ASSUME t = "LET" PROVE Leads(s, i, Steps(<<"LetStatement">>), f, y)
    <2>1. Same(s, i, f,
               Then("LET", Then("IDENT", Then("COLON", Then("type", Then("value", y))))))
      BY <1>3, <1>6, SimpleChosen, SameIs
    <2> QED
      BY <1>4, <1>6, <2>1, LeadsOne
  <1>7. ASSUME t = "WHILE" PROVE Leads(s, i, Steps(<<"WhileStatement">>), f, y)
    <2>1. Same(s, i, f,
               Then("WHILE", Then("OPEN_PAREN", Then("expression", Then("CLOSE_PAREN",
                 Then("block", y))))))
      BY <1>3, <1>7, SimpleChosen, SameIs
    <2> QED
      BY <1>4, <1>7, <2>1, LeadsOne
  <1>8. ASSUME t = "FOR" PROVE Leads(s, i, Steps(<<"ForStatement">>), f, y)
    <2>1. Same(s, i, f,
               Then("FOR", Then("OPEN_PAREN", Then("init", Then("expression", Then("SEMICOLON",
                 Then("expression", Then("CLOSE_PAREN", Then("block", y)))))))))
      BY <1>3, <1>8, SimpleChosen, SameIs
    <2> QED
      BY <1>4, <1>8, <2>1, LeadsOne
  <1>9. ASSUME t \notin {"RETURN", "IF", "LET", "WHILE", "FOR"}
        PROVE  Leads(s, i, Steps(<<"Expression">>), f, y)
    <2>1. Same(s, i, f, Then("expression", y))
      BY <1>3, <1>9, SimpleChosen, SameIs DEF Keywords
    <2> QED
      BY <1>4, <1>9, <2>1, LeadsOne
  <1> QED
    BY <1>2, <1>5, <1>6, <1>7, <1>8, <1>9

LEMMA ReturnLeads ==
  ASSUME NEW s, NEW i \in Nat, NEW t, Ahead(s, i, t), NEW f, NEW y, IsForm(y), IsForm(f)
  PROVE  /\ OfStatement("ReturnStatement", f, y) =>
              Leads(s, i, Steps(<<"RETURN", "ReturnValue">>), f, y)
         /\ OfStatement("ReturnValue", f, y) =>
              Leads(s, i, Steps(IF t = "SEMICOLON" THEN <<"MakePlain">>
                                                   ELSE <<"Expression", "MakePlain">>), f, y)
  <1>1. ASSUME NEW g, f = Then("RETURN", g), Closing(g, "result", "ended", y)
        PROVE  Leads(s, i, Steps(<<"RETURN", "ReturnValue">>), f, y)
    <2>1. IsForm(g)
      BY <1>1, InBlockIs, ThenFacts DEF Closing
    <2>2. \A w :
            Awaits(w, Plain(y)) =>
              Awaits(Then(Undone("RETURN"), Then(Undone("ReturnValue"), w)), Plain(f))
      BY <1>1, <2>1, AwaitsClosing, AwaitsTokens
    <2> QED
      BY <2>2, SameIs, LeadsTwo
  <1>2. ASSUME Closing(f, "result", "ended", y)
        PROVE  /\ t = "SEMICOLON" => Leads(s, i, Steps(<<"MakePlain">>), f, y)
               /\ t # "SEMICOLON" => Leads(s, i, Steps(<<"Expression", "MakePlain">>), f, y)
    <2>1. /\ AfterExpression(y)
          /\ t = "SEMICOLON" => Same(s, i, f, y)
          /\ t # "SEMICOLON" => Same(s, i, f, Then("expression", y))
      BY <1>2, ResultClosing DEF AfterExpression
    <2>2. \A w : Awaits(w, Plain(y)) => Awaits(Then(Undone("MakePlain"), w), Plain(y))
      BY AwaitsMade DEF Constructions
    <2>3. \A w :
            Awaits(w, Plain(y)) =>
              Awaits(Then(Undone("Expression"), Then(Undone("MakePlain"), w)),
                     Plain(Then("expression", y)))
      BY <2>1, <2>2, AwaitsAny
    <2>4. t = "SEMICOLON" => Leads(s, i, Steps(<<"MakePlain">>), f, y)
      BY <2>1, <2>2, LeadsOne
    <2>5. t # "SEMICOLON" => Leads(s, i, Steps(<<"Expression", "MakePlain">>), f, y)
      BY <2>1, <2>3, LeadsTwo
    <2> QED
      BY <2>4, <2>5
  <1> QED
    BY <1>1, <1>2 DEF OfStatement

LEMMA IfLeads ==
  ASSUME NEW s, NEW i \in Nat, NEW t, Ahead(s, i, t), NEW u, Ahead(s, i + 1, u),
         NEW f, NEW y, IsForm(y)
  PROVE  /\ OfStatement("IfStatement", f, y) =>
              Leads(s, i, Steps(<<"IF", "OPEN_PAREN", "Expression", "Keep", "CLOSE_PAREN",
                                  "Block", "IfRest">>), f, y)
         /\ OfStatement("IfRest", f, y) =>
              /\ t = "ELSE" /\ u = "IF" => Leads(s, i, Steps(<<"ELSE", "IfStatement">>), f, y)
              /\ t = "ELSE" /\ u # "IF" =>
                   Leads(s, i, Steps(<<"ELSE", "Block", "MakePlain">>), f, y)
              /\ t # "ELSE" => Leads(s, i, Steps(<<"MakePlain">>), f, y)
  <1>1. ASSUME f = Then("arms", y), AfterStatement(y)
        PROVE  Leads(s, i, Steps(<<"IF", "OPEN_PAREN", "Expression", "Keep", "CLOSE_PAREN",
                                   "Block", "IfRest">>), f, y)
    <2>1. Same(s, i, f,
               Then("IF", Then("OPEN_PAREN", Then("expression", Then("CLOSE_PAREN",
                 Then("block", Then("others", y)))))))
      BY <1>1, OnlyChoices
    <2>2. ASSUME NEW w, Awaits(w, Plain(y))
          PROVE  Awaits(Then(Undone("IF"), Then(Undone("OPEN_PAREN"), Then(Undone("Expression"),
                          Then(Undone("Keep"), Then(Undone("CLOSE_PAREN"), Then(Undone("Block"),
                          Then(Undone("IfRest"), w))))))),
                        Plain(Then("IF", Then("OPEN_PAREN", Then("expression",
                                Then("CLOSE_PAREN", Then("block", Then("others", y))))))))
      <3>1. Awaits(Then(Undone("IfRest"), w), Plain(Then("others", y)))
        BY <1>1, <2>2, AwaitsStating
      <3>2. Awaits(Then(Undone("Block"), Then(Undone("IfRest"), w)),
                   Plain(Then("block", Then("others", y))))
        BY <3>1, AwaitsStating
      <3>3. Awaits(Then(Undone("CLOSE_PAREN"), Then(Undone("Block"), Then(Undone("IfRest"), w))),
                   Plain(Then("CLOSE_PAREN", Then("block", Then("others", y)))))
        BY <3>2, AwaitsTokens
      <3>4. Awaits(Then(Undone("Keep"), Then(Undone("CLOSE_PAREN"), Then(Undone("Block"),
                     Then(Undone("IfRest"), w)))),
                   Plain(Then("CLOSE_PAREN", Then("block", Then("others", y)))))
        BY <3>3, AwaitsMade DEF Constructions
      <3>5. AfterExpression(Then("CLOSE_PAREN", Then("block", Then("others", y))))
        BY ThenFacts DEF AfterExpression, Opened
      <3>6. Awaits(Then(Undone("Expression"), Then(Undone("Keep"), Then(Undone("CLOSE_PAREN"),
                     Then(Undone("Block"), Then(Undone("IfRest"), w))))),
                   Plain(Then("expression", Then("CLOSE_PAREN", Then("block",
                           Then("others", y))))))
        BY <3>4, <3>5, AwaitsAny
      <3> QED
        BY <3>6, AwaitsTokens
    <2> QED
      BY <2>1, <2>2, LeadsSeven
  <1>2. ASSUME f = Then("others", y), AfterStatement(y)
        PROVE  /\ t = "ELSE" /\ u = "IF" => Leads(s, i, Steps(<<"ELSE", "IfStatement">>), f, y)
               /\ t = "ELSE" /\ u # "IF" =>
                    Leads(s, i, Steps(<<"ELSE", "Block", "MakePlain">>), f, y)
               /\ t # "ELSE" => Leads(s, i, Steps(<<"MakePlain">>), f, y)
    <2>1. /\ t = "ELSE" /\ u = "IF" => Same(s, i, f, Then("ELSE", Then("arms", y)))
          /\ t = "ELSE" /\ u # "IF" => Same(s, i, f, Then("ELSE", Then("block", y)))
          /\ t # "ELSE" => Same(s, i, f, y)
      BY <1>2, OthersChosen
    <2>2. \A w :
            Awaits(w, Plain(y)) =>
              Awaits(Then(Undone("ELSE"), Then(Undone("IfStatement"), w)),
                     Plain(Then("ELSE", Then("arms", y))))
      BY <1>2, AwaitsStating, AwaitsTokens
    <2>3. \A w : Awaits(w, Plain(y)) => Awaits(Then(Undone("MakePlain"), w), Plain(y))
      BY AwaitsMade DEF Constructions
    <2>4. \A w :
            Awaits(w, Plain(y)) =>
              Awaits(Then(Undone("ELSE"), Then(Undone("Block"), Then(Undone("MakePlain"), w))),
                     Plain(Then("ELSE", Then("block", y))))
      BY <2>3, AwaitsStating, AwaitsTokens
    <2>5. t = "ELSE" /\ u = "IF" => Leads(s, i, Steps(<<"ELSE", "IfStatement">>), f, y)
      BY <2>1, <2>2, LeadsTwo
    <2>6. t = "ELSE" /\ u # "IF" => Leads(s, i, Steps(<<"ELSE", "Block", "MakePlain">>), f, y)
      BY <2>1, <2>4, LeadsThree
    <2>7. t # "ELSE" => Leads(s, i, Steps(<<"MakePlain">>), f, y)
      BY <2>1, <2>3, LeadsOne
    <2> QED
      BY <2>5, <2>6, <2>7
  <1> QED
    BY <1>1, <1>2 DEF OfStatement

LEMMA LetLeads ==
  ASSUME NEW s, NEW i \in Nat, NEW t, Ahead(s, i, t), NEW f, NEW y, IsForm(y)
  PROVE  /\ OfStatement("LetStatement", f, y) =>
              Leads(s, i, Steps(<<"LET", "IDENT", "COLON", "TypeName", "LetValue">>), f, y)
         /\ OfStatement("LetValue", f, y) =>
              Leads(s, i, Steps(IF t = "EQ" THEN <<"EQ", "Expression", "Keep", "MakePlain">>
                                            ELSE <<"MakePlain">>), f, y)
  <1>1. ASSUME f = Then("LET", Then("IDENT", Then("COLON", Then("type", Then("value", y))))),
               AfterStatement(y)
        PROVE  Leads(s, i, Steps(<<"LET", "IDENT", "COLON", "TypeName", "LetValue">>), f, y)
    <2>1. ASSUME NEW w, Awaits(w, Plain(y))
          PROVE  Awaits(Then(Undone("LET"), Then(Undone("IDENT"), Then(Undone("COLON"),
                          Then(Undone("TypeName"), Then(Undone("LetValue"), w))))),
                        Plain(f))
      <3>1. Awaits(Then(Undone("LetValue"), w), Plain(Then("value", y)))
        BY <1>1, <2>1, AwaitsStating
      <3>2. AfterType(Then("value", y))
        BY <1>1 DEF AfterType
      <3>3. Awaits(Then(Undone("TypeName"), Then(Undone("LetValue"), w)),
                   Plain(Then("type", Then("value", y))))
        BY <3>1, <3>2, AwaitsDeclaring
      <3> QED
        BY <1>1, <3>3, AwaitsTokens
    <2> QED
      BY <2>1, SameIs, LeadsFive
  <1>2. ASSUME f = Then("value", y), AfterStatement(y)
        PROVE  /\ t = "EQ" =>
                    Leads(s, i, Steps(<<"EQ", "Expression", "Keep", "MakePlain">>), f, y)
               /\ t # "EQ" => Leads(s, i, Steps(<<"MakePlain">>), f, y)
    <2>1. /\ t = "EQ" => Same(s, i, f, Then("EQ", Then("expression", y)))
          /\ t # "EQ" => Same(s, i, f, y)
      BY <1>2, ValueChosen
    <2>2. \A w : Awaits(w, Plain(y)) =>
            /\ Awaits(Then(Undone("MakePlain"), w), Plain(y))
            /\ Awaits(Then(Undone("Keep"), Then(Undone("MakePlain"), w)), Plain(y))
      BY AwaitsMade DEF Constructions
    <2>3. AfterExpression(y)
      BY <1>2 DEF AfterExpression
    <2>4. \A w : Awaits(w, Plain(y)) =>
            Awaits(Then(Undone("EQ"), Then(Undone("Expression"), Then(Undone("Keep"),
                     Then(Undone("MakePlain"), w)))),
                   Plain(Then("EQ", Then("expression", y))))
      BY <2>2, <2>3, AwaitsAny, AwaitsTokens
    <2>5. t = "EQ" => Leads(s, i, Steps(<<"EQ", "Expression", "Keep", "MakePlain">>), f, y)
      BY <2>1, <2>4, LeadsFour
    <2>6. t # "EQ" => Leads(s, i, Steps(<<"MakePlain">>), f, y)
      BY <2>1, <2>2, LeadsOne
    <2> QED
      BY <2>5, <2>6
  <1> QED
    BY <1>1, <1>2 DEF OfStatement

LEMMA WhileLeads ==
  ASSUME NEW s, NEW i \in Nat, NEW f, NEW y, IsForm(y), NEW c, c.do = "MakeLoop"
  PROVE  /\ OfStatement("WhileStatement", f, y) =>
              Leads(s, i, Steps(<<"WHILE", "OPEN_PAREN", "Expression", "WhileCond">>), f, y)
         /\ OfStatement("WhileCond", f, y) =>
              Leads(s, i, Holding(<<"CLOSE_PAREN", "Block">>, c, <<>>), f, y)
  <1>1. ASSUME f =
                   Then("WHILE", Then("OPEN_PAREN", Then("expression", Then("CLOSE_PAREN",
                     Then("block", y)))))
        PROVE  Leads(s, i, Steps(<<"WHILE", "OPEN_PAREN", "Expression", "WhileCond">>), f, y)
    <2>1. ASSUME NEW w, Awaits(w, Plain(y))
          PROVE  Awaits(Then(Undone("WHILE"), Then(Undone("OPEN_PAREN"),
                          Then(Undone("Expression"), Then(Undone("WhileCond"), w)))),
                        Plain(f))
      <3>1. Awaits(Then(Undone("WhileCond"), w), Plain(Then("CLOSE_PAREN", Then("block", y))))
        BY <2>1, AwaitsStating
      <3>2. AfterExpression(Then("CLOSE_PAREN", Then("block", y)))
        BY ThenFacts DEF AfterExpression, Opened
      <3>3. Awaits(Then(Undone("Expression"), Then(Undone("WhileCond"), w)),
                   Plain(Then("expression", Then("CLOSE_PAREN", Then("block", y)))))
        BY <3>1, <3>2, AwaitsAny
      <3> QED
        BY <1>1, <3>3, AwaitsTokens
    <2> QED
      BY <2>1, SameIs, LeadsFour
  <1>2. ASSUME f = Then("CLOSE_PAREN", Then("block", y))
        PROVE  Leads(s, i, Holding(<<"CLOSE_PAREN", "Block">>, c, <<>>), f, y)
    <2>1. ASSUME NEW w, Awaits(w, Plain(y))
          PROVE  Awaits(Join(Holding(<<"CLOSE_PAREN", "Block">>, c, <<>>), w), Plain(f))
      <3>1. IsForm(w)
        BY <2>1, AwaitsIs
      <3>2. Awaits(Then(c, w), Plain(y))
        BY <2>1, AwaitsNode, PlainIs DEF Constructions
      <3>3. Awaits(Then(Undone("CLOSE_PAREN"), Then(Undone("Block"), Then(c, w))), Plain(f))
        BY <1>2, <3>2, AwaitsStating, AwaitsTokens
      <3> QED
        BY <3>1, <3>3, HoldingTwo
    <2> QED
      BY <2>1, SameIs, LeadsOn
  <1> QED
    BY <1>1, <1>2 DEF OfStatement

LEMMA ForLeads ==
  ASSUME NEW s, NEW i \in Nat, NEW f, NEW y, IsForm(y), NEW c, c.do = "MakeLoop"
  PROVE  /\ OfStatement("ForStatement", f, y) =>
              Leads(s, i, Steps(<<"FOR", "OPEN_PAREN", "Statement", "Keep", "SEMICOLON",
                                  "Expression", "ForCond">>), f, y)
         /\ OfStatement("ForCond", f, y) =>
              Leads(s, i, Holding(<<"SEMICOLON", "Expression", "Keep", "CLOSE_PAREN", "Block">>,
                                  c, <<>>), f, y)
  <1>1. ASSUME f =
                   Then("FOR", Then("OPEN_PAREN", Then("init", Then("expression",
                     Then("SEMICOLON", Then("expression", Then("CLOSE_PAREN",
                     Then("block", y))))))))
        PROVE  Leads(s, i, Steps(<<"FOR", "OPEN_PAREN", "Statement", "Keep", "SEMICOLON",
                                   "Expression", "ForCond">>), f, y)
    <2>1. ASSUME NEW w, Awaits(w, Plain(y))
          PROVE  Awaits(Then(Undone("FOR"), Then(Undone("OPEN_PAREN"), Then(Undone("Statement"),
                          Then(Undone("Keep"), Then(Undone("SEMICOLON"),
                          Then(Undone("Expression"), Then(Undone("ForCond"), w))))))),
                        Plain(f))
      <3>1. Awaits(Then(Undone("ForCond"), w),
                   Plain(Then("SEMICOLON", Then("expression", Then("CLOSE_PAREN",
                           Then("block", y))))))
        BY <2>1, AwaitsStating
      <3>2. AfterExpression(Then("SEMICOLON", Then("expression", Then("CLOSE_PAREN",
                              Then("block", y)))))
        BY ThenFacts DEF AfterExpression, AfterStatement, Opened
      <3>3. Awaits(Then(Undone("Expression"), Then(Undone("ForCond"), w)),
                   Plain(Then("expression", Then("SEMICOLON", Then("expression",
                           Then("CLOSE_PAREN", Then("block", y)))))))
        BY <3>1, <3>2, AwaitsAny
      <3>4. PICK z : z =
                         Then("expression", Then("SEMICOLON", Then("expression",
                           Then("CLOSE_PAREN", Then("block", y)))))
        OBVIOUS
      <3>5. /\ IsForm(z)
            /\ Awaits(Then(Undone("SEMICOLON"), Then(Undone("Expression"),
                        Then(Undone("ForCond"), w))),
                      Plain(Then("SEMICOLON", z)))
        BY <3>3, <3>4, AwaitsIs, AwaitsTokens
      <3>6. Awaits(Then(Undone("Keep"), Then(Undone("SEMICOLON"), Then(Undone("Expression"),
                     Then(Undone("ForCond"), w)))),
                   Plain(Then("SEMICOLON", z)))
        BY <3>5, AwaitsMade DEF Constructions
      <3>7. /\ Closing(Then("init", z), "statement", "init", Then("SEMICOLON", z))
            /\ IsForm(Then("init", z))
        BY <3>5, ThenFacts DEF Closing
      <3>8. Awaits(Then(Undone("Statement"), Then(Undone("Keep"), Then(Undone("SEMICOLON"),
                     Then(Undone("Expression"), Then(Undone("ForCond"), w))))),
                   Plain(Then("init", z)))
        BY <3>6, <3>7, AwaitsClosing
      <3> QED
        BY <1>1, <3>4, <3>8, AwaitsTokens
    <2> QED
      BY <2>1, SameIs, LeadsSeven
  <1>2. ASSUME f = Then("SEMICOLON", Then("expression", Then("CLOSE_PAREN", Then("block", y))))
        PROVE  Leads(s, i, Holding(<<"SEMICOLON", "Expression", "Keep", "CLOSE_PAREN", "Block">>,
                                   c, <<>>), f, y)
    <2>1. ASSUME NEW w, Awaits(w, Plain(y))
          PROVE  Awaits(Join(Holding(<<"SEMICOLON", "Expression", "Keep", "CLOSE_PAREN", "Block">>,
                                     c, <<>>), w), Plain(f))
      <3>1. IsForm(w)
        BY <2>1, AwaitsIs
      <3>2. Awaits(Then(c, w), Plain(y))
        BY <2>1, AwaitsNode, PlainIs DEF Constructions
      <3>3. Awaits(Then(Undone("CLOSE_PAREN"), Then(Undone("Block"), Then(c, w))),
                   Plain(Then("CLOSE_PAREN", Then("block", y))))
        BY <3>2, AwaitsStating, AwaitsTokens
      <3>4. Awaits(Then(Undone("Keep"), Then(Undone("CLOSE_PAREN"), Then(Undone("Block"),
                     Then(c, w)))),
                   Plain(Then("CLOSE_PAREN", Then("block", y))))
        BY <3>3, AwaitsMade DEF Constructions
      <3>5. AfterExpression(Then("CLOSE_PAREN", Then("block", y)))
        BY ThenFacts DEF AfterExpression, Opened
      <3>6. Awaits(Then(Undone("Expression"), Then(Undone("Keep"), Then(Undone("CLOSE_PAREN"),
                     Then(Undone("Block"), Then(c, w))))),
                   Plain(Then("expression", Then("CLOSE_PAREN", Then("block", y)))))
        BY <3>4, <3>5, AwaitsAny
      <3>7. Awaits(Then(Undone("SEMICOLON"), Then(Undone("Expression"), Then(Undone("Keep"),
                     Then(Undone("CLOSE_PAREN"), Then(Undone("Block"), Then(c, w)))))),
                   Plain(f))
        BY <1>2, <3>6, AwaitsTokens
      <3> QED
        BY <3>1, <3>7, HoldingFive
    <2> QED
      BY <2>1, SameIs, LeadsOn
  <1> QED
    BY <1>1, <1>2 DEF OfStatement

LEMMA VariableLeads ==
  ASSUME NEW s, NEW i \in Nat, NEW f, NEW y, IsForm(y), OfPrimary("Variable", f, y)
  PROVE  Leads(s, i, Steps(<<"IDENT", "MakeVariable">>), f, y)
  <1>1. f = Then("IDENT", y)
    BY DEF OfPrimary
  <1>2. \A w : Awaits(w, Plain(y)) => Awaits(Then(Undone("MakeVariable"), w), Plain(y))
    BY AwaitsMade DEF Constructions
  <1>3. \A w :
          Awaits(w, Plain(y)) =>
            Awaits(Then(Undone("IDENT"), Then(Undone("MakeVariable"), w)), Plain(f))
    BY <1>1, <1>2, AwaitsTokens
  <1> QED
    BY <1>3, SameIs, LeadsTwo

LEMMA CallLeads ==
  ASSUME NEW s, NEW i \in Nat, NEW t, Ahead(s, i, t), NEW f, NEW y, IsForm(y)
  PROVE  /\ OfPrimary("FunctionCall", f, y) =>
              Leads(s, i,
                    Steps(<<"IDENT", "OPEN_PAREN", "Arguments", "CLOSE_PAREN", "MakePlain">>),
                    f, y)
         /\ OfPrimary("Arguments", f, y) =>
              Leads(s, i, Steps(IF t = "CLOSE_PAREN" THEN <<>>
                                ELSE <<"Expression", "Keep", "MoreArguments">>), f, y)
         /\ OfPrimary("MoreArguments", f, y) =>
              Leads(s, i, Steps(IF t = "CLOSE_PAREN" THEN <<>> ELSE <<"COMMA", "Arguments">>),
                    f, y)
  <1>1. ASSUME f = Then("IDENT", Then("OPEN_PAREN", Then("arguments", Then("CLOSE_PAREN", y))))
        PROVE  Leads(s, i,
                     Steps(<<"IDENT", "OPEN_PAREN", "Arguments", "CLOSE_PAREN", "MakePlain">>),
                     f, y)
    <2>1. ASSUME NEW w, Awaits(w, Plain(y))
          PROVE  Awaits(Then(Undone("IDENT"), Then(Undone("OPEN_PAREN"),
                          Then(Undone("Arguments"), Then(Undone("CLOSE_PAREN"),
                          Then(Undone("MakePlain"), w))))),
                        Plain(f))
      <3>1. Awaits(Then(Undone("MakePlain"), w), Plain(y))
        BY <2>1, AwaitsMade DEF Constructions
      <3>2. Awaits(Then(Undone("CLOSE_PAREN"), Then(Undone("MakePlain"), w)),
                   Plain(Then("CLOSE_PAREN", y)))
        BY <3>1, AwaitsTokens
      <3>3. Awaits(Then(Undone("Arguments"), Then(Undone("CLOSE_PAREN"),
                     Then(Undone("MakePlain"), w))),
                   Plain(Then("arguments", Then("CLOSE_PAREN", y))))
        BY <3>2, AwaitsNaming DEF Opened
      <3> QED
        BY <1>1, <3>3, AwaitsTokens
    <2> QED
      BY <2>1, SameIs, LeadsFive
  <1>2. ASSUME Opened(y, "CLOSE_PAREN")
        PROVE  /\ t = "CLOSE_PAREN" => /\ Leads(s, i, Steps(<<>>), Then("arguments", y), y)
                                       /\ Leads(s, i, Steps(<<>>), Then("further", y), y)
               /\ t # "CLOSE_PAREN" =>
                    /\ Leads(s, i, Steps(<<"Expression", "Keep", "MoreArguments">>),
                             Then("arguments", y), y)
                    /\ Leads(s, i, Steps(<<"COMMA", "Arguments">>), Then("further", y), y)
    <2>1. t = "CLOSE_PAREN" =>
            Same(s, i, Then("arguments", y), y) /\ Same(s, i, Then("further", y), y)
      BY <1>2, ListsChosen
    <2>2. t # "CLOSE_PAREN" => /\ Same(s, i, Then("arguments", y),
                                       Then("expression", Then("further", y)))
                               /\ Same(s, i, Then("further", y),
                                       Then("COMMA", Then("arguments", y)))
      BY <1>2, ListsChosen
    <2>3. AfterExpression(Then("further", y))
      BY <1>2 DEF AfterExpression, Opened
    <2>4. ASSUME NEW w, Awaits(w, Plain(y))
          PROVE  /\ Awaits(Then(Undone("Expression"), Then(Undone("Keep"),
                             Then(Undone("MoreArguments"), w))),
                           Plain(Then("expression", Then("further", y))))
                 /\ Awaits(Then(Undone("COMMA"), Then(Undone("Arguments"), w)),
                           Plain(Then("COMMA", Then("arguments", y))))
      <3>1. /\ Awaits(Then(Undone("MoreArguments"), w), Plain(Then("further", y)))
            /\ Awaits(Then(Undone("Arguments"), w), Plain(Then("arguments", y)))
        BY <1>2, <2>4, AwaitsNaming
      <3>2. Awaits(Then(Undone("Keep"), Then(Undone("MoreArguments"), w)),
                   Plain(Then("further", y)))
        BY <3>1, AwaitsMade DEF Constructions
      <3> QED
        BY <2>3, <3>1, <3>2, AwaitsAny, AwaitsTokens
    <2>5. t = "CLOSE_PAREN" => /\ Leads(s, i, Steps(<<>>), Then("arguments", y), y)
                               /\ Leads(s, i, Steps(<<>>), Then("further", y), y)
      BY <2>1, LeadsNowhere
    <2>6. t # "CLOSE_PAREN" =>
            Leads(s, i, Steps(<<"Expression", "Keep", "MoreArguments">>), Then("arguments", y),
                  y)
      BY <2>2, <2>4, LeadsThree
    <2>7. t # "CLOSE_PAREN" =>
            Leads(s, i, Steps(<<"COMMA", "Arguments">>), Then("further", y), y)
      BY <2>2, <2>4, LeadsTwo
    <2> QED
      BY <2>5, <2>6, <2>7
  <1> QED
    BY <1>1, <1>2 DEF OfPrimary

LEMMA AccessLeads ==
  ASSUME NEW s, NEW i \in Nat, NEW f, NEW y, IsForm(y), OfPrimary("ArrayAccess", f, y)
  PROVE  Leads(s, i, Steps(<<"Variable", "OPEN_SQUARE", "Expression", "CLOSE_SQUARE",
                             "MakeArrayAccess">>), f, y)
  <1>1. f = Then("IDENT", Then("OPEN_SQUARE", Then("expression", Then("CLOSE_SQUARE", y))))
    BY DEF OfPrimary
  <1>2. ASSUME NEW w, Awaits(w, Plain(y))
        PROVE  Awaits(Then(Undone("Variable"), Then(Undone("OPEN_SQUARE"),
                        Then(Undone("Expression"), Then(Undone("CLOSE_SQUARE"),
                        Then(Undone("MakeArrayAccess"), w))))),
                      Plain(f))
    <2>1. Awaits(Then(Undone("MakeArrayAccess"), w), Plain(y))
      BY <1>2, AwaitsMade DEF Constructions
    <2>2. Awaits(Then(Undone("CLOSE_SQUARE"), Then(Undone("MakeArrayAccess"), w)),
                 Plain(Then("CLOSE_SQUARE", y)))
      BY <2>1, AwaitsTokens
    <2>3. AfterExpression(Then("CLOSE_SQUARE", y))
      BY DEF AfterExpression, Opened
    <2>4. Awaits(Then(Undone("Expression"), Then(Undone("CLOSE_SQUARE"),
                   Then(Undone("MakeArrayAccess"), w))),
                 Plain(Then("expression", Then("CLOSE_SQUARE", y))))
      BY <2>2, <2>3, AwaitsAny
    <2>5. Awaits(Then(Undone("OPEN_SQUARE"), Then(Undone("Expression"),
                   Then(Undone("CLOSE_SQUARE"), Then(Undone("MakeArrayAccess"), w)))),
                 Plain(Then("OPEN_SQUARE", Then("expression", Then("CLOSE_SQUARE", y)))))
      BY <2>4, AwaitsTokens
    <2> QED
      BY <1>1, <2>5, AwaitsNaming
  <1> QED
    BY <1>2, SameIs, LeadsFive

LEMMA InitsLead ==
  ASSUME NEW s, NEW i \in Nat, NEW t, Ahead(s, i, t), NEW f, NEW y, IsForm(y)
  PROVE  /\ OfPrimary("StructInit", f, y) =>
              Leads(s, i, Steps(<<"IDENT", "OPEN_BRACE", "Inits", "CLOSE_BRACE", "MakePlain">>),
                    f, y)
         /\ OfPrimary("Inits", f, y) =>
              Leads(s, i, Steps(IF t = "CLOSE_BRACE" THEN <<>>
                                ELSE <<"IDENT", "COLON", "Expression", "COMMA", "Keep", "Inits">>), f, y)
  <1>1. ASSUME f = Then("IDENT", Then("OPEN_BRACE", Then("inits", Then("CLOSE_BRACE", y))))
        PROVE  Leads(s, i,
                     Steps(<<"IDENT", "OPEN_BRACE", "Inits", "CLOSE_BRACE", "MakePlain">>), f, y)
    <2>1. ASSUME NEW w, Awaits(w, Plain(y))
          PROVE  Awaits(Then(Undone("IDENT"), Then(Undone("OPEN_BRACE"), Then(Undone("Inits"),
                          Then(Undone("CLOSE_BRACE"), Then(Undone("MakePlain"), w))))),
                        Plain(f))
      <3>1. Awaits(Then(Undone("MakePlain"), w), Plain(y))
        BY <2>1, AwaitsMade DEF Constructions
      <3>2. Awaits(Then(Undone("CLOSE_BRACE"), Then(Undone("MakePlain"), w)),
                   Plain(Then("CLOSE_BRACE", y)))
        BY <3>1, AwaitsTokens
      <3>3. Awaits(Then(Undone("Inits"), Then(Undone("CLOSE_BRACE"),
                     Then(Undone("MakePlain"), w))),
                   Plain(Then("inits", Then("CLOSE_BRACE", y))))
        BY <3>2, AwaitsNaming DEF Opened
      <3> QED
        BY <1>1, <3>3, AwaitsTokens
    <2> QED
      BY <2>1, SameIs, LeadsFive
  <1>2. ASSUME f = Then("inits", y), Opened(y, "CLOSE_BRACE")
        PROVE  /\ t = "CLOSE_BRACE" => Leads(s, i, Steps(<<>>), f, y)
               /\ t # "CLOSE_BRACE" =>
                    Leads(s, i,
                          Steps(<<"IDENT", "COLON", "Expression", "COMMA", "Keep", "Inits">>),
                          f, y)
    <2>1. /\ t = "CLOSE_BRACE" => Same(s, i, f, y)
          /\ t # "CLOSE_BRACE" =>
               Same(s, i, f,
                    Then("IDENT", Then("COLON", Then("expression", Then("COMMA",
                      Then("inits", y))))))
      BY <1>2, ListsChosen
    <2>2. ASSUME NEW w, Awaits(w, Plain(y))
          PROVE  Awaits(Then(Undone("IDENT"), Then(Undone("COLON"), Then(Undone("Expression"),
                          Then(Undone("COMMA"), Then(Undone("Keep"),
                          Then(Undone("Inits"), w)))))),
                        Plain(Then("IDENT", Then("COLON", Then("expression", Then("COMMA",
                                Then("inits", y)))))))
      <3>1. /\ Awaits(Then(Undone("Inits"), w), Plain(Then("inits", y)))
            /\ IsForm(Then("inits", y))
        BY <1>2, <2>2, AwaitsNaming, ThenFacts
      <3>2. Awaits(Then(Undone("Keep"), Then(Undone("Inits"), w)), Plain(Then("inits", y)))
        BY <3>1, AwaitsMade DEF Constructions
      <3>3. Awaits(Then(Undone("COMMA"), Then(Undone("Keep"), Then(Undone("Inits"), w))),
                   Plain(Then("COMMA", Then("inits", y))))
        BY <3>2, AwaitsTokens
      <3>4. AfterExpression(Then("COMMA", Then("inits", y)))
        BY <3>1 DEF AfterExpression, Opened
      <3>5. Awaits(Then(Undone("Expression"), Then(Undone("COMMA"), Then(Undone("Keep"),
                     Then(Undone("Inits"), w)))),
                   Plain(Then("expression", Then("COMMA", Then("inits", y)))))
        BY <3>3, <3>4, AwaitsAny
      <3> QED
        BY <3>5, AwaitsTokens
    <2>3. t = "CLOSE_BRACE" => Leads(s, i, Steps(<<>>), f, y)
      BY <2>1, LeadsNowhere
    <2>4. t # "CLOSE_BRACE" =>
            Leads(s, i, Steps(<<"IDENT", "COLON", "Expression", "COMMA", "Keep", "Inits">>), f,
                  y)
      BY <2>1, <2>2, LeadsSix
    <2> QED
      BY <2>3, <2>4
  <1> QED
    BY <1>1, <1>2 DEF OfPrimary

LEMMA UnaryLeads ==
  ASSUME NEW s, NEW i \in Nat, NEW t, Ahead(s, i, t), NEW f, NEW y, IsForm(y)
  PROVE  /\ OfPrimary("Unary", f, y) =>
              Leads(s, i, Steps(IF t \in UnaryOps THEN <<t, "Unary", "MakeAround">>
                                                  ELSE <<"DotOp">>), f, y)
         /\ OfPrimary("DotOp", f, y) => Leads(s, i, Steps(<<"Primary", "MoreDot">>), f, y)
         /\ OfPrimary("MoreDot", f, y) =>
              Leads(s, i, Steps(IF t \in {"DOT", "SUB_GT"}
                                THEN <<t, "IDENT", "MakeAround", "MoreDot">> ELSE <<>>), f, y)
  <1>1. ASSUME AfterOperand(y)
        PROVE  /\ t \in UnaryOps =>
                    Leads(s, i, Steps(<<t, "Unary", "MakeAround">>), Then("operand", y), y)
               /\ t \notin UnaryOps => Leads(s, i, Steps(<<"DotOp">>), Then("operand", y), y)
               /\ Leads(s, i, Steps(<<"Primary", "MoreDot">>),
                        Then("primary", Then("members", y)), y)
               /\ t \in {"DOT", "SUB_GT"} =>
                    Leads(s, i, Steps(<<t, "IDENT", "MakeAround", "MoreDot">>),
                          Then("members", y), y)
               /\ t \notin {"DOT", "SUB_GT"} => Leads(s, i, Steps(<<>>), Then("members", y), y)
    <2>1. /\ t \in UnaryOps => Same(s, i, Then("operand", y), Then(t, Then("operand", y)))
          /\ t \notin UnaryOps =>
               Same(s, i, Then("operand", y), Then("primary", Then("members", y)))
      BY OperandChosen
    <2>2. /\ t \in {"DOT", "SUB_GT"} =>
               Same(s, i, Then("members", y), Then(t, Then("IDENT", Then("members", y))))
          /\ t \notin {"DOT", "SUB_GT"} => Same(s, i, Then("members", y), y)
      BY <1>1, MembersChosen
    <2>3. AfterPrimary(Then("members", y))
      BY <1>1 DEF AfterPrimary
    <2>4. ASSUME NEW w, Awaits(w, Plain(y))
          PROVE  /\ Awaits(Then(Undone("DotOp"), w), Plain(Then("primary", Then("members", y))))
                 /\ Awaits(Then(Undone("Primary"), Then(Undone("MoreDot"), w)),
                           Plain(Then("primary", Then("members", y))))
                 /\ Awaits(Then(Undone("MoreDot"), w), Plain(Then("members", y)))
                 /\ Awaits(Then(Undone("MakeAround"), w), Plain(y))
                 /\ Awaits(Then(Undone("Unary"), Then(Undone("MakeAround"), w)),
                           Plain(Then("operand", y)))
                 /\ Awaits(Then(Undone("MakeAround"), Then(Undone("MoreDot"), w)),
                           Plain(Then("members", y)))
                 /\ Awaits(Then(Undone("IDENT"), Then(Undone("MakeAround"),
                             Then(Undone("MoreDot"), w))),
                           Plain(Then("IDENT", Then("members", y))))
      <3>1. /\ Awaits(Then(Undone("DotOp"), w), Plain(Then("primary", Then("members", y))))
            /\ Awaits(Then(Undone("MoreDot"), w), Plain(Then("members", y)))
        BY <1>1, <2>4, AwaitsNaming
      <3>2. /\ Awaits(Then(Undone("MakeAround"), w), Plain(y))
            /\ Awaits(Then(Undone("MakeAround"), Then(Undone("MoreDot"), w)),
                      Plain(Then("members", y)))
        BY <2>4, <3>1, AwaitsMade DEF Constructions
      <3> QED
        BY <1>1, <2>3, <3>1, <3>2, AwaitsNaming, AwaitsTokens
    <2>5. t \in UnaryOps \cup {"DOT", "SUB_GT"} => t \in Symbols
      BY TheSymbols
    <2>6. t \in UnaryOps => \A w : Awaits(w, Plain(y)) =>
            Awaits(Then(Undone(t), Then(Undone("Unary"), Then(Undone("MakeAround"), w))),
                   Plain(Then(t, Then("operand", y))))
      BY <2>4, <2>5, AwaitsToken
    <2>7. t \in {"DOT", "SUB_GT"} => \A w : Awaits(w, Plain(y)) =>
            Awaits(Then(Undone(t), Then(Undone("IDENT"), Then(Undone("MakeAround"),
                     Then(Undone("MoreDot"), w)))),
                   Plain(Then(t, Then("IDENT", Then("members", y)))))
      BY <2>4, <2>5, AwaitsToken
    <2>8. t \in UnaryOps =>
            Leads(s, i, Steps(<<t, "Unary", "MakeAround">>), Then("operand", y), y)
      BY <2>1, <2>6, LeadsThree
    <2>9. t \notin UnaryOps => Leads(s, i, Steps(<<"DotOp">>), Then("operand", y), y)
      BY <2>1, <2>4, LeadsOne
    <2>10. Leads(s, i, Steps(<<"Primary", "MoreDot">>), Then("primary", Then("members", y)), y)
      BY <2>4, SameIs, LeadsTwo
    <2>11. t \in {"DOT", "SUB_GT"} =>
             Leads(s, i, Steps(<<t, "IDENT", "MakeAround", "MoreDot">>), Then("members", y), y)
      BY <2>2, <2>7, LeadsFour
    <2>12. t \notin {"DOT", "SUB_GT"} => Leads(s, i, Steps(<<>>), Then("members", y), y)
      BY <2>2, LeadsNowhere
    <2> QED
      BY <2>8, <2>9, <2>10, <2>11, <2>12
  <1> QED
    BY <1>1 DEF OfPrimary

LEMMA PrimaryLeads ==
  ASSUME NEW s, NEW i \in Nat, NEW t, Ahead(s, i, t), NEW u, Ahead(s, i + 1, u), NEW f, NEW y,
         IsForm(y),
         OfPrimary("Primary", f, y)
  PROVE  /\ t = "IDENT" =>
              /\ u = "OPEN_PAREN" => Leads(s, i, Steps(<<"FunctionCall">>), f, y)
              /\ u = "OPEN_SQUARE" => Leads(s, i, Steps(<<"ArrayAccess">>), f, y)
              /\ u = "OPEN_BRACE" => Leads(s, i, Steps(<<"StructInit">>), f, y)
              /\ u \notin {"OPEN_PAREN", "OPEN_SQUARE", "OPEN_BRACE"} =>
                   Leads(s, i, Steps(<<"Variable">>), f, y)
         /\ t = "OPEN_PAREN" =>
              Leads(s, i, Steps(<<"OPEN_PAREN", "Expression", "CLOSE_PAREN">>), f, y)
         /\ t \in Literals => Leads(s, i, Steps(<<t, "MakePlain">>), f, y)
         /\ t \notin Primaries => Stuck(s, i, f)
  <1>1. f = Then("primary", y) /\ AfterPrimary(y)
    BY DEF OfPrimary
  <1>2. ASSUME NEW w, Awaits(w, Plain(y))
        PROVE  /\ Awaits(Then(Undone("FunctionCall"), w),
                         Plain(Then("IDENT", Then("OPEN_PAREN", Then("arguments",
                                 Then("CLOSE_PAREN", y))))))
               /\ Awaits(Then(Undone("ArrayAccess"), w),
                         Plain(Then("IDENT", Then("OPEN_SQUARE", Then("expression",
                                 Then("CLOSE_SQUARE", y))))))
               /\ Awaits(Then(Undone("StructInit"), w),
                         Plain(Then("IDENT", Then("OPEN_BRACE", Then("inits",
                                 Then("CLOSE_BRACE", y))))))
               /\ Awaits(Then(Undone("Variable"), w), Plain(Then("IDENT", y)))
    BY <1>2, AwaitsNaming
  <1>3. ASSUME t = "IDENT", u = "OPEN_PAREN" PROVE Leads(s, i, Steps(<<"FunctionCall">>), f, y)
    <2>1. Same(s, i, f,
               Then("IDENT", Then("OPEN_PAREN", Then("arguments", Then("CLOSE_PAREN", y)))))
      BY <1>1, <1>3, NameChosen
    <2> QED
      BY <1>2, <2>1, LeadsOne
  <1>4. ASSUME t = "IDENT", u = "OPEN_SQUARE" PROVE Leads(s, i, Steps(<<"ArrayAccess">>), f, y)
    <2>1. Same(s, i, f,
               Then("IDENT", Then("OPEN_SQUARE", Then("expression", Then("CLOSE_SQUARE", y)))))
      BY <1>1, <1>4, NameChosen
    <2> QED
      BY <1>2, <2>1, LeadsOne
  <1>5. ASSUME t = "IDENT", u = "OPEN_BRACE" PROVE Leads(s, i, Steps(<<"StructInit">>), f, y)
    <2>1. Same(s, i, f, Then("IDENT", Then("OPEN_BRACE", Then("inits", Then("CLOSE_BRACE", y)))))
      BY <1>1, <1>5, NameChosen
    <2> QED
      BY <1>2, <2>1, LeadsOne
  <1>6. ASSUME t = "IDENT", u \notin {"OPEN_PAREN", "OPEN_SQUARE", "OPEN_BRACE"}
        PROVE  Leads(s, i, Steps(<<"Variable">>), f, y)
    <2>1. Same(s, i, f, Then("IDENT", y))
      BY <1>1, <1>6, NameChosen
    <2> QED
      BY <1>2, <2>1, LeadsOne
  <1>7. ASSUME t = "OPEN_PAREN"
        PROVE  Leads(s, i, Steps(<<"OPEN_PAREN", "Expression", "CLOSE_PAREN">>), f, y)
    <2>1. Same(s, i, f, Then("OPEN_PAREN", Then("expression", Then("CLOSE_PAREN", y))))
      BY <1>1, <1>7, PrimaryChosen
    <2>2. AfterExpression(Then("CLOSE_PAREN", y))
      BY DEF AfterExpression, Opened
    <2>3. ASSUME NEW w, Awaits(w, Plain(y))
          PROVE  Awaits(Then(Undone("OPEN_PAREN"), Then(Undone("Expression"),
                          Then(Undone("CLOSE_PAREN"), w))),
                        Plain(Then("OPEN_PAREN", Then("expression", Then("CLOSE_PAREN", y)))))
      <3>1. Awaits(Then(Undone("CLOSE_PAREN"), w), Plain(Then("CLOSE_PAREN", y)))
        BY <2>3, AwaitsTokens
      <3>2. Awaits(Then(Undone("Expression"), Then(Undone("CLOSE_PAREN"), w)),
                   Plain(Then("expression", Then("CLOSE_PAREN", y))))
        BY <2>2, <3>1, AwaitsAny
      <3> QED
        BY <3>2, AwaitsTokens
    <2> QED
      BY <2>1, <2>3, LeadsThree
  <1>8. ASSUME t \in Literals PROVE Leads(s, i, Steps(<<t, "MakePlain">>), f, y)
    <2>1. Same(s, i, f, Then(t, y)) /\ t \in Symbols
      BY <1>1, <1>8, PrimaryChosen, TheSymbols
    <2>2. \A w : Awaits(w, Plain(y)) => Awaits(Then(Undone("MakePlain"), w), Plain(y))
      BY AwaitsMade DEF Constructions
    <2>3. \A w :
            Awaits(w, Plain(y)) =>
              Awaits(Then(Undone(t), Then(Undone("MakePlain"), w)), Plain(Then(t, y)))
      BY <2>1, <2>2, AwaitsToken
    <2> QED
      BY <2>1, <2>3, LeadsTwo
  <1>9. t \notin Primaries => Stuck(s, i, f)
    BY <1>1, PrimaryChosen
  <1> QED
    BY <1>3, <1>4, <1>5, <1>6, <1>7, <1>8, <1>9

----------------------------------------------------------------------------
(***************************************************************************)
(* The levels of the binary operators, where the prospects have bars.      *)
(***************************************************************************)
\* The same of steps among operations, before the token t: the levels that t
\* belongs to are not over.
Continues(s, i, t, v, a, b) ==
  \A w : Awaits(w, b) =>
    \E c : Awaits(Join(v, w), c) /\ Same(s, i, a.form, c.form) /\ t \notin c.bar /\ c # Last

LEMMA LeadsContinues ==
  ASSUME NEW s, NEW i, NEW v, NEW f, NEW y, Leads(s, i, v, f, y), NEW t
  PROVE  Continues(s, i, t, v, Plain(f), Plain(y))
  <1> SUFFICES ASSUME NEW w, Awaits(w, Plain(y))
               PROVE  \E c : /\ Awaits(Join(v, w), c) /\ Same(s, i, Plain(f).form, c.form)
                             /\ t \notin c.bar /\ c # Last
    BY DEF Continues
  <1>1. PICK g : Awaits(Join(v, w), Plain(g)) /\ Same(s, i, f, g)
    BY DEF Leads
  <1> QED
    BY <1>1, PlainIs

LEMMA NotLast ==
  ASSUME NEW y, NEW bar, "END" \notin bar
  PROVE  Prospect(y, bar) # Last
  BY DEF Prospect, Last

LEMMA NoEnd == "END" \notin Operators /\ Comparisons \subseteq Operators
  BY DEF Operators, Comparisons, MulDivOps, AddSubOps, ComparisonOps

LEMMA ContinuesOn ==
  ASSUME NEW s, NEW i, NEW t, NEW a, NEW y, NEW lower, t \notin lower, "END" \notin lower,
         Same(s, i, a.form, y)
  PROVE  Continues(s, i, t, Steps(<<>>), a, Prospect(y, lower))
  <1> SUFFICES ASSUME NEW w, Awaits(w, Prospect(y, lower))
               PROVE  \E c : /\ Awaits(Join(Steps(<<>>), w), c) /\ Same(s, i, a.form, c.form)
                             /\ t \notin c.bar /\ c # Last
    BY DEF Continues
  <1>1. Join(Steps(<<>>), w) = w
    BY StepsNone DEF Awaits
  <1> QED
    BY <1>1, ProspectIs, NotLast

LEMMA LevelContinues ==
  ASSUME NEW s, NEW i \in Nat, NEW t, Ahead(s, i, t), NEW lower, t \notin lower,
         NEW operators, lower \cup operators \subseteq Operators,
         NEW y, AfterOperand(y), NEW loop, NEW operand, NEW c, c.do = "MakeBinary",
         \A w : Awaits(w, Prospect(y, lower \cup operators)) =>
                  Awaits(Then(Undone(loop), w), Prospect(y, lower)),
         \A w :
           Awaits(w, Prospect(y, lower)) =>
             Awaits(Then(Undone(operand), w), Plain(Then("operand", y)))
  PROVE  /\ t \in operators => Continues(s, i, t, Holding(<<t, operand>>, c, <<loop>>),
                                         Prospect(y, lower), Prospect(y, lower \cup operators))
         /\ t \notin operators => Continues(s, i, t, Steps(<<>>),
                                            Prospect(y, lower),
                                            Prospect(y, lower \cup operators))
  <1>1. "END" \notin lower /\ "END" \notin lower \cup operators
    BY NoEnd
  <1>2. t \notin operators => Continues(s, i, t, Steps(<<>>),
                                        Prospect(y, lower), Prospect(y, lower \cup operators))
    BY <1>1, SameIs, ProspectIs, ContinuesOn
  <1>3. ASSUME t \in operators, NEW w, Awaits(w, Prospect(y, lower \cup operators))
        PROVE  \E d : /\ Awaits(Join(Holding(<<t, operand>>, c, <<loop>>), w), d)
                      /\ Same(s, i, Prospect(y, lower).form, d.form)
                      /\ t \notin d.bar /\ d # Last
    <2>1. t \in Operators /\ t \in Symbols
      BY <1>3, TheSymbols
    <2>2. Awaits(Then(c, Then(Undone(loop), w)), Prospect(y, lower))
      BY <1>1, <1>3, NotLast, AwaitsNode DEF Constructions
    <2>3. Awaits(Then(Undone(operand), Then(c, Then(Undone(loop), w))),
                 Plain(Then("operand", y)))
      BY <2>2
    <2>4. Awaits(Then(Undone(t), Then(Undone(operand), Then(c, Then(Undone(loop), w)))),
                 Plain(Then(t, Then("operand", y))))
      BY <2>1, <2>3, AwaitsToken
    <2>5. Same(s, i, y, Then(t, Then("operand", y)))
      <3>1. PICK z : AfterExpression(z) /\ y = Then("operations", z)
        BY DEF AfterOperand
      <3> QED
        BY <2>1, <3>1, OperationsChosen
    <2>6. Join(Holding(<<t, operand>>, c, <<loop>>), w) =
              Then(Undone(t), Then(Undone(operand), Then(c, Then(Undone(loop), w))))
      <3>1. IsForm(w)
        BY <1>3 DEF Awaits
      <3> QED
        BY <3>1, HoldingLoop
    <2>7. PICK u : u = Holding(<<t, operand>>, c, <<loop>>)
      OBVIOUS
    <2>8. Awaits(Join(u, w), Plain(Then(t, Then("operand", y))))
      BY <2>4, <2>6, <2>7
    <2>9. \E d : Awaits(Join(u, w), d) /\ Same(s, i, y, d.form) /\ t \notin d.bar /\ d # Last
      BY <2>5, <2>8, PlainIs
    <2> QED
      BY <2>7, <2>9, ProspectIs
  <1> QED
    BY <1>2, <1>3 DEF Continues

LEMMA EmptyBar == ASSUME NEW y PROVE Prospect(y, {}) = Plain(y)
  BY DEF Plain

LEMMA AwaitsLevels ==
  ASSUME NEW w, NEW y, AfterOperand(y)
  PROVE  /\ Awaits(w, Prospect(y, Factors)) =>
              /\ Awaits(Then(Undone("MoreMulDiv"), w), Plain(y))
              /\ Awaits(Then(Undone("MulDiv"), w), Plain(Then("operand", y)))
         /\ Awaits(w, Prospect(y, Terms)) =>
              /\ Awaits(Then(Undone("MoreAddSub"), w), Prospect(y, Factors))
              /\ Awaits(Then(Undone("AddSub"), w), Plain(Then("operand", y)))
         /\ Awaits(w, Prospect(y, Comparisons)) =>
              /\ Awaits(Then(Undone("MoreComparison"), w), Prospect(y, Terms))
              /\ Awaits(Then(Undone("Comparison"), w), Plain(Then("operand", y)))
              /\ Awaits(Then(Undone("MoreAssign"), w), Prospect(y, Comparisons))
              /\ Awaits(Then(Undone("Expression"), w), Plain(Then("operand", y)))
  <1>1. IsForm(y) /\ IsForm(Then("operand", y))
    BY AfterOperandIs, ThenFacts
  <1>2. /\ IsForm(Plain(y).form) /\ IsForm(Plain(Then("operand", y)).form)
        /\ IsForm(Prospect(y, Factors).form) /\ IsForm(Prospect(y, Terms).form)
        /\ IsForm(Prospect(y, Comparisons).form)
    BY <1>1, PlainIs, ProspectIs
  <1>3. /\ OfBinary("MoreMulDiv", Plain(y), Prospect(y, Factors))
        /\ OfBinary("MulDiv", Plain(Then("operand", y)), Prospect(y, Factors))
        /\ OfBinary("MoreAddSub", Prospect(y, Factors), Prospect(y, Terms))
        /\ OfBinary("AddSub", Plain(Then("operand", y)), Prospect(y, Terms))
        /\ OfBinary("MoreComparison", Prospect(y, Terms), Prospect(y, Comparisons))
        /\ OfBinary("Comparison", Plain(Then("operand", y)), Prospect(y, Comparisons))
    BY ProspectIs DEF OfBinary
  <1>4. /\ OfExpression("MoreAssign", Prospect(y, Comparisons), Prospect(y, Comparisons))
        /\ OfExpression("Expression", Plain(Then("operand", y)), Prospect(y, Comparisons))
    BY ProspectIs DEF OfExpression
  <1>5. \A p, a, bar : /\ Awaits(w, Prospect(y, bar)) /\ IsForm(a.form)
                       /\ \/ OfBinary(p, a, Prospect(y, bar))
                          \/ OfExpression(p, a, Prospect(y, bar))
                       => Awaits(Then(Undone(p), w), a)
    BY AwaitsBinary, AwaitsExpression
  <1> QED
    BY <1>2, <1>3, <1>4, <1>5

LEMMA EntersTwo ==
  ASSUME NEW s, NEW i, NEW t, NEW f, NEW b, NEW x, NEW z
  PROVE  (\A w : Awaits(w, b) => Awaits(Then(Undone(x), Then(Undone(z), w)), Plain(f)))
           => Continues(s, i, t, Steps(<<x, z>>), Plain(f), b)
  <1> DEFINE H(w) == Then(Undone(x), Then(Undone(z), w))
  <1>1. ASSUME NEW w, IsForm(w) PROVE Join(Steps(<<x, z>>), w) = H(w)
    BY <1>1, StepsTwo
  <1>2. PICK v : v = Steps(<<x, z>>)
    OBVIOUS
  <1> HIDE DEF H
  <1>3. \A w : IsForm(w) => Join(v, w) = H(w)
    BY <1>1, <1>2
  <1>4. (\A w : Awaits(w, b) => Awaits(H(w), Plain(f))) => Continues(s, i, t, v, Plain(f), b)
    <2> SUFFICES ASSUME \A w : Awaits(w, b) => Awaits(H(w), Plain(f)), NEW w, Awaits(w, b)
                 PROVE  \E c : /\ Awaits(Join(v, w), c) /\ Same(s, i, Plain(f).form, c.form)
                               /\ t \notin c.bar /\ c # Last
      BY DEF Continues
    <2>1. Join(v, w) = H(w)
      BY <1>3 DEF Awaits
    <2> QED
      BY <2>1, PlainIs, SameIs
  <1> QED
    BY <1>2, <1>4 DEF H

LEMMA LevelsEntered ==
  ASSUME NEW s, NEW i \in Nat, NEW t, NEW y, AfterOperand(y)
  PROVE  /\ Continues(s, i, t, Steps(<<"Unary", "MoreMulDiv">>), Plain(Then("operand", y)),
                      Prospect(y, Factors))
         /\ Continues(s, i, t, Steps(<<"MulDiv", "MoreAddSub">>), Plain(Then("operand", y)),
                      Prospect(y, Terms))
         /\ Continues(s, i, t, Steps(<<"AddSub", "MoreComparison">>), Plain(Then("operand", y)),
                      Prospect(y, Comparisons))
         /\ Continues(s, i, t, Steps(<<"Comparison", "MoreAssign">>), Plain(Then("operand", y)),
                      Prospect(y, Comparisons))
  <1>1. \A w :
          Awaits(w, Prospect(y, Factors)) =>
            Awaits(Then(Undone("Unary"), Then(Undone("MoreMulDiv"), w)),
                   Plain(Then("operand", y)))
    BY AwaitsLevels, AwaitsNaming
  <1>2. \A w :
          Awaits(w, Prospect(y, Terms)) =>
            Awaits(Then(Undone("MulDiv"), Then(Undone("MoreAddSub"), w)),
                   Plain(Then("operand", y)))
    BY AwaitsLevels
  <1>3. \A w : Awaits(w, Prospect(y, Comparisons)) =>
          /\ Awaits(Then(Undone("AddSub"), Then(Undone("MoreComparison"), w)),
                    Plain(Then("operand", y)))
          /\ Awaits(Then(Undone("Comparison"), Then(Undone("MoreAssign"), w)),
                    Plain(Then("operand", y)))
    BY AwaitsLevels
  <1>4. Continues(s, i, t, Steps(<<"Unary", "MoreMulDiv">>), Plain(Then("operand", y)),
                  Prospect(y, Factors))
    BY <1>1, EntersTwo
  <1>5. Continues(s, i, t, Steps(<<"MulDiv", "MoreAddSub">>), Plain(Then("operand", y)),
                  Prospect(y, Terms))
    BY <1>2, EntersTwo
  <1>6. Continues(s, i, t, Steps(<<"AddSub", "MoreComparison">>), Plain(Then("operand", y)),
                  Prospect(y, Comparisons))
    BY <1>3, EntersTwo
  <1>7. Continues(s, i, t, Steps(<<"Comparison", "MoreAssign">>), Plain(Then("operand", y)),
                  Prospect(y, Comparisons))
    BY <1>3, EntersTwo
  <1> QED
    BY <1>4, <1>5, <1>6, <1>7

LEMMA LevelsContinue ==
  ASSUME NEW s, NEW i \in Nat, NEW t, Ahead(s, i, t), NEW y, AfterOperand(y),
         NEW c, c.do = "MakeBinary"
  PROVE  /\ /\ t \in MulDivOps =>
                 Continues(s, i, t, Holding(<<t, "Unary">>, c, <<"MoreMulDiv">>),
                                            Plain(y), Prospect(y, Factors))
            /\ t \notin MulDivOps =>
                 Continues(s, i, t, Steps(<<>>), Plain(y), Prospect(y, Factors))
         /\ t \notin Factors =>
              /\ t \in AddSubOps =>
                   Continues(s, i, t, Holding(<<t, "MulDiv">>, c, <<"MoreAddSub">>),
                                              Prospect(y, Factors), Prospect(y, Terms))
              /\ t \notin AddSubOps =>
                   Continues(s, i, t, Steps(<<>>), Prospect(y, Factors), Prospect(y, Terms))
         /\ t \notin Terms =>
              /\ t \in ComparisonOps =>
                   Continues(s, i, t, Holding(<<t, "AddSub">>, c, <<"MoreComparison">>),
                             Prospect(y, Terms), Prospect(y, Comparisons))
              /\ t \notin ComparisonOps =>
                   Continues(s, i, t, Steps(<<>>), Prospect(y, Terms), Prospect(y, Comparisons))
  <1>1. /\ Factors = {} \cup MulDivOps /\ Terms = Factors \cup AddSubOps
        /\ Comparisons = Terms \cup ComparisonOps
    BY DEF Factors, Terms, Comparisons
  <1>2. /\ Factors \subseteq Operators
        /\ Terms \subseteq Operators
        /\ Comparisons \subseteq Operators
    BY NoEnd DEF Factors, Terms, Comparisons
  <1>3. \A w :
          Awaits(w, Prospect(y, {})) =>
            Awaits(Then(Undone("Unary"), w), Plain(Then("operand", y)))
    BY EmptyBar, AwaitsNaming
  <1>4. \A w : Awaits(w, Prospect(y, Factors)) => /\ Awaits(Then(Undone("MoreMulDiv"), w),
                                                            Prospect(y, {}))
                                                  /\ Awaits(Then(Undone("MulDiv"), w),
                                                            Plain(Then("operand", y)))
    BY EmptyBar, AwaitsLevels
  <1>5. \A w : Awaits(w, Prospect(y, Terms)) => /\ Awaits(Then(Undone("MoreAddSub"), w),
                                                          Prospect(y, Factors))
                                                /\ Awaits(Then(Undone("AddSub"), w),
                                                          Plain(Then("operand", y)))
    BY AwaitsLevels
  <1>6. \A w :
          Awaits(w, Prospect(y, Comparisons)) =>
            Awaits(Then(Undone("MoreComparison"), w), Prospect(y, Terms))
    BY AwaitsLevels
  <1>7. /\ t \in MulDivOps => Continues(s, i, t, Holding(<<t, "Unary">>, c, <<"MoreMulDiv">>),
                                        Prospect(y, {}), Prospect(y, {} \cup MulDivOps))
        /\ t \notin MulDivOps =>
             Continues(s, i, t, Steps(<<>>), Prospect(y, {}), Prospect(y, {} \cup MulDivOps))
    <2>1. \A w :
            Awaits(w, Prospect(y, {} \cup MulDivOps)) =>
              Awaits(Then(Undone("MoreMulDiv"), w), Prospect(y, {}))
      BY <1>1, <1>4
    <2>2. {} \cup MulDivOps \subseteq Operators /\ t \notin {}
      BY <1>1, <1>2
    <2> HIDE <1>1
    <2> QED
      BY <1>3, <2>1, <2>2, LevelContinues
  <1>8. ASSUME t \notin Factors
        PROVE  /\ t \in AddSubOps =>
                    Continues(s, i, t, Holding(<<t, "MulDiv">>, c, <<"MoreAddSub">>),
                                               Prospect(y, Factors),
                                               Prospect(y, Factors \cup AddSubOps))
               /\ t \notin AddSubOps =>
                    Continues(s, i, t, Steps(<<>>), Prospect(y, Factors),
                              Prospect(y, Factors \cup AddSubOps))
    <2>1. \A w :
            Awaits(w, Prospect(y, Factors \cup AddSubOps)) =>
              Awaits(Then(Undone("MoreAddSub"), w), Prospect(y, Factors))
      BY <1>1, <1>5
    <2>2. Factors \cup AddSubOps \subseteq Operators
      BY <1>1, <1>2
    <2> QED
      BY <1>4, <1>8, <2>1, <2>2, LevelContinues
  <1>9. ASSUME t \notin Terms
        PROVE  /\ t \in ComparisonOps =>
                    Continues(s, i, t, Holding(<<t, "AddSub">>, c, <<"MoreComparison">>),
                              Prospect(y, Terms), Prospect(y, Terms \cup ComparisonOps))
               /\ t \notin ComparisonOps =>
                    Continues(s, i, t, Steps(<<>>), Prospect(y, Terms),
                              Prospect(y, Terms \cup ComparisonOps))
    <2>1. \A w :
            Awaits(w, Prospect(y, Terms \cup ComparisonOps)) =>
              Awaits(Then(Undone("MoreComparison"), w), Prospect(y, Terms))
      BY <1>1, <1>6
    <2>2. Terms \cup ComparisonOps \subseteq Operators
      BY <1>1, <1>2
    <2> QED
      BY <1>5, <1>9, <2>1, <2>2, LevelContinues
  <1> QED
    BY <1>1, <1>7, <1>8, <1>9, EmptyBar

LEMMA WholeExpression ==
  ASSUME NEW s, NEW i \in Nat, NEW t, NEW y, AfterExpression(y)
  PROVE  Continues(s, i, t, Steps(<<"Comparison", "MoreAssign">>), Plain(Then("expression", y)),
                   Plain(y))
  <1>1. IsForm(y) /\ AfterOperand(Then("operations", y)) /\ IsForm(Then("operations", y))
    BY AfterExpressionIs, ThenFacts DEF AfterOperand
  <1>2. Same(s, i, Then("expression", y), Then("operand", Then("operations", y)))
    BY <1>1, OnlyChoices
  <1>3. ASSUME NEW w, Awaits(w, Plain(y))
        PROVE  Awaits(Then(Undone("Comparison"), Then(Undone("MoreAssign"), w)),
                      Plain(Then("operand", Then("operations", y))))
    <2>1. OfExpression("MoreAssign", Prospect(Then("operations", y), Comparisons),
                       Prospect(y, {}))
      BY ProspectIs DEF OfExpression
    <2>2. Awaits(Then(Undone("MoreAssign"), w), Prospect(Then("operations", y), Comparisons))
      BY <1>1, <1>3, <2>1, EmptyBar, ProspectIs, AwaitsExpression
    <2> QED
      BY <1>1, <2>2, AwaitsLevels
  <1>4. Leads(s, i, Steps(<<"Comparison", "MoreAssign">>), Then("expression", y), y)
    BY <1>2, <1>3, LeadsTwo
  <1> QED
    BY <1>4, LeadsContinues

LEMMA AssignContinues ==
  ASSUME NEW s, NEW i \in Nat, NEW t \in CompoundOps \cup {"EQ"}, Ahead(s, i, t), NEW a, NEW b,
         OfExpression("MoreAssign", a, b), b = Prospect(b.form, b.bar), t \notin a.bar,
         NEW c, c.do \in {"MakeAssign", "MakeCompound"}
  PROVE  Continues(s, i, t, Holding(<<t, "Expression">>, c, <<"MoreAssign">>), a, b)
  <1> DEFINE y == b.form
  <1>1. PICK f : /\ a = Prospect(f, Comparisons) /\ AfterOperand(f)
                 /\ \/ f = Then("operations", y) /\ b.bar = {} /\ AfterExpression(y)
                    \/ f = y /\ b.bar = Comparisons
    BY DEF OfExpression, AfterOperand
  <1>2. t \notin Comparisons /\ a.form = f
    BY <1>1, ProspectIs
  <1>3. ASSUME NEW w, Awaits(w, b)
        PROVE  \E d : /\ Awaits(Join(Holding(<<t, "Expression">>, c, <<"MoreAssign">>), w), d)
                      /\ Same(s, i, a.form, d.form) /\ t \notin d.bar /\ d # Last
    <2>1. t \in Operators /\ t \in Symbols
      BY TheSymbols DEF Operators, CompoundOps
    <2>2. IsForm(w) /\ IsForm(f)
      BY <1>1, <1>3, AfterOperandIs DEF Awaits
    <2>3. Awaits(Then(Undone("MoreAssign"), w), a)
      <3>1. OfExpression("MoreAssign", a, Prospect(y, b.bar)) /\ IsForm(a.form)
        BY <1>2, <2>2
      <3> QED
        BY <1>3, <3>1, AwaitsExpression
    <2>4. Awaits(Then(c, Then(Undone("MoreAssign"), w)), Prospect(f, Comparisons))
      BY <1>1, <2>3, NoEnd, NotLast, AwaitsNode DEF Constructions
    <2>5. Awaits(Then(Undone("Expression"), Then(c, Then(Undone("MoreAssign"), w))),
                 Plain(Then("operand", f)))
      BY <1>1, <2>4, AwaitsLevels
    <2>6. Awaits(Then(Undone(t), Then(Undone("Expression"), Then(c,
                   Then(Undone("MoreAssign"), w)))),
                 Plain(Then(t, Then("operand", f))))
      BY <2>1, <2>5, AwaitsToken
    <2>7. Same(s, i, f, Then(t, Then("operand", f)))
      <3>1. PICK z : AfterExpression(z) /\ f = Then("operations", z)
        BY <1>1 DEF AfterOperand
      <3> QED
        BY <2>1, <3>1, OperationsChosen
    <2>8. Join(Holding(<<t, "Expression">>, c, <<"MoreAssign">>), w)
            = Then(Undone(t), Then(Undone("Expression"), Then(c, Then(Undone("MoreAssign"), w))))
      BY <2>2, HoldingLoop
    <2>9. PICK u : u = Holding(<<t, "Expression">>, c, <<"MoreAssign">>)
      OBVIOUS
    <2>10. Awaits(Join(u, w), Plain(Then(t, Then("operand", f))))
      BY <2>6, <2>8, <2>9
    <2>11. \E d : Awaits(Join(u, w), d) /\ Same(s, i, f, d.form) /\ t \notin d.bar /\ d # Last
      BY <2>7, <2>10, PlainIs
    <2> QED
      BY <1>2, <2>9, <2>11
  <1> QED
    BY <1>3 DEF Continues

LEMMA AssignOver ==
  ASSUME NEW s, NEW i \in Nat, NEW t, t \notin CompoundOps \cup {"EQ"}, Ahead(s, i, t), NEW a,
         NEW b,
         OfExpression("MoreAssign", a, b), b = Prospect(b.form, b.bar), t \notin a.bar
  PROVE  Continues(s, i, t, Steps(<<>>), a, b)
  <1> DEFINE y == b.form
  <1>1. PICK f : /\ a = Prospect(f, Comparisons) /\ AfterOperand(f)
                 /\ \/ f = Then("operations", y) /\ b.bar = {} /\ AfterExpression(y)
                    \/ f = y /\ b.bar = Comparisons
    BY DEF OfExpression, AfterOperand
  <1>2. t \notin Comparisons /\ a.form = f
    BY <1>1, ProspectIs
  <1>3. ASSUME f = Then("operations", y), b.bar = {}, AfterExpression(y)
        PROVE  Continues(s, i, t, Steps(<<>>), a, b)
    <2>1. t \notin Operators
      BY <1>2 DEF Operators, CompoundOps, Comparisons, MulDivOps, AddSubOps, ComparisonOps
    <2>2. Same(s, i, a.form, y)
      BY <1>2, <1>3, <2>1, OperationsChosen
    <2>3. Continues(s, i, t, Steps(<<>>), a, Prospect(y, {}))
      BY <2>2, ContinuesOn
    <2> QED
      BY <1>3, <2>3
  <1>4. ASSUME f = y, b.bar = Comparisons PROVE Continues(s, i, t, Steps(<<>>), a, b)
    <2>1. Same(s, i, a.form, y)
      BY <1>2, <1>4, SameIs
    <2>2. Continues(s, i, t, Steps(<<>>), a, Prospect(y, Comparisons))
      BY <1>2, <2>1, NoEnd, ContinuesOn
    <2> QED
      BY <1>4, <2>2
  <1> QED
    BY <1>1, <1>3, <1>4

----------------------------------------------------------------------------
(***************************************************************************)
(* As long as no error has been reported, the work awaits what the text    *)
(* can still be; from then on, the first error is at the place that no     *)
(* derivation reads past.                                                  *)
(***************************************************************************)
\* The work awaits what can still be read of the text.
Sound ==
  \E a : /\ Awaits(work, a) /\ Here(0) \notin a.bar /\ Foreseen(input, pos, a.form)
         /\ a = Last => pos = Len(input)

\* The first error is where the text cannot be read any further.
Reported ==
  \E p \in Nat : /\ p <= pos /\ Farthest(input, p)
                 /\ \E m \in messages : m.at = p
                 /\ \A m \in messages : m.at >= p

\* The inductive invariant of the parser, once the search has ended.
Faithful == (messages = {} => Sound) /\ (messages # {} => Reported)

LEMMA TokensAhead ==
  ASSUME TypeOK
  PROVE  /\ pos \in Nat /\ Len(input) \in Nat /\ pos <= Len(input)
         /\ Ahead(input, pos, Here(0)) /\ Ahead(input, pos + 1, Here(1))
         /\ Here(0) # "END_OF_FILE" => Reads(input, pos, Here(0)) /\ pos < Len(input)
  <1>1. pos \in Nat /\ Len(input) \in Nat /\ pos <= Len(input)
    BY DEF TypeOK
  <1>2. Here(0) = IF pos < Len(input) THEN input[pos + 1] ELSE "END_OF_FILE"
    BY <1>1 DEF Here
  <1>3. Here(1) = IF pos + 1 < Len(input) THEN input[(pos + 1) + 1] ELSE "END_OF_FILE"
    BY <1>1 DEF Here
  <1> QED
    BY <1>1, <1>2, <1>3 DEF Ahead, Reads

LEMMA Popped ==
  ASSUME TypeOK, Sound, work # <<>>
  PROVE  /\ IsForm(Tail(work))
         /\ \E a, b : /\ Stage(Head(work).do, a, b) /\ IsForm(a.form) /\ IsForm(b.form)
                      /\ Awaits(Tail(work), b)
                      /\ Here(0) \notin a.bar /\ Foreseen(input, pos, a.form)
  <1>1. work \in Seq(Frame)
    BY DEF TypeOK
  <1>2. Tail(work) \in Seq(Frame)
    BY <1>1
  <1>3. IsForm(Tail(work))
    BY <1>2 DEF IsForm
  <1>4. PICK a : Awaits(work, a) /\ Here(0) \notin a.bar /\ Foreseen(input, pos, a.form)
    BY DEF Sound
  <1>5. Fits(work, a) /\ IsForm(a.form)
    BY <1>4 DEF Awaits
  <1>6. PICK b : Stage(Head(work).do, a, b) /\ Fits(Tail(work), b)
    BY <1>1, <1>5, FitsPop
  <1>7. IsForm(b.form)
    BY <1>6, StageIs
  <1> QED
    BY <1>3, <1>4, <1>5, <1>6, <1>7 DEF Awaits

LEMMA Unmoved ==
  ASSUME TypeOK, UNCHANGED <<input, pos>>
  PROVE  Here(0)' = Here(0)
  BY DEF Here

\* A step that takes the work from one prospect to another, where it is.
LEMMA Moved ==
  ASSUME TypeOK, UNCHANGED <<input, pos>>,
         NEW a, Foreseen(input, pos, a.form),
         NEW c, Awaits(work', c), Same(input, pos, a.form, c.form), Here(0) \notin c.bar,
         c = Last => pos = Len(input)
  PROVE  Sound'
  <1>1. Foreseen(input, pos, c.form)
    BY TokensAhead, ForeseenSame
  <1>2. input' = input /\ pos' = pos /\ Here(0)' = Here(0)
    BY Unmoved
  <1> QED
    BY <1>1, <1>2 DEF Sound

\* A procedure that continues the work keeps it sound.
LEMMA Proceeds ==
  ASSUME TypeOK, Sound, NEW step, At(step), UNCHANGED <<input, pos>>,
         NEW v, work' = Join(v, Tail(work)),
         \A a, b : Stage(step, a, b) /\ IsForm(a.form) /\ Here(0) \notin a.bar
                     => Continues(input, pos, Here(0), v, a, b)
  PROVE  Sound'
  <1>1. work # <<>> /\ Head(work).do = step
    BY DEF At
  <1>2. PICK a, b : /\ Stage(step, a, b) /\ IsForm(a.form) /\ Awaits(Tail(work), b)
                    /\ Here(0) \notin a.bar /\ Foreseen(input, pos, a.form)
    BY <1>1, Popped
  <1>3. Continues(input, pos, Here(0), v, a, b)
    BY <1>2
  <1>4. PICK c : /\ Awaits(Join(v, Tail(work)), c) /\ Same(input, pos, a.form, c.form)
                 /\ Here(0) \notin c.bar /\ c # Last
    BY <1>2, <1>3 DEF Continues
  <1> QED
    BY <1>2, <1>4, Moved

LEMMA Entered ==
  ASSUME TypeOK, Sound, NEW step, NEW names, Enter(step, names),
         \A a, b : Stage(step, a, b) /\ IsForm(a.form) /\ Here(0) \notin a.bar
                     => Continues(input, pos, Here(0), Steps(names), a, b)
  PROVE  Sound'
  <1>1. work' = Join(Steps(names), Tail(work))
    BY Zenon DEF Enter, Join
  <1>2. At(step) /\ UNCHANGED <<input, pos>>
    BY Zenon DEF Enter
  <1> QED
    BY <1>1, <1>2, Proceeds

LEMMA Held ==
  ASSUME TypeOK, Sound, NEW step, NEW before, NEW construction, NEW after,
         Hold(step, before, construction, after),
         \A a, b, c :
           Stage(step, a, b) /\ IsForm(a.form) /\ Here(0) \notin a.bar /\ c.do = construction
                        => Continues(input, pos, Here(0), Holding(before, c, after), a, b)
  PROVE  Sound'
  <1>1. PICK c : c = [do |-> construction, with |-> ret]
    OBVIOUS
  <1>2. work' = Steps(before) \o <<c>> \o Steps(after) \o Tail(work)
    BY <1>1, Zenon DEF Hold
  <1>3. work' = Join(Holding(before, c, after), Tail(work))
    BY <1>2, Zenon DEF Holding, Join
  <1>4. At(step) /\ UNCHANGED <<input, pos>>
    BY Zenon DEF Hold
  <1>5. c.do = construction
    BY <1>1
  <1> QED
    BY <1>3, <1>4, <1>5, Proceeds

\* Of procedures without bars it is enough to know where they lead.
LEMMA EnteredPlain ==
  ASSUME TypeOK, Sound, NEW step \in Declaring \cup Stating \cup Naming, NEW names,
         Enter(step, names),
         \A f, y : /\ IsForm(f) /\ IsForm(y)
                   /\ \/ OfDeclaration(step, f, y)
                      \/ OfStatement(step, f, y)
                      \/ OfPrimary(step, f, y)
                   => Leads(input, pos, Steps(names), f, y)
  PROVE  Sound'
  <1>1. ASSUME NEW a, NEW b, Stage(step, a, b), IsForm(a.form)
        PROVE  Continues(input, pos, Here(0), Steps(names), a, b)
    <2>1. /\ IsForm(b.form) /\ a = Plain(a.form) /\ b = Plain(b.form)
          /\ OfDeclaration(step, a.form, b.form) \/ OfStatement(step, a.form, b.form)
               \/ OfPrimary(step, a.form, b.form)
      BY <1>1, StageIs
    <2>2. Leads(input, pos, Steps(names), a.form, b.form)
      BY <1>1, <2>1
    <2>3. Continues(input, pos, Here(0), Steps(names), Plain(a.form), Plain(b.form))
      BY <2>2, LeadsContinues
    <2> QED
      BY <2>1, <2>3
  <1> QED
    BY <1>1, Entered

LEMMA HeldPlain ==
  ASSUME TypeOK, Sound, NEW step \in Stating, NEW before, NEW construction, NEW after,
         Hold(step, before, construction, after),
         \A f, y, c : IsForm(f) /\ IsForm(y) /\ OfStatement(step, f, y) /\ c.do = construction
                        => Leads(input, pos, Holding(before, c, after), f, y)
  PROVE  Sound'
  <1>1. ASSUME NEW a, NEW b, NEW c, Stage(step, a, b), IsForm(a.form), c.do = construction
        PROVE  Continues(input, pos, Here(0), Holding(before, c, after), a, b)
    <2>1. /\ IsForm(b.form) /\ a = Plain(a.form) /\ b = Plain(b.form)
          /\ OfStatement(step, a.form, b.form)
      BY <1>1, StageIs
    <2>2. Leads(input, pos, Holding(before, c, after), a.form, b.form)
      BY <1>1, <2>1
    <2>3. Continues(input, pos, Here(0), Holding(before, c, after), Plain(a.form), Plain(b.form))
      BY <2>2, LeadsContinues
    <2> QED
      BY <2>1, <2>3
  <1> QED
    BY <1>1, Held

\* What cannot be a procedure is not any of the others either.
LEMMA OnlyOf ==
  ASSUME NEW p, NEW f, NEW y
  PROVE  /\ p \in Declaring => ~ OfStatement(p, f, y) /\ ~ OfPrimary(p, f, y)
         /\ p \in Stating => ~ OfDeclaration(p, f, y) /\ ~ OfPrimary(p, f, y)
         /\ p \in Naming => ~ OfDeclaration(p, f, y) /\ ~ OfStatement(p, f, y)
  BY OfWhat, NamesApart

LEMMA ContinuesSame ==
  ASSUME NEW s, NEW i, NEW t, NEW v, NEW f, NEW g, Same(s, i, f, g), NEW b,
         Continues(s, i, t, v, Plain(g), b)
  PROVE  Continues(s, i, t, v, Plain(f), b)
  <1> SUFFICES ASSUME NEW w, Awaits(w, b)
               PROVE  \E c : /\ Awaits(Join(v, w), c) /\ Same(s, i, Plain(f).form, c.form)
                             /\ t \notin c.bar /\ c # Last
    BY DEF Continues
  <1>1. PICK c : /\ Awaits(Join(v, w), c) /\ Same(s, i, Plain(g).form, c.form)
                 /\ t \notin c.bar /\ c # Last
    BY DEF Continues
  <1> QED
    BY <1>1, PlainIs, SameIs

LEMMA LastIs ==
  /\ IsForm(Last.form) /\ Last.form = Then("END_OF_FILE", <<>>)
  /\ Opened(Last.form, "END_OF_FILE")
  /\ Last.bar = {"END"}
  /\ Last = Prospect(Last.form, Last.bar)
  <1>1. Last.form = Then("END_OF_FILE", <<>>) /\ Last.bar = {"END"}
    BY ProspectIs DEF Last
  <1>2. IsForm(<<>>)
    BY Nothing
  <1> QED
    BY <1>1, <1>2, ThenFacts DEF Opened, Last

LEMMA DocumentContinues ==
  ASSUME NEW s, NEW i \in Nat, NEW t \in DOMAIN Declaration, Ahead(s, i, t), NEW a, NEW b,
         Stage("Document", a, b)
  PROVE  Continues(s, i, t, Steps(<<Declaration[t], "Document">>), a, b)
  <1> DEFINE y == Last.form
             rest == Then("document", y)
  <1>1. a = Plain(rest) /\ b = Last
    BY StageIs
  <1>2. ASSUME NEW w, Awaits(w, Last) PROVE Awaits(Then(Undone("Document"), w), Plain(rest))
    <2>1. Stage("Document", Plain(rest), Last)
      BY LastIs DEF Stage
    <2>2. IsForm(Plain(rest).form)
      BY LastIs, PlainIs, ThenFacts
    <2> QED
      BY <1>2, <2>1, <2>2, UndoneIs, AwaitsStage
  <1>3. ASSUME NEW w, Awaits(w, Last)
        PROVE  /\ Awaits(Then(Undone("Function"), Then(Undone("Document"), w)),
                         Plain(Then("FUNCTION", Then("IDENT", Then("OPEN_PAREN", Then("params",
                                 Then("CLOSE_PAREN", Then("COLON", Then("type",
                                 Then("body", rest))))))))))
               /\ Awaits(Then(Undone("StructDecl"), Then(Undone("Document"), w)),
                         Plain(Then("STRUCT", Then("IDENT", Then("OPEN_BRACE", Then("fields",
                                 Then("CLOSE_BRACE", rest)))))))
               /\ Awaits(Then(Undone("Import"), Then(Undone("Document"), w)),
                         Plain(Then("IMPORT", Then("STRING", rest))))
    BY <1>2, <1>3, AwaitsDeclaring
  <1>4. /\ t = "FUNCTION" =>
             Same(s, i, rest,
                  Then("FUNCTION", Then("IDENT", Then("OPEN_PAREN", Then("params",
                    Then("CLOSE_PAREN", Then("COLON", Then("type", Then("body", rest)))))))))
        /\ t = "STRUCT" =>
             Same(s, i, rest,
                  Then("STRUCT", Then("IDENT", Then("OPEN_BRACE", Then("fields",
                    Then("CLOSE_BRACE", rest))))))
        /\ t = "IMPORT" => Same(s, i, rest, Then("IMPORT", Then("STRING", rest)))
    BY LastIs, DocumentChosen
  <1> HIDE DEF rest
  <1>5. /\ Continues(s, i, t, Steps(<<"Function", "Document">>),
                     Plain(Then("FUNCTION", Then("IDENT", Then("OPEN_PAREN", Then("params",
                             Then("CLOSE_PAREN", Then("COLON", Then("type",
                             Then("body", rest))))))))),
                     Last)
        /\ Continues(s, i, t, Steps(<<"StructDecl", "Document">>),
                     Plain(Then("STRUCT", Then("IDENT", Then("OPEN_BRACE", Then("fields",
                             Then("CLOSE_BRACE", rest)))))),
                     Last)
        /\ Continues(s, i, t, Steps(<<"Import", "Document">>),
                     Plain(Then("IMPORT", Then("STRING", rest))), Last)
    <2>1. \A w : Awaits(w, Last) =>
            Awaits(Then(Undone("Function"), Then(Undone("Document"), w)),
                   Plain(Then("FUNCTION", Then("IDENT", Then("OPEN_PAREN", Then("params",
                           Then("CLOSE_PAREN", Then("COLON", Then("type",
                           Then("body", rest))))))))))
      BY <1>3
    <2>2. \A w : Awaits(w, Last) =>
            Awaits(Then(Undone("StructDecl"), Then(Undone("Document"), w)),
                   Plain(Then("STRUCT", Then("IDENT", Then("OPEN_BRACE", Then("fields",
                           Then("CLOSE_BRACE", rest)))))))
      BY <1>3
    <2>3. \A w :
            Awaits(w, Last) =>
              Awaits(Then(Undone("Import"), Then(Undone("Document"), w)),
                     Plain(Then("IMPORT", Then("STRING", rest))))
      BY <1>3
    <2>4. Continues(s, i, t, Steps(<<"Function", "Document">>),
                    Plain(Then("FUNCTION", Then("IDENT", Then("OPEN_PAREN", Then("params",
                            Then("CLOSE_PAREN", Then("COLON", Then("type",
                            Then("body", rest))))))))),
                    Last)
      BY <2>1, EntersTwo
    <2>5. Continues(s, i, t, Steps(<<"StructDecl", "Document">>),
                    Plain(Then("STRUCT", Then("IDENT", Then("OPEN_BRACE", Then("fields",
                            Then("CLOSE_BRACE", rest)))))),
                    Last)
      BY <2>2, EntersTwo
    <2>6. Continues(s, i, t, Steps(<<"Import", "Document">>),
                    Plain(Then("IMPORT", Then("STRING", rest))), Last)
      BY <2>3, EntersTwo
    <2> QED
      BY <2>4, <2>5, <2>6
  <1>6. CASE t = "FUNCTION"
    <2>1. Declaration[t] = "Function"
      BY <1>6 DEF Declaration
    <2>2. Continues(s, i, t, Steps(<<"Function", "Document">>), Plain(rest), Last)
      BY <1>4, <1>5, <1>6, ContinuesSame
    <2> QED
      BY <1>1, <2>1, <2>2
  <1>7. CASE t = "STRUCT"
    <2>1. Declaration[t] = "StructDecl"
      BY <1>7 DEF Declaration
    <2>2. Continues(s, i, t, Steps(<<"StructDecl", "Document">>), Plain(rest), Last)
      BY <1>4, <1>5, <1>7, ContinuesSame
    <2> QED
      BY <1>1, <2>1, <2>2
  <1>8. CASE t = "IMPORT"
    <2>1. Declaration[t] = "Import"
      BY <1>8 DEF Declaration
    <2>2. Continues(s, i, t, Steps(<<"Import", "Document">>), Plain(rest), Last)
      BY <1>4, <1>5, <1>8, ContinuesSame
    <2> QED
      BY <1>1, <2>1, <2>2
  <1> QED
    BY <1>6, <1>7, <1>8 DEF Declaration

LEMMA ParseDeclarationSound ==
  ASSUME TypeOK, Sound, ParseDeclaration
  PROVE  Sound'
  <1>1. PICK names : names = <<Declaration[Here(0)], "Document">>
    OBVIOUS
  <1>2. Enter("Document", names) /\ Here(0) \in DOMAIN Declaration
    BY <1>1 DEF ParseDeclaration
  <1>3. \A a, b : Stage("Document", a, b) => Continues(input, pos, Here(0), Steps(names), a, b)
    <2>1. \A a, b : Stage("Document", a, b) =>
            Continues(input, pos, Here(0), Steps(<<Declaration[Here(0)], "Document">>), a, b)
      BY <1>2, TokensAhead, DocumentContinues
    <2> QED
      BY <1>1, <2>1
  <1> QED
    BY <1>2, <1>3, Entered

----------------------------------------------------------------------------
(***************************************************************************)
(* One action after the other.                                             *)
(***************************************************************************)
LEMMA FirstReported ==
  ASSUME TypeOK, Farthest(input, pos), input' = input, pos' \in Nat, pos <= pos',
         NEW x, messages' = {Message(x)}
  PROVE  Faithful'
  <1>1. Message(x).at = pos /\ pos \in Nat
    BY TokensAhead DEF Message
  <1>2. \E m \in messages' : m.at = pos
    BY <1>1
  <1>3. \A m \in messages' : m.at >= pos
    BY <1>1
  <1>4. Reported'
    BY <1>1, <1>2, <1>3 DEF Reported
  <1> QED
    BY <1>4 DEF Faithful

LEMMA MoreReported ==
  ASSUME TypeOK, Reported, input' = input, pos' \in Nat, pos <= pos',
         NEW x, messages' \in {messages, messages \cup {Message(x)}}
  PROVE  Faithful'
  <1>1. Message(x).at = pos /\ pos \in Nat
    BY TokensAhead DEF Message
  <1>2. PICK p \in Nat : /\ p <= pos /\ Farthest(input, p)
                         /\ \E m \in messages : m.at = p
                         /\ \A m \in messages : m.at >= p
    BY DEF Reported
  <1>3. \E m \in messages' : m.at = p
    BY <1>2
  <1>4. \A m \in messages' : m.at >= p
    BY <1>1, <1>2
  <1>5. p <= pos'
    BY <1>1, <1>2
  <1>6. Reported'
    BY <1>2, <1>3, <1>4, <1>5 DEF Reported
  <1>7. messages' # {}
    BY <1>3
  <1> QED
    BY <1>6, <1>7 DEF Faithful

LEMMA QuietlyFaithful ==
  ASSUME TypeOK, Faithful, UNCHANGED <<input, pos, messages>>, Sound => Sound'
  PROVE  Faithful'
  <1>1. CASE messages = {}
    BY <1>1 DEF Faithful
  <1>2. CASE messages # {}
    BY <1>2, TokensAhead, MoreReported DEF Faithful
  <1> QED
    BY <1>1, <1>2

\* A form that the next token cannot begin is where the text goes wrong.
LEMMA Wrong ==
  ASSUME TypeOK, NEW f, Foreseen(input, pos, f), Stuck(input, pos, f)
  PROVE  Farthest(input, pos)
  BY TokensAhead, ForeseenStuck

LEMMA ExpectFaithful ==
  ASSUME TypeOK, Faithful, NEW symbol \in Symbols, Expect(symbol)
  PROVE  Faithful'
  <1>1. /\ At(symbol) /\ pos' = PastNext /\ work' = Tail(work) /\ input' = input
        /\ messages' = IF Here(0) = symbol THEN messages ELSE messages \cup {Message(symbol)}
    BY DEF Expect
  <1>2. /\ pos \in Nat /\ pos <= Len(input) /\ Len(input) \in Nat
        /\ pos' \in Nat /\ pos <= pos' /\ Ahead(input, pos, Here(0))
    BY <1>1, TokensAhead DEF PastNext
  <1>3. CASE messages # {}
    BY <1>1, <1>2, <1>3, MoreReported DEF Faithful
  <1>4. CASE messages = {}
    <2>1. Sound /\ work # <<>> /\ Head(work).do = symbol
      BY <1>1, <1>4 DEF Faithful, At
    <2>2. PICK a, b : /\ Stage(symbol, a, b) /\ IsForm(a.form) /\ IsForm(b.form)
                      /\ Awaits(Tail(work), b) /\ Foreseen(input, pos, a.form)
      BY <2>1, Popped
    <2>3. a = Plain(Then(symbol, b.form)) /\ b = Plain(b.form)
      BY <2>2, StageIs
    <2>4. Foreseen(input, pos, Then(symbol, b.form)) /\ b.bar = {} /\ b # Last
      BY <2>2, <2>3, PlainIs
    <2>5. symbol \notin DOMAIN Alternatives /\ symbol # "END_OF_FILE"
      <3>1. symbol # "END_OF_FILE"
        BY DEF Symbols, CompoundOps, ComparisonOps, AddSubOps, MulDivOps, UnaryOps, Literals
      <3> QED
        BY <3>1, SymbolsAreTokens
    <2>6. CASE Here(0) = symbol
      <3>1. Reads(input, pos, symbol) /\ pos < Len(input)
        BY <2>5, <2>6, TokensAhead
      <3>2. pos' = pos + 1
        BY <1>1, <3>1 DEF PastNext
      <3>3. Foreseen(input, pos + 1, b.form)
        BY <1>2, <2>2, <2>4, <2>5, <3>1, ForeseenRead
      <3>4. Foreseen(input', pos', b.form) /\ Awaits(work', b)
        BY <1>1, <2>2, <3>2, <3>3
      <3>5. Sound'
        BY <2>4, <3>4 DEF Sound
      <3> QED
        BY <1>1, <1>4, <2>6, <3>5 DEF Faithful
    <2>7. CASE Here(0) # symbol
      <3>1. ~ Reads(input, pos, symbol)
        BY <1>2, <2>7 DEF Ahead
      <3>2. Stuck(input, pos, Then(symbol, b.form))
        BY <1>2, <2>2, <2>5, <3>1, TokenStuck
      <3>3. Farthest(input, pos)
        BY <2>4, <3>2, Wrong
      <3> QED
        BY <1>1, <1>2, <1>4, <2>7, <3>3, FirstReported
    <2> QED
      BY <2>6, <2>7
  <1> QED
    BY <1>3, <1>4

\* A node is built, and nothing else; or the program stops where it is.
LEMMA MakeFaithful ==
  ASSUME TypeOK, Faithful, NEW construction \in Constructions \cup {"ReadFile"},
         NEW fatal, NEW gaps, NEW kind, Make(construction, fatal, gaps, kind)
  PROVE  Faithful'
  <1>1. /\ At(construction) /\ UNCHANGED <<input, pos, messages>>
        /\ work' = Tail(work) \/ work' = work
    BY DEF Make
  <1>2. ASSUME Sound PROVE Sound'
    <2>1. CASE work' = work
      <3>1. Here(0)' = Here(0) /\ input' = input /\ pos' = pos
        BY <1>1, Unmoved
      <3> QED
        BY <1>2, <2>1, <3>1 DEF Sound
    <2>2. CASE work' = Tail(work)
      <3>1. work # <<>> /\ Head(work).do = construction
        BY <1>1 DEF At
      <3>2. PICK a, b : /\ Stage(construction, a, b) /\ IsForm(a.form) /\ IsForm(b.form)
                        /\ Awaits(Tail(work), b) /\ Here(0) \notin a.bar
                        /\ Foreseen(input, pos, a.form)
        BY <1>2, <3>1, Popped
      <3>3. a = b /\ b # Last
        BY <3>2, StageIs
      <3>4. Same(input, pos, a.form, b.form)
        BY <3>3, SameIs
      <3> QED
        BY <1>1, <2>2, <3>2, <3>3, <3>4, Moved
    <2> QED
      BY <1>1, <2>1, <2>2
  <1> QED
    BY <1>1, <1>2, QuietlyFaithful

\* The document is over where no declaration begins.
LEMMA DocumentOver ==
  ASSUME TypeOK, Sound, At("Document"), Here(0) \notin DOMAIN Declaration
  PROVE  /\ Foreseen(input, pos, Then("END_OF_FILE", <<>>)) /\ Awaits(Tail(work), Last)
         /\ pos < Len(input) => Farthest(input, pos)
  <1>1. work # <<>> /\ Head(work).do = "Document"
    BY DEF At
  <1>2. PICK a, b : /\ Stage("Document", a, b) /\ Awaits(Tail(work), b)
                    /\ Foreseen(input, pos, a.form)
    BY <1>1, Popped
  <1>3. a = Plain(Then("document", b.form)) /\ b = Last
    BY <1>2, StageIs
  <1>4. Foreseen(input, pos, Then("document", Last.form))
    BY <1>2, <1>3, PlainIs
  <1>5. Here(0) \notin {"FUNCTION", "STRUCT", "IMPORT"}
    BY DEF Declaration
  <1>6. Same(input, pos, Then("document", Last.form), Last.form)
    BY <1>5, LastIs, TokensAhead, DocumentChosen
  <1>7. Foreseen(input, pos, Last.form)
    BY <1>4, <1>6, TokensAhead, ForeseenSame
  <1>8. ASSUME pos < Len(input) PROVE Farthest(input, pos)
    <2>1. ~ Reads(input, pos, "END_OF_FILE") /\ pos \in Nat
      BY <1>8, TokensAhead DEF Reads
    <2>2. "END_OF_FILE" \notin DOMAIN Alternatives
      BY TokensAre DEF TheTokens
    <2>3. Stuck(input, pos, Last.form)
      BY <2>1, <2>2, LastIs, TokenStuck, Nothing
    <2> QED
      BY <1>7, <2>3, Wrong
  <1> QED
    BY <1>2, <1>3, <1>7, <1>8, LastIs

LEMMA EndDocumentFaithful ==
  ASSUME TypeOK, Faithful, EndDocument
  PROVE  Faithful'
  <1>1. /\ At("Document") /\ work' = Tail(work) /\ input' = input /\ pos' = pos
        /\ Here(0) = "END_OF_FILE"
        /\ messages' = IF pos < Len(input) THEN messages \cup {Message("token")} ELSE messages
    BY DEF EndDocument
  <1>2. pos \in Nat /\ pos <= Len(input) /\ Len(input) \in Nat
    BY TokensAhead
  <1>3. CASE messages # {}
    BY <1>1, <1>2, <1>3, MoreReported DEF Faithful
  <1>4. CASE messages = {}
    <2>1. Sound /\ Here(0) \notin DOMAIN Declaration
      BY <1>1, <1>4 DEF Faithful, Declaration
    <2>2. /\ Foreseen(input, pos, Last.form) /\ Awaits(Tail(work), Last)
          /\ pos < Len(input) => Farthest(input, pos)
      BY <1>1, <2>1, DocumentOver, LastIs
    <2>3. CASE pos < Len(input)
      BY <1>1, <1>2, <1>4, <2>2, <2>3, FirstReported
    <2>4. CASE ~ (pos < Len(input))
      <3>1. pos = Len(input)
        BY <1>2, <2>4
      <3>2. Here(0) \notin Last.bar
        BY <1>1, LastIs
      <3>3. Same(input, pos, Last.form, Last.form)
        BY SameIs
      <3>4. Sound'
        BY <1>1, <2>2, <3>1, <3>2, <3>3, Moved
      <3> QED
        BY <1>1, <1>4, <2>4, <3>4 DEF Faithful
    <2> QED
      BY <2>3, <2>4
  <1> QED
    BY <1>3, <1>4

LEMMA AbandonDocumentFaithful ==
  ASSUME TypeOK, Faithful, AbandonDocument
  PROVE  Faithful'
  <1>1. /\ At("Document") /\ pos' = PastNext /\ input' = input
        /\ Here(0) \notin DOMAIN Declaration \cup {"END_OF_FILE"}
        /\ messages' = messages \cup {Message("declaration")}
    BY DEF AbandonDocument
  <1>2. /\ pos \in Nat /\ pos <= Len(input) /\ Len(input) \in Nat
        /\ pos' \in Nat /\ pos <= pos' /\ pos < Len(input)
    BY <1>1, TokensAhead DEF PastNext
  <1>3. CASE messages # {}
    BY <1>1, <1>2, <1>3, MoreReported DEF Faithful
  <1>4. CASE messages = {}
    <2>1. Sound
      BY <1>4 DEF Faithful
    <2>2. Farthest(input, pos)
      BY <1>1, <1>2, <2>1, DocumentOver
    <2> QED
      BY <1>1, <1>2, <1>4, <2>2, FirstReported
  <1> QED
    BY <1>3, <1>4

LEMMA MissPrimaryFaithful ==
  ASSUME TypeOK, Faithful, MissPrimary
  PROVE  Faithful'
  <1>1. /\ At("Primary") /\ pos' = pos /\ input' = input
        /\ Here(0) \notin {"IDENT", "OPEN_PAREN"} \cup Literals
        /\ messages' = messages \cup {Message("expression")}
    BY DEF MissPrimary
  <1>2. /\ pos \in Nat /\ Ahead(input, pos, Here(0)) /\ Ahead(input, pos + 1, Here(1))
    BY TokensAhead
  <1>3. CASE messages # {}
    BY <1>1, <1>2, <1>3, MoreReported DEF Faithful
  <1>4. CASE messages = {}
    <2>1. Sound /\ work # <<>> /\ Head(work).do = "Primary"
      BY <1>1, <1>4 DEF Faithful, At
    <2>2. PICK a, b : /\ Stage("Primary", a, b)
                      /\ IsForm(b.form)
                      /\ Foreseen(input, pos, a.form)
      BY <2>1, Popped
    <2>3. OfPrimary("Primary", a.form, b.form)
      BY <2>2, StageIs DEF Naming
    <2>4. Here(0) \notin Primaries
      BY <1>1 DEF Primaries, Literals
    <2>5. Stuck(input, pos, a.form)
      BY <1>2, <2>2, <2>3, <2>4, PrimaryLeads
    <2>6. Farthest(input, pos)
      BY <2>2, <2>5, Wrong
    <2> QED
      BY <1>1, <1>2, <1>4, <2>6, FirstReported
  <1> QED
    BY <1>3, <1>4

\* From where a procedure leads to what is done of it.
LEMMA EnterFaithful ==
  ASSUME TypeOK, Faithful, NEW step \in Declaring \cup Stating \cup Naming, NEW names,
         Enter(step, names),
         \A f, y : /\ IsForm(f) /\ IsForm(y)
                   /\ \/ OfDeclaration(step, f, y)
                      \/ OfStatement(step, f, y)
                      \/ OfPrimary(step, f, y)
                   => Leads(input, pos, Steps(names), f, y)
  PROVE  Faithful'
  <1>1. UNCHANGED <<input, pos, messages>>
    BY Zenon DEF Enter
  <1>2. Sound => Sound'
    BY EnteredPlain
  <1> QED
    BY <1>1, <1>2, QuietlyFaithful

LEMMA EnterContinues ==
  ASSUME TypeOK, Faithful, NEW step, NEW names, Enter(step, names),
         \A a, b : Stage(step, a, b) /\ IsForm(a.form) /\ Here(0) \notin a.bar
                     => Continues(input, pos, Here(0), Steps(names), a, b)
  PROVE  Faithful'
  <1>1. UNCHANGED <<input, pos, messages>>
    BY Zenon DEF Enter
  <1>2. Sound => Sound'
    BY Entered
  <1> QED
    BY <1>1, <1>2, QuietlyFaithful

LEMMA HoldFaithful ==
  ASSUME TypeOK, Faithful, NEW step \in Stating, NEW before, NEW construction, NEW after,
         Hold(step, before, construction, after),
         \A f, y, c : IsForm(f) /\ IsForm(y) /\ OfStatement(step, f, y) /\ c.do = construction
                        => Leads(input, pos, Holding(before, c, after), f, y)
  PROVE  Faithful'
  <1>1. UNCHANGED <<input, pos, messages>>
    BY Zenon DEF Hold
  <1>2. Sound => Sound'
    BY HeldPlain
  <1> QED
    BY <1>1, <1>2, QuietlyFaithful

LEMMA HoldContinues ==
  ASSUME TypeOK, Faithful, NEW step, NEW before, NEW construction, NEW after,
         Hold(step, before, construction, after),
         \A a, b, c :
           Stage(step, a, b) /\ IsForm(a.form) /\ Here(0) \notin a.bar /\ c.do = construction
                        => Continues(input, pos, Here(0), Holding(before, c, after), a, b)
  PROVE  Faithful'
  <1>1. UNCHANGED <<input, pos, messages>>
    BY Zenon DEF Hold
  <1>2. Sound => Sound'
    BY Held
  <1> QED
    BY <1>1, <1>2, QuietlyFaithful

LEMMA DeclaredFaithful ==
  ASSUME TypeOK, Faithful, NEW step \in Declaring, NEW names, Enter(step, names),
         \A f, y :
           IsForm(f) /\ IsForm(y) /\ OfDeclaration(step, f, y) =>
             Leads(input, pos, Steps(names), f, y)
  PROVE  Faithful'
  BY OnlyOf, EnterFaithful

LEMMA StatedFaithful ==
  ASSUME TypeOK, Faithful, NEW step \in Stating, NEW names, Enter(step, names),
         \A f, y :
           IsForm(f) /\ IsForm(y) /\ OfStatement(step, f, y) =>
             Leads(input, pos, Steps(names), f, y)
  PROVE  Faithful'
  BY OnlyOf, EnterFaithful

LEMMA NamedFaithful ==
  ASSUME TypeOK, Faithful, NEW step \in Naming, NEW names, Enter(step, names),
         \A f, y :
           IsForm(f) /\ IsForm(y) /\ OfPrimary(step, f, y) =>
             Leads(input, pos, Steps(names), f, y)
  PROVE  Faithful'
  BY OnlyOf, EnterFaithful

LEMMA DeclarationsFaithful ==
  ASSUME TypeOK, Faithful, Declarations
  PROVE  Faithful'
  <1>1. pos \in Nat /\ Ahead(input, pos, Here(0)) /\ Ahead(input, pos + 1, Here(1))
    BY TokensAhead
  <1>2. CASE ParseDeclaration
    <2>1. UNCHANGED <<input, pos, messages>>
      BY <1>2 DEF ParseDeclaration, Enter
    <2> QED
      BY <1>2, <2>1, ParseDeclarationSound, QuietlyFaithful
  <1>3. CASE EndDocument
    BY <1>3, EndDocumentFaithful
  <1>4. CASE AbandonDocument
    BY <1>4, AbandonDocumentFaithful
  <1>5. CASE ParseFunction
    <2>1. \A f, y : IsForm(f) /\ IsForm(y) /\ OfDeclaration("Function", f, y) =>
            Leads(input, pos, Steps(<<"FUNCTION", "IDENT", "OPEN_PAREN", "Params", "CLOSE_PAREN",
                                    "COLON", "TypeName", "FunctionBody">>), f, y)
      BY <1>1, FunctionLeads
    <2> QED
      BY <1>5, <2>1, DeclaredFaithful DEF ParseFunction, Declaring
  <1>6. CASE ParseParams
    <2>1. \A f, y : IsForm(f) /\ IsForm(y) /\ OfDeclaration("Params", f, y) =>
            Leads(input, pos, Steps(IF Here(0) = "CLOSE_PAREN" THEN <<>>
                                  ELSE <<"IDENT", "COLON", "TypeName", "MoreParams">>), f, y)
      BY <1>1, ParamsLead
    <2> QED
      BY <1>6, <2>1, DeclaredFaithful DEF ParseParams, Declaring
  <1>7. CASE MoreParams
    <2>1. \A f, y : IsForm(f) /\ IsForm(y) /\ OfDeclaration("MoreParams", f, y) =>
            Leads(input, pos,
                  Steps(IF Here(0) = "CLOSE_PAREN" THEN <<>> ELSE <<"COMMA", "Params">>), f, y)
      BY <1>1, ParamsLead
    <2> QED
      BY <1>7, <2>1, DeclaredFaithful DEF MoreParams, Declaring
  <1>8. CASE ParseFunctionBody
    <2>1. \A f, y : IsForm(f) /\ IsForm(y) /\ OfDeclaration("FunctionBody", f, y) =>
            Leads(input, pos,
                  Steps(IF Here(0) = "SEMICOLON" THEN <<"SEMICOLON">> ELSE <<"Block">>), f, y)
      BY <1>1, FunctionBodyLeads
    <2> QED
      BY <1>8, <2>1, DeclaredFaithful DEF ParseFunctionBody, Declaring
  <1>9. CASE ParseStructDecl
    <2>1. \A f, y : IsForm(f) /\ IsForm(y) /\ OfDeclaration("StructDecl", f, y) =>
            Leads(input, pos,
                  Steps(<<"STRUCT", "IDENT", "OPEN_BRACE", "Fields", "CLOSE_BRACE">>), f, y)
      BY <1>1, StructDeclLeads
    <2> QED
      BY <1>9, <2>1, DeclaredFaithful DEF ParseStructDecl, Declaring
  <1>10. CASE ParseFields
    <2>1. \A f, y : IsForm(f) /\ IsForm(y) /\ OfDeclaration("Fields", f, y) =>
            Leads(input, pos, Steps(IF Here(0) = "CLOSE_BRACE" THEN <<>>
                                  ELSE <<"IDENT", "COLON", "TypeName", "SEMICOLON", "Fields">>), f, y)
      BY <1>1, FieldsLead
    <2> QED
      BY <1>10, <2>1, DeclaredFaithful DEF ParseFields, Declaring
  <1>11. CASE ParseImport
    <2>1. \A f, y : IsForm(f) /\ IsForm(y) /\ OfDeclaration("Import", f, y) =>
            Leads(input, pos, Steps(<<"IMPORT", "STRING", "ReadFile">>), f, y)
      BY <1>1, ImportLeads
    <2> QED
      BY <1>11, <2>1, DeclaredFaithful DEF ParseImport, Declaring
  <1>12. CASE ParseTypeName
    <2>1. \A f, y : IsForm(f) /\ IsForm(y) /\ OfDeclaration("TypeName", f, y) =>
            Leads(input, pos, Steps(<<"IDENT", "Stars">>), f, y)
      BY <1>1, TypeLeads
    <2> QED
      BY <1>12, <2>1, DeclaredFaithful DEF ParseTypeName, Declaring
  <1>13. CASE ParseStars
    <2>1. \A f, y : IsForm(f) /\ IsForm(y) /\ OfDeclaration("Stars", f, y) =>
            Leads(input, pos, Steps(IF Here(0) = "MUL" THEN <<"MUL", "Stars">> ELSE <<>>), f, y)
      BY <1>1, TypeLeads
    <2> QED
      BY <1>13, <2>1, DeclaredFaithful DEF ParseStars, Declaring
  <1>14. CASE ReadFile
    BY <1>14, MakeFaithful DEF ReadFile
  <1> QED
    BY <1>2, <1>3, <1>4, <1>5, <1>6, <1>7, <1>8, <1>9, <1>10, <1>11, <1>12, <1>13, <1>14
    DEF Declarations

LEMMA ParseStatementFaithful ==
  ASSUME TypeOK, Faithful, ParseStatement
  PROVE  Faithful'
  <1>1. pos \in Nat /\ Ahead(input, pos, Here(0)) /\ Ahead(input, pos + 1, Here(1))
    BY TokensAhead
  <1>2. PICK step : step = CASE Here(0) = "RETURN" -> "ReturnStatement"
                             [] Here(0) = "IF"     -> "IfStatement"
                             [] Here(0) = "LET"    -> "LetStatement"
                             [] Here(0) = "WHILE"  -> "WhileStatement"
                             [] Here(0) = "FOR"    -> "ForStatement"
                             [] OTHER              -> "Expression"
    OBVIOUS
  <1>3. Enter("Statement", <<step>>)
    BY <1>2, Zenon DEF ParseStatement
  <1>4. /\ Here(0) = "RETURN" => step = "ReturnStatement"
        /\ Here(0) = "IF" => step = "IfStatement"
        /\ Here(0) = "LET" => step = "LetStatement"
        /\ Here(0) = "WHILE" => step = "WhileStatement"
        /\ Here(0) = "FOR" => step = "ForStatement"
        /\ Here(0) \notin {"RETURN", "IF", "LET", "WHILE", "FOR"} => step = "Expression"
    BY <1>2
  <1>5. ASSUME NEW f, NEW y, IsForm(y), OfStatement("Statement", f, y)
        PROVE  Leads(input, pos, Steps(<<step>>), f, y)
    BY <1>1, <1>4, <1>5, StatementLeads
  <1> QED
    BY <1>3, <1>5, StatedFaithful DEF Stating

LEMMA ParseIfRestFaithful ==
  ASSUME TypeOK, Faithful, ParseIfRest
  PROVE  Faithful'
  <1>1. pos \in Nat /\ Ahead(input, pos, Here(0)) /\ Ahead(input, pos + 1, Here(1))
    BY TokensAhead
  <1>2. PICK names : names = CASE Here(0) = "ELSE" /\ Here(1) = "IF" -> <<"ELSE", "IfStatement">>
                               [] Here(0) = "ELSE" /\ Here(1) # "IF" -> <<"ELSE", "Block", "MakePlain">>
                               [] OTHER                              -> <<"MakePlain">>
    OBVIOUS
  <1>3. Enter("IfRest", names)
    BY <1>2, Zenon DEF ParseIfRest
  <1>4. /\ Here(0) = "ELSE" /\ Here(1) = "IF" => names = <<"ELSE", "IfStatement">>
        /\ Here(0) = "ELSE" /\ Here(1) # "IF" => names = <<"ELSE", "Block", "MakePlain">>
        /\ Here(0) # "ELSE" => names = <<"MakePlain">>
    BY <1>2
  <1> HIDE <1>2
  <1>5. ASSUME NEW f, NEW y, IsForm(y), OfStatement("IfRest", f, y)
        PROVE  Leads(input, pos, Steps(names), f, y)
    <2>1. /\ Here(0) = "ELSE" /\ Here(1) = "IF" =>
               Leads(input, pos, Steps(<<"ELSE", "IfStatement">>), f, y)
          /\ Here(0) = "ELSE" /\ Here(1) # "IF" =>
               Leads(input, pos, Steps(<<"ELSE", "Block", "MakePlain">>), f, y)
          /\ Here(0) # "ELSE" => Leads(input, pos, Steps(<<"MakePlain">>), f, y)
      BY <1>1, <1>5, IfLeads
    <2> QED
      BY <1>4, <2>1
  <1> QED
    BY <1>3, <1>5, StatedFaithful DEF Stating

LEMMA LoopsFaithful ==
  ASSUME TypeOK, Faithful, ParseWhileStatement \/ ParseForStatement
  PROVE  Faithful'
  <1>1. pos \in Nat
    BY TokensAhead
  <1>2. CASE Enter("WhileStatement", <<"WHILE", "OPEN_PAREN", "Expression", "WhileCond">>)
    <2>1. \A f, y : IsForm(f) /\ IsForm(y) /\ OfStatement("WhileStatement", f, y) =>
            Leads(input, pos, Steps(<<"WHILE", "OPEN_PAREN", "Expression", "WhileCond">>), f, y)
      <3>1. PICK c : c = Undone("MakeLoop")
        OBVIOUS
      <3>2. c.do = "MakeLoop"
        BY <3>1, UndoneIs
      <3> QED
        BY <1>1, <3>2, WhileLeads
    <2> QED
      BY <1>2, <2>1, StatedFaithful DEF Stating
  <1>3. CASE Hold("WhileCond", <<"CLOSE_PAREN", "Block">>, "MakeLoop", <<>>)
    <2>1. \A f, y, c :
            IsForm(f) /\ IsForm(y) /\ OfStatement("WhileCond", f, y) /\ c.do = "MakeLoop" =>
            Leads(input, pos, Holding(<<"CLOSE_PAREN", "Block">>, c, <<>>), f, y)
      BY <1>1, WhileLeads
    <2> QED
      BY <1>3, <2>1, HoldFaithful DEF Stating
  <1>4. CASE Enter("ForStatement", <<"FOR", "OPEN_PAREN", "Statement", "Keep", "SEMICOLON",
                                     "Expression", "ForCond">>)
    <2>1. \A f, y : IsForm(f) /\ IsForm(y) /\ OfStatement("ForStatement", f, y) =>
            Leads(input, pos, Steps(<<"FOR", "OPEN_PAREN", "Statement", "Keep", "SEMICOLON",
                                      "Expression", "ForCond">>), f, y)
      <3>1. PICK c : c = Undone("MakeLoop")
        OBVIOUS
      <3>2. c.do = "MakeLoop"
        BY <3>1, UndoneIs
      <3> QED
        BY <1>1, <3>2, ForLeads
    <2> QED
      BY <1>4, <2>1, StatedFaithful DEF Stating
  <1>5. CASE Hold("ForCond", <<"SEMICOLON", "Expression", "Keep", "CLOSE_PAREN", "Block">>,
                  "MakeLoop", <<>>)
    <2>1. \A f, y, c :
            IsForm(f) /\ IsForm(y) /\ OfStatement("ForCond", f, y) /\ c.do = "MakeLoop" =>
            Leads(input, pos,
                  Holding(<<"SEMICOLON", "Expression", "Keep", "CLOSE_PAREN", "Block">>, c, <<>>),
                  f, y)
      BY <1>1, ForLeads
    <2> QED
      BY <1>5, <2>1, HoldFaithful DEF Stating
  <1> QED
    BY <1>2, <1>3, <1>4, <1>5 DEF ParseWhileStatement, ParseForStatement

LEMMA StatementsFaithful ==
  ASSUME TypeOK, Faithful, Statements
  PROVE  Faithful'
  <1>1. pos \in Nat /\ Ahead(input, pos, Here(0)) /\ Ahead(input, pos + 1, Here(1))
    BY TokensAhead
  <1>2. CASE ParseBlock
    <2>1. \A f, y : IsForm(f) /\ IsForm(y) /\ OfStatement("Block", f, y) =>
            Leads(input, pos, Steps(<<"OPEN_BRACE", "Statements", "CLOSE_BRACE">>), f, y)
      BY <1>1, BlockLeads
    <2> QED
      BY <1>2, <2>1, StatedFaithful DEF ParseBlock, Stating
  <1>3. CASE ParseStatements
    <2>1. \A f, y : IsForm(f) /\ IsForm(y) /\ OfStatement("Statements", f, y) =>
            Leads(input, pos, Steps(IF Here(0) = "CLOSE_BRACE" THEN <<>>
                                  ELSE <<"Statement", "Keep", "MoreStatements">>), f, y)
      BY <1>1, StatementsLead
    <2> QED
      BY <1>3, <2>1, StatedFaithful DEF ParseStatements, Stating
  <1>4. CASE MoreStatements
    <2>1. \A f, y : IsForm(f) /\ IsForm(y) /\ OfStatement("MoreStatements", f, y) =>
            Leads(input, pos, Steps(IF Here(0) = "SEMICOLON" THEN <<"SEMICOLON", "Statements">>
                                                           ELSE <<"Statements">>), f, y)
      BY <1>1, StatementsLead
    <2> QED
      BY <1>4, <2>1, StatedFaithful DEF MoreStatements, Stating
  <1>5. CASE ParseReturnStatement
    <2>1. \A f, y : IsForm(f) /\ IsForm(y) /\ OfStatement("ReturnStatement", f, y) =>
            Leads(input, pos, Steps(<<"RETURN", "ReturnValue">>), f, y)
      BY <1>1, ReturnLeads
    <2> QED
      BY <1>5, <2>1, StatedFaithful DEF ParseReturnStatement, Stating
  <1>6. CASE ParseReturnValue
    <2>1. \A f, y : IsForm(f) /\ IsForm(y) /\ OfStatement("ReturnValue", f, y) =>
            Leads(input, pos, Steps(IF Here(0) = "SEMICOLON" THEN <<"MakePlain">>
                                                           ELSE <<"Expression", "MakePlain">>), f, y)
      BY <1>1, ReturnLeads
    <2> QED
      BY <1>6, <2>1, StatedFaithful DEF ParseReturnValue, Stating
  <1>7. CASE ParseIfStatement
    <2>1. \A f, y : IsForm(f) /\ IsForm(y) /\ OfStatement("IfStatement", f, y) =>
            Leads(input, pos, Steps(<<"IF", "OPEN_PAREN", "Expression", "Keep", "CLOSE_PAREN",
                                    "Block", "IfRest">>), f, y)
      BY <1>1, IfLeads
    <2> QED
      BY <1>7, <2>1, StatedFaithful DEF ParseIfStatement, Stating
  <1>8. CASE ParseLetStatement
    <2>1. \A f, y : IsForm(f) /\ IsForm(y) /\ OfStatement("LetStatement", f, y) =>
            Leads(input, pos, Steps(<<"LET", "IDENT", "COLON", "TypeName", "LetValue">>), f, y)
      BY <1>1, LetLeads
    <2> QED
      BY <1>8, <2>1, StatedFaithful DEF ParseLetStatement, Stating
  <1>9. CASE ParseLetValue
    <2>1. \A f, y : IsForm(f) /\ IsForm(y) /\ OfStatement("LetValue", f, y) =>
            Leads(input, pos,
                  Steps(IF Here(0) = "EQ" THEN <<"EQ", "Expression", "Keep", "MakePlain">>
                                                    ELSE <<"MakePlain">>), f, y)
      BY <1>1, LetLeads
    <2> QED
      BY <1>9, <2>1, StatedFaithful DEF ParseLetValue, Stating
  <1>10. CASE ParseStatement
    BY <1>10, ParseStatementFaithful
  <1>11. CASE ParseIfRest
    BY <1>11, ParseIfRestFaithful
  <1>12. CASE ParseWhileStatement
    BY <1>12, LoopsFaithful
  <1>13. CASE ParseForStatement
    BY <1>13, LoopsFaithful
  <1> QED
    BY <1>2, <1>3, <1>4, <1>5, <1>6, <1>7, <1>8, <1>9, <1>10, <1>11, <1>12, <1>13 DEF Statements

LEMMA ParseExpressionFaithful ==
  ASSUME TypeOK, Faithful, ParseExpression
  PROVE  Faithful'
  <1>1. \A a, b : Stage("Expression", a, b) =>
          Continues(input, pos, Here(0), Steps(<<"Comparison", "MoreAssign">>), a, b)
    <2> SUFFICES ASSUME NEW a, NEW b, Stage("Expression", a, b)
                 PROVE  Continues(input, pos, Here(0), Steps(<<"Comparison", "MoreAssign">>), a,
                                  b)
      OBVIOUS
    <2>1. /\ b = Prospect(b.form, b.bar) /\ pos \in Nat
          /\ \/ a = Plain(Then("expression", b.form)) /\ b.bar = {} /\ AfterExpression(b.form)
             \/ /\ a = Plain(Then("operand", b.form))
                /\ b.bar = Comparisons
                /\ AfterOperand(b.form)
      BY StageIs, TokensAhead DEF OfExpression
    <2>2. CASE a = Plain(Then("expression", b.form)) /\ b.bar = {} /\ AfterExpression(b.form)
      <3>1. b = Plain(b.form)
        BY <2>1, <2>2, EmptyBar
      <3>2. Continues(input, pos, Here(0), Steps(<<"Comparison", "MoreAssign">>),
                      Plain(Then("expression", b.form)), Plain(b.form))
        BY <2>1, <2>2, WholeExpression
      <3> QED
        BY <2>2, <3>1, <3>2
    <2>3. CASE a = Plain(Then("operand", b.form)) /\ b.bar = Comparisons /\ AfterOperand(b.form)
      <3>1. Continues(input, pos, Here(0), Steps(<<"Comparison", "MoreAssign">>),
                      Plain(Then("operand", b.form)), Prospect(b.form, Comparisons))
        BY <2>1, <2>3, LevelsEntered
      <3> QED
        BY <2>1, <2>3, <3>1
    <2> QED
      BY <2>1, <2>2, <2>3
  <1> QED
    BY <1>1, EnterContinues DEF ParseExpression

LEMMA MoreAssignFaithful ==
  ASSUME TypeOK, Faithful, MoreAssign
  PROVE  Faithful'
  <1>1. pos \in Nat /\ Ahead(input, pos, Here(0))
    BY TokensAhead
  <1>2. \A a, b :
          Stage("MoreAssign", a, b) =>
            OfExpression("MoreAssign", a, b) /\ b = Prospect(b.form, b.bar)
    BY StageIs
  <1>3. CASE Here(0) = "EQ"
    <2>1. Hold("MoreAssign", <<Here(0), "Expression">>, "MakeAssign", <<"MoreAssign">>)
      BY <1>3 DEF MoreAssign, CompoundOps
    <2>2. \A a, b, c :
            Stage("MoreAssign", a, b) /\ Here(0) \notin a.bar /\ c.do = "MakeAssign" =>
            Continues(input, pos, Here(0),
                      Holding(<<Here(0), "Expression">>, c, <<"MoreAssign">>), a, b)
      BY <1>1, <1>2, <1>3, AssignContinues
    <2> QED
      BY <2>1, <2>2, HoldContinues
  <1>4. CASE Here(0) \in CompoundOps
    <2>1. Hold("MoreAssign", <<Here(0), "Expression">>, "MakeCompound", <<"MoreAssign">>)
      BY <1>4 DEF MoreAssign, CompoundOps
    <2>2. \A a, b, c :
            Stage("MoreAssign", a, b) /\ Here(0) \notin a.bar /\ c.do = "MakeCompound" =>
            Continues(input, pos, Here(0),
                      Holding(<<Here(0), "Expression">>, c, <<"MoreAssign">>), a, b)
      BY <1>1, <1>2, <1>4, AssignContinues
    <2> QED
      BY <2>1, <2>2, HoldContinues
  <1>5. CASE Here(0) \notin CompoundOps \cup {"EQ"}
    <2>1. Enter("MoreAssign", <<>>)
      BY <1>5 DEF MoreAssign
    <2>2. \A a, b : Stage("MoreAssign", a, b) /\ Here(0) \notin a.bar =>
            Continues(input, pos, Here(0), Steps(<<>>), a, b)
      BY <1>1, <1>2, <1>5, AssignOver
    <2> QED
      BY <2>1, <2>2, EnterContinues
  <1> QED
    BY <1>3, <1>4, <1>5

LEMMA MoreBinaryFaithful ==
  ASSUME TypeOK, Faithful, NEW loop, NEW operators, NEW operand,
         MoreBinary(loop, operators, operand),
         \A a, b, c : Stage(loop, a, b) /\ Here(0) \notin a.bar /\ c.do = "MakeBinary" =>
           /\ Here(0) \in operators =>
                Continues(input, pos, Here(0), Holding(<<Here(0), operand>>, c, <<loop>>), a, b)
           /\ Here(0) \notin operators => Continues(input, pos, Here(0), Steps(<<>>), a, b)
  PROVE  Faithful'
  <1>1. CASE Here(0) \in operators
    <2>1. Hold(loop, <<Here(0), operand>>, "MakeBinary", <<loop>>)
      BY <1>1 DEF MoreBinary
    <2> QED
      BY <1>1, <2>1, HoldContinues
  <1>2. CASE Here(0) \notin operators
    <2>1. Enter(loop, <<>>)
      BY <1>2 DEF MoreBinary
    <2>2. PICK c : c = Undone("MakeBinary")
      OBVIOUS
    <2>3. c.do = "MakeBinary"
      BY <2>2, UndoneIs
    <2>4. \A a, b : Stage(loop, a, b) /\ Here(0) \notin a.bar =>
            Continues(input, pos, Here(0), Steps(<<>>), a, b)
      BY <1>2, <2>3
    <2> QED
      BY <2>1, <2>4, EnterContinues
  <1> QED
    BY <1>1, <1>2

LEMMA LevelIs ==
  ASSUME NEW p \in Operating, NEW a, NEW b, Stage(p, a, b)
  PROVE  /\ OfBinary(p, a, b) /\ AfterOperand(b.form) /\ b = Prospect(b.form, b.bar)
         /\ Prospect(b.form, Terms).bar = Terms /\ Prospect(b.form, Factors).bar = Factors
  BY StageIs, ProspectIs

LEMMA LevelsFaithful ==
  ASSUME TypeOK, Faithful, ParseComparison \/ ParseAddSub \/ ParseMulDiv
  PROVE  Faithful'
  <1>1. pos \in Nat /\ Ahead(input, pos, Here(0))
    BY TokensAhead
  <1>2. CASE Enter("Comparison", <<"AddSub", "MoreComparison">>)
    <2>1. ASSUME NEW a, NEW b, Stage("Comparison", a, b)
          PROVE  Continues(input, pos, Here(0), Steps(<<"AddSub", "MoreComparison">>), a, b)
      <3>1. /\ a = Plain(Then("operand", b.form))
            /\ b = Prospect(b.form, Comparisons)
            /\ AfterOperand(b.form)
        BY <2>1, LevelIs DEF Operating, OfBinary
      <3>2. Continues(input, pos, Here(0), Steps(<<"AddSub", "MoreComparison">>),
                      Plain(Then("operand", b.form)), Prospect(b.form, Comparisons))
        BY <1>1, <3>1, LevelsEntered
      <3> QED
        BY <3>1, <3>2
    <2> QED
      BY <1>2, <2>1, EnterContinues
  <1>3. CASE Enter("AddSub", <<"MulDiv", "MoreAddSub">>)
    <2>1. ASSUME NEW a, NEW b, Stage("AddSub", a, b)
          PROVE  Continues(input, pos, Here(0), Steps(<<"MulDiv", "MoreAddSub">>), a, b)
      <3>1. /\ a = Plain(Then("operand", b.form))
            /\ b = Prospect(b.form, Terms)
            /\ AfterOperand(b.form)
        BY <2>1, LevelIs DEF Operating, OfBinary
      <3>2. Continues(input, pos, Here(0), Steps(<<"MulDiv", "MoreAddSub">>),
                      Plain(Then("operand", b.form)), Prospect(b.form, Terms))
        BY <1>1, <3>1, LevelsEntered
      <3> QED
        BY <3>1, <3>2
    <2> QED
      BY <1>3, <2>1, EnterContinues
  <1>4. CASE Enter("MulDiv", <<"Unary", "MoreMulDiv">>)
    <2>1. ASSUME NEW a, NEW b, Stage("MulDiv", a, b)
          PROVE  Continues(input, pos, Here(0), Steps(<<"Unary", "MoreMulDiv">>), a, b)
      <3>1. /\ a = Plain(Then("operand", b.form))
            /\ b = Prospect(b.form, Factors)
            /\ AfterOperand(b.form)
        BY <2>1, LevelIs DEF Operating, OfBinary
      <3>2. Continues(input, pos, Here(0), Steps(<<"Unary", "MoreMulDiv">>),
                      Plain(Then("operand", b.form)), Prospect(b.form, Factors))
        BY <1>1, <3>1, LevelsEntered
      <3> QED
        BY <3>1, <3>2
    <2> QED
      BY <1>4, <2>1, EnterContinues
  <1>5. CASE MoreBinary("MoreComparison", ComparisonOps, "AddSub")
    <2>1. ASSUME NEW a, NEW b, NEW c, Stage("MoreComparison", a, b), Here(0) \notin a.bar,
                 c.do = "MakeBinary"
          PROVE  /\ Here(0) \in ComparisonOps =>
                      Continues(input, pos, Here(0),
                                Holding(<<Here(0), "AddSub">>, c, <<"MoreComparison">>), a, b)
                 /\ Here(0) \notin ComparisonOps =>
                      Continues(input, pos, Here(0), Steps(<<>>), a, b)
      <3>1. /\ a = Prospect(b.form, Terms)
            /\ b = Prospect(b.form, Comparisons)
            /\ AfterOperand(b.form)
            /\ Here(0) \notin Terms
        BY <2>1, LevelIs DEF Operating, OfBinary
      <3>2. PICK y : y = b.form
        OBVIOUS
      <3>3. /\ Here(0) \in ComparisonOps =>
                 Continues(input, pos, Here(0),
                           Holding(<<Here(0), "AddSub">>, c, <<"MoreComparison">>),
                           Prospect(y, Terms), Prospect(y, Comparisons))
            /\ Here(0) \notin ComparisonOps =>
                 Continues(input, pos, Here(0), Steps(<<>>), Prospect(y, Terms),
                           Prospect(y, Comparisons))
        BY <1>1, <2>1, <3>1, <3>2, LevelsContinue
      <3> QED
        BY <3>1, <3>2, <3>3
    <2> QED
      BY <1>5, <2>1, MoreBinaryFaithful
  <1>6. CASE MoreBinary("MoreAddSub", AddSubOps, "MulDiv")
    <2>1. ASSUME NEW a, NEW b, NEW c, Stage("MoreAddSub", a, b), Here(0) \notin a.bar,
                 c.do = "MakeBinary"
          PROVE  /\ Here(0) \in AddSubOps =>
                      Continues(input, pos, Here(0),
                                Holding(<<Here(0), "MulDiv">>, c, <<"MoreAddSub">>), a, b)
                 /\ Here(0) \notin AddSubOps =>
                      Continues(input, pos, Here(0), Steps(<<>>), a, b)
      <3>1. /\ a = Prospect(b.form, Factors)
            /\ b = Prospect(b.form, Terms)
            /\ AfterOperand(b.form)
            /\ Here(0) \notin Factors
        BY <2>1, LevelIs DEF Operating, OfBinary
      <3>2. PICK y : y = b.form
        OBVIOUS
      <3>3. /\ Here(0) \in AddSubOps =>
                 Continues(input, pos, Here(0),
                           Holding(<<Here(0), "MulDiv">>, c, <<"MoreAddSub">>),
                           Prospect(y, Factors), Prospect(y, Terms))
            /\ Here(0) \notin AddSubOps =>
                 Continues(input, pos, Here(0), Steps(<<>>), Prospect(y, Factors),
                           Prospect(y, Terms))
        BY <1>1, <2>1, <3>1, <3>2, LevelsContinue
      <3> QED
        BY <3>1, <3>2, <3>3
    <2> QED
      BY <1>6, <2>1, MoreBinaryFaithful
  <1>7. CASE MoreBinary("MoreMulDiv", MulDivOps, "Unary")
    <2>1. ASSUME NEW a, NEW b, NEW c, Stage("MoreMulDiv", a, b), Here(0) \notin a.bar,
                 c.do = "MakeBinary"
          PROVE  /\ Here(0) \in MulDivOps =>
                      Continues(input, pos, Here(0),
                                Holding(<<Here(0), "Unary">>, c, <<"MoreMulDiv">>), a, b)
                 /\ Here(0) \notin MulDivOps =>
                      Continues(input, pos, Here(0), Steps(<<>>), a, b)
      <3>1. a = Plain(b.form) /\ b = Prospect(b.form, Factors) /\ AfterOperand(b.form)
        BY <2>1, LevelIs DEF Operating, OfBinary
      <3>2. PICK y : y = b.form
        OBVIOUS
      <3>3. /\ Here(0) \in MulDivOps =>
                 Continues(input, pos, Here(0),
                           Holding(<<Here(0), "Unary">>, c, <<"MoreMulDiv">>),
                           Plain(y), Prospect(y, Factors))
            /\ Here(0) \notin MulDivOps =>
                 Continues(input, pos, Here(0), Steps(<<>>), Plain(y), Prospect(y, Factors))
        BY <1>1, <2>1, <3>1, <3>2, LevelsContinue
      <3> QED
        BY <3>1, <3>2, <3>3
    <2> QED
      BY <1>7, <2>1, MoreBinaryFaithful
  <1> QED
    BY <1>2, <1>3, <1>4, <1>5, <1>6, <1>7 DEF ParseComparison, ParseAddSub, ParseMulDiv

LEMMA ParseDotOpFaithful ==
  ASSUME TypeOK, Faithful, ParseDotOp
  PROVE  Faithful'
  <1>1. pos \in Nat /\ Ahead(input, pos, Here(0)) /\ Ahead(input, pos + 1, Here(1))
    BY TokensAhead
  <1>2. CASE Enter("DotOp", <<"Primary", "MoreDot">>)
    <2>1. \A f, y : IsForm(f) /\ IsForm(y) /\ OfPrimary("DotOp", f, y) =>
            Leads(input, pos, Steps(<<"Primary", "MoreDot">>), f, y)
      BY <1>1, UnaryLeads
    <2> QED
      BY <1>2, <2>1, NamedFaithful DEF Naming
  <1>3. CASE Enter("MoreDot", IF Here(0) \in {"DOT", "SUB_GT"}
                              THEN <<Here(0), "IDENT", "MakeAround", "MoreDot">> ELSE <<>>)
    <2>1. \A f, y : IsForm(f) /\ IsForm(y) /\ OfPrimary("MoreDot", f, y) =>
            Leads(input, pos, Steps(IF Here(0) \in {"DOT", "SUB_GT"}
                                    THEN <<Here(0), "IDENT", "MakeAround", "MoreDot">>
                                    ELSE <<>>), f, y)
      BY <1>1, UnaryLeads
    <2> QED
      BY <1>3, <2>1, NamedFaithful DEF Naming
  <1> QED
    BY <1>2, <1>3 DEF ParseDotOp

LEMMA ParsePrimaryFaithful ==
  ASSUME TypeOK, Faithful, ParsePrimary
  PROVE  Faithful'
  <1>1. pos \in Nat /\ Ahead(input, pos, Here(0)) /\ Ahead(input, pos + 1, Here(1))
    BY TokensAhead
  <1>2. PICK step : step = CASE Here(1) = "OPEN_PAREN"  -> "FunctionCall"
                             [] Here(1) = "OPEN_SQUARE" -> "ArrayAccess"
                             [] Here(1) = "OPEN_BRACE"  -> "StructInit"
                             [] OTHER                   -> "Variable"
    OBVIOUS
  <1>3. PICK names : names = CASE Here(0) = "IDENT" -> <<step>>
                               [] Here(0) = "OPEN_PAREN" -> <<"OPEN_PAREN", "Expression", "CLOSE_PAREN">>
                               [] Here(0) \in Literals -> <<Here(0), "MakePlain">>
    OBVIOUS
  <1>4. Enter("Primary", names) /\ Here(0) \in {"IDENT", "OPEN_PAREN"} \cup Literals
    BY <1>2, <1>3, Zenon DEF ParsePrimary
  <1>5. /\ Here(1) = "OPEN_PAREN" => step = "FunctionCall"
        /\ Here(1) = "OPEN_SQUARE" => step = "ArrayAccess"
        /\ Here(1) = "OPEN_BRACE" => step = "StructInit"
        /\ Here(1) \notin {"OPEN_PAREN", "OPEN_SQUARE", "OPEN_BRACE"} => step = "Variable"
    BY <1>2
  <1>6. /\ Here(0) = "IDENT" => names = <<step>>
        /\ Here(0) = "OPEN_PAREN" => names = <<"OPEN_PAREN", "Expression", "CLOSE_PAREN">>
        /\ Here(0) \in Literals => names = <<Here(0), "MakePlain">>
    BY <1>3 DEF Literals
  <1>7. ASSUME NEW f, NEW y, IsForm(y), OfPrimary("Primary", f, y)
        PROVE  Leads(input, pos, Steps(names), f, y)
    <2>1. CASE Here(0) = "IDENT"
      <3>1. Leads(input, pos, Steps(<<step>>), f, y)
        BY <1>1, <1>5, <1>7, <2>1, PrimaryLeads
      <3> QED
        BY <1>6, <2>1, <3>1
    <2>2. CASE Here(0) = "OPEN_PAREN"
      <3>1. Leads(input, pos, Steps(<<"OPEN_PAREN", "Expression", "CLOSE_PAREN">>), f, y)
        BY <1>1, <1>7, <2>2, PrimaryLeads
      <3> QED
        BY <1>6, <2>2, <3>1
    <2>3. CASE Here(0) \in Literals
      <3>1. Leads(input, pos, Steps(<<Here(0), "MakePlain">>), f, y)
        BY <1>1, <1>7, <2>3, PrimaryLeads
      <3> QED
        BY <1>6, <2>3, <3>1
    <2> QED
      BY <1>4, <2>1, <2>2, <2>3
  <1> QED
    BY <1>4, <1>7, NamedFaithful DEF Naming

LEMMA ExpressionsFaithful ==
  ASSUME TypeOK, Faithful, Expressions
  PROVE  Faithful'
  <1>1. pos \in Nat /\ Ahead(input, pos, Here(0)) /\ Ahead(input, pos + 1, Here(1))
    BY TokensAhead
  <1>2. CASE ParseUnary
    <2>1. \A f, y : IsForm(f) /\ IsForm(y) /\ OfPrimary("Unary", f, y) =>
            Leads(input, pos,
                  Steps(IF Here(0) \in UnaryOps THEN <<Here(0), "Unary", "MakeAround">>
                                                             ELSE <<"DotOp">>), f, y)
      BY <1>1, UnaryLeads
    <2> QED
      BY <1>2, <2>1, NamedFaithful DEF ParseUnary, Naming
  <1>3. CASE ParseFunctionCall
    <2>1. \A f, y : IsForm(f) /\ IsForm(y) /\ OfPrimary("FunctionCall", f, y) =>
            Leads(input, pos,
                  Steps(<<"IDENT", "OPEN_PAREN", "Arguments", "CLOSE_PAREN", "MakePlain">>), f,
                  y)
      BY <1>1, CallLeads
    <2> QED
      BY <1>3, <2>1, NamedFaithful DEF ParseFunctionCall, Naming
  <1>4. CASE ParseArguments
    <2>1. \A f, y : IsForm(f) /\ IsForm(y) /\ OfPrimary("Arguments", f, y) =>
            Leads(input, pos, Steps(IF Here(0) = "CLOSE_PAREN" THEN <<>>
                                  ELSE <<"Expression", "Keep", "MoreArguments">>), f, y)
      BY <1>1, CallLeads
    <2> QED
      BY <1>4, <2>1, NamedFaithful DEF ParseArguments, Naming
  <1>5. CASE MoreArguments
    <2>1. \A f, y : IsForm(f) /\ IsForm(y) /\ OfPrimary("MoreArguments", f, y) =>
            Leads(input, pos,
                  Steps(IF Here(0) = "CLOSE_PAREN" THEN <<>> ELSE <<"COMMA", "Arguments">>), f,
                  y)
      BY <1>1, CallLeads
    <2> QED
      BY <1>5, <2>1, NamedFaithful DEF MoreArguments, Naming
  <1>6. CASE ParseArrayAccess
    <2>1. \A f, y : IsForm(f) /\ IsForm(y) /\ OfPrimary("ArrayAccess", f, y) =>
            Leads(input, pos, Steps(<<"Variable", "OPEN_SQUARE", "Expression", "CLOSE_SQUARE",
                                    "MakeArrayAccess">>), f, y)
      BY <1>1, AccessLeads
    <2> QED
      BY <1>6, <2>1, NamedFaithful DEF ParseArrayAccess, Naming
  <1>7. CASE ParseVariable
    <2>1. \A f, y : IsForm(f) /\ IsForm(y) /\ OfPrimary("Variable", f, y) =>
            Leads(input, pos, Steps(<<"IDENT", "MakeVariable">>), f, y)
      BY <1>1, VariableLeads
    <2> QED
      BY <1>7, <2>1, NamedFaithful DEF ParseVariable, Naming
  <1>8. CASE ParseStructInit
    <2>1. \A f, y : IsForm(f) /\ IsForm(y) /\ OfPrimary("StructInit", f, y) =>
            Leads(input, pos,
                  Steps(<<"IDENT", "OPEN_BRACE", "Inits", "CLOSE_BRACE", "MakePlain">>), f, y)
      BY <1>1, InitsLead
    <2> QED
      BY <1>8, <2>1, NamedFaithful DEF ParseStructInit, Naming
  <1>9. CASE ParseInits
    <2>1. \A f, y : IsForm(f) /\ IsForm(y) /\ OfPrimary("Inits", f, y) =>
            Leads(input, pos, Steps(IF Here(0) = "CLOSE_BRACE" THEN <<>>
                                  ELSE <<"IDENT", "COLON", "Expression", "COMMA", "Keep", "Inits">>), f, y)
      BY <1>1, InitsLead
    <2> QED
      BY <1>9, <2>1, NamedFaithful DEF ParseInits, Naming
  <1>10. CASE ParseExpression
    BY <1>10, ParseExpressionFaithful
  <1>11. CASE MoreAssign
    BY <1>11, MoreAssignFaithful
  <1>12. CASE ParseComparison \/ ParseAddSub \/ ParseMulDiv
    BY <1>12, LevelsFaithful
  <1>13. CASE ParseDotOp
    BY <1>13, ParseDotOpFaithful
  <1>14. CASE ParsePrimary
    BY <1>14, ParsePrimaryFaithful
  <1>15. CASE MissPrimary
    BY <1>15, MissPrimaryFaithful
  <1> QED
    BY <1>2, <1>3, <1>4, <1>5, <1>6, <1>7, <1>8, <1>9, <1>10, <1>11, <1>12, <1>13, <1>14, <1>15
    DEF Expressions

LEMMA MakingFaithful ==
  ASSUME TypeOK, Faithful, Making
  PROVE  Faithful'
  BY MakeFaithful DEF Making, MakeAssign, MakeCompound, MakeBinary, MakeAround, MakeArrayAccess,
       MakeVariable, MakeLoop, MakePlain, Keep, Constructions

LEMMA StutterFaithful ==
  ASSUME TypeOK, Faithful, UNCHANGED vars
  PROVE  Faithful'
  <1>1. UNCHANGED <<input, pos, work, messages>>
    BY DEF vars
  <1>2. Here(0)' = Here(0)
    BY <1>1, Unmoved
  <1> QED
    BY <1>1, <1>2 DEF Faithful, Sound, Reported

\* Every step of the parser.
LEMMA NextFaithful ==
  ASSUME TypeOK, Faithful, Next
  PROVE  Faithful'
  BY ExpectFaithful, DeclarationsFaithful, StatementsFaithful, ExpressionsFaithful,
     MakingFaithful
  DEF Next

----------------------------------------------------------------------------
(***************************************************************************)
(* The search that comes before the parser.                                *)
(***************************************************************************)
\* What the derivations still in hand can read is all that is still to be read.
Searched ==
  /\ verdict \in Nat /\ CanRead(input, Begun, verdict)
  /\ \A d \in derivations :
       /\ d.read \in Nat /\ d.read <= verdict
       /\ \A j : CanRead(input, d, j) => CanRead(input, Begun, j)
  /\ \A j \in Nat : CanRead(input, Begun, j) =>
       j <= verdict \/ \E d \in derivations : CanRead(input, d, j)

\* The parser begins when the search is over.
Waiting ==
  derivations # {} => /\ pos = 0 /\ messages = {}
                      /\ work = <<Undone("Document")>>

LEMMA OnwardRead ==
  ASSUME NEW s, NEW d, NEW e \in Onward(s, d)
  PROVE  e.read = d.read \/ e.read = d.read + 1
  <1>1. \A f, r : Derivation(f, r).read = r
    BY DerivationIs
  <1>2. PICK first, rest : first = Head(d.form) /\ rest = Tail(d.form)
    OBVIOUS
  <1>3. CASE d.form = <<>>
    BY <1>3 DEF Onward
  <1>4. CASE d.form # <<>> /\ first \in DOMAIN Alternatives
    <2>1. e \in {Derivation(alternative \o rest, d.read) : alternative \in Alternatives[first]}
      BY <1>2, <1>4, Zenon DEF Onward
    <2> QED
      BY <1>1, <2>1
  <1>5. CASE d.form # <<>> /\ first \notin DOMAIN Alternatives
    <2>1. e \in (IF Reads(s, d.read, first) THEN {Derivation(rest, d.read + 1)} ELSE {})
      BY <1>2, <1>5, Zenon DEF Onward
    <2> QED
      BY <1>1, <2>1
  <1> QED
    BY <1>3, <1>4, <1>5

LEMMA SearchBegins == ASSUME DiagnosisInit PROVE Searched /\ Waiting
  <1>1. Begun.read = 0
    BY DerivationIs DEF Begun
  <1>2. CanRead(input, Begun, 0)
    BY <1>1, ReadsHere
  <1>3. Searched
    BY <1>1, <1>2 DEF DiagnosisInit, Searched
  <1> QED
    BY <1>3 DEF DiagnosisInit, Init, Waiting, Undone

\* One step of all derivations loses none of what can be read.
LEMMA SearchContinues == ASSUME Searched, Derive PROVE Searched'
  <1>1. /\ derivations' = UNION {Onward(input, d) : d \in derivations} /\ input' = input
        /\ verdict' = IF \E d \in derivations' : d.read > verdict THEN verdict + 1 ELSE verdict
    BY DEF Derive, vars
  <1>2. verdict \in Nat /\ verdict' \in Nat /\ verdict <= verdict'
    BY <1>1 DEF Searched
  <1>3. ASSUME NEW e \in derivations'
        PROVE  /\ e.read \in Nat /\ e.read <= verdict + 1
               /\ \A j : CanRead(input, e, j) => CanRead(input, Begun, j)
    <2>1. PICK d \in derivations : e \in Onward(input, d)
      BY <1>1
    <2>2. /\ d.read \in Nat /\ d.read <= verdict
          /\ \A j : CanRead(input, d, j) => CanRead(input, Begun, j)
      BY DEF Searched
    <2>3. e.read = d.read \/ e.read = d.read + 1
      BY <2>1, OnwardRead
    <2>4. \A j : CanRead(input, e, j) => CanRead(input, d, j)
      BY <2>1, ReadsLater
    <2> QED
      BY <1>2, <2>2, <2>3, <2>4
  <1>4. \A e \in derivations' : e.read <= verdict'
    BY <1>1, <1>2, <1>3
  <1>5. CanRead(input, Begun, verdict')
    <2>1. CASE \E e \in derivations' : e.read > verdict
      <3>1. PICK e \in derivations' : e.read > verdict
        BY <2>1
      <3>2. e.read = verdict' /\ CanRead(input, e, e.read)
        BY <1>1, <1>2, <1>3, <3>1, ReadsHere
      <3> QED
        BY <1>3, <3>2
    <2>2. CASE ~ \E e \in derivations' : e.read > verdict
      BY <1>1, <2>2 DEF Searched
    <2> QED
      BY <2>1, <2>2
  <1>6. ASSUME NEW j \in Nat, CanRead(input, Begun, j)
        PROVE  j <= verdict' \/ \E e \in derivations' : CanRead(input, e, j)
    <2>1. CASE j <= verdict
      BY <1>2, <2>1
    <2>2. CASE ~ (j <= verdict)
      <3>1. PICK d \in derivations : CanRead(input, d, j)
        BY <1>6, <2>2 DEF Searched
      <3>2. d.read # j
        BY <2>2 DEF Searched
      <3>3. PICK e \in Onward(input, d) : CanRead(input, e, j)
        BY <3>1, <3>2, ReadsOnward
      <3> QED
        BY <1>1, <3>3
    <2> QED
      BY <2>1, <2>2
  <1> QED
    BY <1>1, <1>2, <1>3, <1>4, <1>5, <1>6 DEF Searched

LEMMA SearchKept ==
  ASSUME Searched, Waiting, UNCHANGED <<input, derivations, verdict>>,
         derivations = {} \/ UNCHANGED <<pos, messages, work>>
  PROVE  Searched' /\ Waiting'
  BY DEF Searched, Waiting

LEMMA SearchEnded ==
  ASSUME Searched, derivations = {}
  PROVE  Farthest(input, verdict)
  BY DEF Searched, Farthest

LEMMA FaithfulAtFirst == ASSUME Init PROVE Faithful
  <1>1. pos = 0 /\ messages = {} /\ work = <<Undone("Document")>>
    BY DEF Init, Undone
  <1>2. IsForm(<<>>) /\ Awaits(<<>>, Last)
    BY Nothing, LastIs, FitsEmpty DEF Awaits
  <1> DEFINE a == Plain(Then("document", Last.form))
  <1>3. Awaits(Then(Undone("Document"), <<>>), a)
    <2>1. Stage("Document", a, Last)
      BY LastIs DEF Stage
    <2>2. IsForm(a.form)
      BY LastIs, PlainIs, ThenFacts
    <2> QED
      BY <1>2, <2>1, <2>2, UndoneIs, AwaitsStage
  <1>4. <<Undone("Document")>> = Then(Undone("Document"), <<>>)
    <2>1. PICK f : f = Undone("Document")
      OBVIOUS
    <2>2. <<f>> = Then(f, <<>>)
      BY DEF Then
    <2> QED
      BY <2>1, <2>2
  <1>5. a.form = Then("document", Then("END_OF_FILE", <<>>)) /\ a.bar = {} /\ a # Last
    BY LastIs, PlainIs
  <1>6. Begun = Derivation(a.form, 0)
    <2>1. <<"document", "END_OF_FILE">> = Then("document", Then("END_OF_FILE", <<>>))
      BY DEF Then
    <2> QED
      BY <1>5, <2>1 DEF Begun
  <1>7. Foreseen(input, pos, a.form)
    <2>1. CanRead(input, Begun, 0)
      BY ReadsHere, DerivationIs DEF Begun
    <2> QED
      BY <1>1, <1>6, <2>1 DEF Foreseen, Reach
  <1>8. Sound
    BY <1>1, <1>3, <1>4, <1>5, <1>7 DEF Sound
  <1> QED
    BY <1>1, <1>8 DEF Faithful

LEMMA FarthestIsOne ==
  ASSUME NEW s, NEW p \in Nat, NEW q \in Nat, Farthest(s, p), Farthest(s, q)
  PROVE  p = q
  <1>1. p <= q /\ q <= p
    BY DEF Farthest
  <1> QED
    BY <1>1

\* Once nothing is left to do, the text has been read to its end.
LEMMA ReadToTheEnd ==
  ASSUME TypeOK, Faithful, work = <<>>, messages = {}
  PROVE  CanRead(input, Begun, Len(input) + 1)
  <1>1. PICK a : /\ Awaits(work, a) /\ Foreseen(input, pos, a.form)
                 /\ a = Last => pos = Len(input)
    BY DEF Faithful, Sound
  <1>2. a = Last
    BY <1>1, FitsEmpty DEF Awaits
  <1>3. pos = Len(input) /\ pos \in Nat /\ Foreseen(input, pos, Then("END_OF_FILE", <<>>))
    BY <1>1, <1>2, LastIs, TokensAhead
  <1>4. "END_OF_FILE" \notin DOMAIN Alternatives
    BY TokensAre DEF TheTokens
  <1>5. Reads(input, pos, "END_OF_FILE")
    BY <1>3 DEF Reads
  <1>6. Foreseen(input, pos + 1, <<>>)
    BY <1>3, <1>4, <1>5, Nothing, ForeseenRead
  <1> QED
    BY <1>3, <1>6 DEF Foreseen

\* Once it has ended, the search has found the place that the invariant is about.
LEMMA FaithfulDiagnosed ==
  ASSUME TypeOK, Faithful, Searched, Waiting
  PROVE  Diagnosed
  <1>1. ASSUME messages # {}
        PROVE  /\ \E m \in messages : m.at = verdict
               /\ \A m \in messages : m.at >= verdict
    <2>1. verdict \in Nat /\ Farthest(input, verdict)
      BY <1>1, SearchEnded DEF Waiting, Searched
    <2>2. PICK p \in Nat : /\ Farthest(input, p)
                           /\ \E m \in messages : m.at = p
                           /\ \A m \in messages : m.at >= p
      BY <1>1 DEF Faithful, Reported
    <2>3. p = verdict
      BY <2>1, <2>2, FarthestIsOne
    <2> QED
      BY <2>2, <2>3
  <1>2. ASSUME work = <<>>, messages = {} PROVE verdict > Len(input)
    <2>1. derivations = {}
      BY <1>2 DEF Waiting
    <2>2. verdict \in Nat /\ Farthest(input, verdict)
      BY <2>1, SearchEnded DEF Searched
    <2>3. CanRead(input, Begun, Len(input) + 1) /\ Len(input) \in Nat
      BY <1>2, ReadToTheEnd, TokensAhead
    <2>4. Len(input) + 1 <= verdict
      BY <2>2, <2>3 DEF Farthest
    <2> QED
      BY <2>2, <2>3, <2>4
  <1> QED
    BY <1>1, <1>2 DEF Diagnosed

\* No step changes the text.
LEMMA InputStays == ASSUME Next PROVE UNCHANGED input
  <1>1. \A step, names : Enter(step, names) => UNCHANGED input
    BY DEF Enter
  <1>2. \A step, before, construction, after :
          Hold(step, before, construction, after) => UNCHANGED input
    BY DEF Hold
  <1>3. \A construction, fatal, gaps, kind :
          Make(construction, fatal, gaps, kind) => UNCHANGED input
    BY DEF Make
  <1>4. \A symbol : Expect(symbol) => UNCHANGED input
    BY DEF Expect
  <1>5. EndDocument \/ AbandonDocument \/ MissPrimary => UNCHANGED input
    BY DEF EndDocument, AbandonDocument, MissPrimary
  <1>6. Declarations => UNCHANGED input
    BY <1>1, <1>3, <1>5, Zenon
    DEF Declarations, ParseDeclaration, ParseFunction, ParseParams, MoreParams,
        ParseFunctionBody, ParseStructDecl, ParseFields, ParseImport, ReadFile,
        ParseTypeName, ParseStars
  <1>7. Statements => UNCHANGED input
    BY <1>1, <1>2, Zenon
    DEF Statements, ParseBlock, ParseStatements, MoreStatements, ParseStatement,
        ParseReturnStatement, ParseReturnValue, ParseIfStatement, ParseIfRest,
        ParseLetStatement, ParseLetValue, ParseWhileStatement, ParseForStatement
  <1>8. \A loop, operators, operand :
          MoreBinary(loop, operators, operand) => UNCHANGED input
    BY <1>1, <1>2 DEF MoreBinary
  <1>9. MoreAssign => UNCHANGED input
      BY <1>1, <1>2 DEF MoreAssign
  <1>10. Expressions => UNCHANGED input
    BY <1>1, <1>5, <1>8, <1>9, Zenon
    DEF Expressions, ParseExpression, ParseComparison, ParseAddSub, ParseMulDiv,
        ParseUnary, ParseDotOp, ParsePrimary, ParseFunctionCall, ParseArguments,
        MoreArguments, ParseArrayAccess, ParseVariable, ParseStructInit, ParseInits
  <1>11. Making => UNCHANGED input
    BY <1>3, Zenon
    DEF Making, MakeAssign, MakeCompound, MakeBinary, MakeAround, MakeArrayAccess,
        MakeVariable, MakeLoop, MakePlain, Keep
  <1> QED
    BY <1>4, <1>6, <1>7, <1>10, <1>11 DEF Next

\* The invariant of the parser, whether or not the derivations are searched.
THEOREM ParserIsFaithful == Spec => [](IInv /\ Faithful)
  <1>1. Init => IInv /\ Faithful
    BY InitIsCalm, FaithfulAtFirst
  <1>2. IInv /\ Faithful /\ [Next]_vars => (IInv /\ Faithful)'
    BY NextKeeps, StutterKeeps, NextFaithful, StutterFaithful DEF IInv
  <1> QED
    BY <1>1, <1>2, PTL DEF Spec

\* What the errors say, without the search: Farthest and CanRead are the definitions above.
Accurate ==
  /\ messages # {} =>
       \E p \in Nat : /\ Farthest(input, p)
                      /\ \E m \in messages : m.at = p
                      /\ \A m \in messages : m.at >= p
  /\ work = <<>> /\ messages = {} => CanRead(input, Begun, Len(input) + 1)

(***************************************************************************)
(* For every text, and whether or not the derivations of it are searched:  *)
(* the first error that expect() or fail() reports is at the last place    *)
(* that any derivation can read to, and a parse that ends without an error *)
(* has read a program, with the end of the text behind it.                 *)
(***************************************************************************)
THEOREM ErrorsAreAccurate == Spec => []Accurate
  <1>1. IInv /\ Faithful => Accurate
    BY ReadToTheEnd DEF IInv, Faithful, Reported, Accurate
  <1> QED
    BY <1>1, ParserIsFaithful, PTL

----------------------------------------------------------------------------
(***************************************************************************)
(* The invariant of the search and the parser.                             *)
(***************************************************************************)
DiagnosisInv == IInv /\ Faithful /\ Searched /\ Waiting

LEMMA DiagnosisBegins == ASSUME DiagnosisInit PROVE DiagnosisInv
  <1>1. IInv
    BY InitIsCalm DEF DiagnosisInit
  <1>2. Faithful
    BY FaithfulAtFirst DEF DiagnosisInit
  <1> QED
    BY <1>1, <1>2, SearchBegins DEF DiagnosisInv

LEMMA DeriveKeeps == ASSUME DiagnosisInv, Derive PROVE DiagnosisInv'
  <1>1. UNCHANGED vars /\ derivations # {}
    BY DEF Derive
  <1>2. IInv' /\ Faithful'
    BY <1>1, StutterKeeps, StutterFaithful DEF DiagnosisInv, IInv
  <1>3. Searched'
    BY SearchContinues DEF DiagnosisInv
  <1>4. Waiting'
    BY <1>1 DEF DiagnosisInv, Waiting, vars
  <1> QED
    BY <1>2, <1>3, <1>4 DEF DiagnosisInv

LEMMA ParseKeeps == ASSUME DiagnosisInv, Parse PROVE DiagnosisInv'
  <1>1. derivations = {} /\ Next /\ UNCHANGED <<derivations, verdict>>
    BY DEF Parse
  <1>2. IInv' /\ Faithful'
    BY <1>1, NextKeeps, NextFaithful DEF DiagnosisInv, IInv
  <1>3. Searched' /\ Waiting'
    BY <1>1, InputStays, SearchKept DEF DiagnosisInv
  <1> QED
    BY <1>2, <1>3 DEF DiagnosisInv

LEMMA DiagnosisStays == ASSUME DiagnosisInv, UNCHANGED allVars PROVE DiagnosisInv'
  <1>1. UNCHANGED vars /\ UNCHANGED <<input, pos, work, messages, derivations, verdict>>
    BY DEF allVars, vars
  <1>2. IInv' /\ Faithful'
    BY <1>1, StutterKeeps, StutterFaithful DEF DiagnosisInv, IInv
  <1>3. Searched' /\ Waiting'
    BY <1>1, SearchKept DEF DiagnosisInv
  <1> QED
    BY <1>2, <1>3 DEF DiagnosisInv

\* What no step of the search or of the parser breaks.
THEOREM DiagnosisInvariance == DiagnosisSpec => []DiagnosisInv
  <1>1. DiagnosisInit => DiagnosisInv
    BY DiagnosisBegins
  <1>2. DiagnosisInv /\ [DiagnosisNext]_allVars => DiagnosisInv'
    BY DeriveKeeps, ParseKeeps, DiagnosisStays DEF DiagnosisNext
  <1> QED
    BY <1>1, <1>2, PTL DEF DiagnosisSpec

(***************************************************************************)
(* For every text: the first error that the parser reports is at the first *)
(* token that no program has after the tokens before it, and a parse that  *)
(* ends without an error has read a program to its end.                    *)
(***************************************************************************)
THEOREM FirstErrorIsDiagnosed == DiagnosisSpec => []Diagnosed
  <1>1. DiagnosisInv => Diagnosed
    BY FaithfulDiagnosed DEF DiagnosisInv, IInv
  <1> QED
    BY <1>1, DiagnosisInvariance, PTL
=============================================================================
