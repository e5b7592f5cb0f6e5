---------------------------- MODULE ScopesProofs ----------------------------
(***************************************************************************)
(* What a name refers to in either visitor, for any functions, names and   *)
(* programs of any length.                                                 *)
(***************************************************************************)
EXTENDS Scopes, WellFoundedInduction, SequenceTheorems, TLAPS

\* A set of numbers has a least one.
LEMMA Least ==
  ASSUME NEW T, T \subseteq Nat, T # {}
  PROVE  \E m \in T : \A n \in T : m <= n
<1> DEFINE R == OpToRel(<, Nat)
<1>1. IsWellFoundedOn(R, Nat)
  BY NatLessThanWellFounded
<1>2. \A x, y \in Nat : x < y => <<x, y>> \in R
  BY DEF OpToRel
<1>3. PICK x \in T : \A y \in T : ~ (<<y, x>> \in R)
  <2> HIDE DEF R
  <2> QED BY <1>1, WFMin
<1> HIDE DEF R
<1>4. \A n \in T : ~ (n < x)
  BY <1>2, <1>3
<1>5. x \in Nat /\ \A n \in T : n \in Nat
  OBVIOUS
<1> QED BY <1>4, <1>5

\* A bounded one has a greatest.
LEMMA Greatest ==
  ASSUME NEW b \in Nat, NEW T, T \subseteq 0 .. b, T # {}
  PROVE  \E m \in T : \A n \in T : n <= m
<1> DEFINE U == {b - n : n \in T}
<1>1. U \subseteq Nat
  <2>1. \A n \in T : n \in 0 .. b
    OBVIOUS
  <2>2. \A n \in 0 .. b : b - n \in Nat
    OBVIOUS
  <2> QED BY <2>1, <2>2
<1>6. U # {}
  <2>1. PICK n \in T : TRUE
    OBVIOUS
  <2> QED BY <2>1
<1> HIDE DEF U
<1>2. PICK u \in U : \A v \in U : u <= v
  BY <1>1, <1>6, Least
<1>3. PICK m \in T : u = b - m
  BY <1>2 DEF U
<1>4. \A n \in T : b - m <= b - n
  BY <1>2, <1>3 DEF U
<1>5. m \in 0 .. b /\ \A n \in T : n \in 0 .. b
  OBVIOUS
<1> QED BY <1>4, <1>5

LEMMA FirstOfFacts ==
  ASSUME NEW names \in Seq(Names), NEW n, Among(n, names)
  PROVE  FirstOf(n, names) \in DOMAIN names /\ FirstOf(n, names) \in Nat
<1> DEFINE T == {k \in DOMAIN names : names[k] = n}
<1>1. DOMAIN names = 1 .. Len(names) /\ Len(names) \in Nat
  OBVIOUS
<1>2. T \subseteq Nat /\ T # {}
  BY <1>1 DEF Among
<1>3. PICK k \in T : \A l \in T : k <= l
  <2> HIDE DEF T
  <2> QED BY <1>2, Least
<1>4. k \in DOMAIN names /\ names[k] = n /\ \A l \in 1 .. k - 1 : names[l] # n
  BY <1>1, <1>3
<1>5. FirstOf(n, names) \in DOMAIN names
  BY <1>4 DEF FirstOf
<1> QED BY <1>1, <1>5

LEMMA LastOfFacts ==
  ASSUME NEW names \in Seq(Names), NEW n, Among(n, names)
  PROVE  LastOf(n, names) \in DOMAIN names /\ LastOf(n, names) \in Nat
<1> DEFINE T == {k \in DOMAIN names : names[k] = n}
<1>1. DOMAIN names = 1 .. Len(names) /\ Len(names) \in Nat
  OBVIOUS
<1>2. T \subseteq 0 .. Len(names) /\ T # {}
  BY <1>1 DEF Among
<1>3. PICK k \in T : \A l \in T : l <= k
  <2> HIDE DEF T
  <2> QED BY <1>1, <1>2, Greatest
<1>4. k \in DOMAIN names /\ names[k] = n /\ \A l \in k + 1 .. Len(names) : names[l] # n
  BY <1>1, <1>3
<1>5. LastOf(n, names) \in DOMAIN names
  BY <1>4 DEF LastOf
<1> QED BY <1>1, <1>5
----------------------------------------------------------------------------
(***************************************************************************)
(* What the maps hold of name n when the visitor has walked over k nodes:  *)
(* the last declaration that it has seen.                                  *)
(***************************************************************************)
Seen(k, n, x) ==
  \/ x = Nothing /\ \A j \in 1 .. k : Declares(j, n) => program[j].loops > 0
  \/ \E j \in 1 .. k :
       /\ Declares(j, n) /\ program[j].loops = 0
       /\ x = <<j, LastOf(n, program[j].names)>>
       /\ \A m \in j + 1 .. k : Declares(m, n) => program[m].loops > 0

\* The names that the generator enters at node j, and their places.
GenNames(j) ==
  IF program[j].kind \in Heads THEN Parameters(program[j].of) ELSE program[j].names

Binds(j, n) == Among(n, GenNames(j))

GenPlace(j, n) ==
  <<j, IF program[j].kind \in Heads THEN FirstOf(n, GenNames(j)) ELSE LastOf(n, GenNames(j))>>

Bound(k, n, x) ==
  \/ x = Nothing /\ \A j \in 1 .. k : InFunction(j, k) => ~ Binds(j, n)
  \/ \E j \in 1 .. k :
       /\ InFunction(j, k) /\ Binds(j, n)
       /\ x = GenPlace(j, n)
       /\ \A m \in j + 1 .. k : ~ Declares(m, n)

Phases == {"verify", "gen", "failed", "crashed", "done"}

Given ==
  /\ WellFormed(program)
  /\ phase \in Phases
  /\ at \in 0 .. Len(program)

Scope == [Names -> Places]

Maps ==
  /\ v_named_values \in Scope /\ named_values \in Scope
  /\ meant \in [DOMAIN program -> Scope] /\ got \in [DOMAIN program -> Scope]

Verifying ==
  /\ phase \in {"verify", "failed"} => \A n \in Names : Seen(at, n, v_named_values[n])
  /\ phase = "verify" => named_values = Unknown

Meant ==
  \A i \in 1 .. Len(program) :
    (phase \in {"gen", "crashed", "done"} \/ i <= at)
        /\ program[i].kind \notin Heads /\ program[i].loops = 0 =>
      \A n \in program[i].uses : meant[i][n] # Nothing /\ Seen(i - 1, n, meant[i][n])

Generating ==
  phase \in {"gen", "crashed", "done"} /\ (at > 0 => program[at].kind # "prototype") =>
    \A n \in Names : Bound(at, n, named_values[n])

Got ==
  phase \in {"gen", "crashed", "done"} =>
    \A i \in 1 .. at : program[i].kind \notin Heads =>
      \A n \in program[i].uses :
        IF Declares(i, n) THEN got[i][n] = <<i, LastOf(n, program[i].names)>>
        ELSE Bound(i - 1, n, got[i][n])

Stopped ==
  /\ phase = "failed" =>
       at < Len(program) /\ Visited.loops = 0 /\ ~ Known(v_named_values, Visited.uses)
  /\ phase = "crashed" =>
       /\ at < Len(program)
       /\ \/ Visited.kind = "function" /\ ~ Typed
          \/ Visited.kind \in {"let", "expression"} /\ ~ Known(BoundBy, Used)

ScopesInv == Given /\ Maps /\ Verifying /\ Meant /\ Generating /\ Got /\ Stopped
----------------------------------------------------------------------------
LEMMA NodeFacts ==
  ASSUME Given, NEW i \in 1 .. Len(program)
  PROVE  /\ program[i] \in Node /\ program[i].names \in Seq(Names)
         /\ program[i].loops \in Nat
         /\ program[i].uses \subseteq Names /\ program[i].hidden \subseteq Names
         /\ program[i].kind \in {"function", "prototype", "let", "expression"}
         /\ program[i].of \in Functions
         /\ i \in DOMAIN program
<1>1. program \in Seq(Node) /\ i \in DOMAIN program
  BY DEF Given, WellFormed
<1>2. program[i] \in Node
  BY <1>1
<1> QED BY <1>1, <1>2 DEF Node, Heads

LEMMA HeadFacts ==
  ASSUME Given, NEW i \in 1 .. Len(program), program[i].kind \in Heads
  PROVE  program[i].uses = {} /\ program[i].hidden = {} /\ program[i].loops = 0
<1>1. i \in DOMAIN program
  BY NodeFacts
<1>2. program[i].kind # "let" /\ program[i].kind # "expression"
  BY DEF Heads
<1> QED BY <1>1, <1>2 DEF Given, WellFormed

LEMMA BodyFacts ==
  ASSUME Given, NEW i \in 1 .. Len(program), program[i].kind \notin Heads
  PROVE  /\ i > 1 /\ i - 1 \in 1 .. Len(program) /\ program[i - 1].kind # "prototype"
         /\ program[i].kind \in {"let", "expression"}
         /\ program[i].kind = "expression" => program[i].names = <<>>
<1>1. i \in DOMAIN program /\ program[i].kind \in {"let", "expression"}
  BY NodeFacts DEF Heads
<1>2. program[i].kind = "expression" => program[i].names = <<>>
  <2>1. program[i].kind \notin Heads /\ program[i].kind # "prototype" /\ program[i].kind # "function"
    BY <1>1 DEF Heads
  <2> QED BY <1>1, <2>1 DEF Given, WellFormed
<1>3. i > 1 /\ program[i - 1].kind # "prototype"
  BY <1>1 DEF Given, WellFormed
<1> QED BY <1>1, <1>2, <1>3

\* The first prototype of a function that has one.
LEMMA PrototypeFacts ==
  ASSUME Given, NEW i \in 1 .. Len(program), program[i].kind \in Heads
  PROVE  Parameters(program[i].of) \in Seq(Names)
<1> DEFINE f == program[i].of
           P(j) == program[j].kind \in Heads /\ program[j].of = f
           T == {j \in DOMAIN program : P(j)}
<1>1. DOMAIN program = 1 .. Len(program) /\ Len(program) \in Nat
  BY DEF Given, WellFormed
<1>2. T \subseteq Nat /\ T # {}
  BY <1>1
<1>3. PICK j \in T : \A l \in T : j <= l
  <2> HIDE DEF T
  <2> QED BY <1>2, Least
<1>4. j \in DOMAIN program /\ P(j) /\ \A l \in 1 .. j - 1 : program[l].kind \in Heads => program[l].of # f
  BY <1>1, <1>3
<1>5. Prototype(f) \in DOMAIN program
  <2> HIDE DEF f
  <2> QED BY <1>4 DEF Prototype
<1>6. program[Prototype(f)].names \in Seq(Names)
  BY <1>1, <1>5, NodeFacts
<1> QED BY <1>6 DEF Parameters

LEMMA Static ==
  ASSUME program' = program
  PROVE  /\ \A f : Parameters(f)' = Parameters(f)
         /\ \A k, n, x : Seen(k, n, x)' <=> Seen(k, n, x)
         /\ \A k, n, x : Bound(k, n, x)' <=> Bound(k, n, x)
         /\ \A j, n : Declares(j, n)' <=> Declares(j, n)
<1>1. \A f : Parameters(f)' = Parameters(f)
  BY DEF Parameters, Prototype
<1>2. \A j, n : Declares(j, n)' <=> Declares(j, n)
  BY DEF Declares, Among
<1>3. \A k, n, x : Seen(k, n, x)' <=> Seen(k, n, x)
  BY <1>2 DEF Seen, Nothing
<1>4. \A j : GenNames(j)' = GenNames(j)
  BY <1>1 DEF GenNames
<1>5. \A j, n : (Binds(j, n)' <=> Binds(j, n)) /\ GenPlace(j, n)' = GenPlace(j, n)
  BY <1>4 DEF Binds, GenPlace, Among
<1>6. \A j, k : InFunction(j, k)' <=> InFunction(j, k)
  BY DEF InFunction
<1>7. \A k, n, x : Bound(k, n, x)' <=> Bound(k, n, x)
  BY <1>2, <1>5, <1>6 DEF Bound
<1> QED BY <1>1, <1>2, <1>3, <1>7
----------------------------------------------------------------------------
(***************************************************************************)
(* What the next node does to what the maps hold.                          *)
(***************************************************************************)
LEMMA SeenSame ==
  ASSUME Given, NEW k \in 0 .. Len(program) - 1, NEW n, NEW x, Seen(k, n, x),
         Declares(k + 1, n) => program[k + 1].loops > 0
  PROVE  Seen(k + 1, n, x)
<1>1. \A j \in 1 .. k + 1 : j \in 1 .. k \/ j = k + 1
  OBVIOUS
<1>2. CASE x = Nothing /\ \A j \in 1 .. k : Declares(j, n) => program[j].loops > 0
  BY <1>1, <1>2 DEF Seen
<1>3. ASSUME NEW j \in 1 .. k, Declares(j, n), program[j].loops = 0,
             x = <<j, LastOf(n, program[j].names)>>,
             \A m \in j + 1 .. k : Declares(m, n) => program[m].loops > 0
      PROVE  Seen(k + 1, n, x)
  <2>1. \A m \in j + 1 .. k + 1 : m \in j + 1 .. k \/ m = k + 1
    OBVIOUS
  <2>2. j \in 1 .. k + 1
    OBVIOUS
  <2> QED BY <1>3, <2>1, <2>2 DEF Seen
<1> QED BY <1>2, <1>3 DEF Seen

LEMMA SeenNew ==
  ASSUME Given, NEW k \in 0 .. Len(program) - 1, NEW n,
         Declares(k + 1, n), program[k + 1].loops = 0
  PROVE  Seen(k + 1, n, <<k + 1, LastOf(n, program[k + 1].names)>>)
<1>1. k + 1 \in 1 .. k + 1 /\ \A m \in (k + 1) + 1 .. k + 1 : FALSE
  OBVIOUS
<1> QED BY <1>1 DEF Seen

LEMMA BoundSame ==
  ASSUME Given, NEW k \in 1 .. Len(program) - 1, NEW n, NEW x, Bound(k, n, x),
         program[k + 1].kind \notin Heads, ~ Declares(k + 1, n)
  PROVE  Bound(k + 1, n, x)
<1>1. \A j \in 1 .. k + 1 : j \in 1 .. k \/ j = k + 1
  OBVIOUS
<1>2. ~ Binds(k + 1, n)
  BY DEF Binds, GenNames, Declares
<1>3. ASSUME NEW j \in 1 .. k
      PROVE  InFunction(j, k + 1) <=> InFunction(j, k)
  <2>1. \A m \in j + 1 .. k + 1 : m \in j + 1 .. k \/ m = k + 1
    OBVIOUS
  <2>2. \A m \in j + 1 .. k : m \in j + 1 .. k + 1
    OBVIOUS
  <2> QED BY <2>1, <2>2 DEF InFunction
<1>4. CASE x = Nothing /\ \A j \in 1 .. k : InFunction(j, k) => ~ Binds(j, n)
  BY <1>1, <1>2, <1>3, <1>4 DEF Bound
<1>5. ASSUME NEW j \in 1 .. k, InFunction(j, k), Binds(j, n), x = GenPlace(j, n),
             \A m \in j + 1 .. k : ~ Declares(m, n)
      PROVE  Bound(k + 1, n, x)
  <2>1. \A m \in j + 1 .. k + 1 : m \in j + 1 .. k \/ m = k + 1
    OBVIOUS
  <2>2. j \in 1 .. k + 1
    OBVIOUS
  <2> QED BY <1>3, <1>5, <2>1, <2>2 DEF Bound
<1> QED BY <1>4, <1>5 DEF Bound

LEMMA BoundNew ==
  ASSUME Given, NEW k \in 0 .. Len(program) - 1, NEW n, Binds(k + 1, n)
  PROVE  Bound(k + 1, n, GenPlace(k + 1, n))
<1>1. k + 1 \in 1 .. k + 1 /\ \A m \in (k + 1) + 1 .. k + 1 : FALSE
  OBVIOUS
<1>2. InFunction(k + 1, k + 1)
  BY <1>1 DEF InFunction
<1> QED BY <1>1, <1>2 DEF Bound

\* Before a head nothing is in its function.
LEMMA BoundHead ==
  ASSUME Given, NEW k \in 0 .. Len(program) - 1, NEW n,
         program[k + 1].kind \in Heads, ~ Binds(k + 1, n)
  PROVE  Bound(k + 1, n, Nothing)
<1>1. ASSUME NEW j \in 1 .. k + 1, InFunction(j, k + 1)
      PROVE  j = k + 1
  <2>1. j < k + 1 => k + 1 \in j + 1 .. k + 1
    OBVIOUS
  <2> QED BY <1>1, <2>1 DEF InFunction
<1> QED BY <1>1 DEF Bound

\* What the map holds once names are entered, parameters or those of a let.
LEMMA EnteredFacts ==
  ASSUME Given, at < Len(program), NEW scope \in Scope, NEW names \in Seq(Names)
  PROVE  /\ Entered(scope, names) \in Scope
         /\ \A n \in Names : Entered(scope, names)[n] =
              IF Among(n, names) THEN <<Here, LastOf(n, names)>> ELSE scope[n]
<1>1. Here \in 0 .. Len(program)
  BY DEF Given, Here
<1>2. ASSUME NEW n \in Names
      PROVE  (IF Among(n, names) THEN <<Here, LastOf(n, names)>> ELSE scope[n]) \in Places
  <2>1. Among(n, names) => LastOf(n, names) \in Nat
    BY LastOfFacts
  <2>2. scope[n] \in Places
    BY DEF Scope
  <2> QED BY <1>1, <2>1, <2>2 DEF Places
<1> QED BY <1>2 DEF Entered, Scope

LEMMA UnknownFacts == Given => Unknown \in Scope
BY DEF Given, Unknown, Scope, Places, Nothing

LEMMA ParameterFacts ==
  ASSUME Given, at < Len(program), Visited.kind \in Heads, NEW scope \in Scope
  PROVE  /\ EnteredParameters(scope) \in Scope
         /\ \A n \in Names : EnteredParameters(scope)[n] =
              IF Among(n, Parameters(Visited.of)) THEN <<Here, FirstOf(n, Parameters(Visited.of))>>
              ELSE scope[n]
<1> DEFINE names == Parameters(Visited.of)
<1>1. Here \in 0 .. Len(program) /\ Here \in 1 .. Len(program)
  BY DEF Given, Here
<1>2. names \in Seq(Names)
  BY <1>1, PrototypeFacts DEF Visited
<1> HIDE DEF names
<1>3. ASSUME NEW n \in Names
      PROVE  (IF Among(n, names) THEN <<Here, FirstOf(n, names)>> ELSE scope[n]) \in Places
  <2>1. Among(n, names) => FirstOf(n, names) \in Nat
    BY <1>2, FirstOfFacts
  <2>2. scope[n] \in Places
    BY DEF Scope
  <2> QED BY <1>1, <2>1, <2>2 DEF Places
<1>4. EnteredParameters(scope) = [n \in Names |-> IF Among(n, names) THEN <<Here, FirstOf(n, names)>> ELSE scope[n]]
  BY DEF EnteredParameters, names
<1> QED BY <1>3, <1>4 DEF Scope, names
----------------------------------------------------------------------------
(***************************************************************************)
(* The steps of the verifier.                                              *)
(***************************************************************************)
LEMMA GivenKept ==
  ASSUME Given, program' = program, phase' \in Phases, at' \in 0 .. Len(program)
  PROVE  Given'
BY DEF Given, WellFormed

LEMMA HereFacts ==
  ASSUME Given, at < Len(program)
  PROVE  /\ at \in 0 .. Len(program) - 1 /\ Here = at + 1 /\ Here \in 1 .. Len(program)
         /\ Here \in 0 .. Len(program) /\ Here - 1 = at
         /\ Visited = program[Here] /\ Visited = program[at + 1]
         /\ \A i \in 1 .. Here : i \in 1 .. at \/ i = Here
         /\ Here \in DOMAIN program /\ \A i \in 1 .. Len(program) : i <= Here => i <= at \/ i = Here
BY DEF Given, WellFormed, Here, Visited

LEMMA MapsKept ==
  ASSUME Maps, program' = program, v_named_values' \in Scope, named_values' \in Scope,
         meant' = meant \/ \E i \in DOMAIN program : \E s \in Scope : meant' = [meant EXCEPT ![i] = s],
         got' = got \/ \E i \in DOMAIN program : \E s \in Scope : got' = [got EXCEPT ![i] = s]
  PROVE  Maps'
<1>1. Scope' = Scope
  BY DEF Scope, Places
<1>2. meant' \in [DOMAIN program -> Scope]
  BY DEF Maps
<1>3. got' \in [DOMAIN program -> Scope]
  BY DEF Maps
<1> QED BY <1>1, <1>2, <1>3 DEF Maps

\* Where a node declares the name, the map has it; else the map has what it had.
LEMMA VerifyingKept ==
  ASSUME Given, at < Len(program), Verifying, phase = "verify", program' = program, phase' = "verify",
         at' = Here, named_values' = named_values,
         \/ /\ v_named_values' = v_named_values
            /\ \A n \in Names : Declares(Here, n) => Visited.loops > 0
         \/ /\ \A n \in Names : v_named_values'[n] =
                 IF Among(n, Visited.names) THEN <<Here, LastOf(n, Visited.names)>> ELSE v_named_values[n]
            /\ Visited.loops = 0
  PROVE  Verifying'
<1> USE HereFacts
<1>1. named_values' = Unknown'
  BY DEF Verifying, Unknown, Nothing
<1>2. ASSUME NEW n \in Names
      PROVE  Seen(Here, n, v_named_values'[n])
  <2>1. Seen(at, n, v_named_values[n])
    BY DEF Verifying
  <2>2. CASE v_named_values'[n] = v_named_values[n] /\ (Declares(Here, n) => Visited.loops > 0)
    BY <2>1, <2>2, SeenSame
  <2>3. CASE /\ v_named_values'[n] = <<Here, LastOf(n, Visited.names)>>
             /\ Declares(Here, n) /\ Visited.loops = 0
    BY <2>3, SeenNew
  <2>4. Declares(Here, n) <=> Among(n, Visited.names)
    BY DEF Declares
  <2> QED BY <2>2, <2>3, <2>4
<1>3. \A n \in Names : Seen(at, n, v_named_values[n])'
  BY <1>2, Static DEF Verifying
<1> QED BY <1>1, <1>3 DEF Verifying

LEMMA MeantKept ==
  ASSUME Given, Meant, program' = program,
         \A i \in 1 .. Len(program) :
           (phase' \in {"gen", "crashed", "done"} \/ i <= at')
               /\ program[i].kind \notin Heads /\ program[i].loops = 0 =>
             \/ (phase \in {"gen", "crashed", "done"} \/ i <= at) /\ meant'[i] = meant[i]
             \/ \A n \in program[i].uses : meant'[i][n] # Nothing /\ Seen(i - 1, n, meant'[i][n])
  PROVE  Meant'
<1>1. ASSUME NEW i \in 1 .. Len(program), phase' \in {"gen", "crashed", "done"} \/ i <= at',
             program[i].kind \notin Heads, program[i].loops = 0, NEW n \in program[i].uses
      PROVE  meant'[i][n] # Nothing /\ Seen(i - 1, n, meant'[i][n])
  BY <1>1 DEF Meant
<1>2. \A k, n, x : Seen(k, n, x)' <=> Seen(k, n, x)
  BY Static
<1>3. Nothing' = Nothing
  BY DEF Nothing
<1> QED BY <1>1, <1>2, <1>3 DEF Meant

LEMMA VerifyProtoFuncStep == ScopesInv /\ VerifyProtoFunc => ScopesInv'
<1> SUFFICES ASSUME ScopesInv, VerifyProtoFunc PROVE ScopesInv'
  OBVIOUS
<1>1. /\ Given /\ Maps /\ Verifying /\ Meant /\ at < Len(program) /\ Visited.kind \in Heads
      /\ phase = "verify" /\ phase' = "verify" /\ at' = Here
      /\ UNCHANGED <<program, named_values, meant, got>>
  BY DEF ScopesInv, VerifyProtoFunc, Visiting
<1>2. Visited.loops = 0 /\ Visited.names \in Seq(Names)
  BY <1>1, HereFacts, HeadFacts, NodeFacts
<1>3. /\ v_named_values' \in Scope
      /\ \A n \in Names : v_named_values'[n] =
           IF Among(n, Visited.names) THEN <<Here, LastOf(n, Visited.names)>> ELSE v_named_values[n]
  <2>1. v_named_values' = Entered(v_named_values, Visited.names)
    BY DEF VerifyProtoFunc, Declared
  <2> QED BY <1>1, <1>2, <2>1, EnteredFacts DEF Maps
<1>4. Given'
  BY <1>1, HereFacts, GivenKept DEF Phases
<1>5. Maps'
  BY <1>1, <1>3, MapsKept DEF Maps
<1>6. Verifying'
  BY <1>1, <1>2, <1>3, VerifyingKept
<1>7. Meant'
  BY <1>1, HereFacts, MeantKept
<1>8. Generating' /\ Got' /\ Stopped'
  BY <1>1 DEF Generating, Got, Stopped
<1> QED BY <1>4, <1>5, <1>6, <1>7, <1>8 DEF ScopesInv

LEMMA VerifyFailsStep == ScopesInv /\ VerifyFails => ScopesInv'
<1> SUFFICES ASSUME ScopesInv, VerifyFails PROVE ScopesInv'
  OBVIOUS
<1>1. /\ Given /\ Maps /\ Verifying /\ Meant /\ at < Len(program) /\ Visited.loops = 0
      /\ ~ Known(v_named_values, Visited.uses)
      /\ phase = "verify" /\ phase' = "failed"
      /\ UNCHANGED <<program, at, v_named_values, named_values, meant, got>>
  BY DEF ScopesInv, VerifyFails, Visiting, Verified
<1>2. Given'
  BY <1>1, HereFacts, GivenKept DEF Phases
<1>3. Maps'
  BY <1>1, MapsKept DEF Maps
<1>4. Verifying'
  BY <1>1, Static DEF Verifying
<1>5. Meant'
  BY <1>1, MeantKept
<1>6. Stopped'
  BY <1>1 DEF Stopped, Visited, Here, Known, Nothing
<1>7. Generating' /\ Got'
  BY <1>1 DEF Generating, Got
<1> QED BY <1>2, <1>3, <1>4, <1>5, <1>6, <1>7 DEF ScopesInv

\* Where the names are known, what the uses of a statement find is kept.
LEMMA MeantHere ==
  ASSUME ScopesInv, at < Len(program), phase = "verify", phase' = "verify", at' = Here,
         program' = program, Known(v_named_values, Visited.uses),
         meant' = [meant EXCEPT ![Here] = v_named_values]
  PROVE  Meant'
<1>1. Given /\ Maps /\ Verifying /\ Meant
  BY DEF ScopesInv
<1>2. meant'[Here] = v_named_values /\ \A i \in 1 .. at : meant'[i] = meant[i]
  BY <1>1, HereFacts DEF Maps
<1>3. \A n \in Visited.uses : v_named_values[n] # Nothing /\ Seen(Here - 1, n, v_named_values[n])
  BY <1>1, HereFacts, NodeFacts DEF Known, Verifying
<1>4. \A i \in 1 .. Len(program) : i <= at' => i \in 1 .. at \/ i = Here
  BY <1>1, HereFacts
<1>5. \A i \in 1 .. at : i <= at
  OBVIOUS
<1> QED BY <1>1, <1>2, <1>3, <1>4, <1>5, HereFacts, MeantKept

LEMMA VerifyExpressionStep == ScopesInv /\ VerifyExpression => ScopesInv'
<1> SUFFICES ASSUME ScopesInv, VerifyExpression PROVE ScopesInv'
  OBVIOUS
<1>1. /\ Given /\ Maps /\ Verifying /\ Meant /\ at < Len(program) /\ Visited.kind = "expression"
      /\ Visited.loops = 0 /\ Known(v_named_values, Visited.uses)
      /\ phase = "verify" /\ phase' = "verify" /\ at' = Here
      /\ meant' = [meant EXCEPT ![Here] = v_named_values]
      /\ UNCHANGED <<program, v_named_values, named_values, got>>
  BY DEF ScopesInv, VerifyExpression, Verified, Visiting
<1>2. \A n : ~ Declares(Here, n)
  <2>1. Visited.kind \notin Heads
    BY <1>1 DEF Heads
  <2>2. Visited.names = <<>>
    BY <1>1, <2>1, HereFacts, BodyFacts
  <2> QED BY <1>1, <2>2, HereFacts DEF Declares, Among
<1>3. Given'
  BY <1>1, HereFacts, GivenKept DEF Phases
<1>4. Maps'
  BY <1>1, HereFacts, MapsKept DEF Maps
<1>5. Verifying'
  BY <1>1, <1>2, VerifyingKept
<1>6. Meant'
  BY <1>1, MeantHere
<1>7. Generating' /\ Got' /\ Stopped'
  BY <1>1 DEF Generating, Got, Stopped
<1> QED BY <1>3, <1>4, <1>5, <1>6, <1>7 DEF ScopesInv

LEMMA VerifyLetStep == ScopesInv /\ VerifyLet => ScopesInv'
<1> SUFFICES ASSUME ScopesInv, VerifyLet PROVE ScopesInv'
  OBVIOUS
<1>1. /\ Given /\ Maps /\ Verifying /\ Meant /\ at < Len(program)
      /\ Visited.loops = 0 /\ Known(v_named_values, Visited.uses)
      /\ phase = "verify" /\ phase' = "verify" /\ at' = Here
      /\ meant' = [meant EXCEPT ![Here] = v_named_values]
      /\ UNCHANGED <<program, named_values, got>>
  BY DEF ScopesInv, VerifyLet, Verified, Visiting
<1>2. Visited.names \in Seq(Names)
  BY <1>1, HereFacts, NodeFacts
<1>3. /\ v_named_values' \in Scope
      /\ \A n \in Names : v_named_values'[n] =
           IF Among(n, Visited.names) THEN <<Here, LastOf(n, Visited.names)>> ELSE v_named_values[n]
  <2>1. v_named_values' = Entered(v_named_values, Visited.names)
    BY DEF VerifyLet, Declared
  <2> QED BY <1>1, <1>2, <2>1, EnteredFacts DEF Maps
<1>4. Given'
  BY <1>1, HereFacts, GivenKept DEF Phases
<1>5. Maps'
  BY <1>1, <1>3, HereFacts, MapsKept DEF Maps
<1>6. Verifying'
  BY <1>1, <1>3, VerifyingKept
<1>7. Meant'
  BY <1>1, MeantHere
<1>8. Generating' /\ Got' /\ Stopped'
  BY <1>1 DEF Generating, Got, Stopped
<1> QED BY <1>4, <1>5, <1>6, <1>7, <1>8 DEF ScopesInv

LEMMA SkipBodyStep == ScopesInv /\ SkipBody => ScopesInv'
<1> SUFFICES ASSUME ScopesInv, SkipBody PROVE ScopesInv'
  OBVIOUS
<1>1. /\ Given /\ Maps /\ Verifying /\ Meant /\ at < Len(program) /\ Visited.loops > 0
      /\ phase = "verify" /\ phase' = "verify" /\ at' = Here
      /\ UNCHANGED <<program, v_named_values, named_values, meant, got>>
  BY DEF ScopesInv, SkipBody, Visiting
<1>2. Given'
  BY <1>1, HereFacts, GivenKept DEF Phases
<1>3. Maps'
  BY <1>1, MapsKept DEF Maps
<1>4. Verifying'
  BY <1>1, VerifyingKept
<1>5. Meant'
  <2>1. \A i \in 1 .. Len(program) : i <= at' /\ program[i].loops = 0 => i <= at
    BY <1>1, HereFacts
  <2> QED BY <1>1, <2>1, MeantKept
<1>6. Generating' /\ Got' /\ Stopped'
  BY <1>1 DEF Generating, Got, Stopped
<1> QED BY <1>2, <1>3, <1>4, <1>5, <1>6 DEF ScopesInv

LEMMA EndVerifyStep == ScopesInv /\ EndVerify => ScopesInv'
<1> SUFFICES ASSUME ScopesInv, EndVerify PROVE ScopesInv'
  OBVIOUS
<1>1. /\ Given /\ Maps /\ Verifying /\ Meant /\ at = Len(program)
      /\ phase = "verify" /\ phase' = "gen" /\ at' = 0
      /\ UNCHANGED <<program, v_named_values, named_values, meant, got>>
  BY DEF ScopesInv, EndVerify
<1>2. Given'
  <2>1. 0 \in 0 .. Len(program)
    BY <1>1 DEF Given
  <2> QED BY <1>1, <2>1, GivenKept DEF Phases
<1>3. Maps'
  BY <1>1, MapsKept DEF Maps
<1>4. Verifying'
  BY <1>1 DEF Verifying
<1>5. Meant'
  <2>1. \A i \in 1 .. Len(program) : i <= at
    BY <1>1
  <2> QED BY <1>1, <2>1, MeantKept
<1>6. Generating'
  <2>1. \A n \in Names : named_values'[n] = Nothing
    BY <1>1 DEF Verifying, Unknown
  <2>2. \A n : Bound(0, n, Nothing)
    BY DEF Bound
  <2>3. \A n \in Names : Bound(at, n, named_values[n])'
    BY <1>1, <2>1, <2>2, Static
  <2> QED BY <2>3 DEF Generating
<1>7. Got' /\ Stopped'
  BY <1>1 DEF Got, Stopped
<1> QED BY <1>2, <1>3, <1>4, <1>5, <1>6, <1>7 DEF ScopesInv
----------------------------------------------------------------------------
(***************************************************************************)
(* The steps of the generator.                                             *)
(***************************************************************************)
LEMMA GotKept ==
  ASSUME Given, Got, phase = "gen", program' = program,
         \A i \in 1 .. at' : program[i].kind \notin Heads =>
           \/ i \in 1 .. at /\ got'[i] = got[i]
           \/ \A n \in program[i].uses :
                IF Declares(i, n) THEN got'[i][n] = <<i, LastOf(n, program[i].names)>>
                ELSE Bound(i - 1, n, got'[i][n])
  PROVE  Got'
<1>1. ASSUME NEW i \in 1 .. at', program[i].kind \notin Heads, NEW n \in program[i].uses
      PROVE  IF Declares(i, n) THEN got'[i][n] = <<i, LastOf(n, program[i].names)>>
             ELSE Bound(i - 1, n, got'[i][n])
  BY <1>1 DEF Got
<1>2. /\ \A k, n, x : Bound(k, n, x)' <=> Bound(k, n, x)
      /\ \A j, n : Declares(j, n)' <=> Declares(j, n)
  BY Static
<1>3. \A i, n : LastOf(n, program[i].names)' = LastOf(n, program[i].names)
  BY DEF LastOf
<1> QED BY <1>1, <1>2, <1>3 DEF Got

\* The generator leaves alone what belongs to the verifier.
LEMMA GeneratorKeeps ==
  ASSUME ScopesInv, phase = "gen", phase' \in {"gen", "crashed", "done"}, at' \in 0 .. Len(program),
         program' = program, v_named_values' = v_named_values, meant' = meant
  PROVE  Given' /\ Verifying' /\ Meant'
<1>1. Given /\ Meant
  BY DEF ScopesInv
<1>2. Given'
  BY <1>1, GivenKept DEF Phases
<1>3. Verifying'
  BY DEF Verifying
<1>4. Meant'
  BY <1>1, MeantKept
<1> QED BY <1>2, <1>3, <1>4

LEMMA GenFunctionStep == ScopesInv /\ GenFunction => ScopesInv'
<1> SUFFICES ASSUME ScopesInv, GenFunction PROVE ScopesInv'
  OBVIOUS
<1>1. /\ Given /\ Maps /\ Got /\ at < Len(program) /\ Visited.kind \in Heads
      /\ phase = "gen" /\ phase' = "gen" /\ at' = Here
      /\ named_values' = EnteredParameters(Unknown)
      /\ UNCHANGED <<program, v_named_values, meant, got>>
  BY DEF ScopesInv, GenFunction, Visiting, Heads
<1>2. Given' /\ Verifying' /\ Meant'
  BY <1>1, HereFacts, GeneratorKeeps
<1>3. /\ named_values' \in Scope
      /\ \A n \in Names : named_values'[n] =
           IF Among(n, Parameters(Visited.of)) THEN <<Here, FirstOf(n, Parameters(Visited.of))>>
           ELSE Nothing
  <2>1. Unknown \in Scope /\ \A n \in Names : Unknown[n] = Nothing
    BY <1>1, UnknownFacts DEF Unknown
  <2> QED BY <1>1, <2>1, ParameterFacts
<1>4. Maps'
  BY <1>1, <1>3, MapsKept DEF Maps
<1>5. Generating'
  <2>1. ASSUME NEW n \in Names
        PROVE  Bound(Here, n, named_values'[n])
    <3>1. Binds(Here, n) <=> Among(n, Parameters(Visited.of))
      BY <1>1, HereFacts DEF Binds, GenNames
    <3>2. GenPlace(Here, n) = <<Here, FirstOf(n, Parameters(Visited.of))>>
      BY <1>1, HereFacts DEF GenPlace, GenNames
    <3>3. CASE Binds(Here, n)
      BY <1>1, <1>3, <3>1, <3>2, <3>3, HereFacts, BoundNew
    <3>4. CASE ~ Binds(Here, n)
      BY <1>1, <1>3, <3>1, <3>4, HereFacts, BoundHead
    <3> QED BY <3>3, <3>4
  <2>2. \A n \in Names : Bound(at, n, named_values[n])'
    BY <1>1, <2>1, Static
  <2> QED BY <2>2 DEF Generating
<1>6. Got'
  BY <1>1, HereFacts, GotKept
<1>7. Stopped'
  BY <1>1 DEF Stopped
<1> QED BY <1>2, <1>4, <1>5, <1>6, <1>7 DEF ScopesInv

LEMMA GenProtoFuncStep == ScopesInv /\ GenProtoFunc => ScopesInv'
<1> SUFFICES ASSUME ScopesInv, GenProtoFunc PROVE ScopesInv'
  OBVIOUS
<1>1. /\ Given /\ Maps /\ Got /\ at < Len(program)
      /\ Visited.kind = "prototype" /\ Visited.kind \in Heads
      /\ phase = "gen" /\ phase' = "gen" /\ at' = Here
      /\ UNCHANGED <<program, v_named_values, named_values, meant, got>>
  BY DEF ScopesInv, GenProtoFunc, Visiting, Heads
<1>2. Given' /\ Verifying' /\ Meant'
  BY <1>1, HereFacts, GeneratorKeeps
<1>3. Maps'
  BY <1>1, MapsKept DEF Maps
<1>4. Generating'
  BY <1>1, HereFacts DEF Generating
<1>5. Got'
  BY <1>1, HereFacts, GotKept
<1>6. Stopped'
  BY <1>1 DEF Stopped
<1> QED BY <1>2, <1>3, <1>4, <1>5, <1>6 DEF ScopesInv

\* What the state is where the generator crashes or ends.
LEMMA GenStopSteps == ScopesInv /\ (GenFunctionThrows \/ GenCrashes \/ EndGen) => ScopesInv'
<1> SUFFICES ASSUME ScopesInv, GenFunctionThrows \/ GenCrashes \/ EndGen PROVE ScopesInv'
  OBVIOUS
<1>1. /\ Given /\ Maps /\ Generating /\ Got
      /\ phase = "gen" /\ phase' \in {"crashed", "done"}
      /\ UNCHANGED <<program, at, v_named_values, named_values, meant, got>>
  BY DEF ScopesInv, GenFunctionThrows, GenCrashes, EndGen, Visiting
<1>2. Given' /\ Verifying' /\ Meant'
  BY <1>1, GeneratorKeeps DEF Given
<1>3. Maps'
  BY <1>1, MapsKept DEF Maps
<1>4. Generating'
  BY <1>1, Static DEF Generating
<1>5. Got'
  BY <1>1, GotKept
<1>6. phase' = "crashed" =>
        /\ at < Len(program)
        /\ \/ Visited.kind = "function" /\ ~ Typed
           \/ Visited.kind \in {"let", "expression"} /\ ~ Known(BoundBy, Used)
  BY DEF GenFunctionThrows, GenCrashes, EndGen, Visiting
<1>7. Visited' = Visited /\ (Typed' <=> Typed) /\ (Known(BoundBy, Used)' <=> Known(BoundBy, Used))
  BY <1>1, Static DEF Visited, Here, Typed, Known, BoundBy, Used, Declared, Entered, Among, LastOf, Nothing
<1>8. Stopped'
  BY <1>1, <1>6, <1>7 DEF Stopped
<1> QED BY <1>2, <1>3, <1>4, <1>5, <1>8 DEF ScopesInv

\* Whether or not every name has an alloca, of which the invariant says the same.
LEMMA GenStatementStep == ScopesInv /\ (GenStatement \/ GenUnloaded) => ScopesInv'
<1> SUFFICES ASSUME ScopesInv, GenStatement \/ GenUnloaded PROVE ScopesInv'
  OBVIOUS
<1>1. /\ Given /\ Maps /\ Generating /\ Got /\ at < Len(program)
      /\ Visited.kind \in {"let", "expression"} /\ Visited.kind \notin Heads
      /\ phase = "gen" /\ phase' = "gen" /\ at' = Here
      /\ named_values' = Entered(named_values, Visited.names)
      /\ got' = [got EXCEPT ![Here] = Entered(named_values, Visited.names)]
      /\ UNCHANGED <<program, v_named_values, meant>>
  BY DEF ScopesInv, GenStatement, GenUnloaded, Visiting, BoundBy, Declared, Heads
<1>2. Given' /\ Verifying' /\ Meant'
  BY <1>1, HereFacts, GeneratorKeeps
<1>3. /\ Visited.names \in Seq(Names) /\ Visited.uses \subseteq Names
      /\ at \in 1 .. Len(program) - 1 /\ at > 0 /\ program[at].kind # "prototype"
  BY <1>1, HereFacts, NodeFacts, BodyFacts
<1>4. /\ named_values' \in Scope
      /\ \A n \in Names : named_values'[n] =
           IF Among(n, Visited.names) THEN <<Here, LastOf(n, Visited.names)>> ELSE named_values[n]
  BY <1>1, <1>3, EnteredFacts DEF Maps
<1>5. got'[Here] = named_values' /\ \A i \in 1 .. at : got'[i] = got[i]
  BY <1>1, HereFacts DEF Maps
<1>6. Maps'
  BY <1>1, <1>4, HereFacts, MapsKept DEF Maps
<1>7. \A n : Declares(Here, n) <=> Among(n, Visited.names)
  BY <1>1, HereFacts DEF Declares
<1>8. \A n \in Names : Bound(at, n, named_values[n])
  BY <1>1, <1>3 DEF Generating
<1>9. Generating'
  <2>1. ASSUME NEW n \in Names
        PROVE  Bound(Here, n, named_values'[n])
    <3>1. CASE Declares(Here, n)
      <4>1. Binds(Here, n) /\ GenPlace(Here, n) = <<Here, LastOf(n, Visited.names)>>
        BY <1>1, <1>7, <3>1, HereFacts DEF Binds, GenPlace, GenNames
      <4> QED BY <1>1, <1>4, <1>7, <3>1, <4>1, HereFacts, BoundNew
    <3>2. CASE ~ Declares(Here, n)
      BY <1>1, <1>3, <1>4, <1>7, <1>8, <3>2, HereFacts, BoundSame
    <3> QED BY <3>1, <3>2
  <2>2. \A n \in Names : Bound(at, n, named_values[n])'
    BY <1>1, <2>1, Static
  <2> QED BY <2>2 DEF Generating
<1>10. Got'
  <2>1. ASSUME NEW n \in Visited.uses
        PROVE  IF Declares(Here, n) THEN got'[Here][n] = <<Here, LastOf(n, Visited.names)>>
               ELSE Bound(Here - 1, n, got'[Here][n])
    <3>1. n \in Names
      BY <1>3
    <3> QED BY <1>1, <1>4, <1>5, <1>7, <1>8, <3>1, HereFacts
  <2>2. \A i \in 1 .. at' : i \in 1 .. at \/ i = Here
    BY <1>1, HereFacts
  <2> QED BY <1>1, <1>5, <2>1, <2>2, HereFacts, GotKept
<1>11. Stopped'
  BY <1>1 DEF Stopped
<1> QED BY <1>2, <1>6, <1>9, <1>10, <1>11 DEF ScopesInv

LEMMA StutterStep == ScopesInv /\ UNCHANGED vars => ScopesInv'
<1> SUFFICES ASSUME ScopesInv, UNCHANGED vars PROVE ScopesInv'
  OBVIOUS
<1>1. /\ Given /\ Maps /\ Verifying /\ Meant /\ Generating /\ Got /\ Stopped
      /\ UNCHANGED <<program, phase, at, v_named_values, named_values, meant, got>>
  BY DEF ScopesInv, vars
<1>2. Given'
  BY <1>1, GivenKept DEF Given
<1>3. Maps'
  BY <1>1, MapsKept DEF Maps
<1>4. Verifying' /\ Generating'
  BY <1>1, Static DEF Verifying, Generating, Unknown, Nothing
<1>5. Meant'
  BY <1>1, Static DEF Meant, Nothing
<1>6. Got'
  BY <1>1, Static DEF Got, LastOf
<1>7. Visited' = Visited /\ (Typed' <=> Typed) /\ (Known(BoundBy, Used)' <=> Known(BoundBy, Used))
      /\ (Known(v_named_values, Visited.uses)' <=> Known(v_named_values, Visited.uses))
  BY <1>1, Static DEF Visited, Here, Typed, Known, BoundBy, Used, Declared, Entered, Among, LastOf, Nothing
<1>8. Stopped'
  BY <1>1, <1>7 DEF Stopped
<1> QED BY <1>2, <1>3, <1>4, <1>5, <1>6, <1>8 DEF ScopesInv

LEMMA Steps == ScopesInv /\ [Next]_vars => ScopesInv'
BY VerifyProtoFuncStep, VerifyFailsStep, VerifyExpressionStep, VerifyLetStep, SkipBodyStep,
   EndVerifyStep, GenFunctionStep, GenProtoFuncStep, GenStopSteps, GenStatementStep, StutterStep DEF Next

LEMMA Initially == Init => ScopesInv
<1> SUFFICES ASSUME Init PROVE ScopesInv
  OBVIOUS
<1>1. Given
  <2>1. WellFormed(program)
    BY ProgramsAssumption DEF Init
  <2>2. Len(program) \in Nat
    BY <2>1 DEF WellFormed
  <2> QED BY <2>1, <2>2 DEF Init, Given, Phases
<1>2. Maps
  BY <1>1, UnknownFacts DEF Init, Maps
<1>3. Verifying
  <2>1. \A n : Seen(0, n, Nothing)
    BY DEF Seen
  <2> QED BY <2>1 DEF Init, Verifying, Unknown
<1>4. Meant /\ Generating /\ Got /\ Stopped
  BY DEF Init, Meant, Generating, Got, Stopped
<1> QED BY <1>1, <1>2, <1>3, <1>4 DEF ScopesInv

LEMMA Invariant == Spec => []ScopesInv
BY Initially, Steps, PTL DEF Spec
----------------------------------------------------------------------------
(***************************************************************************)
(* The invariant TypeOK: what the maps hold are nodes and places in them.  *)
(***************************************************************************)
THEOREM TypeCorrect == Spec => []TypeOK
<1>1. ScopesInv => TypeOK
  BY DEF ScopesInv, Given, Maps, Phases, Scope, TypeOK
<1> QED BY <1>1, Invariant, PTL

\* What Seen says of a name that the map has nothing for, or something.
LEMMA SeenFacts ==
  ASSUME NEW k \in Nat, NEW n, NEW x, Seen(k, n, x)
  PROVE  /\ x = Nothing => \A j \in 1 .. k : Declares(j, n) => program[j].loops > 0
         /\ x # Nothing => \E j \in 1 .. k :
              /\ Declares(j, n) /\ program[j].loops = 0
              /\ x = <<j, LastOf(n, program[j].names)>>
              /\ \A m \in j + 1 .. k : Declares(m, n) => program[m].loops > 0
<1>1. \A j \in 1 .. k : \A p : <<j, p>> # Nothing
  BY DEF Nothing
<1> QED BY <1>1 DEF Seen

LEMMA BoundFacts ==
  ASSUME NEW k \in Nat, NEW n, NEW x, Bound(k, n, x)
  PROVE  /\ x = Nothing => \A j \in 1 .. k : InFunction(j, k) => ~ Binds(j, n)
         /\ x # Nothing => \E j \in 1 .. k :
              /\ InFunction(j, k) /\ Binds(j, n) /\ x = GenPlace(j, n)
              /\ \A m \in j + 1 .. k : ~ Declares(m, n)
<1>1. \A j \in 1 .. k : GenPlace(j, n) # Nothing
  BY DEF Nothing, GenPlace
<1> QED BY <1>1 DEF Bound

(***************************************************************************)
(* The invariant FailsOnlyUndeclared: visitVariableExpr() of the verifier  *)
(* turns away only names without a declaration that it has visited.        *)
(***************************************************************************)
THEOREM TurnsAwayUndeclared == Spec => []FailsOnlyUndeclared
<1>1. ScopesInv => FailsOnlyUndeclared
  <2> SUFFICES ASSUME ScopesInv, phase = "failed" PROVE FailsOnlyUndeclared
    BY DEF FailsOnlyUndeclared
  <2>1. Given /\ Verifying /\ at < Len(program) /\ ~ Known(v_named_values, Visited.uses)
    BY DEF ScopesInv, Stopped
  <2>2. PICK n \in Visited.uses : v_named_values[n] = Nothing
    BY <2>1 DEF Known
  <2>3. n \in Names /\ at \in Nat
    BY <2>1, HereFacts, NodeFacts
  <2>4. Seen(at, n, Nothing)
    BY <2>1, <2>2, <2>3 DEF Verifying
  <2> QED BY <2>3, <2>4, SeenFacts DEF FailsOnlyUndeclared
<1> QED BY <1>1, Invariant, PTL

\* Between the head of a function and a statement of it there is no prototype.
LEMMA DefinitionFacts ==
  ASSUME Given, NEW i \in 1 .. Len(program), program[i].kind \notin Heads,
         NEW j \in 1 .. i - 1, InFunction(j, i - 1)
  PROVE  /\ InFunction(j, i)
         /\ program[j].kind \in Heads => program[j].kind = "function"
         /\ j \in 1 .. Len(program)
<1>1. j \in 1 .. Len(program) /\ j + 1 \in 1 .. Len(program) /\ (j + 1) - 1 = j
  BY DEF Given
<1>2. \A m \in j + 1 .. i : m \in j + 1 .. i - 1 \/ m = i
  BY DEF Given
<1>3. InFunction(j, i)
  BY <1>2 DEF InFunction
<1>4. program[j + 1].kind \notin Heads
  BY <1>1, <1>3 DEF InFunction, Given
<1>5. program[j].kind # "prototype"
  BY <1>1, <1>4, BodyFacts
<1> QED BY <1>1, <1>3, <1>5 DEF Heads

\* And back.
LEMMA InFunctionBefore ==
  ASSUME Given, NEW i \in 1 .. Len(program), NEW j \in 1 .. i - 1, InFunction(j, i)
  PROVE  InFunction(j, i - 1)
<1>1. \A m \in j + 1 .. i - 1 : m \in j + 1 .. i
  BY DEF Given
<1> QED BY <1>1 DEF InFunction

LEMMA BindsFacts ==
  ASSUME NEW j, NEW n
  PROVE  /\ program[j].kind \notin Heads => (Binds(j, n) <=> Declares(j, n))
         /\ program[j].kind \in Heads => (Binds(j, n) <=> Among(n, Parameters(program[j].of)))
BY DEF Binds, GenNames, Declares

(***************************************************************************)
(* The invariant CrashExplained: visitFunctionDecl() and visitVariableExpr *)
(* of the generator crash only for the reasons given there.                *)
(***************************************************************************)
THEOREM CrashesExplained == Spec => []CrashExplained
<1>1. ScopesInv => CrashExplained
  <2> SUFFICES ASSUME ScopesInv, phase = "crashed" PROVE CrashExplained
    BY DEF CrashExplained
  <2>1. Given /\ Maps /\ Meant /\ Generating /\ at < Len(program)
    BY DEF ScopesInv, Stopped
  <2>2. CASE Visited.kind = "function" /\ ~ Typed
    <3>1. Visited.names \in Seq(Names) /\ Parameters(Visited.of) \in Seq(Names)
      BY <2>1, <2>2, HereFacts, NodeFacts, PrototypeFacts DEF Heads
    <3>2. Len(Visited.names) < Len(Parameters(Visited.of))
      BY <2>2, <3>1 DEF Typed
    <3> QED BY <2>2, <3>2 DEF CrashExplained
  <2>3. CASE Visited.kind \in {"let", "expression"} /\ ~ Known(BoundBy, Used)
    <3>1. PICK n \in Used : BoundBy[n] = Nothing
      BY <2>3 DEF Known
    <3>2. Visited.kind \notin Heads
      BY <2>3 DEF Heads
    <3>3. n \in Names /\ Visited.names \in Seq(Names)
      BY <2>1, HereFacts, NodeFacts DEF Used
    <3>4. BoundBy[n] = IF Among(n, Visited.names) THEN <<Here, LastOf(n, Visited.names)>> ELSE named_values[n]
      BY <2>1, <3>3, EnteredFacts DEF BoundBy, Declared, Maps
    <3>5. ~ Among(n, Visited.names) /\ named_values[n] = Nothing
      BY <2>1, <3>1, <3>4, HereFacts DEF Nothing
    <3>6. ~ Declares(Here, n)
      BY <2>1, <3>5, HereFacts DEF Declares
    <3>7. at \in Nat /\ at > 0 /\ program[at].kind # "prototype"
      BY <2>1, <3>2, HereFacts, BodyFacts
    <3>8. Bound(at, n, Nothing)
      BY <2>1, <3>3, <3>5, <3>7 DEF Generating
    <3>9. ASSUME NEW j \in 1 .. Here, Declares(j, n), InFunction(j, Here)
          PROVE  program[j].kind = "function" /\ ~ Among(n, Parameters(program[j].of))
      <4>1. j \in 1 .. at /\ j \in 1 .. Here - 1
        BY <2>1, <3>6, <3>9, HereFacts
      <4>2. InFunction(j, at)
        BY <2>1, <3>9, <4>1, HereFacts, InFunctionBefore
      <4>3. ~ Binds(j, n)
        BY <3>7, <3>8, <4>1, <4>2, BoundFacts
      <4>4. program[j].kind \in Heads => program[j].kind = "function"
        BY <2>1, <3>2, <4>1, <4>2, HereFacts, DefinitionFacts
      <4> QED BY <3>9, <4>3, <4>4, BindsFacts
    <3>10. Visited.loops > 0 \/ n \in Visited.hidden
             \/ \E j \in 1 .. at : Declares(j, n) /\ program[j].loops = 0
      <4>1. SUFFICES ASSUME Visited.loops = 0, n \in Visited.uses
                     PROVE  \E j \in 1 .. at : Declares(j, n) /\ program[j].loops = 0
        BY <2>1, HereFacts, NodeFacts DEF Used
      <4>2. meant[Here][n] # Nothing /\ Seen(at, n, meant[Here][n])
        BY <2>1, <3>2, <4>1, HereFacts DEF Meant
      <4> QED BY <3>7, <4>2, SeenFacts
    <3>11. Unbound(n)
      BY <3>9, <3>10 DEF Unbound
    <3> QED BY <3>11 DEF CrashExplained
  <2> QED BY <2>2, <2>3 DEF ScopesInv, Stopped
<1> QED BY <1>1, Invariant, PTL

\* If the last declaration is a plain one, both maps have its place.
LEMMA PlainMeansSame ==
  ASSUME Given, NEW i \in 1 .. Len(program), program[i].kind \notin Heads, NEW n, ~ Declares(i, n),
         NEW m, m # Nothing, Seen(i - 1, n, m), NEW g, Bound(i - 1, n, g), PlainUse(i, n)
  PROVE  g = m
<1>1. i - 1 \in Nat
  BY DEF Given
<1>2. PICK j \in 1 .. i - 1 :
        /\ Declares(j, n) /\ InFunction(j, i) /\ SamePlace(j, n) /\ program[j].loops = 0
        /\ \A k \in j + 1 .. i - 1 : ~ Declares(k, n)
  BY DEF PlainUse
<1>3. InFunction(j, i - 1)
  BY <1>2, InFunctionBefore
<1>4. program[j].kind \in Heads => program[j].kind = "function"
  BY <1>3, DefinitionFacts
<1>5. m = <<j, LastOf(n, program[j].names)>>
  <2>1. PICK l \in 1 .. i - 1 :
          /\ Declares(l, n) /\ m = <<l, LastOf(n, program[l].names)>>
          /\ \A k \in l + 1 .. i - 1 : Declares(k, n) => program[k].loops > 0
    BY <1>1, SeenFacts
  <2>2. j < l => l \in j + 1 .. i - 1
    BY <1>1
  <2>3. l < j => j \in l + 1 .. i - 1
    BY <1>1
  <2>4. l = j
    BY <1>1, <1>2, <2>1, <2>2, <2>3
  <2> QED BY <2>1, <2>4
<1>6. Binds(j, n)
  BY <1>2, <1>4, BindsFacts DEF SamePlace
<1>7. g # Nothing
  BY <1>1, <1>3, <1>6, BoundFacts
<1>8. PICK l \in 1 .. i - 1 :
        /\ InFunction(l, i - 1) /\ Binds(l, n) /\ g = GenPlace(l, n)
        /\ \A k \in l + 1 .. i - 1 : ~ Declares(k, n)
  BY <1>1, <1>7, BoundFacts
<1>9. l = j
  <2>1. l < j => j \in l + 1 .. i - 1
    BY <1>1
  <2>2. ~ (l < j)
    BY <1>2, <1>8, <2>1
  <2>3. ASSUME j < l PROVE FALSE
    <3>1. l \in j + 1 .. i - 1
      BY <1>1, <2>3
    <3>2. program[l].kind \notin Heads
      BY <1>3, <3>1 DEF InFunction
    <3> QED BY <1>2, <1>8, <3>1, <3>2, BindsFacts
  <2> QED BY <1>1, <2>2, <2>3
<1>10. GenPlace(j, n) = <<j, LastOf(n, program[j].names)>>
  BY <1>2, <1>4 DEF GenPlace, GenNames, SamePlace
<1> QED BY <1>5, <1>8, <1>9, <1>10

LEMMA SameMeansPlain ==
  ASSUME Given, NEW i \in 1 .. Len(program), program[i].kind \notin Heads, NEW n, ~ Declares(i, n),
         NEW m, m # Nothing, Seen(i - 1, n, m), Bound(i - 1, n, m)
  PROVE  PlainUse(i, n)
<1>1. i - 1 \in Nat
  BY DEF Given
<1>2. PICK j \in 1 .. i - 1 :
        /\ Declares(j, n) /\ program[j].loops = 0 /\ m = <<j, LastOf(n, program[j].names)>>
  BY <1>1, SeenFacts
<1>3. PICK l \in 1 .. i - 1 :
        /\ InFunction(l, i - 1) /\ Binds(l, n) /\ m = GenPlace(l, n)
        /\ \A k \in l + 1 .. i - 1 : ~ Declares(k, n)
  BY <1>1, BoundFacts
<1>4. l = j
  BY <1>2, <1>3 DEF GenPlace
<1>5. InFunction(j, i)
  BY <1>3, <1>4, DefinitionFacts
<1>6. SamePlace(j, n)
  <2>1. SUFFICES ASSUME program[j].kind = "function"
                 PROVE  /\ Among(n, Parameters(program[j].of))
                        /\ FirstOf(n, Parameters(program[j].of)) = LastOf(n, program[j].names)
    BY DEF SamePlace
  <2>2. program[j].kind \in Heads
    BY <2>1 DEF Heads
  <2>3. m = <<j, FirstOf(n, Parameters(program[j].of))>>
    BY <1>3, <1>4, <2>2 DEF GenPlace, GenNames
  <2> QED BY <1>2, <1>3, <1>4, <2>2, <2>3, BindsFacts
<1> QED BY <1>2, <1>3, <1>4, <1>5, <1>6 DEF PlainUse

(***************************************************************************)
(* The invariant MeaningKept: visitVariableExpr() of the generator finds   *)
(* for a name what the verifier found, exactly if its last declaration is  *)
(* a plain one.                                                            *)
(***************************************************************************)
THEOREM MeaningIsKept == Spec => []MeaningKept
<1>1. ScopesInv => MeaningKept
  <2> SUFFICES ASSUME ScopesInv, NEW i \in Generated, program[i].loops = 0,
                      NEW n \in program[i].uses
               PROVE  got[i][n] = meant[i][n] <=> PlainUse(i, n)
    BY DEF MeaningKept
  <2>1. /\ Given /\ Meant /\ Got /\ phase \in {"gen", "crashed", "done"}
        /\ i \in 1 .. Len(program) /\ i \in 1 .. at
    <3>1. Given /\ Meant /\ Got
      BY DEF ScopesInv
    <3>2. i \in DOMAIN program /\ i <= at /\ phase \in {"gen", "crashed", "done"}
      BY DEF Generated
    <3>3. i \in 1 .. Len(program) /\ at \in Nat
      BY <3>1, <3>2 DEF Given, WellFormed
    <3> QED BY <3>1, <3>2, <3>3
  <2>2. program[i].kind \notin Heads
    BY <2>1, HeadFacts
  <2>3. meant[i][n] # Nothing /\ Seen(i - 1, n, meant[i][n])
    BY <2>1, <2>2 DEF Meant
  <2>4. CASE Declares(i, n)
    <3>1. got[i][n] = <<i, LastOf(n, program[i].names)>>
      BY <2>1, <2>2, <2>4 DEF Got
    <3>2. PICK j \in 1 .. i - 1 : meant[i][n] = <<j, LastOf(n, program[j].names)>>
      <4>1. i - 1 \in Nat
        BY <2>1
      <4>2. \E j \in 1 .. i - 1 :
              /\ Declares(j, n) /\ program[j].loops = 0
              /\ meant[i][n] = <<j, LastOf(n, program[j].names)>>
              /\ \A m \in j + 1 .. i - 1 : Declares(m, n) => program[m].loops > 0
        BY <4>1, <2>3, SeenFacts
      <4> QED BY <4>2
    <3>3. i \in Nat /\ j # i
      BY <2>1 DEF Given
    <3>4. got[i][n] # meant[i][n]
      BY <3>1, <3>2, <3>3
    <3> QED BY <2>4, <3>4 DEF PlainUse
  <2>5. CASE ~ Declares(i, n)
    <3>1. Bound(i - 1, n, got[i][n])
      BY <2>1, <2>2, <2>5 DEF Got
    <3>2. PlainUse(i, n) => got[i][n] = meant[i][n]
      BY <2>1, <2>2, <2>3, <2>5, <3>1, PlainMeansSame
    <3>3. got[i][n] = meant[i][n] => PlainUse(i, n)
      <4>1. SUFFICES ASSUME got[i][n] = meant[i][n] PROVE PlainUse(i, n)
        OBVIOUS
      <4>2. Bound(i - 1, n, meant[i][n])
        BY <3>1, <4>1
      <4> QED BY <2>1, <2>2, <2>3, <2>5, <4>2, SameMeansPlain
    <3> QED BY <3>2, <3>3
  <2> QED BY <2>4, <2>5
<1> QED BY <1>1, Invariant, PTL
=============================================================================
