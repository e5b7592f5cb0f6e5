-------------------------- MODULE GenVisitorProofs --------------------------
(***************************************************************************)
(* Proofs about GenVisitor, for every bound on the blocks and expressions  *)
(* of the function: its types, and that the function verifies exactly if   *)
(* its body has none of the four flawed shapes.                            *)
(***************************************************************************)
EXTENDS GenVisitor, TLAPS

USE MaxBlocksAssumption, MaxExprsAssumption

IInv == TypeOK /\ OwnedApart /\ OthersClosed /\ BuriedIffMisshapen

(***************************************************************************)
(* Lists of instructions: what appending to one does to its terminators.   *)
(***************************************************************************)
Reaches(instrs, blocks) == \A i \in 1 .. Len(instrs) : Targets(instrs[i]) \subseteq blocks

LEMMA Concatenation ==
  ASSUME NEW s \in Seq(Instr), NEW t \in Seq(Instr)
  PROVE  /\ s \o t \in Seq(Instr)
         /\ Len(s \o t) = Len(s) + Len(t)
         /\ \A i \in 1 .. Len(s) : (s \o t)[i] = s[i]
         /\ \A i \in 1 .. Len(t) : (s \o t)[Len(s) + i] = t[i]
         /\ \A i \in Len(s) + 1 .. Len(s) + Len(t) : (s \o t)[i] = t[i - Len(s)]
  OBVIOUS

LEMMA Appended ==
  ASSUME NEW s \in Seq(Instr), NEW t \in Seq(Instr)
  PROVE  /\ s \o t \in Seq(Instr)
         /\ t # <<>> => (Ends(s \o t) <=> Ends(t))
         /\ ~ Ends(s) /\ ~ Buries(s) /\ ~ Buries(t) => ~ Buries(s \o t)
         /\ Buries(s) => Buries(s \o t)
         /\ Ends(s) /\ t # <<>> => Buries(s \o t)
         /\ \A blocks : Reaches(s, blocks) /\ Reaches(t, blocks) => Reaches(s \o t, blocks)
  <1> DEFINE u == s \o t
  <1>1. /\ u \in Seq(Instr)
        /\ Len(u) = Len(s) + Len(t)
        /\ \A i \in 1 .. Len(s) : u[i] = s[i]
        /\ \A i \in 1 .. Len(t) : u[Len(s) + i] = t[i]
        /\ \A i \in Len(s) + 1 .. Len(s) + Len(t) : u[i] = t[i - Len(s)]
    BY Concatenation
  <1>2. Len(s) \in Nat /\ Len(t) \in Nat /\ (t # <<>> => Len(t) > 0) /\ (s # <<>> => Len(s) > 0)
    OBVIOUS
  <1> HIDE DEF u
  <1>3. ASSUME t # <<>> PROVE Ends(u) <=> Ends(t)
    <2>1. Len(u) = Len(s) + Len(t) /\ Len(t) \in 1 .. Len(t) /\ u # <<>>
      BY <1>1, <1>2, <1>3
    <2>2. u[Len(u)] = t[Len(t)]
      BY <1>1, <2>1
    <2>3. QED
      BY <1>3, <2>1, <2>2 DEF Ends
  <1>4. ASSUME ~ Ends(s), ~ Buries(s), ~ Buries(t) PROVE ~ Buries(u)
    <2>1. SUFFICES ASSUME NEW i \in 1 .. Len(u) - 1 PROVE ~ IsTerminator(u[i])
      BY DEF Buries
    <2>2. CASE i < Len(s)
      BY <1>1, <1>2, <1>4, <2>2 DEF Buries
    <2>3. CASE i = Len(s)
      BY <1>1, <1>2, <1>4, <2>3 DEF Ends
    <2>4. CASE i > Len(s)
      <3>1. i - Len(s) \in 1 .. Len(t) - 1 /\ u[i] = t[i - Len(s)]
        BY <1>1, <1>2, <2>4
      <3>2. QED
        BY <1>4, <3>1 DEF Buries
    <2>5. QED
      BY <1>1, <1>2, <2>2, <2>3, <2>4
  <1>5. ASSUME Buries(s) PROVE Buries(u)
    BY <1>1, <1>2, <1>5 DEF Buries
  <1>6. ASSUME Ends(s), t # <<>> PROVE Buries(u)
    <2>1. Len(s) \in 1 .. Len(u) - 1 /\ u[Len(s)] = s[Len(s)]
      BY <1>1, <1>2, <1>6 DEF Ends
    <2>2. QED
      BY <1>6, <2>1 DEF Ends, Buries
  <1>7. ASSUME NEW blocks, Reaches(s, blocks), Reaches(t, blocks)
        PROVE  Reaches(u, blocks)
    <2>1. SUFFICES ASSUME NEW i \in 1 .. Len(u) PROVE Targets(u[i]) \subseteq blocks
      BY DEF Reaches
    <2>2. CASE i <= Len(s)
      BY <1>1, <1>2, <1>7, <2>2 DEF Reaches
    <2>3. CASE i > Len(s)
      <3>1. i - Len(s) \in 1 .. Len(t) /\ u[i] = t[i - Len(s)]
        BY <1>1, <1>2, <2>3
      <3>2. QED
        BY <1>7, <3>1 DEF Reaches
    <2>4. QED
      BY <1>1, <1>2, <2>2, <2>3
  <1>8. QED
    BY <1>1, <1>3, <1>4, <1>5, <1>6, <1>7 DEF u

LEMMA Instructions ==
  ASSUME NEW n \in Nat, NEW b \in Nat, NEW c \in Nat
  PROVE  /\ Value(n) \in Instr /\ Ret \in Instr /\ Br(b) \in Instr /\ CondBr(b, c) \in Instr
         /\ ~ IsTerminator(Value(n)) /\ IsTerminator(Ret)
         /\ IsTerminator(Br(b)) /\ IsTerminator(CondBr(b, c))
         /\ Targets(Value(n)) = {} /\ Targets(Ret) = {}
         /\ Targets(Br(b)) = {b} /\ Targets(CondBr(b, c)) = {b, c}
  BY DEF Value, Ret, Br, CondBr, Instr, IsTerminator, Targets

\* The lists the visitor appends.
LEMMA Lists ==
  ASSUME NEW n \in Nat, NEW b \in Nat, NEW c \in Nat
  PROVE  /\ <<Value(n)>> \in Seq(Instr) /\ <<Ret>> \in Seq(Instr)
         /\ <<Value(n), Ret>> \in Seq(Instr) /\ <<Br(b)>> \in Seq(Instr)
         /\ <<Value(n), Br(b)>> \in Seq(Instr) /\ <<Value(n), CondBr(b, c)>> \in Seq(Instr)
         /\ ~ Ends(<<Value(n)>>) /\ Ends(<<Ret>>) /\ Ends(<<Value(n), Ret>>)
         /\ Ends(<<Br(b)>>) /\ Ends(<<Value(n), Br(b)>>) /\ Ends(<<Value(n), CondBr(b, c)>>)
         /\ ~ Buries(<<Value(n)>>) /\ ~ Buries(<<Ret>>) /\ ~ Buries(<<Value(n), Ret>>)
         /\ ~ Buries(<<Br(b)>>) /\ ~ Buries(<<Value(n), Br(b)>>)
         /\ ~ Buries(<<Value(n), CondBr(b, c)>>)
         /\ \A blocks : /\ Reaches(<<Value(n)>>, blocks) /\ Reaches(<<Ret>>, blocks)
                        /\ Reaches(<<Value(n), Ret>>, blocks)
                        /\ b \in blocks => /\ Reaches(<<Br(b)>>, blocks)
                                           /\ Reaches(<<Value(n), Br(b)>>, blocks)
                        /\ b \in blocks /\ c \in blocks =>
                             Reaches(<<Value(n), CondBr(b, c)>>, blocks)
  BY Instructions DEF Ends, Buries, Reaches

LEMMA EmptyList ==
  /\ <<>> \in Seq(Instr) /\ ~ Ends(<<>>) /\ ~ Buries(<<>>)
  /\ \A blocks : Reaches(<<>>, blocks)
  /\ \A s \in Seq(Instr) : s \o <<>> = s /\ <<>> \o s = s
  BY DEF Ends, Buries, Reaches

(***************************************************************************)
(* The stack of frames: the blocks its frames own, and how they are kept   *)
(* apart when a frame is entered, replaced or left.                        *)
(***************************************************************************)
OwnedIn(fr) == UNION {Owned(fr[k]) : k \in 1 .. Len(fr)}

ContsIn(fr) == {fr[k].cont : k \in 1 .. Len(fr)}

Good(f, att, m, a) ==
  /\ f.cont \in 1 .. m \ att
  /\ Waiting(f) \subseteq att \ {1, a}
  /\ f.kind = "init" => f.loop # f.next
  /\ f.kind \in {"while", "for"} => f.loop \in att \ {1}

Apart(fr, att, m, a) ==
  /\ \A k \in 1 .. Len(fr) : Good(fr[k], att, m, a)
  /\ \A j, k \in 1 .. Len(fr) : j # k => Owned(fr[j]) \cap Owned(fr[k]) = {}

LEMMA Entered ==
  ASSUME NEW g \in Seq(Frame), NEW f \in Frame
  PROVE  LET fr == Append(g, f)
         IN  /\ fr \in Seq(Frame) /\ fr # <<>> /\ fr[Len(fr)] = f
             /\ OwnedIn(fr) = OwnedIn(g) \cup Owned(f)
             /\ ContsIn(fr) = ContsIn(g) \cup {f.cont}
             /\ \A att, m, a : Apart(fr, att, m, a) <=>
                  Apart(g, att, m, a) /\ Good(f, att, m, a) /\ OwnedIn(g) \cap Owned(f) = {}
  <1> DEFINE fr == Append(g, f)
  <1>1. /\ fr \in Seq(Frame) /\ fr # <<>> /\ Len(fr) = Len(g) + 1 /\ fr[Len(fr)] = f
        /\ \A k \in 1 .. Len(g) : fr[k] = g[k]
        /\ Len(g) \in Nat
    OBVIOUS
  <1> HIDE DEF fr
  <1>2. 1 .. Len(fr) = 1 .. Len(g) \cup {Len(fr)} /\ Len(fr) \notin 1 .. Len(g)
    BY <1>1
  <1>3. OwnedIn(fr) = OwnedIn(g) \cup Owned(f)
    BY <1>1, <1>2 DEF OwnedIn
  <1>4. ContsIn(fr) = ContsIn(g) \cup {f.cont}
    BY <1>1, <1>2 DEF ContsIn
  <1>5. ASSUME NEW att, NEW m, NEW a
        PROVE  Apart(fr, att, m, a) <=>
                  Apart(g, att, m, a) /\ Good(f, att, m, a) /\ OwnedIn(g) \cap Owned(f) = {}
    <2>1. ASSUME Apart(fr, att, m, a)
          PROVE  Apart(g, att, m, a) /\ Good(f, att, m, a) /\ OwnedIn(g) \cap Owned(f) = {}
      <3>1. Apart(g, att, m, a) /\ Good(f, att, m, a)
        BY <1>1, <1>2, <2>1 DEF Apart
      <3>2. \A k \in 1 .. Len(g) : Owned(g[k]) \cap Owned(f) = {}
        BY <1>1, <1>2, <2>1 DEF Apart
      <3>3. QED
        BY <3>1, <3>2 DEF OwnedIn
    <2>2. ASSUME Apart(g, att, m, a), Good(f, att, m, a), OwnedIn(g) \cap Owned(f) = {}
          PROVE  Apart(fr, att, m, a)
      <3>1. \A k \in 1 .. Len(g) : Owned(g[k]) \cap Owned(f) = {}
        BY <2>2 DEF OwnedIn
      <3>2. \A k \in 1 .. Len(fr) : Good(fr[k], att, m, a)
        BY <1>1, <1>2, <2>2 DEF Apart
      <3>3. \A j, k \in 1 .. Len(fr) : j # k => Owned(fr[j]) \cap Owned(fr[k]) = {}
        BY <1>1, <1>2, <2>2, <3>1 DEF Apart
      <3>4. QED
        BY <3>2, <3>3 DEF Apart
    <2>3. QED
      BY <2>1, <2>2
  <1>6. QED
    BY <1>1, <1>3, <1>4, <1>5 DEF fr

LEMMA Split ==
  ASSUME NEW fr \in Seq(Frame), fr # <<>>
  PROVE  /\ SubSeq(fr, 1, Len(fr) - 1) \in Seq(Frame)
         /\ fr[Len(fr)] \in Frame
         /\ fr = Append(SubSeq(fr, 1, Len(fr) - 1), fr[Len(fr)])
  OBVIOUS

LEMMA NoFrames ==
  /\ OwnedIn(<<>>) = {} /\ ContsIn(<<>>) = {}
  /\ \A att, m, a : Apart(<<>>, att, m, a)
  BY DEF OwnedIn, ContsIn, Apart

\* What owns its blocks goes on owning them as blocks are added.
LEMMA ApartStays ==
  ASSUME NEW fr \in Seq(Frame), NEW att, NEW m \in Nat, NEW a, Apart(fr, att, m, a),
         NEW att2, NEW m2 \in Nat, NEW a2,
         att \subseteq att2, m <= m2, (att2 \ att) \cap ContsIn(fr) = {}, a2 \notin OwnedIn(fr)
  PROVE  Apart(fr, att2, m2, a2)
  <1>1. ASSUME NEW k \in 1 .. Len(fr) PROVE Good(fr[k], att2, m2, a2)
    <2>1. fr[k].cont \in ContsIn(fr) /\ Waiting(fr[k]) \subseteq OwnedIn(fr)
      BY DEF ContsIn, OwnedIn, Owned
    <2>2. Good(fr[k], att, m, a)
      BY DEF Apart
    <2>3. QED
      BY <2>1, <2>2 DEF Good
  <1>2. QED
    BY <1>1 DEF Apart

LEMMA ApartFacts ==
  ASSUME NEW fr \in Seq(Frame), NEW m \in Nat, NEW att \in SUBSET (1 .. m), NEW a \in att,
         Apart(fr, att, m, a)
  PROVE  /\ ContsIn(fr) \subseteq OwnedIn(fr)
         /\ OwnedIn(fr) \subseteq 1 .. m
         /\ a \notin OwnedIn(fr)
         /\ ContsIn(fr) \cap att = {}
         /\ OwnedIn(fr) \ att \subseteq ContsIn(fr)
  <1>1. \A k \in 1 .. Len(fr) : Good(fr[k], att, m, a)
    BY DEF Apart
  <1>2. \A k \in 1 .. Len(fr) :
          /\ fr[k].cont \in Owned(fr[k]) /\ Owned(fr[k]) \subseteq 1 .. m
          /\ a \notin Owned(fr[k]) /\ fr[k].cont \notin att
          /\ Owned(fr[k]) \ att \subseteq {fr[k].cont}
    BY <1>1 DEF Good, Owned
  <1>3. QED
    BY <1>2 DEF OwnedIn, ContsIn

(***************************************************************************)
(* What a step writes: s at the end of block a and t at the end of block   *)
(* q, which is 0 if the step writes to no second block.                    *)
(***************************************************************************)
Wrote(c, d, a, s, q, t) ==
  /\ d \in [Blocks -> Seq(Instr)]
  /\ q # a
  /\ d[a] = c[a] \o s
  /\ q \in Blocks => d[q] = c[q] \o t
  /\ \A b \in Blocks : b # a /\ b # q => d[b] = c[b]

LEMMA Writes ==
  ASSUME NEW c \in [Blocks -> Seq(Instr)], NEW a \in Blocks, NEW s \in Seq(Instr),
         NEW q \in Blocks, NEW t \in Seq(Instr), q # a
  PROVE  /\ Wrote(c, [c EXCEPT ![a] = @ \o s, ![q] = @ \o t], a, s, q, t)
         /\ Wrote(c, [c EXCEPT ![a] = @ \o s], a, s, 0, <<>>)
         /\ Wrote(c, c, a, <<>>, 0, <<>>)
  <1>1. c[a] \in Seq(Instr) /\ c[q] \in Seq(Instr) /\ 0 \notin Blocks
    BY DEF Blocks
  <1>2. c[a] \o s \in Seq(Instr) /\ c[q] \o t \in Seq(Instr) /\ c[a] \o <<>> = c[a]
    BY <1>1, Appended, EmptyList
  <1>3. QED
    BY <1>1, <1>2 DEF Wrote

LEMMA Writes1 ==
  ASSUME NEW c \in [Blocks -> Seq(Instr)], NEW a \in Blocks, NEW s \in Seq(Instr)
  PROVE  /\ Wrote(c, [c EXCEPT ![a] = @ \o s], a, s, 0, <<>>)
         /\ Wrote(c, c, a, <<>>, 0, <<>>)
  <1>1. c[a] \in Seq(Instr) /\ 0 \notin Blocks
    BY DEF Blocks
  <1>2. c[a] \o s \in Seq(Instr) /\ c[a] \o <<>> = c[a]
    BY <1>1, Appended, EmptyList
  <1>3. QED
    BY <1>1, <1>2 DEF Wrote

(***************************************************************************)
(* The common part of all steps.  The insert point moves from a to a2 and  *)
(* the frames from fr to fr2; what was owned is filled, or still owned.    *)
(***************************************************************************)
Empties(c, fr, m) == \A b \in Blocks : b \in OwnedIn(fr) \/ b > m => c[b] = <<>>

Closed(c, fr, att, a) == \A b \in att \ ({a} \cup OwnedIn(fr)) : Ends(c[b])

Within(c, blocks) == \A b \in Blocks : Reaches(c[b], blocks)

(***************************************************************************)
(* The invariant in terms of these, of this state and of the next.         *)
(***************************************************************************)
Onwards(fr, att) == (att \cup ContsIn(fr)) \ {1}

Shape(c, fr, att, m, a) ==
  /\ Apart(fr, att, m, a)
  /\ Empties(c, fr, m)
  /\ Closed(c, fr, att, a)
  /\ Within(c, Onwards(fr, att))

LEMMA ShapeNow ==
  ASSUME IInv
  PROVE  Shape(code, frames, attached, made, at)
  BY DEF IInv, OwnedApart, OthersClosed, BranchesInto, Reserved, Conts,
         Shape, Apart, Good, Empties, Closed, Within, Onwards, Reaches, OwnedIn, ContsIn

LEMMA ShapeNext ==
  ASSUME Shape(code', frames', attached', made', at')
  PROVE  OwnedApart' /\ OthersClosed'
  BY DEF OwnedApart, OthersClosed, BranchesInto, Reserved, Conts,
         Shape, Apart, Good, Empties, Closed, Within, Onwards, Reaches, OwnedIn, ContsIn

LEMMA TypesNow ==
  ASSUME TypeOK
  PROVE  /\ made \in Blocks /\ made \in Nat /\ exprs + 1 \in Nat
         /\ attached \in SUBSET (1 .. made) /\ at \in attached /\ at \in Blocks
         /\ code \in [Blocks -> Seq(Instr)] /\ code[at] \in Seq(Instr)
         /\ frames \in Seq(Frame)
  BY DEF TypeOK, Blocks

LEMMA Moves ==
  ASSUME TypeOK, Shape(code, frames, attached, made, at),
         NEW s \in Seq(Instr), NEW t \in Seq(Instr), NEW q \in 0 .. made',
         Wrote(code, code', at, s, q, t),
         made' \in Blocks, made <= made',
         attached' \in SUBSET (1 .. made'), at' \in attached',
         Apart(frames', attached', made', at'),
         q # 0 => code[q] = <<>>,
         at \notin OwnedIn(frames'), q \notin OwnedIn(frames'),
         OwnedIn(frames') \subseteq OwnedIn(frames) \cup made + 1 .. made',
         OwnedIn(frames) \subseteq OwnedIn(frames') \cup {at', q},
         attached' \subseteq attached \cup {at', q} \cup OwnedIn(frames'),
         at = at' \/ (Ends(code[at]) /\ s = <<>>) \/ Ends(s),
         q = at' \/ q \notin attached' \/ Ends(t),
         Onwards(frames, attached) \subseteq Onwards(frames', attached'),
         Reaches(s, Onwards(frames', attached')), Reaches(t, Onwards(frames', attached'))
  PROVE  OwnedApart' /\ OthersClosed'
  <1> USE TypesNow
  <1>1. /\ attached' \subseteq Blocks /\ at \in Blocks /\ made' \in Nat
        /\ 0 \notin Blocks /\ (q # 0 => q \in Blocks)
        /\ \A b \in Blocks : b \in Nat /\ b > 0 /\ code[b] \in Seq(Instr)
    <2>1. made' \in Nat /\ 0 \notin Blocks /\ \A b \in Blocks : b \in Nat /\ b > 0
      BY DEF Blocks
    <2>2. 1 .. made' \subseteq Blocks
      BY DEF Blocks
    <2>3. attached' \subseteq Blocks /\ (q # 0 => q \in Blocks)
      BY <2>1, <2>2
    <2>4. at \in Blocks /\ \A b \in Blocks : code[b] \in Seq(Instr)
      OBVIOUS
    <2>5. QED
      BY <2>1, <2>3, <2>4
  <1>2. /\ code'[at] = code[at] \o s
        /\ q # 0 => code'[q] = t /\ code'[q] = code[q] \o t /\ q # at
        /\ \A b \in Blocks : b # at /\ b # q => code'[b] = code[b]
    <2>1. q # 0 => code[q] \o t = t
      BY EmptyList
    <2>2. QED
      BY <1>1, <2>1 DEF Wrote
  <1>3. /\ s = <<>> => code'[at] = code[at]
        /\ s # <<>> => (Ends(code'[at]) <=> Ends(s))
        /\ \A blocks : Reaches(code[at], blocks) /\ Reaches(s, blocks) => Reaches(code'[at], blocks)
    <2>1. code[at] \in Seq(Instr) /\ code'[at] = code[at] \o s
      BY <1>1, <1>2
    <2>2. s = <<>> => code[at] \o s = code[at]
      BY <2>1, EmptyList
    <2>3. /\ s # <<>> => (Ends(code[at] \o s) <=> Ends(s))
          /\ \A blocks :
               Reaches(code[at], blocks) /\ Reaches(s, blocks) => Reaches(code[at] \o s, blocks)
      BY <2>1, Appended
    <2>4. QED
      BY <2>1, <2>2, <2>3
  <1>4. Empties(code', frames', made')
    <2>1. SUFFICES ASSUME NEW b \in Blocks, b \in OwnedIn(frames') \/ b > made'
                   PROVE  code'[b] = <<>>
      BY DEF Empties
    <2>2. at \in 1 .. made /\ at <= made'
      BY <1>1
    <2>3. b # at /\ b # q
      BY <1>1, <2>1, <2>2
    <2>4. b \in OwnedIn(frames) \/ b > made
      BY <1>1, <2>1
    <2>5. QED
      BY <1>2, <2>3, <2>4 DEF Empties, Shape
  <1>5. Closed(code', frames', attached', at')
    <2>1. SUFFICES ASSUME NEW b \in attached', b # at', b \notin OwnedIn(frames')
                   PROVE  Ends(code'[b])
      BY DEF Closed
    <2>2. CASE b = at
      BY <1>3, <2>1, <2>2, EmptyList
    <2>3. CASE b = q
      <3>1. q # 0 /\ Ends(t)
        BY <2>1, <2>3
      <3>2. QED
        BY <1>2, <2>3, <3>1
    <2>4. CASE b # at /\ b # q
      <3>1. b \in attached \ ({at} \cup OwnedIn(frames)) /\ b \in Blocks
        BY <1>1, <2>1, <2>4
      <3>2. QED
        BY <1>2, <2>4, <3>1 DEF Closed, Shape
    <2>5. QED
      BY <2>2, <2>3, <2>4
  <1>6. Within(code', Onwards(frames', attached'))
    <2> DEFINE old == Onwards(frames, attached)
    <2> DEFINE new == Onwards(frames', attached')
    <2>1. SUFFICES ASSUME NEW b \in Blocks PROVE Reaches(code'[b], new)
      BY DEF Within
    <2>2. Reaches(code[b], old)
      BY DEF Shape, Within
    <2> HIDE DEF old, new
    <2>3. Reaches(code[b], new)
      BY <2>2 DEF Reaches, old, new
    <2>4. CASE b = at
      BY <1>3, <2>3, <2>4 DEF new
    <2>5. CASE b # at
      BY <1>1, <1>2, <2>3, <2>5 DEF new
    <2>6. QED
      BY <2>4, <2>5
  <1>7. QED
    BY <1>4, <1>5, <1>6, ShapeNext DEF Shape

\* What it does to the terminators: a flaw is to write behind one.
LEMMA Buried ==
  ASSUME TypeOK, NEW s \in Seq(Instr), NEW t \in Seq(Instr), NEW q \in 0 .. made',
         made' \in Blocks, Wrote(code, code', at, s, q, t),
         q # 0 => code[q] = <<>>, attached \subseteq attached'
  PROVE  /\ (~ Ends(code[at]) \/ s = <<>>) /\ (\A b \in Blocks : ~ Buries(code[b]))
              /\ ~ Buries(s) /\ ~ Buries(t)
            => \A b \in Blocks : ~ Buries(code'[b])
         /\ (\E b \in attached : Buries(code[b])) => \E b \in attached' : Buries(code'[b])
         /\ Ends(code[at]) /\ s # <<>> => \E b \in attached' : Buries(code'[b])
         /\ s # <<>> => (Ends(code'[at]) <=> Ends(s))
         /\ \A b \in Blocks : b # at /\ b # q => code'[b] = code[b]
         /\ q # 0 => code'[q] = t
  <1> USE TypesNow
  <1>1. /\ attached \subseteq Blocks /\ at \in Blocks
        /\ 0 \notin Blocks /\ (q # 0 => q \in Blocks)
    BY DEF Blocks
  <1>2. /\ code'[at] = code[at] \o s
        /\ q # 0 => code'[q] = t /\ q # at
        /\ \A b \in Blocks : b # at /\ b # q => code'[b] = code[b]
    <2>1. q # 0 => code[q] \o t = t
      BY EmptyList
    <2>2. QED
      BY <1>1, <2>1 DEF Wrote
  <1>3. /\ s = <<>> => code'[at] = code[at]
        /\ s # <<>> => (Ends(code'[at]) <=> Ends(s))
        /\ Buries(code[at]) => Buries(code'[at])
        /\ Ends(code[at]) /\ s # <<>> => Buries(code'[at])
        /\ ~ Ends(code[at]) /\ ~ Buries(code[at]) /\ ~ Buries(s) => ~ Buries(code'[at])
    <2>1. code[at] \in Seq(Instr)
      BY <1>1
    <2>2. QED
      BY <1>2, <2>1, Appended, EmptyList
  <1>4. ASSUME ~ Ends(code[at]) \/ s = <<>>, \A b \in Blocks : ~ Buries(code[b]),
               ~ Buries(s), ~ Buries(t), NEW b \in Blocks
        PROVE  ~ Buries(code'[b])
    <2>1. CASE b = at
      BY <1>1, <1>3, <1>4, <2>1
    <2>2. CASE b # at
      BY <1>1, <1>2, <1>4, <2>2
    <2>3. QED
      BY <2>1, <2>2
  <1>5. ASSUME NEW b \in attached, Buries(code[b])
        PROVE  b \in attached' /\ Buries(code'[b])
    <2>1. CASE b = at
      BY <1>1, <1>3, <1>5, <2>1
    <2>2. CASE b = q
      BY <1>1, <1>5, <2>2, EmptyList
    <2>3. CASE b # at /\ b # q
      BY <1>1, <1>2, <1>5, <2>3
    <2>4. QED
      BY <2>1, <2>2, <2>3
  <1>6. (\E b \in attached : Buries(code[b])) => \E b \in attached' : Buries(code'[b])
    BY <1>5
  <1>7. Ends(code[at]) /\ s # <<>> => \E b \in attached' : Buries(code'[b])
    BY <1>3
  <1>8. QED
    BY <1>2, <1>3, <1>4, <1>6, <1>7

\* A statement after a return is a flaw; one after anything else is not.
LEMMA DeadNoted ==
  ASSUME BuriedIffMisshapen, ~ done, NoteDead
  PROVE  /\ Misshapen' <=> Misshapen \/ Returned
         /\ "falls_off" \notin flaws'
  BY DEF BuriedIffMisshapen, Misshapen, NoteDead, Note

\* A step that stays in its block, with s to append there.
LEMMA Straight ==
  ASSUME IInv, NEW s \in {<<Value(exprs + 1)>>, <<Ret>>, <<Value(exprs + 1), Ret>>},
         CanVisit, CanEvaluate(1),
         code' = [code EXCEPT ![at] = @ \o s],
         exprs' = exprs + 1,
         \/ s = <<Value(exprs + 1)>> /\ last' = "value"
         \/ s = <<Ret>> /\ last' = "ret"
         \/ s = <<Value(exprs + 1), Ret>> /\ last' = "ret",
         NoteDead,
         UNCHANGED <<made, attached, at, frames, done>>
  PROVE  IInv'
  <1>1. /\ s \in Seq(Instr) /\ s # <<>> /\ ~ Buries(s)
        /\ \A blocks : Reaches(s, blocks)
        /\ Ends(s) <=> Returned'
        /\ last' \in {"value", "ret"}
    <2>1. exprs + 1 \in Nat
      BY TypesNow DEF IInv
    <2>2. CASE s = <<Value(exprs + 1)>> /\ last' = "value"
      BY <2>1, <2>2, Lists DEF Returned
    <2>3. CASE s = <<Ret>> /\ last' = "ret"
      BY <2>1, <2>3, Lists DEF Returned
    <2>4. CASE s = <<Value(exprs + 1), Ret>> /\ last' = "ret"
      BY <2>1, <2>4, Lists DEF Returned
    <2>5. QED
      BY <2>2, <2>3, <2>4
  <1>2. Wrote(code, code', at, s, 0, <<>>)
    BY <1>1, TypesNow, Writes1 DEF IInv
  <1>3. Shape(code, frames, attached, made, at)
    BY ShapeNow
  <1>4. /\ at \notin OwnedIn(frames) /\ OwnedIn(frames) \subseteq 1 .. made
    BY <1>3, TypesNow, ApartFacts DEF IInv, Shape
  <1>5. 0 \notin OwnedIn(frames) /\ 0 \notin attached /\ 0 \in 0 .. made /\ made <= made
    BY <1>4, TypesNow DEF IInv
  <1>6. /\ made' = made /\ attached' = attached /\ at' = at /\ frames' = frames
        /\ done' = done
    OBVIOUS
  <1>7. OwnedApart' /\ OthersClosed'
    <2>1. /\ made' \in Blocks /\ made <= made'
          /\ attached' \in SUBSET (1 .. made') /\ at' \in attached'
          /\ Apart(frames', attached', made', at')
          /\ at \notin OwnedIn(frames') /\ 0 \notin OwnedIn(frames')
          /\ OwnedIn(frames') \subseteq OwnedIn(frames) \cup made + 1 .. made'
          /\ OwnedIn(frames) \subseteq OwnedIn(frames') \cup {at', 0}
          /\ attached' \subseteq attached \cup {at', 0} \cup OwnedIn(frames')
          /\ at = at' /\ 0 \notin attached' /\ 0 \in 0 .. made'
          /\ Onwards(frames, attached) \subseteq Onwards(frames', attached')
      BY <1>3, <1>4, <1>5, <1>6, TypesNow DEF IInv, Shape
    <2>2. <<>> \in Seq(Instr) /\ Reaches(<<>>, Onwards(frames', attached'))
          /\ Reaches(s, Onwards(frames', attached')) /\ TypeOK
      BY <1>1, EmptyList DEF IInv
    <2> DEFINE t == <<>>
    <2> DEFINE q == 0
    <2>3. /\ t \in Seq(Instr) /\ q \in 0 .. made'
          /\ q # 0 => code[q] = <<>>
          /\ Wrote(code, code', at, s, q, t) /\ q \notin OwnedIn(frames')
          /\ OwnedIn(frames) \subseteq OwnedIn(frames') \cup {at', q}
          /\ attached' \subseteq attached \cup {at', q} \cup OwnedIn(frames')
          /\ q \notin attached' /\ Reaches(t, Onwards(frames', attached'))
      BY <1>2, <2>1, <2>2
    <2> HIDE DEF t, q
    <2>4. s \in Seq(Instr)
      BY <1>1
    <2>5. QED
      BY <1>3, <2>1, <2>2, <2>3, <2>4, Moves
  <1>8. TypeOK'
    BY <1>2, TypesNow DEF IInv, TypeOK, Wrote, CanEvaluate, NoteDead, Note, Flaws
  <1>9. BuriedIffMisshapen'
    <2>1. /\ ~ Ends(code[at]) /\ (\A b \in Blocks : ~ Buries(code[b]))
               => \A b \in Blocks : ~ Buries(code'[b])
          /\ (\E b \in attached : Buries(code[b])) => \E b \in attached' : Buries(code'[b])
          /\ Ends(code[at]) => \E b \in attached' : Buries(code'[b])
          /\ Ends(code'[at]) <=> Ends(s)
      BY <1>1, <1>2, <1>5, <1>6, TypesNow, EmptyList, Buried DEF IInv
    <2>2. /\ Misshapen' <=> Misshapen \/ Returned
          /\ ~ done' /\ "falls_off" \notin flaws'
      BY <1>6, DeadNoted DEF IInv, CanVisit
    <2>3. Returned' => Ends(code'[at'])
      BY <1>1, <1>6, <2>1
    <2>4. ~ Misshapen' => /\ ~ Returned' => ~ Ends(code'[at'])
                          /\ \A b \in Blocks : ~ Buries(code'[b])
      BY <1>1, <1>6, <2>1, <2>2 DEF IInv, BuriedIffMisshapen
    <2>5. Misshapen' => \E b \in attached' : Buries(code'[b])
      BY <1>6, <2>1, <2>2 DEF IInv, BuriedIffMisshapen
    <2>6. QED
      BY <1>6, <2>2, <2>3, <2>4, <2>5 DEF BuriedIffMisshapen
  <1>10. QED
    BY <1>7, <1>8, <1>9 DEF IInv

(***************************************************************************)
(* Entering a statement, going on to its next block, and leaving it.       *)
(***************************************************************************)
LEMMA OwnedNow ==
  ASSUME IInv
  PROVE  /\ Shape(code, frames, attached, made, at)
         /\ Apart(frames, attached, made, at)
         /\ OwnedIn(frames) \subseteq 1 .. made
         /\ at \notin OwnedIn(frames)
         /\ ContsIn(frames) \subseteq OwnedIn(frames)
         /\ ContsIn(frames) \cap attached = {}
  BY ShapeNow, TypesNow, ApartFacts DEF IInv, Shape

LEMMA TopNow ==
  ASSUME IInv, frames # <<>>
  PROVE  /\ Outer \in Seq(Frame) /\ Top \in Frame
         /\ Apart(Outer, attached, made, at) /\ Good(Top, attached, made, at)
         /\ OwnedIn(frames) = OwnedIn(Outer) \cup Owned(Top)
         /\ OwnedIn(Outer) \cap Owned(Top) = {}
         /\ ContsIn(frames) = ContsIn(Outer) \cup {Top.cont}
         /\ ContsIn(Outer) \subseteq OwnedIn(Outer)
  <1>1. frames \in Seq(Frame)
    BY TypesNow DEF IInv
  <1>2. Outer \in Seq(Frame) /\ Top \in Frame /\ frames = Append(Outer, Top)
    BY <1>1, Split DEF Outer, Top
  <1>3. Apart(Append(Outer, Top), attached, made, at)
    BY <1>2, OwnedNow
  <1>4. ContsIn(Outer) \subseteq OwnedIn(Outer)
    BY DEF ContsIn, OwnedIn, Owned
  <1>5. QED
    BY <1>2, <1>3, <1>4, Entered

\* The blocks added by a step are none that a frame owns.
Adds ==
  /\ made' \in Blocks /\ made <= made'
  /\ attached \subseteq attached'

LEMMA Pushes ==
  ASSUME IInv, Adds, attached' \subseteq attached \cup made + 1 .. made',
         NEW f \in Frame, frames' = Append(frames, f),
         Good(f, attached', made', at'), Owned(f) \subseteq made + 1 .. made',
         at' = at \/ at' \in made + 1 .. made'
  PROVE  /\ frames' \in Seq(Frame) /\ frames' # <<>> /\ frames'[Len(frames')] = f
         /\ Apart(frames', attached', made', at')
         /\ OwnedIn(frames') = OwnedIn(frames) \cup Owned(f)
         /\ ContsIn(frames') = ContsIn(frames) \cup {f.cont}
         /\ at \notin OwnedIn(frames')
  <1> USE TypesNow, OwnedNow DEF IInv, Adds
  <1>1. made \in Nat /\ made' \in Nat /\ at \in 1 .. made
    BY DEF Blocks
  <1>2. Apart(frames, attached', made', at')
    <2>1. (attached' \ attached) \cap ContsIn(frames) = {} /\ at' \notin OwnedIn(frames)
      BY <1>1
    <2>2. QED
      BY <1>1, <2>1, ApartStays
  <1>3. OwnedIn(frames) \cap Owned(f) = {} /\ at \notin Owned(f)
    BY <1>1
  <1>4. frames \in Seq(Frame) /\ at \notin OwnedIn(frames)
    OBVIOUS
  <1>5. /\ Append(frames, f) \in Seq(Frame) /\ Append(frames, f) # <<>>
        /\ Append(frames, f)[Len(Append(frames, f))] = f
        /\ OwnedIn(Append(frames, f)) = OwnedIn(frames) \cup Owned(f)
        /\ ContsIn(Append(frames, f)) = ContsIn(frames) \cup {f.cont}
        /\ Apart(Append(frames, f), attached', made', at')
    BY <1>2, <1>3, <1>4, Entered
  <1>6. QED
    BY <1>3, <1>4, <1>5

LEMMA Replaces ==
  ASSUME IInv, frames # <<>>, Adds, attached' \subseteq attached \cup made + 1 .. made',
         NEW f \in Frame, frames' = Append(Outer, f),
         Good(f, attached', made', at'),
         Owned(f) \subseteq Owned(Top) \cup made + 1 .. made',
         at' \in Owned(Top) \cup made + 1 .. made'
  PROVE  /\ frames' \in Seq(Frame) /\ frames' # <<>> /\ frames'[Len(frames')] = f
         /\ Apart(frames', attached', made', at')
         /\ OwnedIn(frames') = OwnedIn(Outer) \cup Owned(f)
         /\ ContsIn(frames') = ContsIn(Outer) \cup {f.cont}
         /\ at \notin OwnedIn(frames')
  <1> USE TypesNow, OwnedNow, TopNow DEF IInv, Adds
  <1>1. made \in Nat /\ made' \in Nat /\ at \in 1 .. made
    BY DEF Blocks
  <1>2. Apart(Outer, attached', made', at')
    <2>1. (attached' \ attached) \cap ContsIn(Outer) = {} /\ at' \notin OwnedIn(Outer)
      BY <1>1
    <2>2. QED
      BY <1>1, <2>1, ApartStays
  <1>3. OwnedIn(Outer) \cap Owned(f) = {} /\ at \notin Owned(f) /\ at \notin OwnedIn(Outer)
    BY <1>1
  <1>4. QED
    BY <1>2, <1>3, Entered

LEMMA Pops ==
  ASSUME IInv, frames # <<>>, Leave
  PROVE  /\ frames' = Outer /\ frames' \in Seq(Frame)
         /\ attached' = attached \cup {Top.cont} /\ at' = Top.cont /\ made' = made
         /\ Adds
         /\ Apart(frames', attached', made', at')
         /\ at \notin OwnedIn(frames')
         /\ at' \notin OwnedIn(frames') /\ at' # at /\ at' \in 1 .. made /\ at' \in Owned(Top)
  <1>1. /\ made \in Blocks /\ made \in Nat /\ attached \in SUBSET (1 .. made) /\ at \in attached
        /\ Outer \in Seq(Frame) /\ Apart(Outer, attached, made, at)
        /\ OwnedIn(frames) = OwnedIn(Outer) \cup Owned(Top)
        /\ OwnedIn(Outer) \cap Owned(Top) = {} /\ at \notin OwnedIn(frames)
        /\ ContsIn(Outer) \subseteq OwnedIn(Outer)
    BY TypesNow, OwnedNow, TopNow DEF IInv
  <1>2. Top.cont \in 1 .. made \ attached /\ Top.cont \in Owned(Top)
    BY TopNow DEF Good, Owned
  <1>3. /\ frames' = Outer /\ attached' = attached \cup {Top.cont}
        /\ at' = Top.cont /\ made' = made
    BY DEF Leave
  <1>4. Top.cont \notin OwnedIn(Outer) /\ at \notin OwnedIn(Outer)
    BY <1>1, <1>2
  <1>5. Apart(Outer, attached \cup {Top.cont}, made, Top.cont)
    <2>1. ((attached \cup {Top.cont}) \ attached) \cap ContsIn(Outer) = {}
      BY <1>1, <1>4
    <2>2. attached \subseteq attached \cup {Top.cont} /\ made <= made
      BY <1>1
    <2>3. QED
      BY <1>1, <1>4, <2>1, <2>2, ApartStays
  <1>6. Adds
    BY <1>1, <1>3 DEF Adds
  <1>7. QED
    BY <1>1, <1>2, <1>3, <1>4, <1>5, <1>6

\* A step that moves the insert point to an empty block.
LEMMA Opened ==
  ASSUME IInv, Adds, NEW s \in Seq(Instr), NEW t \in Seq(Instr), NEW q \in 0 .. made',
         Wrote(code, code', at, s, q, t),
         q # 0 => code[q] = <<>>,
         ~ Buries(s), ~ Buries(t), at' \in Blocks, at' # at, at' # q, code[at'] = <<>>,
         ~ Returned', ~ done, done' = done, "falls_off" \notin flaws',
         Misshapen' <=> Misshapen \/ (Returned /\ s # <<>>),
         s = <<>> => (frames # <<>> => Top.kind # "init")
  PROVE  BuriedIffMisshapen'
  <1>1. /\ (~ Ends(code[at]) \/ s = <<>>) /\ (\A b \in Blocks : ~ Buries(code[b]))
             => \A b \in Blocks : ~ Buries(code'[b])
        /\ (\E b \in attached : Buries(code[b])) => \E b \in attached' : Buries(code'[b])
        /\ Ends(code[at]) /\ s # <<>> => \E b \in attached' : Buries(code'[b])
        /\ \A b \in Blocks : b # at /\ b # q => code'[b] = code[b]
    BY Buried DEF IInv, Adds
  <1>2. ~ Ends(code'[at'])
    BY <1>1, EmptyList
  <1>3. ~ Misshapen' => \A b \in Blocks : ~ Buries(code'[b])
    BY <1>1 DEF IInv, BuriedIffMisshapen
  <1>4. Misshapen' => \E b \in attached' : Buries(code'[b])
    BY <1>1 DEF IInv, BuriedIffMisshapen
  <1>5. QED
    BY <1>2, <1>3, <1>4 DEF BuriedIffMisshapen

\* The same step keeps the blocks in shape.
LEMMA MovesOn ==
  ASSUME IInv, Adds, NEW s \in Seq(Instr), NEW t \in Seq(Instr), NEW q \in 0 .. made',
         Wrote(code, code', at, s, q, t),
         attached' \in SUBSET (1 .. made'), at' \in attached',
         Apart(frames', attached', made', at'),
         q # 0 => code[q] = <<>>,
         at \notin OwnedIn(frames'), q \notin OwnedIn(frames'),
         OwnedIn(frames') \subseteq OwnedIn(frames) \cup made + 1 .. made',
         OwnedIn(frames) \subseteq OwnedIn(frames') \cup {at', q},
         attached' \subseteq attached \cup {at', q} \cup OwnedIn(frames'),
         (Returned /\ s = <<>>) \/ Ends(s),
         q = at' \/ q \notin attached' \/ Ends(t),
         ContsIn(frames) \subseteq attached' \cup ContsIn(frames'),
         Reaches(s, Onwards(frames', attached')), Reaches(t, Onwards(frames', attached'))
  PROVE  OwnedApart' /\ OthersClosed'
  <1>1. Onwards(frames, attached) \subseteq Onwards(frames', attached')
    BY DEF Onwards, Adds
  <1>2. at = at' \/ (Ends(code[at]) /\ s = <<>>) \/ Ends(s)
    BY DEF IInv, BuriedIffMisshapen
  <1>3. QED
    BY <1>1, <1>2, OwnedNow, Moves DEF IInv, Adds

\* A step that writes, adds blocks and goes on at an empty one.
LEMMA GoesOn ==
  ASSUME IInv, Adds, NEW s \in Seq(Instr), NEW t \in Seq(Instr), NEW q \in 0 .. made',
         Wrote(code, code', at, s, q, t),
         attached' \in SUBSET (1 .. made'), frames' \in Seq(Frame),
         Apart(frames', attached', made', at'),
         at \notin OwnedIn(frames'), q \notin OwnedIn(frames'),
         OwnedIn(frames') \subseteq OwnedIn(frames) \cup made + 1 .. made',
         OwnedIn(frames) \subseteq OwnedIn(frames') \cup {at', q},
         attached' \subseteq attached \cup {at', q} \cup OwnedIn(frames'),
         ContsIn(frames) \subseteq attached' \cup ContsIn(frames'),
         Ends(s) \/ (Returned /\ s = <<>> /\ (frames # <<>> => Top.kind # "init")),
         q # 0 => Ends(t) /\ code[q] = <<>>,
         ~ Buries(s), ~ Buries(t),
         Reaches(s, Onwards(frames', attached')), Reaches(t, Onwards(frames', attached')),
         at' \in attached', at' # at, at' # q, code[at'] = <<>>,
         ~ done, done' = done, last' \in {"none", "null"}, exprs' \in 0 .. MaxExprs,
         IF Returned /\ s # <<>>
         THEN \E x \in Flaws \ {"falls_off"} : flaws' = flaws \cup {x}
         ELSE flaws' = flaws
  PROVE  IInv'
  <1>1. TypeOK /\ BuriedIffMisshapen /\ made' \in Blocks
    BY DEF IInv, Adds
  <1>2. /\ q \notin attached' \/ Ends(t)
        /\ (Returned /\ s = <<>>) \/ Ends(s)
        /\ q # 0 => code[q] = <<>>
    OBVIOUS
  <1>3. OwnedApart' /\ OthersClosed'
    BY <1>2, MovesOn
  <1>4. TypeOK'
    BY <1>1 DEF TypeOK, Wrote, Flaws, Adds
  <1>5. /\ "falls_off" \notin flaws'
        /\ Misshapen' <=> Misshapen \/ (Returned /\ s # <<>>)
    BY <1>1 DEF BuriedIffMisshapen, Misshapen
  <1>6. /\ at' \in Blocks /\ ~ Returned'
        /\ s = <<>> => (frames # <<>> => Top.kind # "init")
    BY <1>1, EmptyList DEF Blocks, Returned
  <1>7. BuriedIffMisshapen'
    BY <1>2, <1>5, <1>6, Opened
  <1>8. QED
    BY <1>3, <1>4, <1>7 DEF IInv

\* What every step starts from.
StateFacts ==
  /\ made \in Blocks /\ made \in Nat /\ exprs + 1 \in Nat /\ exprs \in Nat
  /\ exprs \in 0 .. MaxExprs
  /\ attached \subseteq 1 .. made /\ at \in attached /\ at \in Blocks /\ at \in Nat
  /\ at <= made /\ at > 0 /\ frames \in Seq(Frame)
  /\ code \in [Blocks -> Seq(Instr)]
  /\ OwnedIn(frames) \subseteq 1 .. made
  /\ \A b \in Blocks : b \in OwnedIn(frames) \/ b > made => code[b] = <<>>

LEMMA StateNow ==
  ASSUME IInv
  PROVE  StateFacts
  BY TypesNow, OwnedNow DEF StateFacts, IInv, TypeOK, Blocks, Shape, Empties

LEMMA ReachesMore ==
  ASSUME NEW s, NEW old, NEW new, Reaches(s, old), old \subseteq new
  PROVE  Reaches(s, new)
  BY DEF Reaches

\* What a step does to the counters, and which flaw it may note.
Notes(s) ==
  /\ ~ done /\ done' = done /\ last' \in {"none", "null"} /\ exprs' \in 0 .. MaxExprs
  /\ IF Returned /\ s # <<>>
     THEN \E x \in Flaws \ {"falls_off"} : flaws' = flaws \cup {x}
     ELSE flaws' = flaws

Appends(s, blocks) ==
  s \in Seq(Instr) /\ Ends(s) /\ ~ Buries(s) /\ Reaches(s, blocks)

\* Entering a statement: the blocks it owns, waits in and fills are all new.
LEMMA Enters ==
  ASSUME IInv, Adds, NEW f \in Frame, frames' = Append(frames, f),
         NEW s, NEW t, NEW q,
         Wrote(code, code', at, s, q, t), Notes(s),
         Good(f, attached', made', at'), Owned(f) \subseteq made + 1 .. made',
         attached' \subseteq attached \cup {at', q} \cup Owned(f),
         attached' \subseteq 1 .. made', at' \in attached',
         at' \in made + 1 .. made', at' \notin Owned(f), at' # q,
         Appends(s, (attached' \cup {f.cont}) \ {1}),
         \/ q = 0 /\ t = <<>>
         \/ /\ q \in made + 1 .. made' \ Owned(f)
            /\ Appends(t, (attached' \cup {f.cont}) \ {1})
  PROVE  IInv'
  <1>1. StateFacts /\ made' \in Nat /\ made' \in Blocks
    BY StateNow DEF Adds, Blocks
  <1>2. /\ frames' \in Seq(Frame) /\ Apart(frames', attached', made', at')
        /\ OwnedIn(frames') = OwnedIn(frames) \cup Owned(f)
        /\ ContsIn(frames') = ContsIn(frames) \cup {f.cont}
        /\ at \notin OwnedIn(frames')
    <2>1. ASSUME NEW b \in attached' PROVE b \in attached \cup (made + 1 .. made')
      <3>1. b \in 1 .. made' /\ b # 0
        OBVIOUS
      <3>2. b \in attached \/ b = at' \/ b = q \/ b \in Owned(f)
        OBVIOUS
      <3>3. q = 0 \/ q \in made + 1 .. made'
        OBVIOUS
      <3>4. QED
        BY <3>1, <3>2, <3>3
    <2>2. attached' \subseteq attached \cup (made + 1 .. made')
      BY <2>1
    <2>3. QED
      BY <2>2, Pushes
  <1>3. (attached' \cup {f.cont}) \ {1} \subseteq Onwards(frames', attached')
    BY <1>2 DEF Onwards
  <1>4. /\ s \in Seq(Instr) /\ Ends(s) /\ ~ Buries(s)
        /\ Reaches(s, Onwards(frames', attached'))
    BY <1>3, ReachesMore DEF Appends
  <1>5. /\ q \in 0 .. made' /\ t \in Seq(Instr) /\ ~ Buries(t)
        /\ Reaches(t, Onwards(frames', attached'))
        /\ q # 0 => Ends(t) /\ code[q] = <<>>
        /\ q \notin OwnedIn(frames')
    <2>1. CASE q = 0 /\ t = <<>>
      BY <1>1, <1>2, <2>1, EmptyList DEF StateFacts
    <2>2. CASE q \in made + 1 .. made' \ Owned(f)
      <3>1. q \in Blocks /\ q > made /\ q \in 0 .. made' /\ q # 0
        BY <1>1, <2>2 DEF StateFacts, Blocks
      <3>2. Appends(t, (attached' \cup {f.cont}) \ {1})
        BY <3>1
      <3>3. QED
        BY <1>1, <1>2, <1>3, <2>2, <3>1, <3>2, ReachesMore DEF Appends, StateFacts
    <2>3. QED
      BY <2>1, <2>2
  <1>6. code[at'] = <<>> /\ at' # at
    BY <1>1 DEF StateFacts, Blocks
  <1>7. /\ OwnedIn(frames') \subseteq OwnedIn(frames) \cup made + 1 .. made'
        /\ OwnedIn(frames) \subseteq OwnedIn(frames') \cup {at', q}
        /\ attached' \subseteq attached \cup {at', q} \cup OwnedIn(frames')
        /\ ContsIn(frames) \subseteq attached' \cup ContsIn(frames')
    BY <1>2
  <1>8. QED
    BY <1>2, <1>4, <1>5, <1>6, <1>7, GoesOn DEF Notes

\* Going on to another block of the statement, one that it owns or a new one.
LEMMA Continues ==
  ASSUME IInv, Adds, frames # <<>>, NEW f \in Frame, frames' = Append(Outer, f),
         NEW s, NEW t, NEW q,
         Wrote(code, code', at, s, q, t), Notes(s),
         Good(f, attached', made', at'), f.cont = Top.cont,
         Owned(f) \subseteq Owned(Top) \cup made + 1 .. made',
         Owned(Top) \subseteq Owned(f) \cup {at', q},
         attached' \subseteq attached \cup {at', q} \cup Owned(f),
         attached' \subseteq attached \cup made + 1 .. made',
         attached' \subseteq 1 .. made', at' \in attached',
         at' \in Owned(Top) \cup made + 1 .. made', at' # q,
         \/ Appends(s, (attached' \cup {f.cont}) \ {1})
         \/ Returned /\ s = <<>> /\ Top.kind # "init",
         \/ q = 0 /\ t = <<>>
         \/ /\ q \in Owned(Top) \ Owned(f)
            /\ Appends(t, (attached' \cup {f.cont}) \ {1})
  PROVE  IInv'
  <1>1. StateFacts /\ made' \in Nat /\ made' \in Blocks
    BY StateNow DEF Adds, Blocks
  <1>2. /\ frames' \in Seq(Frame) /\ Apart(frames', attached', made', at')
        /\ OwnedIn(frames') = OwnedIn(Outer) \cup Owned(f)
        /\ ContsIn(frames') = ContsIn(Outer) \cup {f.cont}
        /\ at \notin OwnedIn(frames')
    BY Replaces
  <1>3. /\ OwnedIn(frames) = OwnedIn(Outer) \cup Owned(Top)
        /\ OwnedIn(Outer) \cap Owned(Top) = {}
        /\ ContsIn(frames) = ContsIn(Outer) \cup {Top.cont}
    BY TopNow
  <1>4. (attached' \cup {f.cont}) \ {1} \subseteq Onwards(frames', attached')
    BY <1>2 DEF Onwards
  <1>5. /\ s \in Seq(Instr) /\ ~ Buries(s)
        /\ Ends(s) \/ (Returned /\ s = <<>> /\ (frames # <<>> => Top.kind # "init"))
        /\ Reaches(s, Onwards(frames', attached'))
    <2>1. CASE Appends(s, (attached' \cup {f.cont}) \ {1})
      BY <1>4, <2>1, ReachesMore DEF Appends
    <2>2. CASE Returned /\ s = <<>> /\ Top.kind # "init"
      BY <2>2, EmptyList
    <2>3. QED
      BY <2>1, <2>2
  <1>6. /\ q \in 0 .. made' /\ t \in Seq(Instr) /\ ~ Buries(t)
        /\ Reaches(t, Onwards(frames', attached'))
        /\ q # 0 => Ends(t) /\ code[q] = <<>>
        /\ q \notin OwnedIn(frames')
    <2>1. CASE q = 0 /\ t = <<>>
      <3>1. 0 \notin OwnedIn(frames') /\ 0 \in 0 .. made'
        BY <1>1, <1>2, <1>3 DEF StateFacts
      <3>2. QED
        BY <2>1, <3>1, EmptyList
    <2>2. CASE q \in Owned(Top) \ Owned(f)
      <3>1. q \in OwnedIn(frames) /\ q \notin OwnedIn(Outer)
        BY <1>3, <2>2
      <3>2. q \in 1 .. made
        BY <1>1, <3>1 DEF StateFacts
      <3>2a. q \in Blocks /\ q \in 0 .. made' /\ q # 0
        BY <1>1, <3>2 DEF StateFacts, Blocks, Adds
      <3>2b. code[q] = <<>>
        BY <1>1, <3>1, <3>2a DEF StateFacts
      <3>3. Appends(t, (attached' \cup {f.cont}) \ {1})
        BY <3>2a
      <3>4. QED
        BY <1>2, <1>4, <2>2, <3>1, <3>2a, <3>2b, <3>3, ReachesMore DEF Appends
    <2>3. QED
      BY <2>1, <2>2
  <1>7. at' # at /\ code[at'] = <<>>
    <2>1. CASE at' \in Owned(Top)
      <3>1. at' \in OwnedIn(frames) /\ at' \in Blocks /\ at \notin OwnedIn(frames)
        BY <1>1, <1>3, <2>1, OwnedNow DEF StateFacts, Blocks
      <3>2. QED
        BY <1>1, <3>1 DEF StateFacts
    <2>2. CASE at' \in made + 1 .. made'
      BY <1>1, <2>2 DEF StateFacts, Blocks
    <2>3. QED
      BY <2>1, <2>2
  <1>8. /\ OwnedIn(frames') \subseteq OwnedIn(frames) \cup made + 1 .. made'
        /\ OwnedIn(frames) \subseteq OwnedIn(frames') \cup {at', q}
        /\ attached' \subseteq attached \cup {at', q} \cup OwnedIn(frames')
        /\ ContsIn(frames) \subseteq attached' \cup ContsIn(frames')
    BY <1>2, <1>3
  <1>9. QED
    BY <1>2, <1>5, <1>6, <1>7, <1>8, GoesOn DEF Notes

\* Leaving a statement at its cont block; a block it still waits in is closed.
LEMMA Leaving ==
  ASSUME IInv, frames # <<>>, Top.kind # "init", Leave,
         NEW s, NEW t, NEW q,
         Wrote(code, code', at, s, q, t), Notes(s),
         Appends(s, (attached \cup {Top.cont}) \ {1}) \/ (Returned /\ s = <<>>),
         \/ q = 0 /\ t = <<>> /\ Waiting(Top) = {}
         \/ /\ Waiting(Top) = {q}
            /\ Appends(t, (attached \cup {Top.cont}) \ {1})
  PROVE  IInv'
  <1>1. StateFacts
    BY StateNow
  <1>2. /\ frames' = Outer /\ frames' \in Seq(Frame)
        /\ attached' = attached \cup {Top.cont} /\ at' = Top.cont /\ made' = made /\ Adds
        /\ Apart(frames', attached', made', at')
        /\ at \notin OwnedIn(frames') /\ at' \notin OwnedIn(frames')
        /\ at' # at /\ at' \in 1 .. made
    BY Pops
  <1>3. /\ OwnedIn(frames) = OwnedIn(Outer) \cup Owned(Top)
        /\ OwnedIn(Outer) \cap Owned(Top) = {}
        /\ ContsIn(frames) = ContsIn(Outer) \cup {Top.cont}
        /\ Top.cont \notin Waiting(Top) /\ Owned(Top) = {Top.cont} \cup Waiting(Top)
    BY TopNow DEF Good, Owned
  <1>4. (attached \cup {Top.cont}) \ {1} \subseteq Onwards(frames', attached')
    BY <1>2 DEF Onwards
  <1>5. /\ s \in Seq(Instr) /\ ~ Buries(s)
        /\ Ends(s) \/ (Returned /\ s = <<>> /\ (frames # <<>> => Top.kind # "init"))
        /\ Reaches(s, Onwards(frames', attached'))
    <2>1. CASE Appends(s, (attached \cup {Top.cont}) \ {1})
      <3>1. Reaches(s, Onwards(frames', attached'))
        BY <1>4, <2>1, ReachesMore DEF Appends
      <3>2. QED
        BY <2>1, <3>1 DEF Appends
    <2>2. CASE Returned /\ s = <<>>
      BY <2>2, EmptyList
    <2>3. QED
      BY <2>1, <2>2
  <1>6. /\ q \in 0 .. made' /\ t \in Seq(Instr) /\ ~ Buries(t)
        /\ Reaches(t, Onwards(frames', attached'))
        /\ q # 0 => Ends(t) /\ code[q] = <<>>
        /\ q \notin OwnedIn(frames') /\ at' # q
        /\ OwnedIn(frames) \subseteq OwnedIn(frames') \cup {at', q}
    <2>1. CASE q = 0 /\ t = <<>> /\ Waiting(Top) = {}
      <3>1. 0 \notin OwnedIn(frames) /\ 0 \in 0 .. made'
        BY <1>1, <1>2 DEF StateFacts
      <3>2. QED
        BY <1>2, <1>3, <2>1, <3>1, EmptyList
    <2>2. CASE /\ Waiting(Top) = {q}
               /\ Appends(t, (attached \cup {Top.cont}) \ {1})
      <3>1. q \in OwnedIn(frames) /\ q \notin OwnedIn(Outer) /\ q # Top.cont
        BY <1>3, <2>2
      <3>2. q \in 1 .. made
        BY <1>1, <3>1 DEF StateFacts
      <3>2a. q \in Blocks /\ q \in 0 .. made' /\ q # 0
        BY <1>1, <1>2, <3>2 DEF StateFacts, Blocks
      <3>2b. code[q] = <<>>
        BY <1>1, <3>1, <3>2a DEF StateFacts
      <3>3. t \in Seq(Instr) /\ ~ Buries(t) /\ Ends(t) /\ Reaches(t, Onwards(frames', attached'))
        BY <1>4, <2>2, ReachesMore DEF Appends
      <3>4. OwnedIn(frames) \subseteq OwnedIn(frames') \cup {at', q}
        BY <1>2, <1>3, <2>2
      <3>5. QED
        BY <1>2, <3>1, <3>2a, <3>2b, <3>3, <3>4
    <2>3. QED
      BY <2>1, <2>2
  <1>7. code[at'] = <<>>
    <2>1. at' \in OwnedIn(frames) /\ at' \in Blocks
      BY <1>1, <1>2, <1>3 DEF StateFacts, Blocks
    <2>2. QED
      BY <1>1, <2>1 DEF StateFacts
  <1>8. /\ OwnedIn(frames') \subseteq OwnedIn(frames) \cup made + 1 .. made'
        /\ attached' \subseteq attached \cup {at', q} \cup OwnedIn(frames')
        /\ ContsIn(frames) \subseteq attached' \cup ContsIn(frames')
        /\ attached' \in SUBSET (1 .. made') /\ at' \in attached'
    BY <1>1, <1>2, <1>3 DEF StateFacts
  <1>9. QED
    BY <1>2, <1>5, <1>6, <1>7, <1>8, GoesOn DEF Notes

(***************************************************************************)
(* The steps, one by one.                                                  *)
(***************************************************************************)
LEMMA ConditionList ==
  ASSUME NEW n \in Nat, NEW b \in Nat, NEW c \in Nat, NEW blocks, b \in blocks, c \in blocks
  PROVE  Appends(<<Value(n), CondBr(b, c)>>, blocks) /\ <<Value(n), CondBr(b, c)>> # <<>>
  BY Lists DEF Appends

LEMMA BranchList ==
  ASSUME NEW n \in Nat, NEW b \in Nat, NEW blocks, b \in blocks
  PROVE  /\ Appends(<<Br(b)>>, blocks) /\ <<Br(b)>> # <<>>
         /\ Appends(<<Value(n), Br(b)>>, blocks) /\ <<Value(n), Br(b)>> # <<>>
  BY Lists DEF Appends

\* The numbers a step reckons with.
NumberFacts ==
  /\ made \in Nat /\ made >= 1 /\ exprs \in Nat /\ MaxBlocks \in Nat /\ MaxExprs \in Nat
  /\ attached \subseteq 1 .. made /\ at \in attached

LEMMA NumbersNow ==
  ASSUME IInv
  PROVE  NumberFacts
  BY StateNow DEF NumberFacts, StateFacts, Blocks

\* A step that visits a statement notes a flaw if the one before returned.
LEMMA NotesDead ==
  ASSUME NEW s, s # <<>>, NoteDead, ~ done, done' = done, last' \in {"none", "null"},
         exprs' \in 0 .. MaxExprs
  PROVE  Notes(s)
  BY DEF Notes, NoteDead, Note, Flaws

\* A block that goes on elsewhere without a return at its end does so too.
LEMMA NotesClose ==
  ASSUME NEW s, last = "ret" => s = <<>>, last = "past" => s # <<>>, NotePast,
         ~ done, done' = done, last' \in {"none", "null"}, exprs' \in 0 .. MaxExprs
  PROVE  Notes(s)
  BY DEF Notes, NotePast, Note, Returned, Flaws

\* What a step writes to one block, or to two.
LEMMA WritesAt ==
  ASSUME IInv, NEW s \in Seq(Instr)
  PROVE  /\ code' = [code EXCEPT ![at] = @ \o s] => Wrote(code, code', at, s, 0, <<>>)
         /\ code' = code => Wrote(code, code', at, <<>>, 0, <<>>)
         /\ \A q \in Blocks, t \in Seq(Instr) :
              q # at /\ code' = [code EXCEPT ![at] = @ \o s, ![q] = @ \o t]
                => Wrote(code, code', at, s, q, t)
  <1>1. code \in [Blocks -> Seq(Instr)] /\ at \in Blocks
    BY StateNow DEF StateFacts
  <1>2. /\ code' = [code EXCEPT ![at] = @ \o s] => Wrote(code, code', at, s, 0, <<>>)
        /\ code' = code => Wrote(code, code', at, <<>>, 0, <<>>)
    BY <1>1, Writes1
  <1>3. ASSUME NEW q \in Blocks, NEW t \in Seq(Instr), q # at,
               code' = [code EXCEPT ![at] = @ \o s, ![q] = @ \o t]
        PROVE  Wrote(code, code', at, s, q, t)
    BY <1>1, <1>3, Writes
  <1>4. QED
    BY <1>2, <1>3

LEMMA VisitIfStep ==
  ASSUME IInv, VisitIf
  PROVE  IInv'
  <1> DEFINE cont == made + 1
  <1> DEFINE then == made + 2
  <1> DEFINE next == made + 3
  <1> DEFINE f == Enter("then", cont, 0, next)
  <1> DEFINE s == <<Value(exprs + 1), CondBr(then, next)>>
  <1>0. NumberFacts
    BY NumbersNow
  <1>1. /\ made' = made + 3 /\ attached' = attached \cup {then, next} /\ at' = then
        /\ code' = [code EXCEPT ![at] = @ \o s]
        /\ frames' = Append(frames, f) /\ last' = "none" /\ NoteDead
        /\ done' = done /\ ~ done /\ exprs' = exprs + 1
        /\ made + 3 <= MaxBlocks /\ exprs + 1 <= MaxExprs
    BY DEF VisitIf, CanVisit, CanCreate, CanEvaluate
  <1>2. /\ f \in Frame /\ Owned(f) = {cont, next} /\ f.cont = cont
        /\ Good(f, attached', made', at')
    <2>1. f = [kind |-> "then", cont |-> cont, loop |-> 0, next |-> next]
      BY DEF Enter
    <2>2. f \in Frame /\ Owned(f) = {cont, next} /\ Waiting(f) = {next}
      BY <1>0, <2>1 DEF Frame, Kinds, Owned, Waiting, NumberFacts
    <2>3. QED
      BY <1>0, <1>1, <2>1, <2>2 DEF Good, NumberFacts
  <1>3. made' \in Blocks /\ Adds /\ attached' \subseteq 1 .. made' /\ at' \in attached'
    <2>1. made' \in 1 .. MaxBlocks /\ made <= made'
      BY <1>0, <1>1 DEF NumberFacts
    <2>2. {then, next} \subseteq 1 .. made' /\ 1 .. made \subseteq 1 .. made'
      BY <1>0, <1>1 DEF NumberFacts
    <2>3. QED
      BY <1>0, <1>1, <2>1, <2>2 DEF Adds, Blocks, NumberFacts
  <1>4. Appends(s, (attached' \cup {f.cont}) \ {1}) /\ s # <<>>
    <2>1. exprs + 1 \in Nat /\ then \in Nat /\ next \in Nat
      BY <1>0 DEF NumberFacts
    <2>2. then \in (attached' \cup {f.cont}) \ {1} /\ next \in (attached' \cup {f.cont}) \ {1}
      BY <1>0, <1>1 DEF NumberFacts
    <2> HIDE DEF then, next, f
    <2>3. QED
      BY <2>1, <2>2, ConditionList
  <1>5. Wrote(code, code', at, s, 0, <<>>)
    <2>1. s \in Seq(Instr)
      BY <1>4 DEF Appends
    <2> HIDE DEF s
    <2>2. QED
      BY <1>1, <2>1, WritesAt
  <1>6. Notes(s)
    <2>1. exprs' \in 0 .. MaxExprs /\ last' \in {"none", "null"}
      BY <1>0, <1>1 DEF NumberFacts
    <2>2. QED
      BY <1>1, <1>4, <2>1, NotesDead
  <1>7. /\ {cont, next} \subseteq made + 1 .. made' /\ at' \in made + 1 .. made'
        /\ at' \notin {cont, next} /\ at' # 0
        /\ attached' \subseteq attached \cup {at', 0} \cup {cont, next}
    BY <1>0, <1>1 DEF NumberFacts
  <1> HIDE DEF f, s
  <1>8. QED
    BY <1>1, <1>2, <1>3, <1>4, <1>5, <1>6, <1>7, Enters

LEMMA VisitWhileStep ==
  ASSUME IInv, VisitWhile
  PROVE  IInv'
  <1> DEFINE cont == made + 1
  <1> DEFINE loop == made + 2
  <1> DEFINE then == made + 3
  <1> DEFINE f == Enter("while", cont, loop, 0)
  <1> DEFINE s == <<Br(loop)>>
  <1> DEFINE t == <<Value(exprs + 1), CondBr(then, cont)>>
  <1>0. NumberFacts
    BY NumbersNow
  <1>1. /\ made' = made + 3 /\ attached' = attached \cup {loop, then} /\ at' = then
        /\ code' = [code EXCEPT ![at] = @ \o s, ![loop] = @ \o t]
        /\ frames' = Append(frames, f) /\ last' = "none" /\ NoteDead
        /\ done' = done /\ ~ done /\ exprs' = exprs + 1
        /\ made + 3 <= MaxBlocks /\ exprs + 1 <= MaxExprs
    BY DEF VisitWhile, EnterLoop, CanVisit, CanCreate, CanEvaluate
  <1>2. /\ f \in Frame /\ Owned(f) = {cont} /\ f.cont = cont
        /\ Good(f, attached', made', at')
    <2>1. f = [kind |-> "while", cont |-> cont, loop |-> loop, next |-> 0]
      BY DEF Enter
    <2>2. f \in Frame /\ Owned(f) = {cont} /\ Waiting(f) = {}
      BY <1>0, <2>1 DEF Frame, Kinds, Owned, Waiting, NumberFacts
    <2>3. QED
      BY <1>0, <1>1, <2>1, <2>2 DEF Good, NumberFacts
  <1>3. made' \in Blocks /\ Adds /\ attached' \subseteq 1 .. made' /\ at' \in attached'
    <2>1. made' \in 1 .. MaxBlocks /\ made <= made'
      BY <1>0, <1>1 DEF NumberFacts
    <2>2. {then, loop} \subseteq 1 .. made' /\ 1 .. made \subseteq 1 .. made'
      BY <1>0, <1>1 DEF NumberFacts
    <2>3. QED
      BY <1>0, <1>1, <2>1, <2>2 DEF Adds, Blocks, NumberFacts
  <1>4. /\ Appends(s, (attached' \cup {f.cont}) \ {1}) /\ s # <<>>
        /\ Appends(t, (attached' \cup {f.cont}) \ {1})
    <2>1. exprs + 1 \in Nat /\ then \in Nat /\ cont \in Nat /\ loop \in Nat
      BY <1>0 DEF NumberFacts
    <2>2. /\ then \in (attached' \cup {f.cont}) \ {1}
          /\ loop \in (attached' \cup {f.cont}) \ {1}
          /\ cont \in (attached' \cup {f.cont}) \ {1}
      BY <1>0, <1>1, <1>2 DEF NumberFacts
    <2> HIDE DEF then, loop, cont, f
    <2>3. QED
      BY <2>1, <2>2, ConditionList, BranchList
  <1>5. Wrote(code, code', at, s, loop, t)
    <2>1. s \in Seq(Instr) /\ t \in Seq(Instr)
      BY <1>4 DEF Appends
    <2>2. loop \in Blocks /\ loop # at
      BY <1>0, <1>1 DEF NumberFacts, Blocks
    <2> HIDE DEF s, t, loop
    <2>3. QED
      BY <1>1, <2>1, <2>2, WritesAt
  <1>6. Notes(s)
    <2>1. exprs' \in 0 .. MaxExprs /\ last' \in {"none", "null"}
      BY <1>0, <1>1 DEF NumberFacts
    <2>2. QED
      BY <1>1, <1>4, <2>1, NotesDead
  <1>7. /\ {cont, loop} \subseteq made + 1 .. made' /\ at' \in made + 1 .. made'
        /\ at' \notin {cont, loop} /\ loop \notin {cont}
        /\ attached' \subseteq attached \cup {at', loop} \cup {cont}
    BY <1>0, <1>1 DEF NumberFacts
  <1> HIDE DEF f, s, t, cont, loop, then
  <1>8. QED
    BY <1>1, <1>2, <1>3, <1>4, <1>5, <1>6, <1>7, Enters

\* The blocks of the statement that is being visited.
LEMMA TopBlocks ==
  ASSUME IInv, frames # <<>>
  PROVE  /\ Top \in Frame /\ Top.cont \in Nat /\ Top.loop \in Nat /\ Top.next \in Nat
         /\ Top.cont \in 1 .. made \ attached /\ Top.cont # 1
         /\ Owned(Top) = {Top.cont} \cup Waiting(Top)
         /\ Top.kind = "then" => /\ Waiting(Top) = {Top.next}
                                 /\ Top.next \in attached \ {1, at}
         /\ Top.kind = "init" => /\ Waiting(Top) = {Top.loop, Top.next}
                                 /\ Top.loop \in attached \ {1, at}
                                 /\ Top.next \in attached \ {1, at}
                                 /\ Top.loop # Top.next
         /\ Top.kind \in {"else", "while", "for"} => Waiting(Top) = {}
         /\ Top.kind \in {"while", "for"} => Top.loop \in attached \ {1}
  <1>1. Top \in Frame /\ Good(Top, attached, made, at)
    BY TopNow
  <1>2. 1 \in attached
    BY DEF IInv, TypeOK
  <1>3. QED
    BY <1>1, <1>2 DEF Good, Frame, Owned, Waiting

LEMMA CloseList ==
  ASSUME NEW b \in Nat, NEW blocks, b \in blocks
  PROVE  /\ Appends(Close(b), blocks) \/ (Returned /\ Close(b) = <<>>)
         /\ Close(b) \in Seq(Instr)
         /\ last = "ret" => Close(b) = <<>>
         /\ last = "past" => Close(b) # <<>>
  BY BranchList, EmptyList DEF Close, Appends, Returned

LEMMA VisitElseIfStep ==
  ASSUME IInv, VisitElseIf
  PROVE  IInv'
  <1> DEFINE then == made + 1
  <1> DEFINE next == made + 2
  <1> DEFINE f == Enter("then", Top.cont, 0, next)
  <1> DEFINE s == Close(Top.cont)
  <1> DEFINE q == Top.next
  <1> DEFINE t == <<Value(exprs + 1), CondBr(then, next)>>
  <1> DEFINE blocks == (attached' \cup {f.cont}) \ {1}
  <1>0. NumberFacts
    BY NumbersNow
  <1>1. /\ made' = made + 2 /\ attached' = attached \cup {then, next} /\ at' = then
        /\ code' = [code EXCEPT ![at] = @ \o s, ![q] = @ \o t]
        /\ frames' = Append(Outer, f) /\ last' = "none" /\ NotePast
        /\ done' = done /\ ~ done /\ exprs' = exprs + 1
        /\ made + 2 <= MaxBlocks /\ exprs + 1 <= MaxExprs
        /\ frames # <<>> /\ Top.kind = "then"
    BY DEF VisitElseIf, InBlock, CanCreate, CanEvaluate
  <1>2. /\ Top.cont \in 1 .. made \ attached /\ Top.cont # 1
        /\ Owned(Top) = {Top.cont, q} /\ q \in attached \ {1, at}
    BY <1>1, TopBlocks
  <1>3. /\ f \in Frame /\ Owned(f) = {Top.cont, next} /\ f.cont = Top.cont
        /\ Good(f, attached', made', at')
    <2>1. f = [kind |-> "then", cont |-> Top.cont, loop |-> 0, next |-> next]
      BY DEF Enter
    <2>2. f \in Frame /\ Owned(f) = {Top.cont, next} /\ Waiting(f) = {next}
      BY <1>0, <1>2, <2>1 DEF Frame, Kinds, Owned, Waiting, NumberFacts
    <2>3. QED
      BY <1>0, <1>1, <1>2, <2>1, <2>2 DEF Good, NumberFacts
  <1>4. made' \in Blocks /\ Adds /\ attached' \subseteq 1 .. made' /\ at' \in attached'
    <2>1. made' \in 1 .. MaxBlocks /\ made <= made'
      BY <1>0, <1>1 DEF NumberFacts
    <2>2. {then, next} \subseteq 1 .. made' /\ 1 .. made \subseteq 1 .. made'
      BY <1>0, <1>1 DEF NumberFacts
    <2>3. QED
      BY <1>0, <1>1, <2>1, <2>2 DEF Adds, Blocks, NumberFacts
  <1>5. /\ Appends(s, blocks) \/ (Returned /\ s = <<>>)
        /\ s \in Seq(Instr)
        /\ last = "ret" => s = <<>>
        /\ last = "past" => s # <<>>
    <2>1. Top.cont \in Nat /\ Top.cont \in blocks
      BY <1>2, <1>3
    <2>2. QED
      BY <2>1, CloseList
  <1>6. Appends(t, blocks)
    <2>1. exprs + 1 \in Nat /\ then \in Nat /\ next \in Nat
      BY <1>0 DEF NumberFacts
    <2>2. then \in blocks /\ next \in blocks
      BY <1>0, <1>1, <1>2 DEF NumberFacts
    <2> HIDE DEF then, next, f, blocks
    <2>3. QED
      BY <2>1, <2>2, ConditionList
  <1>7. Wrote(code, code', at, s, q, t)
    <2>1. t \in Seq(Instr)
      BY <1>6 DEF Appends
    <2>2. q \in Blocks /\ q # at
      BY <1>2, StateNow DEF StateFacts, Blocks
    <2> HIDE DEF s, t, q
    <2>3. QED
      BY <1>1, <1>5, <2>1, <2>2, WritesAt
  <1>8. Notes(s)
    <2>1. exprs' \in 0 .. MaxExprs /\ last' \in {"none", "null"}
      BY <1>0, <1>1 DEF NumberFacts
    <2>2. QED
      BY <1>1, <1>5, <2>1, NotesClose
  <1>9. /\ {then, next} \subseteq made + 1 .. made' /\ at' \in made + 1 .. made'
        /\ at' # q /\ q \notin {Top.cont, next}
        /\ attached' \subseteq attached \cup {at', q} \cup {Top.cont, next}
        /\ attached' \subseteq attached \cup made + 1 .. made'
    BY <1>0, <1>1, <1>2 DEF NumberFacts
  <1> HIDE DEF f, s, t, q, then, next
  <1>10. QED
    BY <1>1, <1>2, <1>3, <1>4, <1>5, <1>6, <1>7, <1>8, <1>9, Continues

LEMMA VisitElseStep ==
  ASSUME IInv, VisitElse
  PROVE  IInv'
  <1> DEFINE f == Enter("else", Top.cont, 0, 0)
  <1> DEFINE s == Close(Top.cont)
  <1> DEFINE blocks == (attached' \cup {f.cont}) \ {1}
  <1>0. NumberFacts
    BY NumbersNow
  <1>1. /\ made' = made /\ attached' = attached /\ at' = Top.next
        /\ code' = [code EXCEPT ![at] = @ \o s]
        /\ frames' = Append(Outer, f) /\ last' = "none" /\ NotePast
        /\ done' = done /\ ~ done /\ exprs' = exprs
        /\ frames # <<>> /\ Top.kind = "then"
    BY DEF VisitElse, InBlock
  <1>2. /\ Top.cont \in 1 .. made \ attached /\ Top.cont # 1
        /\ Owned(Top) = {Top.cont, Top.next} /\ Top.next \in attached \ {1, at}
    BY <1>1, TopBlocks
  <1>3. /\ f \in Frame /\ Owned(f) = {Top.cont} /\ f.cont = Top.cont
        /\ Good(f, attached', made', at')
    <2>1. f = [kind |-> "else", cont |-> Top.cont, loop |-> 0, next |-> 0]
      BY DEF Enter
    <2>2. f \in Frame /\ Owned(f) = {Top.cont} /\ Waiting(f) = {}
      BY <1>0, <1>2, <2>1 DEF Frame, Kinds, Owned, Waiting, NumberFacts
    <2>3. QED
      BY <1>0, <1>1, <1>2, <2>1, <2>2 DEF Good, NumberFacts
  <1>4. made' \in Blocks /\ Adds /\ attached' \subseteq 1 .. made' /\ at' \in attached'
    <2>1. made \in Blocks /\ made <= made
      BY <1>0, StateNow DEF NumberFacts, StateFacts
    <2>2. QED
      BY <1>0, <1>1, <1>2, <2>1 DEF Adds, NumberFacts
  <1>5. /\ Appends(s, blocks) \/ (Returned /\ s = <<>>)
        /\ s \in Seq(Instr)
        /\ last = "ret" => s = <<>>
        /\ last = "past" => s # <<>>
    <2>1. Top.cont \in Nat /\ Top.cont \in blocks
      BY <1>2, <1>3
    <2>2. QED
      BY <2>1, CloseList
  <1>6. Wrote(code, code', at, s, 0, <<>>)
    <2> HIDE DEF s
    <2>1. QED
      BY <1>1, <1>5, WritesAt
  <1>7. Notes(s)
    <2>1. exprs' \in 0 .. MaxExprs /\ last' \in {"none", "null"}
      BY <1>1 DEF IInv, TypeOK
    <2>2. QED
      BY <1>1, <1>5, <2>1, NotesClose
  <1>8. at' \in Owned(Top) /\ at' # 0
    BY <1>0, <1>1, <1>2 DEF NumberFacts
  <1> HIDE DEF f, s
  <1>9. QED
    BY <1>1, <1>2, <1>3, <1>4, <1>5, <1>6, <1>7, <1>8, Continues

LEMMA EndInitStep ==
  ASSUME IInv, EndInit
  PROVE  IInv'
  <1> DEFINE f == Enter("for", Top.cont, Top.loop, 0)
  <1> DEFINE s == <<Br(Top.loop)>>
  <1> DEFINE q == Top.loop
  <1> DEFINE t == <<Value(exprs + 1), CondBr(Top.next, Top.cont)>>
  <1> DEFINE blocks == (attached' \cup {f.cont}) \ {1}
  <1>0. NumberFacts
    BY NumbersNow
  <1>1. /\ made' = made /\ attached' = attached /\ at' = Top.next
        /\ code' = [code EXCEPT ![at] = @ \o s, ![q] = @ \o t]
        /\ frames' = Append(Outer, f) /\ last' = "none"
        /\ flaws' = IF Returned THEN flaws \cup {"init_returns"} ELSE flaws
        /\ done' = done /\ ~ done /\ exprs' = exprs + 1 /\ exprs + 1 <= MaxExprs
        /\ frames # <<>> /\ Top.kind = "init"
    BY DEF EndInit, EnterLoop, InBlock, CanEvaluate, Note
  <1>2. /\ Top.cont \in 1 .. made \ attached /\ Top.cont # 1
        /\ Owned(Top) = {Top.cont, q, Top.next}
        /\ q \in attached \ {1, at} /\ Top.next \in attached \ {1, at} /\ q # Top.next
        /\ q \in Nat /\ Top.next \in Nat /\ Top.cont \in Nat
    BY <1>1, TopBlocks
  <1>3. /\ f \in Frame /\ Owned(f) = {Top.cont} /\ f.cont = Top.cont
        /\ Good(f, attached', made', at')
    <2>1. f = [kind |-> "for", cont |-> Top.cont, loop |-> Top.loop, next |-> 0]
      BY DEF Enter
    <2>2. f \in Frame /\ Owned(f) = {Top.cont} /\ Waiting(f) = {}
      BY <1>0, <1>2, <2>1 DEF Frame, Kinds, Owned, Waiting, NumberFacts
    <2>3. QED
      BY <1>0, <1>1, <1>2, <2>1, <2>2 DEF Good, NumberFacts
  <1>4. made' \in Blocks /\ Adds /\ attached' \subseteq 1 .. made' /\ at' \in attached'
    <2>1. made \in Blocks /\ made <= made
      BY <1>0, StateNow DEF NumberFacts, StateFacts
    <2>2. QED
      BY <1>0, <1>1, <1>2, <2>1 DEF Adds, NumberFacts
  <1>5. /\ Appends(s, blocks) /\ s # <<>>
        /\ Appends(t, blocks)
    <2>1. exprs + 1 \in Nat
      BY <1>0 DEF NumberFacts
    <2>2. q \in blocks /\ Top.next \in blocks /\ Top.cont \in blocks
      BY <1>1, <1>2, <1>3
    <2> HIDE DEF f, blocks
    <2>3. QED
      BY <1>2, <2>1, <2>2, ConditionList, BranchList
  <1>6. Wrote(code, code', at, s, q, t)
    <2>1. s \in Seq(Instr) /\ t \in Seq(Instr)
      BY <1>5 DEF Appends
    <2>2. q \in Blocks /\ q # at
      BY <1>2, StateNow DEF StateFacts, Blocks
    <2> HIDE DEF s, t, q
    <2>3. QED
      BY <1>1, <2>1, <2>2, WritesAt
  <1>7. Notes(s)
    <2>1. exprs' \in 0 .. MaxExprs /\ last' \in {"none", "null"}
      BY <1>0, <1>1 DEF NumberFacts
    <2> HIDE DEF s
    <2>2. QED
      BY <1>1, <1>5, <2>1 DEF Notes, Flaws
  <1>8. at' \in Owned(Top) /\ at' # q /\ Owned(Top) \subseteq Owned(f) \cup {at', q}
    BY <1>1, <1>2, <1>3
  <1>9. q \in Owned(Top) \ Owned(f)
    BY <1>2, <1>3
  <1> HIDE DEF f, s, q, t
  <1>10. QED
    BY <1>1, <1>2, <1>3, <1>4, <1>5, <1>6, <1>7, <1>8, <1>9, Continues

LEMMA EndIfStep ==
  ASSUME IInv, EndIf
  PROVE  IInv'
  <1> DEFINE s == Close(Top.cont)
  <1> DEFINE q == Top.next
  <1> DEFINE t == <<Br(Top.cont)>>
  <1> DEFINE blocks == (attached \cup {Top.cont}) \ {1}
  <1>1. /\ code' = [code EXCEPT ![at] = @ \o s, ![q] = @ \o t]
        /\ Leave /\ exprs' = exprs /\ NotePast /\ last' = "null"
        /\ done' = done /\ ~ done /\ frames # <<>> /\ Top.kind = "then"
    BY DEF EndIf, InBlock, Leave
  <1>2. /\ Top.cont \in Nat /\ Top.cont \in blocks
        /\ Waiting(Top) = {q} /\ q \in attached \ {1, at}
    BY <1>1, TopBlocks
  <1>3. /\ Appends(s, blocks) \/ (Returned /\ s = <<>>)
        /\ s \in Seq(Instr)
        /\ last = "ret" => s = <<>>
        /\ last = "past" => s # <<>>
    BY <1>2, CloseList
  <1>4. Appends(t, blocks)
    <2> HIDE DEF blocks
    <2>1. QED
      BY <1>2, BranchList
  <1>5. Wrote(code, code', at, s, q, t)
    <2>1. t \in Seq(Instr)
      BY <1>4 DEF Appends
    <2>2. q \in Blocks /\ q # at
      BY <1>2, StateNow DEF StateFacts, Blocks
    <2> HIDE DEF s, t, q
    <2>3. QED
      BY <1>1, <1>3, <2>1, <2>2, WritesAt
  <1>6. Notes(s)
    <2>1. exprs' \in 0 .. MaxExprs /\ last' \in {"none", "null"}
      BY <1>1 DEF IInv, TypeOK
    <2> HIDE DEF s
    <2>2. QED
      BY <1>1, <1>3, <2>1, NotesClose
  <1> HIDE DEF s, t, q
  <1>7. QED
    BY <1>1, <1>2, <1>3, <1>4, <1>5, <1>6, Leaving

LEMMA EndElseStep ==
  ASSUME IInv, EndElse
  PROVE  IInv'
  <1> DEFINE s == <<Br(Top.cont)>>
  <1> DEFINE t == <<>>
  <1> DEFINE q == 0
  <1> DEFINE blocks == (attached \cup {Top.cont}) \ {1}
  <1>1. /\ code' = [code EXCEPT ![at] = @ \o s]
        /\ Leave /\ exprs' = exprs /\ last' = "null"
        /\ flaws' = IF Returned THEN flaws \cup {"else_returns"} ELSE flaws
        /\ done' = done /\ ~ done /\ frames # <<>> /\ Top.kind = "else"
    BY DEF EndElse, InBlock, Leave, Note
  <1>2. Top.cont \in Nat /\ Top.cont \in blocks /\ Waiting(Top) = {}
    BY <1>1, TopBlocks
  <1>3. Appends(s, blocks) /\ s # <<>>
    <2> HIDE DEF blocks
    <2>1. QED
      BY <1>2, BranchList
  <1>4. Wrote(code, code', at, s, q, t)
    <2>1. s \in Seq(Instr)
      BY <1>3 DEF Appends
    <2> HIDE DEF s
    <2>2. QED
      BY <1>1, <2>1, WritesAt
  <1>5. Notes(s)
    <2>1. exprs' \in 0 .. MaxExprs /\ last' \in {"none", "null"}
      BY <1>1 DEF IInv, TypeOK
    <2> HIDE DEF s
    <2>2. QED
      BY <1>1, <1>3, <2>1 DEF Notes, Flaws
  <1>6. q = 0 /\ t = <<>>
    OBVIOUS
  <1> HIDE DEF s, t, q
  <1>7. QED
    BY <1>1, <1>2, <1>3, <1>4, <1>5, <1>6, Leaving

LEMMA EndWhileStep ==
  ASSUME IInv, EndWhile
  PROVE  IInv'
  <1> DEFINE s == Close(Top.loop)
  <1> DEFINE t == <<>>
  <1> DEFINE q == 0
  <1> DEFINE blocks == (attached \cup {Top.cont}) \ {1}
  <1>1. /\ code' = [code EXCEPT ![at] = @ \o s]
        /\ Leave /\ exprs' = exprs /\ NotePast /\ last' = "null"
        /\ done' = done /\ ~ done /\ frames # <<>> /\ Top.kind = "while"
    BY DEF EndWhile, InBlock, Leave
  <1>2. Top.loop \in Nat /\ Top.loop \in blocks /\ Waiting(Top) = {}
    BY <1>1, TopBlocks
  <1>3. /\ Appends(s, blocks) \/ (Returned /\ s = <<>>)
        /\ s \in Seq(Instr)
        /\ last = "ret" => s = <<>>
        /\ last = "past" => s # <<>>
    BY <1>2, CloseList
  <1>4. Wrote(code, code', at, s, q, t)
    <2> HIDE DEF s
    <2>1. QED
      BY <1>1, <1>3, WritesAt
  <1>5. Notes(s)
    <2>1. exprs' \in 0 .. MaxExprs /\ last' \in {"none", "null"}
      BY <1>1 DEF IInv, TypeOK
    <2> HIDE DEF s
    <2>2. QED
      BY <1>1, <1>3, <2>1, NotesClose
  <1>6. q = 0 /\ t = <<>>
    OBVIOUS
  <1> HIDE DEF s, t, q
  <1>7. QED
    BY <1>1, <1>2, <1>3, <1>4, <1>5, <1>6, Leaving

LEMMA EndForStep ==
  ASSUME IInv, EndFor
  PROVE  IInv'
  <1> DEFINE s == IF last = "ret" THEN <<>> ELSE <<Value(exprs + 1), Br(Top.loop)>>
  <1> DEFINE t == <<>>
  <1> DEFINE q == 0
  <1> DEFINE blocks == (attached \cup {Top.cont}) \ {1}
  <1>0. NumberFacts
    BY NumbersNow
  <1>1. /\ code' = IF last = "ret" THEN code ELSE [code EXCEPT ![at] = @ \o s]
        /\ Leave
        /\ exprs' = exprs \/ (exprs' = exprs + 1 /\ exprs + 1 <= MaxExprs)
        /\ NotePast /\ last' = "null"
        /\ done' = done /\ ~ done /\ frames # <<>> /\ Top.kind = "for"
    BY DEF EndFor, InBlock, Leave, CanEvaluate
  <1>2. Top.loop \in Nat /\ Top.loop \in blocks /\ Waiting(Top) = {}
    BY <1>1, TopBlocks
  <1>3. /\ Appends(s, blocks) \/ (Returned /\ s = <<>>)
        /\ s \in Seq(Instr)
        /\ last = "ret" => s = <<>>
        /\ last = "past" => s # <<>>
    <2>1. exprs + 1 \in Nat
      BY <1>0 DEF NumberFacts
    <2> HIDE DEF blocks
    <2>2. /\ Appends(<<Value(exprs + 1), Br(Top.loop)>>, blocks)
          /\ <<Value(exprs + 1), Br(Top.loop)>> # <<>>
      BY <1>2, <2>1, BranchList
    <2>3. QED
      BY <2>2, EmptyList DEF Appends, Returned
  <1>4. Wrote(code, code', at, s, q, t)
    <2>1. last = "ret" => s = <<>>
      OBVIOUS
    <2> HIDE DEF s
    <2>2. QED
      BY <1>1, <1>3, <2>1, WritesAt
  <1>5. Notes(s)
    <2>1. exprs' \in 0 .. MaxExprs /\ last' \in {"none", "null"}
      <3>1. exprs \in 0 .. MaxExprs
        BY DEF IInv, TypeOK
      <3>2. QED
        BY <1>0, <1>1, <3>1 DEF NumberFacts
    <2> HIDE DEF s
    <2>2. QED
      BY <1>1, <1>3, <2>1, NotesClose
  <1>6. q = 0 /\ t = <<>>
    OBVIOUS
  <1> HIDE DEF s, t, q
  <1>7. QED
    BY <1>1, <1>2, <1>3, <1>4, <1>5, <1>6, Leaving

LEMMA VisitExpressionStep ==
  ASSUME IInv, VisitExpression
  PROVE  IInv'
  <1> DEFINE s == <<Value(exprs + 1)>>
  <1>1. /\ s \in {<<Value(exprs + 1)>>, <<Ret>>, <<Value(exprs + 1), Ret>>}
        /\ code' = [code EXCEPT ![at] = @ \o s] /\ s = <<Value(exprs + 1)>>
    BY DEF VisitExpression
  <1> HIDE DEF s
  <1>2. QED
    BY <1>1, Straight DEF VisitExpression

LEMMA VisitCodelessStep ==
  ASSUME IInv, VisitCodeless
  PROVE  IInv'
  <1>1. /\ UNCHANGED <<made, attached, code, at, frames, exprs, done, flaws>>
        /\ last' \in {"past", "value"} /\ ~ done
        /\ Returned' <=> Returned
    BY DEF VisitCodeless, CanVisit, Returned
  <1>2. TypeOK' /\ OwnedApart'
    BY <1>1 DEF IInv, TypeOK, OwnedApart, Reserved
  <1>3. OthersClosed'
    <2>1. OthersClosed /\ Reserved' = Reserved /\ Conts' = Conts
      BY <1>1 DEF IInv, Reserved, Conts
    <2>2. QED
      BY <1>1, <2>1 DEF OthersClosed, BranchesInto
  <1>4. BuriedIffMisshapen'
    <2>1. (Misshapen' <=> Misshapen) /\ (Ends(code'[at']) <=> Ends(code[at]))
      BY <1>1 DEF Misshapen
    <2>2. QED
      BY <1>1, <2>1 DEF IInv, BuriedIffMisshapen, Top
  <1>5. QED
    BY <1>2, <1>3, <1>4 DEF IInv

LEMMA VisitReturnStep ==
  ASSUME IInv, VisitReturn
  PROVE  IInv'
  <1>1. PICK s \in {<<Ret>>, <<Value(exprs + 1), Ret>>} : code' = [code EXCEPT ![at] = @ \o s]
    BY DEF VisitReturn
  <1>2. QED
    BY <1>1, Straight DEF VisitReturn

\* A for puts its frame on the stack and writes nothing: the insert point stays.
LEMMA VisitForStep ==
  ASSUME IInv, VisitFor
  PROVE  IInv'
  <1> DEFINE cont == made + 1
  <1> DEFINE loop == made + 2
  <1> DEFINE then == made + 3
  <1> DEFINE f == Enter("init", cont, loop, then)
  <1>0. NumberFacts /\ StateFacts
    BY NumbersNow, StateNow
  <1>1. /\ made' = made + 3 /\ attached' = attached \cup {loop, then} /\ at' = at
        /\ code' = code /\ frames' = Append(frames, f) /\ last' = "none" /\ NoteDead
        /\ done' = done /\ ~ done /\ exprs' = exprs /\ made + 3 <= MaxBlocks
        /\ frames # <<>> /\ Top.kind = "init" => last = "none"
    BY DEF VisitFor, CanVisit, CanCreate
  <1>2. /\ f \in Frame /\ Owned(f) = {cont, loop, then} /\ f.cont = cont /\ f.kind = "init"
        /\ Good(f, attached', made', at')
    <2>1. f = [kind |-> "init", cont |-> cont, loop |-> loop, next |-> then]
      BY DEF Enter
    <2>2. f \in Frame /\ Owned(f) = {cont, loop, then} /\ Waiting(f) = {loop, then}
      BY <1>0, <2>1 DEF Frame, Kinds, Owned, Waiting, NumberFacts
    <2>3. QED
      BY <1>0, <1>1, <2>1, <2>2 DEF Good, NumberFacts
  <1>3. /\ made' \in Blocks /\ Adds /\ attached' \in SUBSET (1 .. made') /\ at' \in attached'
        /\ attached' \subseteq attached \cup made + 1 .. made'
        /\ Owned(f) \subseteq made + 1 .. made'
    <2>1. made' \in 1 .. MaxBlocks /\ made <= made'
      BY <1>0, <1>1 DEF NumberFacts
    <2>2. {cont, then, loop} \subseteq made + 1 .. made' /\ 1 .. made \subseteq 1 .. made'
      BY <1>0, <1>1 DEF NumberFacts
    <2>3. made + 1 .. made' \subseteq 1 .. made'
      BY <1>0 DEF NumberFacts
    <2>4. QED
      BY <1>0, <1>1, <1>2, <2>1, <2>2, <2>3 DEF Adds, Blocks, NumberFacts
  <1> HIDE DEF f, cont, loop, then
  <1>4. /\ frames' \in Seq(Frame) /\ frames' # <<>> /\ frames'[Len(frames')] = f
        /\ Apart(frames', attached', made', at')
        /\ OwnedIn(frames') = OwnedIn(frames) \cup Owned(f)
        /\ ContsIn(frames') = ContsIn(frames) \cup {f.cont}
        /\ at \notin OwnedIn(frames')
    BY <1>1, <1>2, <1>3, Pushes
  <1>5. Wrote(code, code', at, <<>>, 0, <<>>)
    BY <1>1, EmptyList, WritesAt
  <1>6. OwnedApart' /\ OthersClosed'
    <2> DEFINE s == <<>>
    <2> DEFINE t == <<>>
    <2> DEFINE q == 0
    <2>1. /\ s \in Seq(Instr) /\ t \in Seq(Instr) /\ q \in 0 .. made'
          /\ Wrote(code, code', at, s, q, t)
          /\ q # 0 => code[q] = <<>>
      BY <1>3, <1>5, EmptyList DEF Blocks
    <2>2. /\ made <= made' /\ q \notin OwnedIn(frames') /\ q \notin attached'
      BY <1>0, <1>2, <1>3, <1>4 DEF Adds, StateFacts
    <2>3. /\ OwnedIn(frames') \subseteq OwnedIn(frames) \cup made + 1 .. made'
          /\ OwnedIn(frames) \subseteq OwnedIn(frames') \cup {at', q}
          /\ attached' \subseteq attached \cup {at', q} \cup OwnedIn(frames')
          /\ Onwards(frames, attached) \subseteq Onwards(frames', attached')
      BY <1>1, <1>2, <1>3, <1>4 DEF Onwards, Adds, loop, then, cont
    <2>4. Reaches(s, Onwards(frames', attached')) /\ Reaches(t, Onwards(frames', attached'))
      BY EmptyList
    <2>5. at = at' /\ TypeOK /\ Shape(code, frames, attached, made, at)
      BY <1>1, ShapeNow DEF IInv
    <2> HIDE DEF s, t, q
    <2>6. QED
      BY <1>3, <1>4, <2>1, <2>2, <2>3, <2>4, <2>5, Moves
  <1>7. TypeOK'
    BY <1>1, <1>3, <1>4 DEF IInv, TypeOK, NoteDead, Note, Flaws
  <1>8. BuriedIffMisshapen'
    <2>1. Top' = f /\ ~ Returned'
      BY <1>1, <1>4 DEF Top, Returned
    <2>2. /\ Misshapen' <=> Misshapen \/ Returned
          /\ ~ done' /\ "falls_off" \notin flaws'
      BY <1>1, DeadNoted DEF IInv
    <2>3. ASSUME ~ Misshapen'
          PROVE  ~ Ends(code'[at']) /\ \A b \in Blocks : ~ Buries(code'[b])
      BY <1>1, <2>2, <2>3 DEF IInv, BuriedIffMisshapen
    <2>4. ASSUME Misshapen'
          PROVE  (\E b \in attached' : Buries(code'[b])) \/ Ends(code'[at'])
      <3>1. CASE Misshapen
        BY <1>1, <1>3, <3>1 DEF IInv, BuriedIffMisshapen, Adds
      <3>2. CASE Returned
        BY <1>1, <3>2 DEF IInv, BuriedIffMisshapen
      <3>3. QED
        BY <2>2, <2>4, <3>1, <3>2
    <2>5. QED
      BY <1>2, <1>4, <2>1, <2>2, <2>3, <2>4 DEF BuriedIffMisshapen
  <1>9. QED
    BY <1>6, <1>7, <1>8 DEF IInv

LEMMA EndFunctionStep ==
  ASSUME IInv, EndFunction
  PROVE  IInv'
  <1>1. /\ UNCHANGED <<made, attached, code, at, frames, last, exprs>>
        /\ done' /\ ~ done /\ frames = <<>>
        /\ flaws' = IF ~ Returned THEN flaws \cup {"falls_off"} ELSE flaws
        /\ Returned' <=> Returned
    BY DEF EndFunction, Note, Returned
  <1>2. TypeOK' /\ OwnedApart' /\ OthersClosed'
    BY <1>1 DEF EndFunction, IInv, TypeOK, Flaws, OwnedApart, OthersClosed, BranchesInto,
                Reserved, Conts
  <1>3. Misshapen' <=> Misshapen
    BY <1>1 DEF Misshapen
  <1>4. "falls_off" \in flaws' <=> ~ Returned
    BY <1>1 DEF IInv, BuriedIffMisshapen
  <1>5. BuriedIffMisshapen'
    BY <1>1, <1>3, <1>4 DEF IInv, BuriedIffMisshapen, Top
  <1>6. QED
    BY <1>2, <1>5 DEF IInv

LEMMA Start ==
  Init => IInv
  <1> SUFFICES ASSUME Init PROVE IInv
    OBVIOUS
  <1>1. 1 \in Blocks /\ MaxExprs \in Nat
    BY DEF Blocks
  <1>2. TypeOK
    <2>1. code \in [Blocks -> Seq(Instr)]
      BY EmptyList DEF Init
    <2>2. frames \in Seq(Frame) /\ flaws \subseteq Flaws
      BY DEF Init
    <2>3. made \in Blocks /\ attached \subseteq 1 .. made /\ exprs \in 0 .. MaxExprs
      BY <1>1 DEF Init
    <2>4. QED
      BY <2>1, <2>2, <2>3 DEF Init, TypeOK
  <1>3. \A b \in Blocks : code[b] = <<>>
    BY DEF Init
  <1>4. OwnedApart
    BY <1>3 DEF Init, OwnedApart
  <1>5. OthersClosed
    BY <1>3 DEF Init, OthersClosed, BranchesInto
  <1>6. BuriedIffMisshapen
    <2>1. \A b \in Blocks : ~ Ends(code[b]) /\ ~ Buries(code[b])
      BY <1>3, EmptyList
    <2>2. at \in Blocks /\ ~ Misshapen /\ ~ Returned
      BY <1>1 DEF Init, Misshapen, Returned
    <2>3. QED
      BY <2>1, <2>2 DEF Init, BuriedIffMisshapen
  <1>7. QED
    BY <1>2, <1>4, <1>5, <1>6 DEF IInv

LEMMA Step ==
  ASSUME IInv, [Next]_vars
  PROVE  IInv'
  <1>1. CASE VisitExpression
    BY <1>1, VisitExpressionStep
  <1>2. CASE VisitReturn
    BY <1>2, VisitReturnStep
  <1>3. CASE VisitIf
    BY <1>3, VisitIfStep
  <1>4. CASE VisitElseIf
    BY <1>4, VisitElseIfStep
  <1>5. CASE VisitElse
    BY <1>5, VisitElseStep
  <1>6. CASE EndIf
    BY <1>6, EndIfStep
  <1>7. CASE EndElse
    BY <1>7, EndElseStep
  <1>8. CASE VisitWhile
    BY <1>8, VisitWhileStep
  <1>9. CASE EndWhile
    BY <1>9, EndWhileStep
  <1>10. CASE VisitFor
    BY <1>10, VisitForStep
  <1>11. CASE EndInit
    BY <1>11, EndInitStep
  <1>12. CASE EndFor
    BY <1>12, EndForStep
  <1>13. CASE EndFunction
    BY <1>13, EndFunctionStep
  <1>14. CASE VisitCodeless
    BY <1>14, VisitCodelessStep
  <1>15. CASE UNCHANGED vars
    <2>1. TypeOK' /\ OwnedApart'
      BY <1>15 DEF vars, IInv, TypeOK, OwnedApart, Reserved
    <2>2. OthersClosed'
      <3>1. OthersClosed /\ Reserved' = Reserved /\ Conts' = Conts
        BY <1>15 DEF vars, IInv, Reserved, Conts
      <3>2. code' = code /\ at' = at /\ attached' = attached
        BY <1>15 DEF vars
      <3>3. QED
        BY <3>1, <3>2 DEF OthersClosed, BranchesInto
    <2>3. BuriedIffMisshapen'
      <3>1. (Returned' <=> Returned) /\ (Misshapen' <=> Misshapen) /\ Top' = Top
        BY <1>15 DEF vars, Returned, Misshapen, Top
      <3>2. /\ code' = code /\ at' = at /\ attached' = attached /\ frames' = frames
            /\ done' = done /\ flaws' = flaws
        BY <1>15 DEF vars
      <3>3. QED
        BY <3>1, <3>2 DEF IInv, BuriedIffMisshapen
    <2>4. QED
      BY <2>1, <2>2, <2>3 DEF IInv
  <1>16. QED
    BY <1>1, <1>2, <1>3, <1>4, <1>5, <1>6, <1>7, <1>8, <1>9, <1>10, <1>11, <1>12, <1>13,
       <1>14, <1>15 DEF Next

(***************************************************************************)
(* The theorems.                                                           *)
(***************************************************************************)
\* The inductive invariant: what is proved of every state the visitor is in.
THEOREM Invariance ==
  Spec => []IInv
  BY Start, Step, PTL DEF Spec

\* Every block the visitor refers to is one it has created, and the insert
\* point is in the function.
THEOREM TypeCorrect ==
  Spec => []TypeOK
  <1>1. IInv => TypeOK
    BY DEF IInv
  <1>2. QED
    BY <1>1, Invariance, PTL

\* No two statements that are being visited share a block that one of them has
\* still to fill, and such a block is empty.
THEOREM BlocksApart ==
  Spec => []OwnedApart
  <1>1. IInv => OwnedApart
    BY DEF IInv
  <1>2. QED
    BY <1>1, Invariance, PTL

\* A block the visitor has left for good has its terminator, and no branch goes
\* to the entry block or to one that is not going to be in the function.
THEOREM BlocksClosed ==
  Spec => []OthersClosed
  <1>1. IInv => OthersClosed
    BY DEF IInv
  <1>2. QED
    BY <1>1, Invariance, PTL

\* A terminator is followed by other instructions of its block only in a body
\* with one of the three shapes that bury one.
THEOREM BuriedOnlyIfMisshapen ==
  Spec => []BuriedIffMisshapen
  <1>1. IInv => BuriedIffMisshapen
    BY DEF IInv
  <1>2. QED
    BY <1>1, Invariance, PTL

\* When the body is visited, all that could be wrong is a buried terminator or
\* a last block without one.
LEMMA AtTheEnd ==
  ASSUME IInv, done
  PROVE  WellFormed <=> flaws = {}
  <1>1. frames = <<>> /\ Reserved = {} /\ Conts = {}
    BY DEF IInv, BuriedIffMisshapen, Reserved, Conts
  <1>2. /\ at \in attached /\ attached \subseteq Blocks /\ last \in {"none", "value", "ret", "past", "null"}
    BY DEF IInv, TypeOK, Blocks
  <1>3. /\ BranchesInto(attached \ {1})
        /\ \A b \in attached : b # at => Ends(code[b])
    BY <1>1 DEF IInv, OthersClosed, BranchesInto
  <1>4. flaws = {} <=> ~ Misshapen /\ Returned
    BY DEF IInv, BuriedIffMisshapen, Misshapen
  <1>5. ASSUME ~ Misshapen, Returned PROVE WellFormed
    BY <1>2, <1>3, <1>5 DEF IInv, BuriedIffMisshapen, WellFormed
  <1>6. ASSUME WellFormed PROVE ~ Misshapen /\ Returned
    <2>1. ~ Misshapen
      BY <1>1, <1>6 DEF IInv, BuriedIffMisshapen, WellFormed
    <2>2. Returned
      BY <1>2, <1>6, <2>1 DEF IInv, BuriedIffMisshapen, WellFormed
    <2>3. QED
      BY <2>1, <2>2
  <1>7. QED
    BY <1>4, <1>5, <1>6

\* The code of a function passes verifyFunction() exactly if its body has none
\* of the four shapes, whatever it is and however its statements nest.
THEOREM Verifies ==
  Spec => []VerifiesUnlessFlawed
  <1>1. IInv => VerifiesUnlessFlawed
    BY AtTheEnd DEF VerifiesUnlessFlawed
  <1>2. QED
    BY <1>1, Invariance, PTL
=============================================================================
