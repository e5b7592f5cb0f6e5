---------------------------- MODULE GenExecProofs ----------------------------
(***************************************************************************)
(* Proofs about GenExec, for every bound on the blocks and expressions of  *)
(* the function: the code that the visitors emit does what the source      *)
(* says.  A relation between trees and code would be recursive; instead    *)
(* Runs asks for a simulation, a set of what is still to do at which       *)
(* place of the code that every step leads into again.                     *)
(***************************************************************************)
EXTENDS GenExec, GenVisitorProofs, SequenceTheorems, TLAPS

USE MaxBlocksAssumption, MaxExprsAssumption

----------------------------------------------------------------------------
(***************************************************************************)
(* Lists of whatever statements.                                           *)
(***************************************************************************)
IsList(x) == \E S : x \in Seq(S)

LEMMA ListTypes ==
  ASSUME NEW x, NEW y, NEW z, IsList(x), IsList(y), IsList(z)
  PROVE  \E S : x \in Seq(S) /\ y \in Seq(S) /\ z \in Seq(S)
<1>1. PICK S, T, U : x \in Seq(S) /\ y \in Seq(T) /\ z \in Seq(U)
  BY Zenon DEF IsList
<1> DEFINE V == S \cup T \cup U
<1>2. x \in Seq(V)
  BY <1>1, SeqMonotonic
<1>3. y \in Seq(V)
  BY <1>1, SeqMonotonic
<1>4. z \in Seq(V)
  BY <1>1, SeqMonotonic
<1> QED BY <1>2, <1>3, <1>4

LEMMA Listing ==
  ASSUME NEW e
  PROVE  /\ IsList(<<>>) /\ IsList(<<e>>) /\ <<e>> # <<>>
         /\ Head(<<e>>) = e /\ Tail(<<e>>) = <<>>
<1>1. <<>> \in Seq({e}) /\ <<e>> \in Seq({e})
  OBVIOUS
<1>2. <<e>> # <<>> /\ Head(<<e>>) = e
  OBVIOUS
<1>3. Tail(<<e>>) = <<>>
  <2>1. Append(<<>>, e) = <<e>>
    OBVIOUS
  <2> QED BY <1>1, <2>1, HeadTailAppend
<1>4. IsList(<<>>) /\ IsList(<<e>>)
  BY <1>1 DEF IsList
<1> QED BY <1>2, <1>3, <1>4

LEMMA Joined ==
  ASSUME NEW x, NEW y, IsList(x), IsList(y)
  PROVE  /\ IsList(x \o y) /\ x \o <<>> = x /\ <<>> \o x = x
         /\ x # <<>> => /\ x \o y # <<>> /\ Head(x \o y) = Head(x)
                        /\ IsList(Tail(x)) /\ Tail(x \o y) = Tail(x) \o y
<1>1. PICK S : x \in Seq(S) /\ y \in Seq(S)
  BY ListTypes
<1>2. x \o y \in Seq(S) /\ x \o <<>> = x /\ <<>> \o x = x
  BY <1>1, ConcatProperties, ConcatEmptySeq
<1>3. ASSUME x # <<>>
      PROVE  /\ x \o y # <<>> /\ Head(x \o y) = Head(x)
             /\ Tail(x) \in Seq(S) /\ Tail(x \o y) = Tail(x) \o y
  <2>1. Head(x) \in S /\ Tail(x) \in Seq(S) /\ x = <<Head(x)>> \o Tail(x)
    BY <1>1, <1>3
  <2>2. PICK h \in S, t \in Seq(S) : h = Head(x) /\ t = Tail(x)
    BY <2>1
  <2>3. x \o y = <<h>> \o (t \o y)
    BY <1>1, <2>1, <2>2, ConcatAssociative
  <2>4. t \o y \in Seq(S)
    BY <1>1, ConcatProperties
  <2>5. \A u \in Seq(S) : <<h>> \o u # <<>> /\ Head(<<h>> \o u) = h /\ Tail(<<h>> \o u) = u
    BY <2>2
  <2> QED BY <2>1, <2>2, <2>3, <2>4, <2>5
<1> QED BY <1>2, <1>3 DEF IsList

LEMMA JoinedThrice ==
  ASSUME NEW x, NEW y, NEW z, IsList(x), IsList(y), IsList(z)
  PROVE  (x \o y) \o z = x \o (y \o z)
BY ListTypes, ConcatAssociative

LEMMA JoinedLast ==
  ASSUME NEW x, NEW e, IsList(x)
  PROVE  Append(x, e) = x \o <<e>> /\ IsList(Append(x, e))
<1>1. IsList(<<e>>)
  BY Listing
<1>2. PICK S : x \in Seq(S)
  BY DEF IsList
<1>3. x \in Seq(S \cup {e}) /\ e \in S \cup {e}
  BY <1>2, SeqMonotonic
<1> QED BY <1>3, AppendIsConcat, AppendProperties DEF IsList

LEMMA Headed ==
  ASSUME NEW e
  PROVE  /\ \A f : <<e>> \o <<f>> = <<e, f>>
         /\ \A y : IsList(y) => <<e>> \o y # <<>> /\ Head(<<e>> \o y) = e /\ Tail(<<e>> \o y) = y
<1>1. ASSUME NEW f PROVE <<e>> \o <<f>> = <<e, f>>
  <2>1. PICK S : e \in S /\ f \in S
    <3>1. e \in {e, f} /\ f \in {e, f}
      OBVIOUS
    <3> QED BY <3>1
  <2>2. <<e>> \in Seq(S) /\ <<f>> \in Seq(S) /\ <<e, f>> \in Seq(S) /\ <<e>> \o <<f>> \in Seq(S)
    BY <2>1
  <2>3. Len(<<e>> \o <<f>>) = 2 /\ Len(<<e, f>>) = 2
    BY <2>1
  <2>4. (<<e>> \o <<f>>)[1] = e /\ (<<e>> \o <<f>>)[2] = f
    BY <2>1
  <2>5. \A i \in 1 .. 2 : (<<e>> \o <<f>>)[i] = <<e, f>>[i]
    BY <2>4
  <2> QED BY <2>2, <2>3, <2>5, SeqEqual
<1>2. ASSUME NEW y, IsList(y)
      PROVE  <<e>> \o y # <<>> /\ Head(<<e>> \o y) = e /\ Tail(<<e>> \o y) = y
  <2>1. PICK x : x = <<e>>
    OBVIOUS
  <2>2. IsList(x) /\ x # <<>> /\ Head(x) = e /\ Tail(x) = <<>>
    BY <2>1, Listing
  <2>3. x \o y # <<>> /\ Head(x \o y) = Head(x) /\ Tail(x \o y) = Tail(x) \o y
    BY <1>2, <2>2, Joined
  <2>4. <<>> \o y = y
    BY <1>2, Listing, Joined
  <2> QED BY <2>1, <2>2, <2>3, <2>4
<1> QED BY <1>1, <1>2

(***************************************************************************)
(* When code does what a list of statements says.  It is enough that there *)
(* is a set of what may still be to do, and where, in which every step of  *)
(* the source has its step of the code and leads into the set again, until *)
(* nothing is left at one of the places `ends`.                            *)
(***************************************************************************)
Shut(x) == x # <<>> /\ Head(x).is \in {"if", "while", "for", "return"}

Behind(s) == IF s.is = "test" THEN <<Choose(s.yes, s.no)>> ELSE <<>>

Opens(C, x, p) ==
  /\ IsList(Unfolded(Head(x)))
  /\ <<Unfolded(Head(x)) \o Tail(x), p>> \in C

Written(c, p) == p[1] \in Blocks /\ p[2] \in 1 .. Len(c[p[1]])

Jumps(i, C, x) == i.op = "br" /\ <<x, <<i.arg[1], 1>>>> \in C

Evaluates(i, C, x, p) ==
  /\ i.op = "value" /\ x # <<>> /\ Head(x).is \in {"expr", "test"} /\ Head(x).n = i.arg[1]
  /\ <<Behind(Head(x)) \o Tail(x), <<p[1], p[2] + 1>>>> \in C

Chooses(i, C, x) ==
  /\ i.op = "condbr" /\ x # <<>> /\ Head(x).is = "choose"
  /\ IsList(Head(x).yes) /\ IsList(Head(x).no)
  /\ <<Head(x).yes \o Tail(x), <<i.arg[1], 1>>>> \in C
  /\ <<Head(x).no \o Tail(x), <<i.arg[2], 1>>>> \in C

Returns(i, x) == i.op = "ret" /\ x # <<>> /\ Head(x).is = "leave"

Performs(c, C, x, p) ==
  /\ Written(c, p)
  /\ LET i == c[p[1]][p[2]]
     IN  Jumps(i, C, x) \/ Evaluates(i, C, x, p) \/ Chooses(i, C, x) \/ Returns(i, x)

Follows(c, C, ends, x, p) ==
  IF Shut(x) THEN Opens(C, x, p)
  ELSE (x = <<>> /\ p \in ends) \/ Performs(c, C, x, p)

Sound(c, C, ends) ==
  \A e \in C : /\ e = <<e[1], e[2]>> /\ IsList(e[1])
               /\ Follows(c, C, ends, e[1], e[2])

Runs(c, x, p, ends) == \E C : Sound(c, C, ends) /\ <<x, p>> \in C

LEMMA SoundAt ==
  ASSUME NEW c, NEW C, NEW ends, Sound(c, C, ends), NEW x, NEW p, <<x, p>> \in C
  PROVE  IsList(x) /\ Follows(c, C, ends, x, p)
BY DEF Sound

\* A larger set has what a smaller one has.
LEMMA PerformsMore ==
  ASSUME NEW c, NEW C, NEW D, C \subseteq D, NEW ends, NEW more, ends \subseteq more,
         NEW x, NEW p, Follows(c, C, ends, x, p)
  PROVE  Follows(c, D, more, x, p)
BY Zenon DEF Follows, Performs, Opens, Jumps, Evaluates, Chooses

LEMMA SoundBoth ==
  ASSUME NEW c, NEW ends, NEW C, NEW D, Sound(c, C, ends), Sound(c, D, ends)
  PROVE  Sound(c, C \cup D, ends)
<1> SUFFICES ASSUME NEW e \in C \cup D
             PROVE  /\ e = <<e[1], e[2]>> /\ IsList(e[1])
                    /\ Follows(c, C \cup D, ends, e[1], e[2])
  BY DEF Sound
<1>1. CASE e \in C
  BY <1>1, PerformsMore DEF Sound
<1>2. CASE e \in D
  BY <1>2, PerformsMore DEF Sound
<1> QED BY <1>1, <1>2

\* One more fact, with a step that leads into the set.
LEMMA SoundWith ==
  ASSUME NEW c, NEW ends, NEW C, Sound(c, C, ends), NEW x, NEW p, IsList(x),
         Follows(c, C, ends, x, p)
  PROVE  Runs(c, x, p, ends)
<1> DEFINE D == C \cup {<<x, p>>}
<1>1. ASSUME NEW e \in D
      PROVE  e = <<e[1], e[2]>> /\ IsList(e[1]) /\ Follows(c, D, ends, e[1], e[2])
  <2>1. CASE e \in C
    BY <2>1, PerformsMore DEF Sound
  <2>2. CASE e = <<x, p>>
    <3>1. e[1] = x /\ e[2] = p
      BY <2>2
    <3>2. Follows(c, D, ends, x, p)
      BY PerformsMore
    <3> QED BY <2>2, <3>1, <3>2
  <2> QED BY <2>1, <2>2
<1>2. Sound(c, D, ends)
  BY <1>1 DEF Sound
<1> QED BY <1>2 DEF Runs

LEMMA RunsIsList ==
  ASSUME NEW c, NEW x, NEW p, NEW ends, Runs(c, x, p, ends)
  PROVE  IsList(x)
BY SoundAt DEF Runs

\* The end may be any of more places.
LEMMA RunsAnywhere ==
  ASSUME NEW c, NEW x, NEW p, NEW ends, NEW more, ends \subseteq more, Runs(c, x, p, ends)
  PROVE  Runs(c, x, p, more)
<1>1. PICK C : Sound(c, C, ends) /\ <<x, p>> \in C
  BY DEF Runs
<1>2. Sound(c, C, more)
  BY <1>1, PerformsMore DEF Sound
<1> QED BY <1>1, <1>2 DEF Runs

(***************************************************************************)
(* Instructions are only ever added behind those there are.                *)
(***************************************************************************)
Grows(c, d) ==
  \A b \in Blocks : /\ Len(c[b]) \in Nat /\ Len(d[b]) \in Nat /\ Len(c[b]) <= Len(d[b])
                    /\ \A i \in 1 .. Len(c[b]) : d[b][i] = c[b][i]

LEMMA GrowsOn ==
  ASSUME NEW c, NEW d, NEW e, Grows(c, d), Grows(d, e)
  PROVE  Grows(c, e)
<1> SUFFICES ASSUME NEW b \in Blocks
             PROVE  /\ Len(c[b]) \in Nat /\ Len(e[b]) \in Nat /\ Len(c[b]) <= Len(e[b])
                    /\ \A i \in 1 .. Len(c[b]) : e[b][i] = c[b][i]
  BY DEF Grows
<1> QED BY DEF Grows

LEMMA RunsOn ==
  ASSUME NEW c, NEW d, Grows(c, d), NEW x, NEW p, NEW ends, Runs(c, x, p, ends)
  PROVE  Runs(d, x, p, ends)
<1>1. PICK C : Sound(c, C, ends) /\ <<x, p>> \in C
  BY DEF Runs
<1>2. ASSUME NEW y, NEW q, Follows(c, C, ends, y, q)
      PROVE  Follows(d, C, ends, y, q)
  <2>1. ASSUME Written(c, q) PROVE Written(d, q) /\ d[q[1]][q[2]] = c[q[1]][q[2]]
    BY <2>1 DEF Written, Grows
  <2>2. Performs(c, C, y, q) => Performs(d, C, y, q)
    BY <2>1 DEF Performs
  <2> QED BY <1>2, <2>2 DEF Follows
<1>3. Sound(d, C, ends)
  BY <1>1, <1>2 DEF Sound
<1> QED BY <1>1, <1>3 DEF Runs

(***************************************************************************)
(* One step and what follows it.                                           *)
(***************************************************************************)
LEMMA RunsNothing ==
  ASSUME NEW c, NEW p
  PROVE  Runs(c, <<>>, p, {p})
<1>1. Sound(c, {}, {p})
  BY DEF Sound
<1>2. Follows(c, {}, {p}, <<>>, p)
  BY DEF Follows, Shut
<1> QED BY <1>1, <1>2, SoundWith, Listing

LEMMA RunsUnfolded ==
  ASSUME NEW c, NEW s, NEW p, NEW ends, s.is \in {"if", "while", "for", "return"},
         Runs(c, Unfolded(s), p, ends)
  PROVE  Runs(c, <<s>>, p, ends)
<1>1. PICK C : Sound(c, C, ends) /\ <<Unfolded(s), p>> \in C
  BY DEF Runs
<1>2. IsList(Unfolded(s))
  BY <1>1, SoundAt
<1>3. PICK x : x = <<s>>
  OBVIOUS
<1>4. x # <<>> /\ Head(x) = s /\ Tail(x) = <<>> /\ IsList(x) /\ IsList(<<>>)
  BY <1>3, Listing
<1>5. Unfolded(s) \o <<>> = Unfolded(s)
  BY <1>2, Listing, Joined
<1>6. Follows(c, C, ends, x, p)
  BY <1>1, <1>2, <1>4, <1>5 DEF Follows, Shut, Opens
<1> QED BY <1>1, <1>3, <1>4, <1>6, SoundWith

Holds(c, b, k, i) == b \in Blocks /\ k \in 1 .. Len(c[b]) /\ c[b][k] = i

LEMMA RunsBranch ==
  ASSUME NEW c, NEW b, NEW k, NEW t, Holds(c, b, k, Br(t))
  PROVE  Runs(c, <<>>, <<b, k>>, {<<t, 1>>})
<1> DEFINE C == {<<<<>>, <<t, 1>>>>}
<1>1. Follows(c, {}, {<<t, 1>>}, <<>>, <<t, 1>>)
  BY DEF Follows, Shut
<1>2. Sound(c, C, {<<t, 1>>})
  <2>1. SUFFICES ASSUME NEW e \in C
                 PROVE  /\ e = <<e[1], e[2]>> /\ IsList(e[1])
                        /\ Follows(c, C, {<<t, 1>>}, e[1], e[2])
    BY DEF Sound
  <2>2. e = <<<<>>, <<t, 1>>>> /\ e[1] = <<>> /\ e[2] = <<t, 1>>
    OBVIOUS
  <2>3. Follows(c, C, {<<t, 1>>}, <<>>, <<t, 1>>)
    BY <1>1, PerformsMore
  <2> QED BY <2>2, <2>3, Listing
<1>3. Follows(c, C, {<<t, 1>>}, <<>>, <<b, k>>)
  <2> DEFINE i == c[b][k]
  <2>1. i.op = "br" /\ i.arg[1] = t
    BY DEF Holds, Br
  <2>2. Jumps(i, C, <<>>)
    BY <2>1 DEF Jumps
  <2>3. PICK p : p = <<b, k>>
    OBVIOUS
  <2>4. p[1] = b /\ p[2] = k
    BY <2>3
  <2>5. Written(c, p)
    BY <2>4 DEF Written, Holds
  <2>6. Performs(c, C, <<>>, p)
    BY <2>2, <2>4, <2>5 DEF Performs
  <2> QED BY <2>3, <2>6 DEF Follows, Shut
<1> QED BY <1>2, <1>3, SoundWith, Listing

\* An expression, and then the rest x.
LEMMA RunsExpr ==
  ASSUME NEW c, NEW b, NEW k, NEW n, Holds(c, b, k, Value(n)), NEW x, NEW ends,
         Runs(c, x, <<b, k + 1>>, ends)
  PROVE  Runs(c, <<Expr(n)>> \o x, <<b, k>>, ends)
<1>1. PICK C : Sound(c, C, ends) /\ <<x, <<b, k + 1>>>> \in C
  BY DEF Runs
<1>2. PICK y : y = <<Expr(n)>> \o x
  OBVIOUS
<1>3. IsList(x) /\ IsList(y) /\ y # <<>> /\ Head(y) = Expr(n) /\ Tail(y) = x
  <2>1. IsList(x)
    BY <1>1, SoundAt
  <2>2. y # <<>> /\ Head(y) = Expr(n) /\ Tail(y) = x
    BY <1>2, <2>1, Headed
  <2>3. IsList(y)
    BY <1>2, <2>1, Listing, Joined
  <2> QED BY <2>1, <2>2, <2>3
<1>4. Head(y).is = "expr" /\ Head(y).n = n
  BY <1>3 DEF Expr
<1>5. Behind(Head(y)) \o Tail(y) = x
  BY <1>3, <1>4, Joined, Listing DEF Behind
<1>6. PICK p : p = <<b, k>>
  OBVIOUS
<1>7. p[1] = b /\ p[2] = k
  BY <1>6
<1>8. c[b][k].op = "value" /\ c[b][k].arg[1] = n
  BY DEF Holds, Value
<1>9. Evaluates(c[b][k], C, y, p)
  BY <1>1, <1>3, <1>4, <1>5, <1>7, <1>8 DEF Evaluates
<1>10. Performs(c, C, y, p)
  BY <1>7, <1>9 DEF Performs, Written, Holds
<1>11. Follows(c, C, ends, y, p)
  BY <1>4, <1>10 DEF Follows, Shut
<1> QED BY <1>1, <1>2, <1>3, <1>6, <1>11, SoundWith

\* A test, with what it goes on with on either side.
LEMMA RunsTest ==
  ASSUME NEW c, NEW b, NEW k \in Nat, NEW n, NEW t, NEW u,
         Holds(c, b, k, Value(n)), Holds(c, b, k + 1, CondBr(t, u)),
         NEW yes, NEW no, NEW ends,
         Runs(c, yes, <<t, 1>>, ends), Runs(c, no, <<u, 1>>, ends)
  PROVE  Runs(c, <<Test(n, yes, no)>>, <<b, k>>, ends)
<1>1. PICK C1 : Sound(c, C1, ends) /\ <<yes, <<t, 1>>>> \in C1
  BY DEF Runs
<1>2. PICK C2 : Sound(c, C2, ends) /\ <<no, <<u, 1>>>> \in C2
  BY DEF Runs
<1> DEFINE C == C1 \cup C2
<1>3. Sound(c, C, ends) /\ <<yes, <<t, 1>>>> \in C /\ <<no, <<u, 1>>>> \in C
  BY <1>1, <1>2, SoundBoth
<1>4. IsList(yes) /\ IsList(no)
  BY <1>1, <1>2, SoundAt
<1> HIDE DEF C
<1>5. Runs(c, <<Choose(yes, no)>>, <<b, k + 1>>, ends)
  <2>1. PICK y, p : y = <<Choose(yes, no)>> /\ p = <<b, k + 1>>
    OBVIOUS
  <2>2. y # <<>> /\ Head(y) = Choose(yes, no) /\ Tail(y) = <<>> /\ IsList(y)
    BY <2>1, Listing
  <2>3. Head(y).is = "choose" /\ Head(y).yes = yes /\ Head(y).no = no
    BY <2>2 DEF Choose
  <2>4. yes \o <<>> = yes /\ no \o <<>> = no
    BY <1>4, Listing, Joined
  <2>5. /\ c[b][k + 1].op = "condbr" /\ c[b][k + 1].arg[1] = t /\ c[b][k + 1].arg[2] = u
    BY DEF Holds, CondBr
  <2>6. Chooses(c[b][k + 1], C, y)
    BY <1>3, <1>4, <2>2, <2>3, <2>4, <2>5 DEF Chooses
  <2>7. p[1] = b /\ p[2] = k + 1
    BY <2>1
  <2>8. Performs(c, C, y, p)
    BY <2>6, <2>7 DEF Performs, Written, Holds
  <2>9. Follows(c, C, ends, y, p)
    BY <2>3, <2>8 DEF Follows, Shut
  <2> QED BY <1>3, <2>1, <2>2, <2>9, SoundWith
<1>6. PICK D : Sound(c, D, ends) /\ <<<<Choose(yes, no)>>, <<b, k + 1>>>> \in D
  BY <1>5 DEF Runs
<1>7. PICK y, p : y = <<Test(n, yes, no)>> /\ p = <<b, k>>
  OBVIOUS
<1>8. y # <<>> /\ Head(y) = Test(n, yes, no) /\ Tail(y) = <<>> /\ IsList(y)
  BY <1>7, Listing
<1>9. Head(y).is = "test" /\ Head(y).n = n /\ Head(y).yes = yes /\ Head(y).no = no
  BY <1>8 DEF Test
<1>10. Behind(Head(y)) \o Tail(y) = <<Choose(yes, no)>>
  BY <1>8, <1>9, Listing, Joined DEF Behind
<1>11. c[b][k].op = "value" /\ c[b][k].arg[1] = n
  BY DEF Holds, Value
<1>12. p[1] = b /\ p[2] = k
  BY <1>7
<1>13. Evaluates(c[b][k], D, y, p)
  BY <1>6, <1>8, <1>9, <1>10, <1>11, <1>12 DEF Evaluates
<1>14. Performs(c, D, y, p)
  BY <1>12, <1>13 DEF Performs, Written, Holds
<1>15. Follows(c, D, ends, y, p)
  BY <1>9, <1>14 DEF Follows, Shut
<1> QED BY <1>6, <1>7, <1>8, <1>15, SoundWith

LEMMA RunsLeave ==
  ASSUME NEW c, NEW b, NEW k, Holds(c, b, k, Ret)
  PROVE  Runs(c, <<Leaves>>, <<b, k>>, {})
<1>1. PICK y, p : y = <<Leaves>> /\ p = <<b, k>>
  OBVIOUS
<1>2. y # <<>> /\ Head(y) = Leaves /\ IsList(y)
  BY <1>1, Listing
<1>3. Head(y).is = "leave"
  BY <1>2 DEF Leaves
<1>4. c[b][k].op = "ret"
  BY DEF Holds, Ret
<1>5. p[1] = b /\ p[2] = k
  BY <1>1
<1>6. Returns(c[b][k], y)
  BY <1>2, <1>3, <1>4 DEF Returns
<1>7. Performs(c, {}, y, p)
  BY <1>5, <1>6 DEF Performs, Written, Holds
<1>8. Follows(c, {}, {}, y, p)
  BY <1>3, <1>7 DEF Follows, Shut
<1>9. Sound(c, {}, {})
  BY DEF Sound
<1> QED BY <1>1, <1>2, <1>8, <1>9, SoundWith

(***************************************************************************)
(* One list and then another, which goes on where the first ends.          *)
(***************************************************************************)
Rest(Y, y) ==
  /\ IsList(y)
  /\ Shut(y) => IsList(Unfolded(Head(y))) /\ Unfolded(Head(y)) \o Tail(y) \in Y

LEMMA OneThenOther ==
  ASSUME NEW c, NEW C, NEW stops, NEW ends, NEW E, Sound(c, C, stops),
         NEW Y, \A y \in Y : Rest(Y, y),
         \A x, y, p : <<x, p>> \in C /\ y \in Y => <<x \o y, p>> \in E,
         \A y \in Y : \A m \in stops : Follows(c, E, ends, y, m),
         NEW x, NEW p, <<x, p>> \in C, NEW y \in Y
  PROVE  IsList(x \o y) /\ Follows(c, E, ends, x \o y, p)
<1>1. IsList(x) /\ Follows(c, C, stops, x, p) /\ IsList(y)
  BY SoundAt DEF Rest
<1>2. PICK z : z = x \o y
  OBVIOUS
<1>3. IsList(z)
  BY <1>1, <1>2, Joined
<1>4. CASE x = <<>>
  <2>1. z = y
    BY <1>1, <1>2, <1>4, Joined
  <2>2. CASE Shut(y)
    <3>1. PICK u, v : u = Unfolded(Head(y)) /\ v = u \o Tail(y)
      OBVIOUS
    <3>2. IsList(u) /\ v \in Y
      BY <2>2, <3>1 DEF Rest
    <3>3. IsList(v)
      BY <3>2 DEF Rest
    <3>4. <<x \o v, p>> \in E /\ x \o v = v
      BY <1>1, <1>4, <3>2, <3>3, Joined
    <3> QED BY <1>2, <1>3, <2>1, <2>2, <3>1, <3>2, <3>4 DEF Follows, Opens
  <2>3. CASE ~ Shut(y)
    <3>1. p \in stops \/ Performs(c, C, x, p)
      BY <1>1, <1>4 DEF Follows, Shut
    <3>2. CASE p \in stops
      BY <1>2, <1>3, <2>1, <3>2
    <3>3. CASE Performs(c, C, x, p)
      <4> DEFINE i == c[p[1]][p[2]]
      <4>1. Written(c, p) /\ Jumps(i, C, x)
        BY <1>4, <3>3 DEF Performs, Evaluates, Chooses, Returns
      <4>2. Jumps(i, E, z)
        BY <1>2, <4>1 DEF Jumps
      <4>3. Performs(c, E, z, p)
        BY <4>1, <4>2 DEF Performs
      <4> QED BY <1>2, <1>3, <2>1, <2>3, <4>3 DEF Follows
    <3> QED BY <3>1, <3>2, <3>3
  <2> QED BY <2>2, <2>3
<1>5. CASE x # <<>>
  <2>1. z # <<>> /\ Head(z) = Head(x) /\ IsList(Tail(x)) /\ Tail(z) = Tail(x) \o y
    BY <1>1, <1>2, <1>5, Joined
  <2>2. PICK t : t = Tail(x)
    OBVIOUS
  <2>3. ASSUME NEW u, IsList(u)
        PROVE  u \o Tail(z) = (u \o t) \o y
    <3>1. IsList(t)
      BY <2>1, <2>2
    <3>2. (u \o t) \o y = u \o (t \o y)
      BY <1>1, <2>3, <3>1, JoinedThrice
    <3> QED BY <2>1, <2>2, <3>2
  <2>4. \A u, q : IsList(u) /\ <<u \o t, q>> \in C => <<u \o Tail(z), q>> \in E
    BY <2>3
  <2>5. CASE Shut(x)
    <3>1. Shut(z)
      BY <2>1, <2>5 DEF Shut
    <3>2. PICK u : u = Unfolded(Head(x))
      OBVIOUS
    <3>3. IsList(u) /\ <<u \o t, p>> \in C
      BY <1>1, <2>2, <2>5, <3>2 DEF Follows, Opens
    <3>4. <<u \o Tail(z), p>> \in E
      BY <2>4, <3>3
    <3> QED BY <1>2, <1>3, <2>1, <3>1, <3>2, <3>3, <3>4 DEF Follows, Opens
  <2>6. CASE ~ Shut(x)
    <3>1. ~ Shut(z)
      BY <1>5, <2>1, <2>6 DEF Shut
    <3>2. Performs(c, C, x, p)
      BY <1>1, <1>5, <2>6 DEF Follows
    <3> DEFINE i == c[p[1]][p[2]]
    <3>3. Written(c, p) /\ (Jumps(i, C, x) \/ Evaluates(i, C, x, p) \/ Chooses(i, C, x) \/ Returns(i, x))
      BY <3>2 DEF Performs
    <3>4. Jumps(i, C, x) => Jumps(i, E, z)
      BY <1>2 DEF Jumps
    <3>5. ASSUME Evaluates(i, C, x, p) PROVE Evaluates(i, E, z, p)
      <4>1. PICK u, q : u = Behind(Head(x)) /\ q = <<p[1], p[2] + 1>>
        OBVIOUS
      <4>2. IsList(u)
        BY <4>1, Listing DEF Behind
      <4>3. <<u \o t, q>> \in C
        BY <2>2, <3>5, <4>1 DEF Evaluates
      <4>4. <<u \o Tail(z), q>> \in E
        BY <2>4, <4>2, <4>3
      <4> QED BY <2>1, <3>5, <4>1, <4>4 DEF Evaluates
    <3>6. ASSUME Chooses(i, C, x) PROVE Chooses(i, E, z)
      BY <2>1, <2>2, <2>4, <3>6 DEF Chooses
    <3>7. Returns(i, x) => Returns(i, z)
      BY <2>1 DEF Returns
    <3>8. Jumps(i, E, z) \/ Evaluates(i, E, z, p) \/ Chooses(i, E, z) \/ Returns(i, z)
      BY <3>3, <3>4, <3>5, <3>6, <3>7
    <3>9. Performs(c, E, z, p)
      BY <3>3, <3>8 DEF Performs
    <3> QED BY <1>2, <1>3, <3>1, <3>9 DEF Follows
  <2> QED BY <2>5, <2>6
<1> QED BY <1>4, <1>5

\* What is to do, with one of the lists Y behind it.
Behindhand(C, Y) == {<<h[1][1] \o h[2], h[1][2]>> : h \in C \X Y}

LEMMA BehindhandFacts ==
  ASSUME NEW C, NEW Y, \A f \in C : f = <<f[1], f[2]>>
  PROVE  /\ \A x, y, p : <<x, p>> \in C /\ y \in Y => <<x \o y, p>> \in Behindhand(C, Y)
         /\ \A e \in Behindhand(C, Y) : \E x, p : \E y \in Y :
              <<x, p>> \in C /\ e = <<x \o y, p>> /\ e[1] = x \o y /\ e[2] = p
<1>1. ASSUME NEW x, NEW y \in Y, NEW p, <<x, p>> \in C
      PROVE  <<x \o y, p>> \in Behindhand(C, Y)
  <2>1. PICK f \in C : f = <<x, p>>
    BY <1>1
  <2>2. f[1] = x /\ f[2] = p
    BY <2>1
  <2>3. <<f[1] \o y, f[2]>> \in Behindhand(C, Y)
    <3>1. PICK h \in C \X Y : h = <<f, y>>
      BY <2>1
    <3>2. h[1] = f /\ h[2] = y
      BY <3>1
    <3>3. <<h[1][1] \o h[2], h[1][2]>> \in Behindhand(C, Y)
      BY <3>1, Zenon DEF Behindhand
    <3> QED BY <3>2, <3>3
  <2> QED BY <2>2, <2>3
<1>2. ASSUME NEW e \in Behindhand(C, Y)
      PROVE  \E x, p : \E y \in Y :
               <<x, p>> \in C /\ e = <<x \o y, p>> /\ e[1] = x \o y /\ e[2] = p
  <2>1. PICK f \in C, y \in Y : e = <<f[1] \o y, f[2]>>
    <3>1. PICK h \in C \X Y : e = <<h[1][1] \o h[2], h[1][2]>>
      BY Zenon DEF Behindhand
    <3> QED BY <3>1
  <2>2. PICK x, p : x = f[1] /\ p = f[2]
    OBVIOUS
  <2>3. <<x, p>> \in C
    BY <2>2
  <2>4. e = <<x \o y, p>>
    BY <2>1, <2>2
  <2>5. e[1] = x \o y /\ e[2] = p
    BY <2>4
  <2> QED BY <2>3, <2>4, <2>5
<1> QED BY <1>1, <1>2

LEMMA SoundBehind ==
  ASSUME NEW c, NEW C, NEW stops, NEW ends, NEW D, Sound(c, C, stops), NEW Y,
         \A y \in Y : Rest(Y, y),
         NEW E, E = D \cup Behindhand(C, Y),
         \A y \in Y : \A m \in stops : Follows(c, E, ends, y, m),
         \A e \in D : e = <<e[1], e[2]>> /\ IsList(e[1]) /\ Follows(c, E, ends, e[1], e[2])
  PROVE  Sound(c, E, ends)
<1>2. \A f \in C : f = <<f[1], f[2]>>
  BY DEF Sound
<1>3. \A x, y, p : <<x, p>> \in C /\ y \in Y => <<x \o y, p>> \in E
  BY <1>2, BehindhandFacts
<1>4. ASSUME NEW e \in E
      PROVE  e = <<e[1], e[2]>> /\ IsList(e[1]) /\ Follows(c, E, ends, e[1], e[2])
  <2>1. CASE e \in D
    BY <2>1
  <2>2. CASE e \in Behindhand(C, Y)
    <3>1. PICK x, p : \E y \in Y :
            <<x, p>> \in C /\ e = <<x \o y, p>> /\ e[1] = x \o y /\ e[2] = p
      BY <1>2, <2>2, BehindhandFacts
    <3>2. PICK y \in Y : <<x, p>> \in C /\ e = <<x \o y, p>> /\ e[1] = x \o y /\ e[2] = p
      BY <3>1
    <3>3. IsList(x \o y) /\ Follows(c, E, ends, x \o y, p)
      BY <1>3, <3>2, OneThenOther
    <3> QED BY <3>2, <3>3
  <2> QED BY <2>1, <2>2
<1> QED BY <1>4 DEF Sound

LEMMA RunsBoth ==
  ASSUME NEW c, NEW x, NEW y, NEW p, NEW m, NEW ends,
         Runs(c, x, p, {m}), Runs(c, y, m, ends)
  PROVE  Runs(c, x \o y, p, ends)
<1>1. PICK C : Sound(c, C, {m}) /\ <<x, p>> \in C
  BY DEF Runs
<1>2. PICK D : Sound(c, D, ends) /\ <<y, m>> \in D
  BY DEF Runs
<1> DEFINE Y == {g[1] : g \in {h \in D : h[2] = m}}
           E == D \cup Behindhand(C, Y)
<1>3. \A z : <<z, m>> \in D <=> z \in Y
  <2>1. \A g \in D : g = <<g[1], g[2]>>
    BY <1>2 DEF Sound
  <2>2. ASSUME NEW z, <<z, m>> \in D PROVE z \in Y
    <3>1. PICK g \in D : g = <<z, m>>
      BY <2>2
    <3>2. g[1] = z /\ g[2] = m
      BY <3>1
    <3> QED BY <3>1, <3>2
  <2>3. ASSUME NEW z \in Y PROVE <<z, m>> \in D
    BY <2>1
  <2> QED BY <2>2, <2>3
<1>4. \A f \in C : f = <<f[1], f[2]>>
  BY <1>1 DEF Sound
<1>5. \A e \in D : /\ e = <<e[1], e[2]>> /\ IsList(e[1])
                   /\ Follows(c, E, ends, e[1], e[2])
  <2>1. D \subseteq E
    OBVIOUS
  <2> HIDE DEF E
  <2> QED BY <1>2, <2>1, PerformsMore DEF Sound
<1> HIDE DEF Y
<1>6. ASSUME NEW z \in Y PROVE Rest(Y, z) /\ Follows(c, E, ends, z, m)
  <2>1. <<z, m>> \in D
    BY <1>3
  <2>2. IsList(z) /\ Follows(c, D, ends, z, m)
    BY <1>2, <2>1, SoundAt
  <2>3. Shut(z) => IsList(Unfolded(Head(z))) /\ Unfolded(Head(z)) \o Tail(z) \in Y
    BY <1>3, <2>2 DEF Follows, Opens
  <2> QED BY <2>2, <2>3, PerformsMore DEF Rest
<1>7. Sound(c, E, ends)
  <2>1. \A z \in Y : Rest(Y, z)
    BY <1>6
  <2>2. \A z \in Y : \A k \in {m} : Follows(c, E, ends, z, k)
    BY <1>6
  <2>3. E = D \cup Behindhand(C, Y)
    OBVIOUS
  <2> HIDE DEF E
  <2>4. PICK S : S = {m}
    OBVIOUS
  <2>5. Sound(c, C, S) /\ \A z \in Y : \A k \in S : Follows(c, E, ends, z, k)
    BY <1>1, <2>2, <2>4
  <2> QED BY <1>5, <2>1, <2>3, <2>5, SoundBehind
<1>8. <<x \o y, p>> \in E
  BY <1>1, <1>2, <1>3, <1>4, BehindhandFacts
<1> HIDE DEF E
<1> QED BY <1>7, <1>8 DEF Runs

\* Nothing is run behind a list that returns.
LEMMA RunsNoFurther ==
  ASSUME NEW c, NEW x, NEW y, NEW p, NEW ends, IsList(y), ~ Shut(y), Runs(c, x, p, {})
  PROVE  Runs(c, x \o y, p, ends)
<1>1. PICK C : Sound(c, C, {}) /\ <<x, p>> \in C
  BY DEF Runs
<1>2. \A f \in C : f = <<f[1], f[2]>>
  BY <1>1 DEF Sound
<1>3. PICK N, Y, E : N = {} /\ Y = {y} /\ E = N \cup Behindhand(C, Y)
  OBVIOUS
<1>4. Sound(c, E, ends)
  <2>1. \A z \in Y : Rest(Y, z)
    BY <1>3 DEF Rest
  <2>2. Sound(c, C, N) /\ \A z \in Y : \A m \in N : Follows(c, E, ends, z, m)
    BY <1>1, <1>3
  <2>3. \A e \in N : e = <<e[1], e[2]>> /\ IsList(e[1]) /\ Follows(c, E, ends, e[1], e[2])
    BY <1>3
  <2> QED BY <1>3, <2>1, <2>2, <2>3, SoundBehind
<1>5. <<x \o y, p>> \in E
  BY <1>1, <1>2, <1>3, BehindhandFacts
<1> QED BY <1>4, <1>5 DEF Runs

\* A loop: from the end of its body it goes back to the test before it.
LEMMA RunsWhile ==
  ASSUME NEW c, NEW b, NEW n, NEW t, NEW u,
         Holds(c, b, 1, Value(n)), Holds(c, b, 2, CondBr(t, u)),
         NEW body, Runs(c, body, <<t, 1>>, {<<b, 1>>})
  PROVE  Runs(c, <<While(n, body)>>, <<b, 1>>, {<<u, 1>>})
<1>1. PICK w, y : w = While(n, body) /\ y = Append(body, w)
  OBVIOUS
<1>2. PICK x1, x2, x3 : x1 = <<w>> /\ x2 = <<Test(n, y, <<>>)>> /\ x3 = <<Choose(y, <<>>)>>
  OBVIOUS
<1>3. PICK p1, p2, q : p1 = <<b, 1>> /\ p2 = <<b, 2>> /\ q = <<u, 1>>
  OBVIOUS
<1>4. PICK C : Sound(c, C, {p1}) /\ <<body, <<t, 1>>>> \in C
  BY <1>3 DEF Runs
<1> DEFINE Y == {x1, x2}
           D == {<<x1, p1>>, <<x2, p1>>, <<x3, p2>>, <<<<>>, q>>}
           E == D \cup Behindhand(C, Y)
<1>5. /\ IsList(x1) /\ x1 # <<>> /\ Head(x1) = w /\ Tail(x1) = <<>>
      /\ IsList(x2) /\ x2 # <<>> /\ Head(x2) = Test(n, y, <<>>) /\ Tail(x2) = <<>>
      /\ IsList(x3) /\ x3 # <<>> /\ Head(x3) = Choose(y, <<>>) /\ Tail(x3) = <<>>
      /\ IsList(<<>>)
  BY <1>2, Listing
<1>6. IsList(body) /\ IsList(y) /\ y = body \o x1
  <2>1. IsList(body)
    BY <1>4, SoundAt
  <2> QED BY <1>1, <1>2, <2>1, JoinedLast
<1>7. \A f \in C : f = <<f[1], f[2]>>
  BY <1>4 DEF Sound
<1>8. <<y, <<t, 1>>>> \in E
  BY <1>4, <1>6, <1>7, BehindhandFacts
<1>9. w.is = "while" /\ Unfolded(w) = x2
  <2>1. w.is = "while" /\ w.cond = n /\ w.body = body
    BY <1>1 DEF While
  <2> QED BY <1>1, <1>2, <2>1 DEF Unfolded
<1>10. Follows(c, E, {q}, x1, p1)
  <2>1. x2 \o <<>> = x2
    BY <1>5, Joined
  <2>2. Opens(E, x1, p1)
    BY <1>5, <1>9, <2>1 DEF Opens
  <2> QED BY <1>5, <1>9, <2>2 DEF Follows, Shut
<1>11. Follows(c, E, {q}, x2, p1)
  <2>1. Head(x2).is = "test" /\ Head(x2).n = n /\ Head(x2).yes = y /\ Head(x2).no = <<>>
    BY <1>5 DEF Test
  <2>2. Behind(Head(x2)) \o Tail(x2) = x3
    BY <1>2, <1>5, <2>1, Joined DEF Behind
  <2>3. c[b][1].op = "value" /\ c[b][1].arg[1] = n
    BY DEF Holds, Value
  <2>4. p1[1] = b /\ p1[2] = 1 /\ <<b, 1 + 1>> = p2
    BY <1>3
  <2>5. Evaluates(c[b][1], E, x2, p1)
    BY <1>5, <2>1, <2>2, <2>3, <2>4 DEF Evaluates
  <2>6. Performs(c, E, x2, p1)
    BY <2>4, <2>5 DEF Performs, Written, Holds
  <2> QED BY <2>1, <2>6 DEF Follows, Shut
<1>12. Follows(c, E, {q}, x3, p2)
  <2>1. Head(x3).is = "choose" /\ Head(x3).yes = y /\ Head(x3).no = <<>>
    BY <1>5 DEF Choose
  <2>2. y \o <<>> = y /\ <<>> \o <<>> = <<>>
    BY <1>5, <1>6, Joined
  <2>3. c[b][2].op = "condbr" /\ c[b][2].arg[1] = t /\ c[b][2].arg[2] = u
    BY DEF Holds, CondBr
  <2>4. Chooses(c[b][2], E, x3)
    BY <1>3, <1>5, <1>6, <1>8, <2>1, <2>2, <2>3 DEF Chooses
  <2>5. p2[1] = b /\ p2[2] = 2
    BY <1>3
  <2>6. Performs(c, E, x3, p2)
    BY <2>4, <2>5 DEF Performs, Written, Holds
  <2> QED BY <2>1, <2>6 DEF Follows, Shut
<1>13. Follows(c, E, {q}, <<>>, q)
  BY DEF Follows, Shut
<1>14. \A e \in D : /\ e = <<e[1], e[2]>> /\ IsList(e[1]) /\ Follows(c, E, {q}, e[1], e[2])
  <2> HIDE DEF E
  <2>1. SUFFICES ASSUME NEW x, NEW p, NEW e, e = <<x, p>>,
                        IsList(x) /\ Follows(c, E, {q}, x, p)
                 PROVE  e = <<e[1], e[2]>> /\ IsList(e[1]) /\ Follows(c, E, {q}, e[1], e[2])
    BY <1>5, <1>10, <1>11, <1>12, <1>13
  <2>2. e[1] = x /\ e[2] = p
    BY <2>1
  <2> QED BY <2>1, <2>2
<1>15. \A z \in Y : Rest(Y, z)
  <2>1. Rest(Y, x1)
    BY <1>5, <1>9, Joined DEF Rest
  <2>2. Rest(Y, x2)
    BY <1>5 DEF Rest, Shut, Test
  <2> QED BY <2>1, <2>2
<1>16. \A z \in Y : \A m \in {p1} : Follows(c, E, {q}, z, m)
  BY <1>10, <1>11
<1>17. Sound(c, E, {q})
  <2>1. E = D \cup Behindhand(C, Y)
    OBVIOUS
  <2> HIDE DEF D, E
  <2>2. PICK S, Z : S = {p1} /\ Z = {q}
    OBVIOUS
  <2>3. Sound(c, C, S) /\ \A z \in Y : \A m \in S : Follows(c, E, Z, z, m)
    BY <1>4, <1>16, <2>2
  <2>4. \A e \in D : e = <<e[1], e[2]>> /\ IsList(e[1]) /\ Follows(c, E, Z, e[1], e[2])
    BY <1>14, <2>2
  <2>5. \A z \in Y : Rest(Y, z)
    BY <1>15
  <2> HIDE DEF Y
  <2>6. Sound(c, E, Z)
    BY <2>1, <2>3, <2>4, <2>5, SoundBehind
  <2> QED BY <2>2, <2>6
<1>18. <<x1, p1>> \in E
  OBVIOUS
<1> HIDE DEF E
<1> QED BY <1>1, <1>2, <1>3, <1>17, <1>18 DEF Runs

(***************************************************************************)
(* The statements, as the visitor emits them.                              *)
(***************************************************************************)
\* A list, and then the statement after it.
LEMMA RunsThen ==
  ASSUME NEW c, NEW x, NEW s, NEW p, NEW m, NEW ends,
         Runs(c, x, p, {m}), Runs(c, <<s>>, m, ends)
  PROVE  Runs(c, Append(x, s), p, ends)
<1>1. IsList(x)
  BY RunsIsList
<1>2. Append(x, s) = x \o <<s>>
  BY <1>1, JoinedLast
<1> QED BY <1>2, RunsBoth

\* A list, and then a branch behind it.
LEMMA RunsClosed ==
  ASSUME NEW c, NEW x, NEW p, NEW b, NEW k, NEW t,
         Runs(c, x, p, {<<b, k>>}), Holds(c, b, k, Br(t))
  PROVE  Runs(c, x, p, {<<t, 1>>})
<1>1. IsList(x)
  BY RunsIsList
<1>2. x \o <<>> = x
  BY <1>1, Listing, Joined
<1>3. PICK m, ends : m = <<b, k>> /\ ends = {<<t, 1>>}
  OBVIOUS
<1>4. Runs(c, <<>>, m, ends)
  BY <1>3, RunsBranch
<1>5. Runs(c, x \o <<>>, p, ends)
  BY <1>3, <1>4, RunsBoth
<1> QED BY <1>2, <1>3, <1>5

LEMMA RunsValue ==
  ASSUME NEW c, NEW b, NEW k, NEW n, Holds(c, b, k, Value(n))
  PROVE  Runs(c, <<Expr(n)>>, <<b, k>>, {<<b, k + 1>>})
<1>1. PICK x, q : x = <<Expr(n)>> /\ q = <<b, k + 1>>
  OBVIOUS
<1>2. IsList(x)
  BY <1>1, Listing
<1>3. x \o <<>> = x
  BY <1>2, Listing, Joined
<1>4. Runs(c, <<>>, q, {q})
  BY RunsNothing
<1>5. PICK ends : ends = {q}
  OBVIOUS
<1>6. Runs(c, <<Expr(n)>> \o <<>>, <<b, k>>, ends)
  BY <1>1, <1>4, <1>5, RunsExpr
<1> QED BY <1>1, <1>3, <1>5, <1>6

LEMMA RunsReturn ==
  ASSUME NEW c, NEW b, NEW k, NEW n,
         \/ n = 0 /\ Holds(c, b, k, Ret)
         \/ n # 0 /\ Holds(c, b, k, Value(n)) /\ Holds(c, b, k + 1, Ret)
  PROVE  Runs(c, <<Return(n)>>, <<b, k>>, {})
<1>1. PICK s : s = Return(n)
  OBVIOUS
<1>2. s.is = "return" /\ s.n = n
  BY <1>1 DEF Return
<1>3. Unfolded(s) = IF n = 0 THEN <<Leaves>> ELSE <<Expr(n), Leaves>>
  BY <1>2 DEF Unfolded
<1>4. CASE n = 0
  <2>1. Runs(c, Unfolded(s), <<b, k>>, {})
    BY <1>3, <1>4, RunsLeave
  <2> QED BY <1>1, <1>2, <2>1, RunsUnfolded
<1>5. CASE n # 0
  <2>1. Runs(c, <<Leaves>>, <<b, k + 1>>, {})
    BY <1>5, RunsLeave
  <2>2. PICK x, ends : x = <<Leaves>> /\ ends = {}
    OBVIOUS
  <2>3. Runs(c, <<Expr(n)>> \o x, <<b, k>>, ends)
    BY <1>5, <2>1, <2>2, RunsExpr
  <2>4. <<Expr(n)>> \o x = <<Expr(n), Leaves>>
    BY <2>2, Headed
  <2>5. Runs(c, Unfolded(s), <<b, k>>, {})
    BY <1>3, <1>5, <2>2, <2>3, <2>4
  <2> QED BY <1>1, <1>2, <2>5, RunsUnfolded
<1> QED BY <1>4, <1>5

\* An if without pairs is its else.
LEMMA RunsElse ==
  ASSUME NEW c, NEW els, NEW p, NEW ends, Runs(c, els, p, ends)
  PROVE  Runs(c, <<If(<<>>, els)>>, p, ends)
<1>1. PICK s : s = If(<<>>, els)
  OBVIOUS
<1>2. s.is = "if" /\ s.pairs = <<>> /\ s.els = els
  BY <1>1 DEF If
<1>3. Unfolded(s) = els
  BY <1>2 DEF Unfolded
<1> QED BY <1>1, <1>2, <1>3, RunsUnfolded

\* One with pairs tests the condition of the first.
LEMMA RunsIf ==
  ASSUME NEW c, NEW b, NEW k \in Nat, NEW n, NEW t, NEW u,
         Holds(c, b, k, Value(n)), Holds(c, b, k + 1, CondBr(t, u)),
         NEW body, NEW pairs, NEW els, NEW ends, IsList(pairs),
         Runs(c, body, <<t, 1>>, ends), Runs(c, <<If(pairs, els)>>, <<u, 1>>, ends)
  PROVE  Runs(c, <<If(<<[cond |-> n, body |-> body]>> \o pairs, els)>>, <<b, k>>, ends)
<1>1. PICK r, x : r = [cond |-> n, body |-> body] /\ x = <<r>>
  OBVIOUS
<1>2. PICK all : all = x \o pairs
  OBVIOUS
<1>3. PICK s : s = If(all, els)
  OBVIOUS
<1>4. IsList(x) /\ x # <<>> /\ Head(x) = r /\ Tail(x) = <<>>
  BY <1>1, Listing
<1>5. all # <<>> /\ Head(all) = r /\ Tail(all) = pairs
  BY <1>1, <1>2, Headed
<1>6. s.is = "if" /\ s.pairs = all /\ s.els = els /\ r.cond = n /\ r.body = body
  BY <1>1, <1>3 DEF If
<1>7. Unfolded(s) = <<Test(n, body, <<If(pairs, els)>>)>>
  BY <1>5, <1>6 DEF Unfolded
<1>8. PICK no : no = <<If(pairs, els)>>
  OBVIOUS
<1>9. Runs(c, <<Test(n, body, no)>>, <<b, k>>, ends)
  BY <1>8, RunsTest
<1>10. Runs(c, Unfolded(s), <<b, k>>, ends)
  BY <1>7, <1>8, <1>9
<1>11. Runs(c, <<s>>, <<b, k>>, ends)
  BY <1>6, <1>10, RunsUnfolded
<1> QED BY <1>1, <1>2, <1>3, <1>11

\* A for is its init, and then a while that ends in the increment.
LEMMA RunsFor ==
  ASSUME NEW c, NEW init, NEW p, NEW a, NEW k, NEW b, NEW n, NEW t, NEW u,
         Runs(c, init, p, {<<a, k>>}), Holds(c, a, k, Br(b)),
         Holds(c, b, 1, Value(n)), Holds(c, b, 2, CondBr(t, u)),
         NEW body, NEW inc, Runs(c, Append(body, Expr(inc)), <<t, 1>>, {<<b, 1>>})
  PROVE  Runs(c, <<For(init, n, inc, body)>>, p, {<<u, 1>>})
<1>1. PICK s, w : s = For(init, n, inc, body) /\ w = While(n, Append(body, Expr(inc)))
  OBVIOUS
<1>2. /\ s.is = "for" /\ s.init = init /\ s.cond = n /\ s.inc = inc /\ s.body = body
  BY <1>1 DEF For
<1>3. Unfolded(s) = Append(init, w)
  BY <1>1, <1>2 DEF Unfolded
<1>4. PICK m, ends : m = <<b, 1>> /\ ends = {<<u, 1>>}
  OBVIOUS
<1>5. Runs(c, init, p, {m})
  BY <1>4, RunsClosed
<1>6. Runs(c, <<w>>, m, ends)
  BY <1>1, <1>4, RunsWhile
<1>7. Runs(c, Unfolded(s), p, ends)
  BY <1>3, <1>5, <1>6, RunsThen
<1>8. Runs(c, <<s>>, p, ends)
  BY <1>2, <1>7, RunsUnfolded
<1> QED BY <1>1, <1>4, <1>8

----------------------------------------------------------------------------
(***************************************************************************)
(* The statements that are being visited.  What is visited of one, o, fits *)
(* its frame f if, however the code grows, the whole statement will run    *)
(* behind the list of its block from s, once what is still to be visited   *)
(* runs from t: a body that is followed by the statement's own branch.     *)
(***************************************************************************)
To(b) == {<<b, 1>>}

Fits(c, f, o, list, s, t) ==
  \A d : Grows(c, d) =>
    /\ f.kind = "then" =>
         \A body, pairs, els :
           /\ IsList(pairs)
           /\ Runs(d, body, t, To(f.cont))
           /\ Runs(d, <<If(pairs, els)>>, <<f.next, 1>>, To(f.cont))
           => Runs(d, Append(list, If(Append(o.pairs, [cond |-> o.cond, body |-> body]) \o pairs, els)),
                   s, To(f.cont))
    /\ f.kind = "else" =>
         \A body : Runs(d, body, t, To(f.cont))
                   => Runs(d, Append(list, If(o.pairs, body)), s, To(f.cont))
    /\ f.kind = "while" =>
         \A body : Runs(d, body, t, To(f.loop))
                   => Runs(d, Append(list, While(o.cond, body)), s, To(f.cont))
    /\ f.kind = "init" => Runs(d, list, s, {t})
    /\ f.kind = "for" =>
         \A body, inc : Runs(d, Append(body, Expr(inc)), t, To(f.loop))
                        => Runs(d, Append(list, For(o.init, o.cond, inc, body)), s, To(f.cont))

LEMMA FitsOn ==
  ASSUME NEW c, NEW d, Grows(c, d), NEW f, NEW o, NEW list, NEW s, NEW t,
         Fits(c, f, o, list, s, t)
  PROVE  Fits(d, f, o, list, s, t)
<1>1. \A e : Grows(d, e) => Grows(c, e)
  BY GrowsOn
<1> QED BY <1>1 DEF Fits

IsOpen(o) ==
  /\ o = [pairs |-> o.pairs, init |-> o.init, cond |-> o.cond, list |-> o.list]
  /\ IsList(o.pairs)

\* One more open block than there are frames: the body of the function.
Stacks(fr, tr) ==
  /\ fr \in Seq(Frame) /\ IsList(tr) /\ Len(tr) = Len(fr) + 1
  /\ \A k \in 1 .. Len(tr) : IsOpen(tr[k])

Innermost(x) == x[Len(x)]

But(x) == SubSeq(x, 1, Len(x) - 1)

\* All that is being visited fits, and the innermost block begins at s.
Spine(c, fr, tr, s) ==
  /\ Stacks(fr, tr)
  /\ \E st : /\ st[1] = <<1, 1>> /\ st[Len(tr)] = s
             /\ \A k \in 1 .. Len(fr) : Fits(c, fr[k], tr[k + 1], tr[k].list, st[k], st[k + 1])

LEMMA SpineOn ==
  ASSUME NEW c, NEW d, Grows(c, d), NEW fr, NEW tr, NEW s, Spine(c, fr, tr, s)
  PROVE  Spine(d, fr, tr, s)
BY FitsOn DEF Spine

\* The body of the function begins where the function does.
LEMMA SpineOnly ==
  ASSUME NEW c, NEW tr, NEW s, Spine(c, <<>>, tr, s)
  PROVE  s = <<1, 1>>
BY DEF Spine, Stacks

LEMMA LastFrame ==
  ASSUME NEW x, IsList(x), x # <<>>
  PROVE  /\ Len(x) \in Nat \ {0} /\ IsList(But(x)) /\ Len(But(x)) = Len(x) - 1
         /\ \A k \in 1 .. Len(x) - 1 : But(x)[k] = x[k]
<1>1. PICK S : x \in Seq(S)
  BY DEF IsList
<1>2. Len(x) \in Nat \ {0}
  BY <1>1
<1>3. But(x) \in Seq(S) /\ Len(But(x)) = Len(x) - 1 /\ \A k \in 1 .. Len(x) - 1 : But(x)[k] = x[k]
  <2>1. 1 \in 1 .. Len(x) + 1 /\ Len(x) - 1 \in 0 .. Len(x) /\ (Len(x) - 1) - 1 + 1 = Len(x) - 1
    BY <1>2
  <2> QED BY <1>1, <1>2, <2>1, SubSeqProperties DEF But
<1> QED BY <1>2, <1>3 DEF IsList

LEMMA OneMore ==
  ASSUME NEW x, IsList(x), NEW e
  PROVE  /\ Len(x) \in Nat /\ IsList(Append(x, e)) /\ Len(Append(x, e)) = Len(x) + 1
         /\ Append(x, e)[Len(x) + 1] = e /\ Innermost(Append(x, e)) = e
         /\ \A k \in 1 .. Len(x) : Append(x, e)[k] = x[k]
<1>1. PICK S : x \in Seq(S)
  BY DEF IsList
<1>2. x \in Seq(S \cup {e}) /\ e \in S \cup {e}
  BY <1>1, SeqMonotonic
<1> QED BY <1>2, AppendProperties, LenProperties DEF IsList, Innermost

\* A statement is put behind the list of the innermost block.
LEMMA OneListed ==
  ASSUME NEW fr, NEW tr, Stacks(fr, tr), NEW e
  PROVE  /\ Stacks(fr, Listed(tr, e)) /\ Len(Listed(tr, e)) = Len(tr)
         /\ \A k \in 1 .. Len(fr) : Listed(tr, e)[k] = tr[k]
         /\ Innermost(Listed(tr, e)) = [Innermost(tr) EXCEPT !.list = Append(@, e)]
         /\ Innermost(Listed(tr, e)).list = Append(Innermost(tr).list, e)
         /\ Innermost(Listed(tr, e)).pairs = Innermost(tr).pairs
         /\ Innermost(Listed(tr, e)).init = Innermost(tr).init
         /\ Innermost(Listed(tr, e)).cond = Innermost(tr).cond
<1>1. PICK S : tr \in Seq(S)
  BY DEF Stacks, IsList
<1>2. Len(fr) \in Nat /\ Len(tr) = Len(fr) + 1 /\ Len(tr) \in 1 .. Len(tr)
  BY DEF Stacks
<1> DEFINE o == Innermost(tr)
           p == [o EXCEPT !.list = Append(@, e)]
<1>3. o = [pairs |-> o.pairs, init |-> o.init, cond |-> o.cond, list |-> o.list] /\ IsList(o.pairs)
  BY <1>2 DEF Stacks, Innermost, IsOpen
<1> HIDE DEF o
<1>4. /\ p = [pairs |-> o.pairs, init |-> o.init, cond |-> o.cond, list |-> Append(o.list, e)]
      /\ p.list = Append(o.list, e) /\ p.pairs = o.pairs /\ p.init = o.init /\ p.cond = o.cond
  BY <1>3
<1>5. IsOpen(p)
  BY <1>3, <1>4 DEF IsOpen
<1> HIDE DEF p
<1>6. Listed(tr, e) = [tr EXCEPT ![Len(tr)] = p]
  BY DEF Listed, p, o, Innermost
<1>7. tr \in Seq(S \cup {p}) /\ p \in S \cup {p}
  BY <1>1, SeqMonotonic
<1>8. /\ [tr EXCEPT ![Len(tr)] = p] \in Seq(S \cup {p}) /\ Len([tr EXCEPT ![Len(tr)] = p]) = Len(tr)
      /\ \A k \in 1 .. Len(tr) : [tr EXCEPT ![Len(tr)] = p][k] = IF k = Len(tr) THEN p ELSE tr[k]
  BY <1>2, <1>7, ExceptSeq
<1>9. /\ IsList(Listed(tr, e)) /\ Len(Listed(tr, e)) = Len(tr) /\ Innermost(Listed(tr, e)) = p
      /\ \A k \in 1 .. Len(fr) : Listed(tr, e)[k] = tr[k]
      /\ \A k \in 1 .. Len(tr) : IsOpen(Listed(tr, e)[k])
  BY <1>2, <1>5, <1>6, <1>8 DEF IsList, Innermost, Stacks
<1> QED BY <1>4, <1>9 DEF Stacks, o, p

LEMMA SpineListed ==
  ASSUME NEW c, NEW fr, NEW tr, NEW s, Spine(c, fr, tr, s), NEW e
  PROVE  Spine(c, fr, Listed(tr, e), s)
<1>1. Stacks(fr, tr) /\ Len(fr) \in Nat /\ Len(tr) = Len(fr) + 1
  BY DEF Spine, Stacks
<1>2. PICK st : /\ st[1] = <<1, 1>> /\ st[Len(tr)] = s
                /\ \A k \in 1 .. Len(fr) :
                     Fits(c, fr[k], tr[k + 1], tr[k].list, st[k], st[k + 1])
  BY DEF Spine
<1>3. PICK u : u = Listed(tr, e)
  OBVIOUS
<1>4. /\ Stacks(fr, u) /\ Len(u) = Len(tr) /\ \A k \in 1 .. Len(fr) : u[k] = tr[k]
      /\ u[Len(tr)].pairs = tr[Len(tr)].pairs /\ u[Len(tr)].init = tr[Len(tr)].init
      /\ u[Len(tr)].cond = tr[Len(tr)].cond
  <2>1. /\ Stacks(fr, u) /\ Len(u) = Len(tr) /\ \A k \in 1 .. Len(fr) : u[k] = tr[k]
        /\ Innermost(u).pairs = Innermost(tr).pairs /\ Innermost(u).init = Innermost(tr).init
        /\ Innermost(u).cond = Innermost(tr).cond
    BY <1>1, <1>3, OneListed
  <2> QED BY <2>1 DEF Innermost
<1>5. ASSUME NEW k \in 1 .. Len(fr)
      PROVE  Fits(c, fr[k], u[k + 1], u[k].list, st[k], st[k + 1])
  <2>1. /\ u[k + 1].pairs = tr[k + 1].pairs /\ u[k + 1].init = tr[k + 1].init
        /\ u[k + 1].cond = tr[k + 1].cond
    <3>1. CASE k + 1 = Len(tr)
      BY <1>4, <3>1
    <3>2. CASE k + 1 # Len(tr)
      BY <1>1, <1>4, <3>2
    <3> QED BY <3>1, <3>2
  <2>2. u[k].list = tr[k].list
    BY <1>4
  <2> QED BY <1>2, <2>1, <2>2, Zenon DEF Fits
<1> QED BY <1>2, <1>3, <1>4, <1>5 DEF Spine

\* A statement is entered.
LEMMA SpineEnters ==
  ASSUME NEW c, NEW fr, NEW tr, NEW s, Spine(c, fr, tr, s),
         NEW f \in Frame, NEW o, IsOpen(o), NEW t, Fits(c, f, o, Innermost(tr).list, s, t)
  PROVE  Spine(c, Append(fr, f), Append(tr, o), t)
<1>1. Stacks(fr, tr) /\ fr \in Seq(Frame) /\ Len(fr) \in Nat /\ Len(tr) = Len(fr) + 1 /\ IsList(tr)
  BY DEF Spine, Stacks
<1>2. PICK st : /\ st[1] = <<1, 1>> /\ st[Len(tr)] = s
                /\ \A k \in 1 .. Len(fr) :
                     Fits(c, fr[k], tr[k + 1], tr[k].list, st[k], st[k + 1])
  BY DEF Spine
<1>3. PICK g, u : g = Append(fr, f) /\ u = Append(tr, o)
  OBVIOUS
<1>4. /\ g \in Seq(Frame) /\ Len(g) = Len(fr) + 1 /\ g[Len(g)] = f
      /\ \A k \in 1 .. Len(fr) : g[k] = fr[k]
  BY <1>1, <1>3
<1>5. /\ IsList(u) /\ Len(u) = Len(tr) + 1 /\ u[Len(tr) + 1] = o
      /\ \A k \in 1 .. Len(tr) : u[k] = tr[k]
  BY <1>1, <1>3, OneMore
<1>6. Stacks(g, u)
  BY <1>1, <1>4, <1>5 DEF Stacks
<1> DEFINE v == [k \in 1 .. Len(u) |-> IF k = Len(u) THEN t ELSE st[k]]
<1>7. v[1] = <<1, 1>> /\ v[Len(u)] = t /\ \A k \in 1 .. Len(tr) : v[k] = st[k]
  BY <1>1, <1>2, <1>5
<1> HIDE DEF v
<1>8. ASSUME NEW k \in 1 .. Len(g)
      PROVE  Fits(c, g[k], u[k + 1], u[k].list, v[k], v[k + 1])
  <2>1. CASE k = Len(g)
    <3>1. k = Len(tr) /\ k \in 1 .. Len(tr) /\ k + 1 = Len(u)
      BY <1>1, <1>4, <1>5, <2>1
    <3>2. /\ g[k] = f /\ u[k + 1] = o /\ u[k] = Innermost(tr) /\ v[k] = s /\ v[k + 1] = t
      BY <1>2, <1>4, <1>5, <1>7, <2>1, <3>1 DEF Innermost
    <3> QED BY <3>2
  <2>2. CASE k # Len(g)
    <3>1. k \in 1 .. Len(fr) /\ k \in 1 .. Len(tr) /\ k + 1 \in 1 .. Len(tr)
      BY <1>1, <1>4, <2>2
    <3> QED BY <1>2, <1>4, <1>5, <1>7, <3>1
  <2> QED BY <2>1, <2>2
<1> QED BY <1>3, <1>6, <1>7, <1>8 DEF Spine

\* A statement is left, or its next block entered.
LEMMA SpineLeaves ==
  ASSUME NEW c, NEW fr, NEW tr, NEW t, Spine(c, fr, tr, t), fr # <<>>
  PROVE  \E s : /\ Spine(c, But(fr), But(tr), s)
                /\ Fits(c, Innermost(fr), Innermost(tr), Innermost(But(tr)).list, s, t)
<1>1. Stacks(fr, tr) /\ fr \in Seq(Frame) /\ Len(fr) \in Nat /\ Len(tr) = Len(fr) + 1 /\ IsList(tr)
  BY DEF Spine, Stacks
<1>2. PICK st : /\ st[1] = <<1, 1>> /\ st[Len(tr)] = t
                /\ \A k \in 1 .. Len(fr) :
                     Fits(c, fr[k], tr[k + 1], tr[k].list, st[k], st[k + 1])
  BY DEF Spine
<1>3. PICK g, u : g = But(fr) /\ u = But(tr)
  OBVIOUS
<1>4. Len(fr) # 0
  BY <1>1
<1>5. /\ g \in Seq(Frame) /\ Len(g) = Len(fr) - 1
      /\ \A k \in 1 .. Len(fr) - 1 : g[k] = fr[k]
  <2>1. g \in Seq(Frame)
    BY <1>1, <1>3, Split DEF But
  <2>2. IsList(fr)
    BY <1>1 DEF IsList
  <2> QED BY <1>3, <2>1, <2>2, LastFrame
<1>6. /\ IsList(u) /\ Len(u) = Len(tr) - 1 /\ \A k \in 1 .. Len(tr) - 1 : u[k] = tr[k]
  <2>1. tr # <<>>
    BY <1>1
  <2> QED BY <1>1, <1>3, <2>1, LastFrame
<1>7. Stacks(g, u)
  BY <1>1, <1>4, <1>5, <1>6 DEF Stacks
<1>8. Spine(c, g, u, st[Len(fr)])
  <2>1. \A k \in 1 .. Len(g) : /\ k \in 1 .. Len(fr) - 1 /\ k \in 1 .. Len(fr)
                               /\ k \in 1 .. Len(tr) - 1 /\ k + 1 \in 1 .. Len(tr) - 1
    BY <1>1, <1>4, <1>5
  <2>2. \A k \in 1 .. Len(g) : Fits(c, g[k], u[k + 1], u[k].list, st[k], st[k + 1])
    BY <1>2, <1>5, <1>6, <2>1
  <2>3. Len(u) = Len(fr)
    BY <1>1, <1>6
  <2> QED BY <1>2, <1>7, <2>2, <2>3 DEF Spine
<1>9. Fits(c, Innermost(fr), Innermost(tr), Innermost(u).list, st[Len(fr)], t)
  <2>1. /\ Len(fr) \in 1 .. Len(fr) /\ Len(fr) \in 1 .. Len(tr) - 1 /\ Len(u) = Len(fr)
        /\ Len(fr) + 1 = Len(tr)
    BY <1>1, <1>4, <1>6
  <2> QED BY <1>2, <1>6, <2>1 DEF Innermost
<1> QED BY <1>3, <1>8, <1>9

(***************************************************************************)
(* What a step emits is behind what there was, or heads an empty block.    *)
(***************************************************************************)
LEMMA HoldsOn ==
  ASSUME NEW c, NEW d, Grows(c, d), NEW b, NEW k, NEW i, Holds(c, b, k, i)
  PROVE  Holds(d, b, k, i)
BY DEF Holds, Grows

LEMMA GrowsNot ==
  ASSUME NEW c, NEW d, Grows(c, d)
  PROVE  Grows(d, d)
BY DEF Grows

LEMMA Emitted ==
  ASSUME IInv, NEW s \in Seq(Instr), NEW t \in Seq(Instr), NEW q,
         Wrote(code, code', at, s, q, t)
  PROVE  /\ Grows(code, code') /\ Len(code[at]) \in Nat
         /\ Len(code'[at]) = Len(code[at]) + Len(s)
         /\ \A k \in 1 .. Len(s) : Holds(code', at, Len(code[at]) + k, s[k])
         /\ q \in Blocks /\ code[q] = <<>> =>
              /\ \A k \in 1 .. Len(t) : Holds(code', q, k, t[k])
         /\ \A b \in Blocks : b # at /\ b # q => code'[b] = code[b]
<1>1. /\ code \in [Blocks -> Seq(Instr)] /\ at \in Blocks
  BY StateNow DEF StateFacts
<1>2. /\ code' \in [Blocks -> Seq(Instr)] /\ code'[at] = code[at] \o s /\ q # at
      /\ q \in Blocks => code'[q] = code[q] \o t
      /\ \A b \in Blocks : b # at /\ b # q => code'[b] = code[b]
  BY DEF Wrote
<1>3. \A b \in Blocks : code[b] \in Seq(Instr) /\ Len(code[b]) \in Nat /\ Len(code'[b]) \in Nat
  BY <1>1, <1>2
<1>4. /\ Len(code'[at]) = Len(code[at]) + Len(s) /\ Len(s) \in Nat
      /\ \A i \in 1 .. Len(code[at]) : code'[at][i] = code[at][i]
      /\ \A i \in 1 .. Len(s) : code'[at][Len(code[at]) + i] = s[i]
  BY <1>1, <1>2, <1>3, Concatenation
<1>5. ASSUME q \in Blocks
      PROVE  /\ Len(code'[q]) = Len(code[q]) + Len(t) /\ Len(t) \in Nat
             /\ \A i \in 1 .. Len(code[q]) : code'[q][i] = code[q][i]
  BY <1>2, <1>3, <1>5, Concatenation
<1>6. Grows(code, code')
  <2>1. SUFFICES ASSUME NEW b \in Blocks
                 PROVE  /\ Len(code[b]) <= Len(code'[b])
                        /\ \A i \in 1 .. Len(code[b]) : code'[b][i] = code[b][i]
    BY <1>3 DEF Grows
  <2>2. CASE b = at
    BY <1>3, <1>4, <2>2
  <2>3. CASE b = q
    BY <1>3, <1>5, <2>3
  <2>4. CASE b # at /\ b # q
    BY <1>2, <1>3, <2>4
  <2> QED BY <2>2, <2>3, <2>4
<1>7. \A k \in 1 .. Len(s) : Holds(code', at, Len(code[at]) + k, s[k])
  <2>1. \A k \in 1 .. Len(s) : Len(code[at]) + k \in 1 .. Len(code'[at])
    BY <1>1, <1>3, <1>4
  <2> QED BY <1>1, <1>4, <2>1 DEF Holds
<1>8. ASSUME q \in Blocks, code[q] = <<>>, NEW k \in 1 .. Len(t)
      PROVE  Holds(code', q, k, t[k])
  <2>1. code'[q] = t
    BY <1>2, <1>8, EmptyList
  <2> QED BY <1>8, <2>1 DEF Holds
<1> QED BY <1>1, <1>2, <1>3, <1>4, <1>6, <1>7, <1>8

LEMMA EmittedHere ==
  ASSUME IInv, NEW s \in Seq(Instr), code' = [code EXCEPT ![at] = @ \o s]
  PROVE  /\ Wrote(code, code', at, s, 0, <<>>)
         /\ Grows(code, code') /\ Len(code[at]) \in Nat
         /\ Len(code'[at]) = Len(code[at]) + Len(s)
         /\ \A k \in 1 .. Len(s) : Holds(code', at, Len(code[at]) + k, s[k])
         /\ \A b \in Blocks : b # at => code'[b] = code[b]
<1>1. Wrote(code, code', at, s, 0, <<>>)
  BY WritesAt
<1>2. PICK t, q : t \in Seq(Instr) /\ t = <<>> /\ q = 0
  BY EmptyList
<1>3. t \in Seq(Instr) /\ Wrote(code, code', at, s, q, t) /\ \A b \in Blocks : b # q
  BY <1>1, <1>2 DEF Blocks
<1>4. /\ Grows(code, code') /\ Len(code[at]) \in Nat
      /\ Len(code'[at]) = Len(code[at]) + Len(s)
      /\ \A k \in 1 .. Len(s) : Holds(code', at, Len(code[at]) + k, s[k])
  BY <1>3, Emitted
<1>5. \A b \in Blocks : b # at /\ b # q => code'[b] = code[b]
  BY <1>3 DEF Wrote
<1> QED BY <1>1, <1>3, <1>4, <1>5

LEMMA EmittedThere ==
  ASSUME IInv, NEW s \in Seq(Instr), NEW t \in Seq(Instr), NEW q \in Blocks, code[q] = <<>>,
         Wrote(code, code', at, s, q, t)
  PROVE  /\ Grows(code, code')
         /\ \A k \in 1 .. Len(t) : Holds(code', q, k, t[k])
         /\ \A b \in Blocks : b # at /\ b # q => code'[b] = code[b]
BY Emitted

\* The two instructions of a condition.
LEMMA Condition ==
  ASSUME NEW n \in Nat, NEW b \in Nat, NEW c \in Nat, NEW s, s = <<Value(n), CondBr(b, c)>>
  PROVE  /\ s \in Seq(Instr) /\ Len(s) = 2 /\ 1 \in 1 .. Len(s) /\ 2 \in 1 .. Len(s)
         /\ s[1] = Value(n) /\ s[2] = CondBr(b, c)
<1>1. s \in Seq(Instr)
  BY Lists
<1>2. \A x, y : /\ Len(<<x, y>>) = 2 /\ <<x, y>>[1] = x /\ <<x, y>>[2] = y
  OBVIOUS
<1> QED BY <1>1, <1>2

(***************************************************************************)
(* While the body is visited, without a flaw so far: what is visited fits, *)
(* and the innermost list runs up to the insert point, or returns.         *)
(***************************************************************************)
Ahead == IF Returned THEN {} ELSE {<<at, Len(code[at]) + 1>>}

Doing == \E s : Spine(code, frames, tree, s) /\ Runs(code, Inner.list, s, Ahead)

LEMMA StaysIn ==
  ASSUME Doing, ~ Returned, Grows(code, code'), frames' = frames,
         NEW e, tree' = Listed(tree, e),
         Runs(code', <<e>>, <<at, Len(code[at]) + 1>>, Ahead')
  PROVE  Doing'
<1>1. PICK s : Spine(code, frames, tree, s) /\ Runs(code, Inner.list, s, Ahead)
  BY DEF Doing
<1>2. Stacks(frames, tree)
  BY <1>1 DEF Spine
<1>3. Spine(code', frames', tree', s)
  BY <1>1, SpineOn, SpineListed
<1>4. Inner'.list = Append(Inner.list, e)
  <2>1. Innermost(Listed(tree, e)).list = Append(Innermost(tree).list, e)
    BY <1>2, OneListed
  <2> QED BY <2>1 DEF Inner, Innermost
<1>5. PICK m : m = <<at, Len(code[at]) + 1>>
  OBVIOUS
<1>6. Runs(code', Inner.list, s, {m})
  BY <1>1, <1>5, RunsOn DEF Ahead
<1>7. Runs(code', Append(Inner.list, e), s, Ahead')
  BY <1>5, <1>6, RunsThen
<1> QED BY <1>3, <1>4, <1>7 DEF Doing

LEMMA GoesIn ==
  ASSUME Doing, ~ Returned, Grows(code, code'),
         NEW f \in Frame, frames' = Append(frames, f),
         NEW o, tree' = Append(tree, o), IsOpen(o), o.list = <<>>, ~ Returned',
         NEW t, Ahead' = {t},
         \A s : Runs(code', Inner.list, s, {<<at, Len(code[at]) + 1>>})
                => Fits(code', f, o, Inner.list, s, t)
  PROVE  Doing'
<1>1. PICK s : Spine(code, frames, tree, s) /\ Runs(code, Inner.list, s, Ahead)
  BY DEF Doing
<1>2. Stacks(frames, tree)
  BY <1>1 DEF Spine
<1>3. Runs(code', Inner.list, s, {<<at, Len(code[at]) + 1>>})
  BY <1>1, RunsOn DEF Ahead
<1>4. Fits(code', f, o, Innermost(tree).list, s, t)
  BY <1>3 DEF Inner, Innermost
<1>5. Spine(code', frames', tree', t)
  <2>1. Spine(code', frames, tree, s)
    BY <1>1, SpineOn
  <2> QED BY <1>4, <2>1, SpineEnters
<1>6. Inner' = o
  BY <1>2, OneMore DEF Stacks, Inner, Innermost
<1>7. Runs(code', Inner'.list, t, Ahead')
  BY <1>6, RunsNothing
<1> QED BY <1>5, <1>7 DEF Doing

\* What holds of the statement that is being visited, on leaving its block.
LEMMA Backs ==
  ASSUME Doing, Grows(code, code'), frames # <<>>
  PROVE  \E s, t : /\ Spine(code', Outer, Enclosing, s)
                   /\ Fits(code', Top, Inner, Innermost(Enclosing).list, s, t)
                   /\ Runs(code', Inner.list, t, Ahead)
                   /\ IsList(Enclosing) /\ IsList(Inner.pairs)
<1>1. PICK t : Spine(code, frames, tree, t) /\ Runs(code, Inner.list, t, Ahead)
  BY DEF Doing
<1>2. Spine(code', frames, tree, t) /\ Runs(code', Inner.list, t, Ahead)
  BY <1>1, SpineOn, RunsOn
<1>3. PICK s : /\ Spine(code', But(frames), But(tree), s)
               /\ Fits(code', Innermost(frames), Innermost(tree), Innermost(But(tree)).list, s, t)
  BY <1>2, SpineLeaves
<1>4. But(frames) = Outer /\ But(tree) = Enclosing /\ Innermost(frames) = Top /\ Innermost(tree) = Inner
  BY DEF But, Outer, Enclosing, Innermost, Top, Inner
<1>5. IsList(Enclosing)
  BY <1>3, <1>4 DEF Spine, Stacks
<1>6. IsList(Inner.pairs)
  <2>1. Len(tree) \in 1 .. Len(tree) /\ \A k \in 1 .. Len(tree) : IsOpen(tree[k])
    BY <1>1 DEF Spine, Stacks
  <2> QED BY <2>1 DEF Inner, IsOpen
<1> QED BY <1>2, <1>3, <1>4, <1>5, <1>6

LEMMA MovesIn ==
  ASSUME Doing, Grows(code, code'), frames # <<>>,
         NEW f \in Frame, frames' = Append(Outer, f),
         NEW o, tree' = Append(Enclosing, o), IsList(Inner.pairs) => IsOpen(o), o.list = <<>>,
         NEW u, Ahead' = {u},
         \A list, s, t : /\ Fits(code', Top, Inner, list, s, t) /\ Runs(code', Inner.list, t, Ahead)
                         /\ IsList(Inner.pairs)
                         => Fits(code', f, o, list, s, u)
  PROVE  Doing'
<1>1. PICK s, t : /\ Spine(code', Outer, Enclosing, s)
                  /\ Fits(code', Top, Inner, Innermost(Enclosing).list, s, t)
                  /\ Runs(code', Inner.list, t, Ahead)
                  /\ IsList(Enclosing) /\ IsList(Inner.pairs)
  BY Backs
<1>2. Fits(code', f, o, Innermost(Enclosing).list, s, u)
  BY <1>1
<1>3. Spine(code', frames', tree', u)
  BY <1>1, <1>2, SpineEnters
<1>4. Inner' = o
  BY <1>1, OneMore DEF Inner, Innermost
<1>5. Runs(code', Inner'.list, u, Ahead')
  BY <1>4, RunsNothing
<1> QED BY <1>3, <1>5 DEF Doing

LEMMA GoesOut ==
  ASSUME Doing, Grows(code, code'), frames # <<>>, frames' = Outer,
         NEW e, tree' = Listed(Enclosing, e),
         \A list, s, t : /\ Fits(code', Top, Inner, list, s, t) /\ Runs(code', Inner.list, t, Ahead)
                         /\ IsList(Inner.pairs)
                         => Runs(code', Append(list, e), s, Ahead')
  PROVE  Doing'
<1>1. PICK s, t : /\ Spine(code', Outer, Enclosing, s)
                  /\ Fits(code', Top, Inner, Innermost(Enclosing).list, s, t)
                  /\ Runs(code', Inner.list, t, Ahead)
                  /\ IsList(Enclosing) /\ IsList(Inner.pairs)
  BY Backs
<1>2. Runs(code', Append(Innermost(Enclosing).list, e), s, Ahead')
  BY <1>1
<1>3. Spine(code', frames', tree', s)
  BY <1>1, SpineListed
<1>4. Inner'.list = Append(Innermost(Enclosing).list, e)
  <2>1. Stacks(Outer, Enclosing)
    BY <1>1 DEF Spine
  <2>2. Innermost(Listed(Enclosing, e)).list = Append(Innermost(Enclosing).list, e)
    BY <2>1, OneListed
  <2> QED BY <2>2 DEF Inner, Innermost
<1> QED BY <1>2, <1>3, <1>4 DEF Doing

(***************************************************************************)
(* The statements one by one.                                              *)
(***************************************************************************)
\* The body at the insert point, once it is closed, goes on at b or returns.
LEMMA Closing ==
  ASSUME IInv, NEW b \in Nat, NEW q, NEW t \in Seq(Instr), last # "past",
         Wrote(code, code', at, Close(b), q, t),
         NEW x, NEW p, Runs(code', x, p, Ahead)
  PROVE  Runs(code', x, p, To(b))
<1>1. CASE last = "ret"
  <2>1. Ahead = {}
    BY <1>1 DEF Ahead, Returned
  <2> QED BY <2>1, RunsAnywhere
<1>2. CASE last # "ret"
  <2>1. PICK s : s = <<Br(b)>>
    OBVIOUS
  <2>2. s \in Seq(Instr) /\ Len(s) = 1 /\ s[1] = Br(b) /\ Close(b) = s
    <3>1. s \in Seq(Instr)
      BY <2>1, Lists
    <3> QED BY <1>2, <2>1, <3>1 DEF Close
  <2>3. /\ Len(code[at]) \in Nat
        /\ \A k \in 1 .. Len(s) : Holds(code', at, Len(code[at]) + k, s[k])
    BY <2>2, Emitted
  <2>4. Holds(code', at, Len(code[at]) + 1, Br(b))
    BY <2>2, <2>3
  <2>5. Ahead = {<<at, Len(code[at]) + 1>>}
    BY <1>2 DEF Ahead, Returned
  <2> QED BY <2>4, <2>5, RunsClosed DEF To
<1> QED BY <1>1, <1>2

\* A new block of the function has nothing before what is put there.
LEMMA Fresh ==
  ASSUME at' \in Blocks, code'[at'] = <<>>, ~ Returned'
  PROVE  Ahead' = {<<at', 1>>}
BY DEF Ahead

LEMMA ExpressionRuns ==
  ASSUME IInv, Doing, VisitExpression, tree' = Listed(tree, Expr(Evaluated)), flaws' = {}
  PROVE  Doing'
<1>1. PICK s : s = <<Value(exprs + 1)>>
  OBVIOUS
<1>2. s \in Seq(Instr) /\ Len(s) = 1 /\ s[1] = Value(exprs + 1)
  <2>1. exprs + 1 \in Nat
    BY StateNow DEF StateFacts
  <2>2. s \in Seq(Instr)
    BY <1>1, <2>1, Lists
  <2> QED BY <1>1, <2>2
<1>3. /\ code' = [code EXCEPT ![at] = @ \o s] /\ exprs' = exprs + 1 /\ at' = at
      /\ frames' = frames /\ ~ Returned /\ ~ Returned'
  BY <1>1 DEF VisitExpression, NoteDead, Note, Returned
<1>5. /\ Grows(code, code') /\ Len(code[at]) \in Nat /\ Len(code'[at]) = Len(code[at]) + Len(s)
      /\ \A k \in 1 .. Len(s) : Holds(code', at, Len(code[at]) + k, s[k])
  BY <1>2, <1>3, EmittedHere
<1>6. Holds(code', at, Len(code[at]) + 1, Value(exprs'))
  BY <1>2, <1>3, <1>5
<1>7. PICK k : k = Len(code[at]) + 1
  OBVIOUS
<1>8. Ahead' = {<<at, k + 1>>}
  BY <1>2, <1>3, <1>5, <1>7 DEF Ahead
<1>9. Runs(code', <<Expr(exprs')>>, <<at, k>>, Ahead')
  BY <1>6, <1>7, <1>8, RunsValue
<1> QED BY <1>3, <1>5, <1>7, <1>9, StaysIn DEF Evaluated

LEMMA CodelessRuns ==
  ASSUME IInv, Doing, VisitCodeless, tree' = tree
  PROVE  Doing'
<1>1. UNCHANGED <<at, code, frames, tree>> /\ (Returned' <=> Returned)
  BY DEF VisitCodeless, Returned
<1>2. Ahead' = Ahead /\ Inner' = Inner
  BY <1>1 DEF Ahead, Inner
<1> QED BY <1>1, <1>2 DEF Doing

LEMMA ReturnRuns ==
  ASSUME IInv, Doing, VisitReturn, flaws' = {},
         LET bare == Len(code'[at]) = Len(code[at]) + 1
         IN  tree' = Listed(tree, Return(IF bare THEN 0 ELSE Evaluated))
  PROVE  Doing'
<1>1. PICK s \in {<<Ret>>, <<Value(exprs + 1), Ret>>} : code' = [code EXCEPT ![at] = @ \o s]
  BY DEF VisitReturn
<1>2. exprs' = exprs + 1 /\ at' = at /\ frames' = frames /\ ~ Returned /\ Returned'
  BY DEF VisitReturn, NoteDead, Note, Returned
<1>3. exprs + 1 \in Nat /\ exprs \in Nat
  BY StateNow DEF StateFacts
<1>4. s \in Seq(Instr)
  BY <1>1, <1>3, Lists
<1>6. /\ Grows(code, code') /\ Len(code[at]) \in Nat /\ Len(code'[at]) = Len(code[at]) + Len(s)
      /\ \A k \in 1 .. Len(s) : Holds(code', at, Len(code[at]) + k, s[k])
  BY <1>1, <1>4, EmittedHere
<1>7. PICK k : k = Len(code[at]) + 1
  OBVIOUS
<1>8. PICK n : n = IF Len(code'[at]) = Len(code[at]) + 1 THEN 0 ELSE exprs'
  OBVIOUS
<1>9. Runs(code', <<Return(n)>>, <<at, k>>, {})
  <2>1. CASE s = <<Ret>>
    <3>1. Len(s) = 1 /\ s[1] = Ret
      BY <2>1
    <3>2. n = 0 /\ Holds(code', at, k, Ret)
      BY <1>6, <1>7, <1>8, <3>1
    <3> QED BY <3>2, RunsReturn
  <2>2. CASE s = <<Value(exprs + 1), Ret>>
    <3>1. Len(s) = 2 /\ s[1] = Value(exprs + 1) /\ s[2] = Ret
      BY <2>2
    <3>2. n = exprs + 1 /\ n # 0
      BY <1>2, <1>3, <1>6, <1>8, <3>1
    <3>3. Len(code[at]) + 2 = k + 1
      BY <1>6, <1>7
    <3>4. Holds(code', at, k, Value(n)) /\ Holds(code', at, k + 1, Ret)
      BY <1>6, <1>7, <3>1, <3>2, <3>3
    <3> QED BY <3>2, <3>4, RunsReturn
  <2> QED BY <1>1, <2>1, <2>2
<1>10. Ahead' = {}
  BY <1>2 DEF Ahead
<1>11. tree' = Listed(tree, Return(n))
  BY <1>8 DEF Evaluated
<1> QED BY <1>2, <1>6, <1>7, <1>9, <1>10, <1>11, StaysIn

LEMMA IsOpened ==
  ASSUME NEW pairs, IsList(pairs), NEW init, NEW cond
  PROVE  /\ IsOpen(Open(pairs, init, cond))
         /\ Open(pairs, init, cond).list = <<>> /\ Open(pairs, init, cond).pairs = pairs
         /\ Open(pairs, init, cond).init = init /\ Open(pairs, init, cond).cond = cond
BY DEF Open, IsOpen

LEMMA IfRuns ==
  ASSUME IInv, Doing, VisitIf, tree' = Append(tree, Open(<<>>, <<>>, Evaluated)), flaws' = {}
  PROVE  Doing'
<1>1. PICK cont, then, next : cont = made + 1 /\ then = made + 2 /\ next = made + 3
  OBVIOUS
<1>2. PICK f, o, s : /\ f = Enter("then", cont, 0, next) /\ o = Open(<<>>, <<>>, exprs + 1)
                     /\ s = <<Value(exprs + 1), CondBr(then, next)>>
  OBVIOUS
<1>3. /\ code' = [code EXCEPT ![at] = @ \o s] /\ exprs' = exprs + 1 /\ at' = then
      /\ frames' = Append(frames, f) /\ tree' = Append(tree, o)
      /\ ~ Returned /\ ~ Returned' /\ made + 3 <= MaxBlocks
  BY <1>1, <1>2 DEF VisitIf, NoteDead, Note, Returned, CanCreate, Evaluated
<1>4. StateFacts
  BY StateNow
<1>5. /\ cont \in Nat /\ then \in Nat /\ next \in Nat /\ exprs + 1 \in Nat
      /\ then \in Blocks /\ then > made /\ then # at
  <2>1. made \in Nat /\ MaxBlocks \in Nat /\ at \in Nat /\ at <= made /\ exprs + 1 \in Nat
    BY <1>4, NumbersNow DEF StateFacts, NumberFacts
  <2> QED BY <1>1, <1>3, <2>1 DEF Blocks
<1>6. /\ s \in Seq(Instr) /\ Len(s) = 2 /\ 1 \in 1 .. Len(s) /\ 2 \in 1 .. Len(s)
      /\ s[1] = Value(exprs + 1) /\ s[2] = CondBr(then, next)
  BY <1>2, <1>5, Condition
<1>8. /\ Grows(code, code') /\ Len(code[at]) \in Nat
      /\ \A k \in 1 .. Len(s) : Holds(code', at, Len(code[at]) + k, s[k])
      /\ \A b \in Blocks : b # at => code'[b] = code[b]
  BY <1>3, <1>6, EmittedHere
<1>9. PICK k \in Nat : k = Len(code[at]) + 1
  BY <1>8
<1>10. Holds(code', at, k, Value(exprs + 1)) /\ Holds(code', at, k + 1, CondBr(then, next))
  <2>1. Len(code[at]) + 2 = k + 1
    BY <1>8, <1>9
  <2> QED BY <1>6, <1>8, <1>9, <2>1
<1>11. Ahead' = {<<then, 1>>}
  <2>1. code[then] = <<>> /\ then # 0
    BY <1>4, <1>5 DEF StateFacts
  <2> QED BY <1>3, <1>5, <1>8, <2>1, Fresh
<1>12. /\ f \in Frame /\ f.kind = "then" /\ f.cont = cont /\ f.next = next
       /\ IsOpen(o) /\ o.list = <<>> /\ o.pairs = <<>> /\ o.cond = exprs + 1
  <2>1. f \in Frame /\ f.kind = "then" /\ f.cont = cont /\ f.next = next
    BY <1>2, <1>5 DEF Enter, Frame, Kinds
  <2>2. IsList(<<>>)
    BY Listing
  <2>3. IsOpen(o) /\ o.list = <<>> /\ o.pairs = <<>> /\ o.cond = exprs + 1
    BY <1>2, <2>2, IsOpened
  <2> QED BY <2>1, <2>3
<1>13. ASSUME NEW list, NEW p, Runs(code', list, p, {<<at, k>>})
       PROVE  Fits(code', f, o, list, p, <<then, 1>>)
  <2>1. SUFFICES ASSUME NEW d, Grows(code', d), NEW body, NEW pairs, NEW els, IsList(pairs),
                        Runs(d, body, <<then, 1>>, To(cont)),
                        Runs(d, <<If(pairs, els)>>, <<next, 1>>, To(cont))
                 PROVE  Runs(d, Append(list, If(Append(<<>>, [cond |-> exprs + 1, body |-> body]) \o pairs, els)),
                             p, To(cont))
    BY <1>12, Zenon DEF Fits
  <2>2. Holds(d, at, k, Value(exprs + 1)) /\ Holds(d, at, k + 1, CondBr(then, next))
    BY <1>10, <2>1, HoldsOn
  <2>3. PICK r : r = [cond |-> exprs + 1, body |-> body]
    OBVIOUS
  <2>4. PICK s1, m : s1 = If(<<r>> \o pairs, els) /\ m = <<at, k>>
    OBVIOUS
  <2>5. Runs(d, <<s1>>, m, To(cont))
    BY <2>1, <2>2, <2>3, <2>4, RunsIf
  <2>6. Runs(d, list, p, {m})
    BY <1>13, <2>1, <2>4, RunsOn
  <2>7. Runs(d, Append(list, s1), p, To(cont))
    BY <2>5, <2>6, RunsThen
  <2>8. Append(<<>>, r) = <<r>>
    OBVIOUS
  <2> QED BY <2>3, <2>4, <2>7, <2>8
<1> QED BY <1>3, <1>8, <1>9, <1>11, <1>12, <1>13, GoesIn

LEMMA ElseIfRuns ==
  ASSUME IInv, Doing, VisitElseIf, flaws' = {},
         tree' = Append(Enclosing, Open(Pairs, <<>>, Evaluated))
  PROVE  Doing'
<1>1. PICK then, next : then = made + 1 /\ next = made + 2
  OBVIOUS
<1>2. PICK f, o, s, t, q :
        /\ f = Enter("then", Top.cont, 0, next) /\ o = Open(Pairs, <<>>, exprs + 1)
        /\ s = Close(Top.cont) /\ q = Top.next /\ t = <<Value(exprs + 1), CondBr(then, next)>>
  OBVIOUS
<1>3. /\ code' = [code EXCEPT ![at] = @ \o s, ![q] = @ \o t] /\ exprs' = exprs + 1
      /\ at' = then /\ frames' = Append(Outer, f) /\ tree' = Append(Enclosing, o)
      /\ last # "past" /\ ~ Returned' /\ made + 2 <= MaxBlocks
      /\ frames # <<>> /\ Top.kind = "then"
  BY <1>1, <1>2
     DEF VisitElseIf, InBlock, NotePast, Note, Returned, CanCreate, Evaluated
<1>4. StateFacts
  BY StateNow
<1>5. /\ Top.cont \in Nat /\ Top.next = q /\ q \in attached \ {1, at} /\ q \in Blocks
      /\ code[q] = <<>> /\ q <= made
  <2>1. /\ Top.cont \in Nat /\ q \in attached \ {1, at} /\ q \in Owned(Top)
    BY <1>2, <1>3, TopBlocks
  <2>2. q \in OwnedIn(frames)
    BY <1>3, <2>1, TopNow
  <2>3. q \in Blocks /\ q <= made
    BY <1>4, <2>1 DEF StateFacts, Blocks
  <2> QED BY <1>2, <1>4, <2>1, <2>2, <2>3 DEF StateFacts
<1>6. /\ then \in Nat /\ next \in Nat /\ exprs + 1 \in Nat
      /\ then \in Blocks /\ then > made /\ then # at /\ then # q
  <2>1. made \in Nat /\ MaxBlocks \in Nat /\ at \in Nat /\ at <= made /\ exprs + 1 \in Nat
    BY <1>4, NumbersNow DEF StateFacts, NumberFacts
  <2> QED BY <1>1, <1>3, <1>5, <2>1 DEF Blocks
<1>7. /\ t \in Seq(Instr) /\ Len(t) = 2 /\ 1 \in 1 .. Len(t) /\ 2 \in 1 .. Len(t)
      /\ t[1] = Value(exprs + 1) /\ t[2] = CondBr(then, next)
  BY <1>2, <1>6, Condition
<1>8. s \in Seq(Instr)
  BY <1>2, <1>5, CloseList
<1>9. Wrote(code, code', at, s, q, t)
  BY <1>3, <1>5, <1>7, <1>8, WritesAt
<1>10. /\ Grows(code, code')
       /\ \A k \in 1 .. Len(t) : Holds(code', q, k, t[k])
       /\ \A b \in Blocks : b # at /\ b # q => code'[b] = code[b]
  BY <1>5, <1>7, <1>8, <1>9, EmittedThere
<1>11. Holds(code', q, 1, Value(exprs + 1)) /\ Holds(code', q, 1 + 1, CondBr(then, next))
  BY <1>7, <1>10
<1>12. Ahead' = {<<then, 1>>}
  <2>1. code[then] = <<>>
    BY <1>4, <1>6 DEF StateFacts
  <2> QED BY <1>3, <1>6, <1>10, <2>1, Fresh
<1>13. /\ f \in Frame /\ f.kind = "then" /\ f.cont = Top.cont /\ f.next = next
  BY <1>2, <1>5, <1>6 DEF Enter, Frame, Kinds
<1>14. PICK y : y = [cond |-> Inner.cond, body |-> Inner.list]
  OBVIOUS
<1>15. ASSUME IsList(Inner.pairs)
       PROVE  IsList(Pairs) /\ Pairs = Append(Inner.pairs, y)
  BY <1>14, <1>15, JoinedLast DEF Pairs
<1>16. o.list = <<>> /\ o.pairs = Pairs /\ o.cond = exprs + 1 /\ (IsList(Pairs) => IsOpen(o))
  BY <1>2 DEF Open, IsOpen
<1>17. ASSUME NEW list, NEW p, NEW u, Fits(code', Top, Inner, list, p, u),
              Runs(code', Inner.list, u, Ahead), IsList(Inner.pairs)
       PROVE  Fits(code', f, o, list, p, <<then, 1>>)
  <2>1. SUFFICES ASSUME NEW d, Grows(code', d), NEW body, NEW pairs, NEW els, IsList(pairs),
                        Runs(d, body, <<then, 1>>, To(Top.cont)),
                        Runs(d, <<If(pairs, els)>>, <<next, 1>>, To(Top.cont))
                 PROVE  Runs(d, Append(list, If(Append(Pairs, [cond |-> exprs + 1, body |-> body]) \o pairs, els)),
                             p, To(Top.cont))
    BY <1>13, <1>16, Zenon DEF Fits
  <2>2. Holds(d, q, 1, Value(exprs + 1)) /\ Holds(d, q, 1 + 1, CondBr(then, next))
    BY <1>11, <2>1, HoldsOn
  <2>3. PICK r : r = [cond |-> exprs + 1, body |-> body]
    OBVIOUS
  <2>4. PICK more : more = <<r>> \o pairs
    OBVIOUS
  <2>5. Runs(d, <<If(more, els)>>, <<q, 1>>, To(Top.cont))
    BY <2>1, <2>2, <2>3, <2>4, RunsIf
  <2>6. Runs(d, Inner.list, u, To(Top.cont))
    <3>1. Runs(code', Inner.list, u, To(Top.cont))
      BY <1>2, <1>3, <1>5, <1>7, <1>9, <1>17, Closing
    <3> QED BY <2>1, <3>1, RunsOn
  <2>7. IsList(more) /\ IsList(<<r>>)
    BY <2>1, <2>4, Listing, Joined
  <2>8. Runs(d, Append(list, If(Append(Inner.pairs, y) \o more, els)), p, To(Top.cont))
    BY <1>3, <1>5, <1>14, <1>17, <2>1, <2>5, <2>6, <2>7, Zenon DEF Fits
  <2>9. Append(Pairs, r) \o pairs = Pairs \o more
    <3>1. IsList(Pairs)
      BY <1>15, <1>17
    <3>2. Append(Pairs, r) = Pairs \o <<r>>
      BY <3>1, JoinedLast
    <3>3. (Pairs \o <<r>>) \o pairs = Pairs \o (<<r>> \o pairs)
      BY <2>1, <2>7, <3>1, JoinedThrice
    <3> QED BY <2>4, <3>2, <3>3
  <2> QED BY <1>15, <1>17, <2>3, <2>8, <2>9
<1> QED BY <1>3, <1>10, <1>12, <1>13, <1>15, <1>16, <1>17, MovesIn

LEMMA ElseRuns ==
  ASSUME IInv, Doing, VisitElse, flaws' = {}, tree' = Append(Enclosing, Open(Pairs, <<>>, 0))
  PROVE  Doing'
<1>1. PICK f, o, s, q :
        /\ f = Enter("else", Top.cont, 0, 0) /\ o = Open(Pairs, <<>>, 0)
        /\ s = Close(Top.cont) /\ q = Top.next
  OBVIOUS
<1>2. /\ code' = [code EXCEPT ![at] = @ \o s]
      /\ at' = q /\ frames' = Append(Outer, f) /\ tree' = Append(Enclosing, o)
      /\ last # "past" /\ ~ Returned'
      /\ frames # <<>> /\ Top.kind = "then"
  BY <1>1 DEF VisitElse, InBlock, NotePast, Note, Returned
<1>3. StateFacts
  BY StateNow
<1>4. /\ Top.cont \in Nat /\ Top.next = q /\ q \in attached \ {1, at} /\ q \in Blocks
      /\ code[q] = <<>> /\ q # 0
  <2>1. /\ Top.cont \in Nat /\ q \in attached \ {1, at} /\ q \in Owned(Top)
    BY <1>1, <1>2, TopBlocks
  <2>2. q \in OwnedIn(frames)
    BY <1>2, <2>1, TopNow
  <2>3. q \in Blocks /\ q # 0
    BY <1>3, <2>1 DEF StateFacts, Blocks
  <2> QED BY <1>1, <1>3, <2>1, <2>2, <2>3 DEF StateFacts
<1>5. s \in Seq(Instr)
  BY <1>1, <1>4, CloseList
<1>6. Wrote(code, code', at, s, 0, <<>>)
  BY <1>2, <1>5, WritesAt
<1>7. Grows(code, code') /\ \A b \in Blocks : b # at => code'[b] = code[b]
  BY <1>2, <1>5, EmittedHere
<1>8. Ahead' = {<<q, 1>>}
  BY <1>2, <1>4, <1>7, Fresh
<1>9. f \in Frame /\ f.kind = "else" /\ f.cont = Top.cont
  BY <1>1, <1>4 DEF Enter, Frame, Kinds
<1>10. PICK y : y = [cond |-> Inner.cond, body |-> Inner.list]
  OBVIOUS
<1>11. ASSUME IsList(Inner.pairs)
       PROVE  IsList(Pairs) /\ Pairs = Append(Inner.pairs, y) /\ Pairs \o <<>> = Pairs
  <2>1. IsList(Pairs) /\ Pairs = Append(Inner.pairs, y)
    BY <1>10, <1>11, JoinedLast DEF Pairs
  <2> QED BY <2>1, Listing, Joined
<1>12. o.list = <<>> /\ o.pairs = Pairs /\ (IsList(Pairs) => IsOpen(o))
  BY <1>1 DEF Open, IsOpen
<1>13. ASSUME NEW list, NEW p, NEW u, Fits(code', Top, Inner, list, p, u),
              Runs(code', Inner.list, u, Ahead), IsList(Inner.pairs)
       PROVE  Fits(code', f, o, list, p, <<q, 1>>)
  <2>1. SUFFICES ASSUME NEW d, Grows(code', d), NEW body,
                        Runs(d, body, <<q, 1>>, To(Top.cont))
                 PROVE  Runs(d, Append(list, If(Pairs, body)), p, To(Top.cont))
    BY <1>9, <1>12, Zenon DEF Fits
  <2>2. PICK none : none = <<>> /\ IsList(none)
    BY Listing
  <2>3. Runs(d, <<If(none, body)>>, <<q, 1>>, To(Top.cont))
    BY <2>1, <2>2, RunsElse
  <2>4. Runs(d, Inner.list, u, To(Top.cont))
    <3>1. Runs(code', Inner.list, u, To(Top.cont))
      BY <1>1, <1>2, <1>4, <1>6, <1>13, EmptyList, Closing
    <3> QED BY <2>1, <3>1, RunsOn
  <2>5. Runs(d, Append(list, If(Append(Inner.pairs, y) \o none, body)), p, To(Top.cont))
    BY <1>2, <1>4, <1>10, <1>13, <2>1, <2>2, <2>3, <2>4, Zenon DEF Fits
  <2> QED BY <1>11, <1>13, <2>2, <2>5
<1> QED BY <1>2, <1>7, <1>8, <1>9, <1>11, <1>12, <1>13, MovesIn

\* A statement is left at its cont block, which is empty.
LEMMA LeftAt ==
  ASSUME IInv, frames # <<>>, Leave, \A b \in Blocks : b # at /\ b \notin Waiting(Top) => code'[b] = code[b]
  PROVE  /\ Ahead' = To(Top.cont) /\ frames' = Outer /\ Top.cont \in Nat
<1>1. StateFacts
  BY StateNow
<1>2. Top.cont \in 1 .. made \ attached /\ Top.cont \in Nat /\ Top.cont \in Owned(Top)
  BY TopBlocks DEF Owned
<1>3. Top.cont # at /\ Top.cont \in Blocks /\ code[Top.cont] = <<>>
  <2>1. Top.cont \in OwnedIn(frames)
    BY <1>2, TopNow
  <2>2. Top.cont # at /\ Top.cont \in Blocks
    BY <1>1, <1>2 DEF StateFacts, Blocks
  <2> QED BY <1>1, <2>1, <2>2 DEF StateFacts
<1>4. Top.cont \notin Waiting(Top)
  <2>1. Waiting(Top) \subseteq attached
    BY TopNow DEF Good
  <2> QED BY <1>2, <2>1
<1>5. at' = Top.cont /\ ~ Returned' /\ frames' = Outer
  BY DEF Leave, Returned
<1>6. code'[at'] = <<>>
  BY <1>3, <1>4, <1>5
<1> QED BY <1>2, <1>3, <1>5, <1>6, Fresh DEF To

LEMMA EndIfRuns ==
  ASSUME IInv, Doing, EndIf, flaws' = {}, tree' = Listed(Enclosing, If(Pairs, <<>>))
  PROVE  Doing'
<1>1. PICK s, t, q : s = Close(Top.cont) /\ q = Top.next /\ t = <<Br(Top.cont)>>
  OBVIOUS
<1>2. /\ code' = [code EXCEPT ![at] = @ \o s, ![q] = @ \o t] /\ Leave
      /\ last # "past" /\ frames # <<>> /\ Top.kind = "then"
  BY <1>1 DEF EndIf, InBlock, NotePast, Note
<1>3. StateFacts
  BY StateNow
<1>4. /\ Top.cont \in Nat /\ Top.next = q /\ q \in attached \ {1, at} /\ q \in Blocks
      /\ code[q] = <<>> /\ q \in Waiting(Top)
  <2>1. /\ Top.cont \in Nat /\ q \in attached \ {1, at} /\ q \in Owned(Top) /\ q \in Waiting(Top)
    BY <1>1, <1>2, TopBlocks
  <2>2. q \in OwnedIn(frames)
    BY <1>2, <2>1, TopNow
  <2>3. q \in Blocks
    BY <1>3, <2>1 DEF StateFacts, Blocks
  <2> QED BY <1>1, <1>3, <2>1, <2>2, <2>3 DEF StateFacts
<1>5. t \in Seq(Instr) /\ Len(t) = 1 /\ t[1] = Br(Top.cont)
  <2>1. t \in Seq(Instr)
    BY <1>1, <1>4, Lists
  <2> QED BY <1>1, <2>1
<1>6. s \in Seq(Instr)
  BY <1>1, <1>4, CloseList
<1>7. Wrote(code, code', at, s, q, t)
  BY <1>2, <1>4, <1>5, <1>6, WritesAt
<1>8. /\ Grows(code, code')
      /\ \A k \in 1 .. Len(t) : Holds(code', q, k, t[k])
      /\ \A b \in Blocks : b # at /\ b # q => code'[b] = code[b]
  BY <1>4, <1>5, <1>6, <1>7, EmittedThere
<1>9. Ahead' = To(Top.cont) /\ frames' = Outer
  BY <1>2, <1>4, <1>8, LeftAt
<1>10. Holds(code', q, 1, Br(Top.cont)) /\ Grows(code', code')
  BY <1>5, <1>8, GrowsNot
<1>11. PICK none : none = <<>> /\ IsList(none)
  BY Listing
<1>12. Runs(code', <<If(none, none)>>, <<q, 1>>, To(Top.cont))
  <2>1. Runs(code', none, <<q, 1>>, To(Top.cont))
    BY <1>10, <1>11, RunsBranch DEF To
  <2> QED BY <1>11, <2>1, RunsElse
<1>13. PICK y : y = [cond |-> Inner.cond, body |-> Inner.list]
  OBVIOUS
<1>14. ASSUME NEW list, NEW p, NEW u, Fits(code', Top, Inner, list, p, u),
              Runs(code', Inner.list, u, Ahead), IsList(Inner.pairs)
       PROVE  Runs(code', Append(list, If(Pairs, <<>>)), p, To(Top.cont))
  <2>1. Pairs = Append(Inner.pairs, y) /\ Pairs \o <<>> = Pairs
    <3>1. IsList(Pairs) /\ Pairs = Append(Inner.pairs, y)
      BY <1>13, <1>14, JoinedLast DEF Pairs
    <3> QED BY <3>1, Listing, Joined
  <2>2. Runs(code', Inner.list, u, To(Top.cont))
    BY <1>1, <1>2, <1>4, <1>5, <1>7, <1>14, Closing
  <2>3. Runs(code', Append(list, If(Append(Inner.pairs, y) \o none, none)), p, To(Top.cont))
    BY <1>2, <1>4, <1>10, <1>11, <1>12, <1>13, <1>14, <2>2, Zenon DEF Fits
  <2> QED BY <1>11, <2>1, <2>3
<1> QED BY <1>2, <1>8, <1>9, <1>14, GoesOut

LEMMA EndElseRuns ==
  ASSUME IInv, Doing, EndElse, flaws' = {}, tree' = Listed(Enclosing, If(Inner.pairs, Inner.list))
  PROVE  Doing'
<1>1. PICK s : s = <<Br(Top.cont)>>
  OBVIOUS
<1>2. /\ code' = [code EXCEPT ![at] = @ \o s] /\ Leave
      /\ ~ Returned /\ frames # <<>> /\ Top.kind = "else"
  BY <1>1 DEF EndElse, InBlock, Note
<1>3. s \in Seq(Instr) /\ Len(s) = 1 /\ s[1] = Br(Top.cont)
  <2>1. s \in Seq(Instr)
    BY <1>1, <1>2, TopBlocks, Lists
  <2> QED BY <1>1, <2>1
<1>4. /\ Grows(code, code') /\ Len(code[at]) \in Nat
      /\ \A k \in 1 .. Len(s) : Holds(code', at, Len(code[at]) + k, s[k])
      /\ \A b \in Blocks : b # at => code'[b] = code[b]
  BY <1>2, <1>3, EmittedHere
<1>5. Ahead' = To(Top.cont) /\ frames' = Outer
  BY <1>2, <1>4, LeftAt
<1>6. Holds(code', at, Len(code[at]) + 1, Br(Top.cont)) /\ Grows(code', code')
  BY <1>3, <1>4, GrowsNot
<1>7. ASSUME NEW list, NEW p, NEW u, Fits(code', Top, Inner, list, p, u),
             Runs(code', Inner.list, u, Ahead)
      PROVE  Runs(code', Append(list, If(Inner.pairs, Inner.list)), p, To(Top.cont))
  <2>1. Runs(code', Inner.list, u, To(Top.cont))
    BY <1>2, <1>6, <1>7, RunsClosed DEF Ahead, To
  <2> QED BY <1>2, <1>6, <1>7, <2>1, Zenon DEF Fits
<1> QED BY <1>2, <1>4, <1>5, <1>7, GoesOut

LEMMA EndWhileRuns ==
  ASSUME IInv, Doing, EndWhile, flaws' = {}, tree' = Listed(Enclosing, While(Inner.cond, Inner.list))
  PROVE  Doing'
<1>1. PICK s : s = Close(Top.loop)
  OBVIOUS
<1>2. /\ code' = [code EXCEPT ![at] = @ \o s] /\ Leave
      /\ last # "past" /\ frames # <<>> /\ Top.kind = "while"
  BY <1>1 DEF EndWhile, InBlock, NotePast, Note
<1>3. s \in Seq(Instr) /\ Top.loop \in Nat
  BY <1>1, <1>2, TopBlocks, CloseList
<1>4. /\ Wrote(code, code', at, s, 0, <<>>) /\ Grows(code, code')
      /\ \A b \in Blocks : b # at => code'[b] = code[b]
  BY <1>2, <1>3, EmittedHere
<1>5. Ahead' = To(Top.cont) /\ frames' = Outer
  BY <1>2, <1>4, LeftAt
<1>6. Grows(code', code')
  BY <1>4, GrowsNot
<1>7. ASSUME NEW list, NEW p, NEW u, Fits(code', Top, Inner, list, p, u),
             Runs(code', Inner.list, u, Ahead)
      PROVE  Runs(code', Append(list, While(Inner.cond, Inner.list)), p, To(Top.cont))
  <2>1. Runs(code', Inner.list, u, To(Top.loop))
    BY <1>1, <1>2, <1>3, <1>4, <1>7, EmptyList, Closing
  <2> QED BY <1>2, <1>6, <1>7, <2>1, Zenon DEF Fits
<1> QED BY <1>2, <1>4, <1>5, <1>7, GoesOut

LEMMA WhileRuns ==
  ASSUME IInv, Doing, VisitWhile, tree' = Append(tree, Open(<<>>, <<>>, Evaluated)), flaws' = {}
  PROVE  Doing'
<1>1. PICK cont, loop, then : cont = made + 1 /\ loop = made + 2 /\ then = made + 3
  OBVIOUS
<1>2. PICK f, o, s, t :
        /\ f = Enter("while", cont, loop, 0) /\ o = Open(<<>>, <<>>, exprs + 1)
        /\ s = <<Br(loop)>> /\ t = <<Value(exprs + 1), CondBr(then, cont)>>
  OBVIOUS
<1>3. /\ code' = [code EXCEPT ![at] = @ \o s, ![loop] = @ \o t] /\ exprs' = exprs + 1
      /\ at' = then /\ frames' = Append(frames, f) /\ tree' = Append(tree, o)
      /\ ~ Returned /\ ~ Returned' /\ made + 3 <= MaxBlocks
  BY <1>1, <1>2 DEF VisitWhile, EnterLoop, NoteDead, Note, Returned, CanCreate, Evaluated
<1>4. StateFacts
  BY StateNow
<1>5. /\ cont \in Nat /\ then \in Nat /\ loop \in Nat /\ exprs + 1 \in Nat
      /\ then \in Blocks /\ loop \in Blocks /\ then > made /\ loop > made
      /\ then # at /\ loop # at /\ loop # then
  <2>1. made \in Nat /\ MaxBlocks \in Nat /\ at \in Nat /\ at <= made /\ exprs + 1 \in Nat
    BY <1>4, NumbersNow DEF StateFacts, NumberFacts
  <2> QED BY <1>1, <1>3, <2>1 DEF Blocks
<1>6. code[loop] = <<>> /\ code[then] = <<>>
  BY <1>4, <1>5 DEF StateFacts
<1>7. s \in Seq(Instr) /\ Len(s) = 1 /\ s[1] = Br(loop)
  <2>1. s \in Seq(Instr)
    BY <1>2, <1>5, Lists
  <2> QED BY <1>2, <2>1
<1>8. /\ t \in Seq(Instr) /\ Len(t) = 2 /\ 1 \in 1 .. Len(t) /\ 2 \in 1 .. Len(t)
      /\ t[1] = Value(exprs + 1) /\ t[2] = CondBr(then, cont)
  BY <1>2, <1>5, Condition
<1>9. Wrote(code, code', at, s, loop, t)
  BY <1>3, <1>5, <1>7, <1>8, WritesAt
<1>10. /\ Grows(code, code')
       /\ \A k \in 1 .. Len(t) : Holds(code', loop, k, t[k])
       /\ \A b \in Blocks : b # at /\ b # loop => code'[b] = code[b]
  BY <1>5, <1>6, <1>7, <1>8, <1>9, EmittedThere
<1>11. Len(code[at]) \in Nat /\ \A k \in 1 .. Len(s) : Holds(code', at, Len(code[at]) + k, s[k])
  BY <1>7, <1>8, <1>9, Emitted
<1>12. PICK k : k = Len(code[at]) + 1
  OBVIOUS
<1>13. /\ Holds(code', loop, 1, Value(exprs + 1)) /\ Holds(code', loop, 2, CondBr(then, cont))
       /\ Holds(code', at, k, Br(loop))
  BY <1>7, <1>8, <1>10, <1>11, <1>12
<1>14. Ahead' = {<<then, 1>>}
  BY <1>3, <1>5, <1>6, <1>10, Fresh
<1>15. f \in Frame /\ f.kind = "while" /\ f.cont = cont /\ f.loop = loop
  BY <1>2, <1>5 DEF Enter, Frame, Kinds
<1>16. IsOpen(o) /\ o.list = <<>> /\ o.cond = exprs + 1
  <2>1. IsList(<<>>)
    BY Listing
  <2> QED BY <1>2, <2>1, IsOpened
<1>17. ASSUME NEW list, NEW p, Runs(code', list, p, {<<at, k>>})
       PROVE  Fits(code', f, o, list, p, <<then, 1>>)
  <2>1. SUFFICES ASSUME NEW d, Grows(code', d), NEW body,
                        Runs(d, body, <<then, 1>>, To(loop))
                 PROVE  Runs(d, Append(list, While(exprs + 1, body)), p, To(cont))
    BY <1>15, <1>16, Zenon DEF Fits
  <2>2. /\ Holds(d, loop, 1, Value(exprs + 1)) /\ Holds(d, loop, 2, CondBr(then, cont))
        /\ Holds(d, at, k, Br(loop))
    BY <1>13, <2>1, HoldsOn
  <2>3. PICK m : m = <<loop, 1>>
    OBVIOUS
  <2>4. Runs(d, <<While(exprs + 1, body)>>, m, To(cont))
    BY <2>1, <2>2, <2>3, RunsWhile DEF To
  <2>5. Runs(d, list, p, {m})
    BY <1>17, <2>1, <2>2, <2>3, RunsOn, RunsClosed
  <2> QED BY <2>4, <2>5, RunsThen
<1> QED BY <1>3, <1>10, <1>12, <1>14, <1>15, <1>16, <1>17, GoesIn

LEMMA ForRuns ==
  ASSUME IInv, Doing, VisitFor, tree' = Append(tree, Open(<<>>, <<>>, 0)), flaws' = {}
  PROVE  Doing'
<1>1. PICK cont, loop, then : cont = made + 1 /\ loop = made + 2 /\ then = made + 3
  OBVIOUS
<1>2. PICK f, o : f = Enter("init", cont, loop, then) /\ o = Open(<<>>, <<>>, 0)
  OBVIOUS
<1>3. /\ code' = code /\ at' = at /\ frames' = Append(frames, f) /\ tree' = Append(tree, o)
      /\ ~ Returned /\ ~ Returned'
  BY <1>1, <1>2 DEF VisitFor, NoteDead, Note, Returned
<1>4. StateFacts
  BY StateNow
<1>5. cont \in Nat /\ then \in Nat /\ loop \in Nat
  BY <1>1, <1>4 DEF StateFacts
<1>6. Grows(code, code')
  <2>1. code \in [Blocks -> Seq(Instr)]
    BY <1>4 DEF StateFacts
  <2>2. \A b \in Blocks : Len(code[b]) \in Nat
    BY <2>1
  <2> QED BY <1>3, <2>2 DEF Grows
<1>7. f \in Frame /\ f.kind = "init"
  BY <1>2, <1>5 DEF Enter, Frame, Kinds
<1>8. IsOpen(o) /\ o.list = <<>>
  <2>1. IsList(<<>>)
    BY Listing
  <2> QED BY <1>2, <2>1, IsOpened
<1>9. PICK t : t = <<at, Len(code[at]) + 1>>
  OBVIOUS
<1>10. Ahead' = {t}
  BY <1>3, <1>9 DEF Ahead
<1>11. ASSUME NEW list, NEW p, Runs(code', list, p, {t})
       PROVE  Fits(code', f, o, list, p, t)
  BY <1>7, <1>11, RunsOn DEF Fits
<1> QED BY <1>3, <1>6, <1>7, <1>8, <1>9, <1>10, <1>11, GoesIn

LEMMA InitRuns ==
  ASSUME IInv, Doing, EndInit, flaws' = {},
         tree' = Append(Enclosing, Open(<<>>, Inner.list, Evaluated))
  PROVE  Doing'
<1>1. PICK cont, loop, then : cont = Top.cont /\ loop = Top.loop /\ then = Top.next
  OBVIOUS
<1>2. PICK f, o, s, t :
        /\ f = Enter("for", cont, loop, 0) /\ o = Open(<<>>, Inner.list, exprs + 1)
        /\ s = <<Br(loop)>> /\ t = <<Value(exprs + 1), CondBr(then, cont)>>
  OBVIOUS
<1>3. /\ code' = [code EXCEPT ![at] = @ \o s, ![loop] = @ \o t] /\ exprs' = exprs + 1
      /\ at' = then /\ frames' = Append(Outer, f) /\ tree' = Append(Enclosing, o)
      /\ ~ Returned /\ ~ Returned' /\ frames # <<>> /\ Top.kind = "init"
  BY <1>1, <1>2 DEF EndInit, EnterLoop, InBlock, Note, Returned, Evaluated
<1>4. StateFacts
  BY StateNow
<1>5. /\ cont \in Nat /\ then \in Nat /\ loop \in Nat /\ exprs + 1 \in Nat
      /\ then \in Blocks /\ loop \in Blocks /\ then # at /\ loop # at /\ loop # then
      /\ code[loop] = <<>> /\ code[then] = <<>>
  <2>1. /\ cont \in Nat /\ then \in attached \ {1, at} /\ loop \in attached \ {1, at} /\ loop # then
        /\ loop \in Owned(Top) /\ then \in Owned(Top) /\ then \in Nat /\ loop \in Nat
    BY <1>1, <1>3, TopBlocks
  <2>2. loop \in OwnedIn(frames) /\ then \in OwnedIn(frames)
    BY <1>3, <2>1, TopNow
  <2>3. loop \in Blocks /\ then \in Blocks
    BY <1>4, <2>1 DEF StateFacts, Blocks
  <2> QED BY <1>4, <2>1, <2>2, <2>3 DEF StateFacts
<1>6. s \in Seq(Instr) /\ Len(s) = 1 /\ s[1] = Br(loop)
  <2>1. s \in Seq(Instr)
    BY <1>2, <1>5, Lists
  <2> QED BY <1>2, <2>1
<1>7. /\ t \in Seq(Instr) /\ Len(t) = 2 /\ 1 \in 1 .. Len(t) /\ 2 \in 1 .. Len(t)
      /\ t[1] = Value(exprs + 1) /\ t[2] = CondBr(then, cont)
  BY <1>2, <1>5, Condition
<1>8. Wrote(code, code', at, s, loop, t)
  BY <1>3, <1>5, <1>6, <1>7, WritesAt
<1>9. /\ Grows(code, code')
      /\ \A k \in 1 .. Len(t) : Holds(code', loop, k, t[k])
      /\ \A b \in Blocks : b # at /\ b # loop => code'[b] = code[b]
  BY <1>5, <1>6, <1>7, <1>8, EmittedThere
<1>10. Len(code[at]) \in Nat /\ \A k \in 1 .. Len(s) : Holds(code', at, Len(code[at]) + k, s[k])
  BY <1>6, <1>7, <1>8, Emitted
<1>11. PICK k : k = Len(code[at]) + 1
  OBVIOUS
<1>12. /\ Holds(code', loop, 1, Value(exprs + 1)) /\ Holds(code', loop, 2, CondBr(then, cont))
       /\ Holds(code', at, k, Br(loop))
  BY <1>6, <1>7, <1>9, <1>10, <1>11
<1>13. Ahead' = {<<then, 1>>} /\ Ahead = {<<at, k>>}
  <2>1. Ahead' = {<<then, 1>>}
    BY <1>3, <1>5, <1>9, Fresh
  <2> QED BY <1>3, <1>11, <2>1 DEF Ahead
<1>14. f \in Frame /\ f.kind = "for" /\ f.cont = cont /\ f.loop = loop
  BY <1>2, <1>5 DEF Enter, Frame, Kinds
<1>15. IsOpen(o) /\ o.list = <<>> /\ o.init = Inner.list /\ o.cond = exprs + 1
  <2>1. IsList(<<>>)
    BY Listing
  <2> QED BY <1>2, <2>1, IsOpened
<1>16. ASSUME NEW list, NEW p, NEW u, Fits(code', Top, Inner, list, p, u),
              Runs(code', Inner.list, u, Ahead)
       PROVE  Fits(code', f, o, list, p, <<then, 1>>)
  <2>1. SUFFICES ASSUME NEW d, Grows(code', d), NEW body, NEW inc,
                        Runs(d, Append(body, Expr(inc)), <<then, 1>>, To(loop))
                 PROVE  Runs(d, Append(list, For(Inner.list, exprs + 1, inc, body)), p, To(cont))
    BY <1>14, <1>15, Zenon DEF Fits
  <2>2. /\ Holds(d, loop, 1, Value(exprs + 1)) /\ Holds(d, loop, 2, CondBr(then, cont))
        /\ Holds(d, at, k, Br(loop))
    BY <1>12, <2>1, HoldsOn
  <2>3. Runs(d, list, p, {u})
    BY <1>3, <1>16, <2>1 DEF Fits
  <2>4. Runs(d, Inner.list, u, {<<at, k>>})
    BY <1>13, <1>16, <2>1, RunsOn
  <2>5. Runs(d, <<For(Inner.list, exprs + 1, inc, body)>>, u, To(cont))
    BY <2>1, <2>2, <2>4, RunsFor DEF To
  <2> QED BY <2>3, <2>5, RunsThen
<1> QED BY <1>3, <1>9, <1>13, <1>14, <1>15, <1>16, MovesIn

LEMMA EndForRuns ==
  ASSUME IInv, Doing, EndFor, flaws' = {},
         tree' = Listed(Enclosing, For(Inner.init, Inner.cond, Evaluated, Inner.list))
  PROVE  Doing'
<1>1. /\ Leave /\ last # "past" /\ frames # <<>> /\ Top.kind = "for" /\ Top.loop \in Nat
  BY TopBlocks DEF EndFor, InBlock, NotePast, Note
<1>2. StateFacts
  BY StateNow
<1>3. SUFFICES /\ Grows(code, code') /\ \A b \in Blocks : b # at => code'[b] = code[b]
               /\ \A u : Runs(code', Inner.list, u, Ahead)
                         => Runs(code', Append(Inner.list, Expr(exprs')), u, To(Top.loop))
  <2>1. Ahead' = To(Top.cont) /\ frames' = Outer
    BY <1>1, <1>3, LeftAt
  <2>2. Grows(code', code')
    BY <1>3, GrowsNot
  <2>3. ASSUME NEW list, NEW p, NEW u, Fits(code', Top, Inner, list, p, u),
               Runs(code', Inner.list, u, Ahead)
        PROVE  Runs(code', Append(list, For(Inner.init, Inner.cond, exprs', Inner.list)), p, To(Top.cont))
    <3>1. Runs(code', Append(Inner.list, Expr(exprs')), u, To(Top.loop))
      BY <1>3, <2>3
    <3> QED BY <1>1, <2>2, <2>3, <3>1, Zenon DEF Fits
  <2> QED BY <1>1, <1>3, <2>1, <2>3, GoesOut DEF Evaluated
<1>4. CASE last = "ret"
  <2>1. code' = code /\ Ahead = {}
    BY <1>4 DEF EndFor, Ahead, Returned
  <2>2. Grows(code, code')
    <3>1. \A b \in Blocks : Len(code[b]) \in Nat
      BY <1>2 DEF StateFacts
    <3> QED BY <2>1, <3>1 DEF Grows
  <2>3. ASSUME NEW u, Runs(code', Inner.list, u, Ahead)
        PROVE  Runs(code', Append(Inner.list, Expr(exprs')), u, To(Top.loop))
    <3>1. PICK y : y = <<Expr(exprs')>>
      OBVIOUS
    <3>2. IsList(y) /\ Head(y) = Expr(exprs')
      BY <3>1, Listing
    <3>3. ~ Shut(y)
      BY <3>2 DEF Shut, Expr
    <3>4. Runs(code', Inner.list \o y, u, To(Top.loop))
      BY <2>1, <2>3, <3>2, <3>3, RunsNoFurther
    <3>5. IsList(Inner.list)
      BY <2>3, RunsIsList
    <3> QED BY <3>1, <3>4, <3>5, JoinedLast
  <2> QED BY <2>1, <2>2, <2>3
<1>5. CASE last # "ret"
  <2>1. PICK s : s = <<Value(exprs + 1), Br(Top.loop)>>
    OBVIOUS
  <2>2. /\ code' = [code EXCEPT ![at] = @ \o s] /\ exprs' = exprs + 1 /\ ~ Returned
    BY <1>1, <1>5, <2>1 DEF EndFor, Returned
  <2>3. /\ s \in Seq(Instr) /\ Len(s) = 2 /\ s[1] = Value(exprs + 1) /\ s[2] = Br(Top.loop)
    <3>1. s \in Seq(Instr)
      BY <1>1, <1>2, <2>1, Lists DEF StateFacts
    <3> QED BY <2>1, <3>1
  <2>4. /\ Grows(code, code') /\ Len(code[at]) \in Nat
        /\ \A k \in 1 .. Len(s) : Holds(code', at, Len(code[at]) + k, s[k])
        /\ \A b \in Blocks : b # at => code'[b] = code[b]
    BY <2>2, <2>3, EmittedHere
  <2>5. PICK k : k = Len(code[at]) + 1
    OBVIOUS
  <2>6. Holds(code', at, k, Value(exprs')) /\ Holds(code', at, k + 1, Br(Top.loop))
    <3>1. Len(code[at]) + 2 = k + 1
      BY <2>4, <2>5
    <3> QED BY <2>2, <2>3, <2>4, <2>5, <3>1
  <2>7. ASSUME NEW u, Runs(code', Inner.list, u, Ahead)
        PROVE  Runs(code', Append(Inner.list, Expr(exprs')), u, To(Top.loop))
    <3>1. PICK m, ends : m = <<at, k>> /\ ends = {<<at, k + 1>>}
      OBVIOUS
    <3>2. Runs(code', Inner.list, u, {m})
      BY <2>2, <2>5, <2>7, <3>1 DEF Ahead
    <3>3. Runs(code', <<Expr(exprs')>>, m, ends)
      BY <2>6, <3>1, RunsValue
    <3>4. Runs(code', Append(Inner.list, Expr(exprs')), u, {<<at, k + 1>>})
      BY <3>1, <3>2, <3>3, RunsThen
    <3> QED BY <2>6, <3>4, RunsClosed DEF To
  <2> QED BY <2>4, <2>7
<1> QED BY <1>4, <1>5

(***************************************************************************)
(* The whole of a run: the code is built, and then it runs with the source. *)
(***************************************************************************)
RunsOnward ==
  /\ ~ done => pc = <<1, 1>>
  /\ ~ done /\ flaws = {} => Doing
  /\ Running => Runs(code, rest, pc, {})

ExecIInv == IInv /\ RunsOnward

LEMMA ExecStart ==
  ASSUME ExecInit
  PROVE  ExecIInv
<1>1. IInv
  BY Start DEF ExecInit
<1>2. PICK o : o = Open(<<>>, <<>>, 0)
  OBVIOUS
<1>3. /\ tree = <<o>> /\ pc = <<1, 1>> /\ ~ done /\ frames = <<>> /\ at = 1 /\ ~ Returned
      /\ 1 \in Blocks /\ code[1] = <<>>
  BY <1>2 DEF ExecInit, Init, Returned, Blocks
<1>4. IsOpen(o) /\ o.list = <<>> /\ IsList(<<o>>)
  BY <1>2, Listing, IsOpened
<1>5. Len(tree) = 1 /\ tree[1] = o /\ Inner = o
  BY <1>3 DEF Inner
<1>6. Spine(code, frames, tree, <<1, 1>>)
  <2>1. Stacks(frames, tree)
    BY <1>3, <1>4, <1>5 DEF Stacks
  <2>2. PICK st : st = <<<<1, 1>>>>
    OBVIOUS
  <2>3. st[1] = <<1, 1>> /\ Len(frames) = 0
    BY <1>3, <2>2
  <2> QED BY <1>5, <2>1, <2>3 DEF Spine
<1>7. Runs(code, Inner.list, <<1, 1>>, Ahead)
  <2>1. Ahead = {<<1, 1>>}
    BY <1>3 DEF Ahead
  <2>2. PICK p : p = <<1, 1>>
    OBVIOUS
  <2>3. Runs(code, <<>>, p, {p})
    BY RunsNothing
  <2> QED BY <1>4, <1>5, <2>1, <2>2, <2>3
<1>8. RunsOnward
  BY <1>3, <1>6, <1>7 DEF RunsOnward, Doing, Running
<1> QED BY <1>1, <1>8 DEF ExecIInv

LEMMA VisitStep ==
  ASSUME ExecIInv, Visit
  PROVE  ExecIInv'
<1>1. IInv /\ RunsOnward
  BY DEF ExecIInv
<1>2. Next
  BY DEF Visit, Next
<1>3. IInv'
  BY <1>1, <1>2, Step
<1>4. ~ done /\ done' = done /\ pc' = pc
  BY DEF Visit, VisitExpression, VisitCodeless, VisitReturn, VisitIf, VisitElseIf, VisitElse,
         EndIf, EndElse, VisitWhile, EndWhile, VisitFor, EndInit, EndFor, CanVisit, InBlock, Leave
<1>5. flaws' = {} => flaws = {}
  BY DEF Visit, VisitExpression, VisitCodeless, VisitReturn, VisitIf, VisitElseIf, VisitElse,
         EndIf, EndElse, VisitWhile, EndWhile, VisitFor, EndInit, EndFor, NoteDead, NotePast, Note
<1>6. ASSUME flaws' = {}
      PROVE  Doing'
  <2>1. Doing
    BY <1>1, <1>4, <1>5, <1>6 DEF RunsOnward
  <2> QED BY <1>1, <1>6, <2>1, ExpressionRuns, CodelessRuns, ReturnRuns, IfRuns, ElseIfRuns,
             ElseRuns, EndIfRuns, EndElseRuns, WhileRuns, EndWhileRuns, ForRuns, InitRuns,
             EndForRuns, Zenon DEF Visit
<1>7. RunsOnward'
  BY <1>1, <1>4, <1>6 DEF RunsOnward, Running
<1> QED BY <1>3, <1>7 DEF ExecIInv

LEMMA FinishStep ==
  ASSUME ExecIInv, Finish
  PROVE  ExecIInv'
<1>1. IInv /\ RunsOnward
  BY DEF ExecIInv
<1>2. IInv'
  BY <1>1, Step DEF Finish, Next
<1>3. /\ ~ done /\ done' /\ frames = <<>> /\ code' = code /\ pc' = pc /\ rest' = Inner.list
      /\ flaws' = {} => flaws = {} /\ Returned
  BY DEF Finish, EndFunction, Note
<1>4. ASSUME flaws' = {}
      PROVE  Runs(code', rest', pc', {})
  <2>1. pc = <<1, 1>> /\ Doing /\ Ahead = {}
    BY <1>1, <1>3, <1>4 DEF RunsOnward, Ahead
  <2>2. PICK s : Spine(code, frames, tree, s) /\ Runs(code, Inner.list, s, Ahead)
    BY <2>1 DEF Doing
  <2>3. s = <<1, 1>>
    BY <1>3, <2>2, SpineOnly
  <2> QED BY <1>3, <2>1, <2>2, <2>3
<1>5. RunsOnward'
  BY <1>3, <1>4 DEF RunsOnward, Running
<1> QED BY <1>2, <1>5 DEF ExecIInv

\* The code stays as it is when it runs.
LEMMA RunStep ==
  ASSUME ExecIInv, UNCHANGED vars, Running, NEW C, Sound(code, C, {}), <<rest', pc'>> \in C
  PROVE  ExecIInv'
<1>1. IInv'
  BY Step DEF ExecIInv
<1>2. code' = code /\ done' = done
  BY DEF vars
<1>3. Runs(code', rest', pc', {})
  BY <1>2 DEF Runs
<1> QED BY <1>1, <1>2, <1>3 DEF ExecIInv, RunsOnward, Running

LEMMA AtRest ==
  ASSUME ExecIInv, Running
  PROVE  \E C : /\ Sound(code, C, {}) /\ <<rest, pc>> \in C
                /\ Folded => <<Unfolded(Head(rest)) \o Tail(rest), pc>> \in C
                /\ ~ Folded => \/ Jumps(Here, C, rest)
                               \/ Evaluates(Here, C, rest, pc)
                               \/ Chooses(Here, C, rest)
                               \/ Returns(Here, rest)
<1>1. PICK C : Sound(code, C, {}) /\ <<rest, pc>> \in C
  BY DEF ExecIInv, RunsOnward, Runs
<1>2. Follows(code, C, {}, rest, pc)
  BY <1>1, SoundAt
<1>3. Folded <=> Shut(rest)
  BY DEF Folded, Shut
<1> QED BY <1>1, <1>2, <1>3 DEF Follows, Opens, Performs, Here

LEMMA OpsApart ==
  ASSUME NEW C
  PROVE  /\ Jumps(Here, C, rest) => Here.op = "br"
         /\ Evaluates(Here, C, rest, pc) => Here.op = "value"
         /\ Chooses(Here, C, rest) => Here.op = "condbr"
         /\ Returns(Here, rest) => Here.op = "ret"
BY DEF Jumps, Evaluates, Chooses, Returns

LEMMA ExecStep ==
  ASSUME ExecIInv, [ExecNext]_allVars
  PROVE  ExecIInv'
<1>1. CASE Visit
  BY <1>1, VisitStep
<1>2. CASE Finish
  BY <1>2, FinishStep
<1>3. CASE Unfold
  <2>1. Running /\ Folded /\ rest' = Unfolded(Head(rest)) \o Tail(rest) /\ pc' = pc /\ UNCHANGED vars
    BY <1>3 DEF Unfold
  <2>2. PICK C : Sound(code, C, {}) /\ <<Unfolded(Head(rest)) \o Tail(rest), pc>> \in C
    BY <2>1, AtRest
  <2> QED BY <2>1, <2>2, RunStep
<1>4. CASE Jump
  <2>1. Running /\ ~ Folded /\ Here.op = "br" /\ rest' = rest /\ pc' = <<Here.arg[1], 1>> /\ UNCHANGED vars
    BY <1>4 DEF Jump
  <2>2. PICK C : Sound(code, C, {}) /\ Jumps(Here, C, rest)
    BY <2>1, AtRest, OpsApart
  <2>3. <<rest', pc'>> \in C
    BY <2>1, <2>2 DEF Jumps
  <2> QED BY <2>1, <2>2, <2>3, RunStep
<1>5. CASE Evaluate
  <2>1. /\ Running /\ ~ Folded /\ Here.op = "value" /\ pc' = <<pc[1], pc[2] + 1>> /\ UNCHANGED vars
        /\ rest' = Behind(Head(rest)) \o Tail(rest)
    BY <1>5 DEF Evaluate, AtEvent, Behind
  <2>2. PICK C : Sound(code, C, {}) /\ Evaluates(Here, C, rest, pc)
    BY <2>1, AtRest, OpsApart
  <2>3. <<rest', pc'>> \in C
    BY <2>1, <2>2 DEF Evaluates
  <2> QED BY <2>1, <2>2, <2>3, RunStep
<1>6. CASE Decide
  <2>1. Running /\ ~ Folded /\ Here.op = "condbr" /\ UNCHANGED vars
    BY <1>6 DEF Decide, AtEvent
  <2>2. PICK holds \in BOOLEAN :
          /\ rest' = (IF holds THEN Head(rest).yes ELSE Head(rest).no) \o Tail(rest)
          /\ pc' = <<IF holds THEN Here.arg[1] ELSE Here.arg[2], 1>>
    BY <1>6 DEF Decide
  <2>3. PICK C : Sound(code, C, {}) /\ Chooses(Here, C, rest)
    BY <2>1, AtRest, OpsApart
  <2>4. <<rest', pc'>> \in C
    BY <2>2, <2>3 DEF Chooses
  <2> QED BY <2>1, <2>3, <2>4, RunStep
<1>7. CASE UNCHANGED allVars
  <2>1. UNCHANGED vars /\ tree' = tree /\ rest' = rest /\ pc' = pc
    BY <1>7 DEF allVars
  <2>2. IInv'
    BY <2>1, Step DEF ExecIInv
  <2>3. UNCHANGED <<code, frames, at, last, done, flaws, tree, rest, pc>>
    BY <2>1 DEF vars
  <2>4. Doing' <=> Doing
    <3>1. Ahead' = Ahead /\ Inner' = Inner
      BY <2>3 DEF Ahead, Returned, Inner
    <3> QED BY <2>3, <3>1 DEF Doing
  <2>5. RunsOnward'
    BY <2>3, <2>4 DEF ExecIInv, RunsOnward, Running
  <2> QED BY <2>2, <2>5 DEF ExecIInv
<1> QED BY <1>1, <1>2, <1>3, <1>4, <1>5, <1>6, <1>7 DEF ExecNext

LEMMA AsWritten ==
  ASSUME ExecIInv
  PROVE  RunsAsWritten
<1> SUFFICES ASSUME AtEvent
             PROVE  SourceDoes = CodeDoes
  BY DEF RunsAsWritten
<1>1. Running /\ ~ Folded /\ Here.op # "br"
  BY DEF AtEvent
<1>2. PICK C : \/ Evaluates(Here, C, rest, pc)
               \/ Chooses(Here, C, rest)
               \/ Returns(Here, rest)
  BY <1>1, AtRest, OpsApart
<1>3. CASE Evaluates(Here, C, rest, pc)
  BY <1>3 DEF Evaluates, SourceDoes, CodeDoes
<1>4. CASE Chooses(Here, C, rest)
  BY <1>4 DEF Chooses, SourceDoes, CodeDoes
<1>5. CASE Returns(Here, rest)
  BY <1>5 DEF Returns, SourceDoes, CodeDoes
<1> QED BY <1>2, <1>3, <1>4, <1>5

\* What holds of every state in which a function is visited or runs.
THEOREM ExecInvariance ==
  ExecSpec => []ExecIInv
<1>1. ExecInit => ExecIInv
  BY ExecStart
<1>2. ExecIInv /\ [ExecNext]_allVars => ExecIInv'
  BY ExecStep
<1> QED BY <1>1, <1>2, PTL DEF ExecSpec

\* The code of a function that verifies does at every point of every run what
\* the source says, however its ifs, loops and returns nest and whatever its
\* conditions answer: it evaluates the same expressions in the same order,
\* tests where the source tests and returns where the source returns.
THEOREM CodeRunsAsWritten ==
  ExecSpec => []RunsAsWritten
<1>1. ExecIInv => RunsAsWritten
  BY AsWritten
<1> QED BY <1>1, ExecInvariance, PTL
=============================================================================
