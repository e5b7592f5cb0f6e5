---------------------------- MODULE DriverProofs ----------------------------
(***************************************************************************)
(* A run of the compiler over any files, texts and depth of imports.       *)
(***************************************************************************)
EXTENDS Driver, FiniteSetTheorems, SequenceTheorems, TLAPS

----------------------------------------------------------------------------
(***************************************************************************)
(* The types.                                                              *)
(***************************************************************************)
Wordings == {"syntax", "not in scope", "extra argument", "included"}

SourceOf(n) ==
  [file : DOMAIN program, above : SUBSET (1 .. n), nodes : Seq(Node),
   messages : SUBSET Wordings]

FrameOf(n) == [src : 1 .. n, at : Nat]

LEMMA SourceFacts ==
  ASSUME TypeOK, NEW s \in Read
  PROVE  /\ sources \in Seq(SourceOf(Len(sources)))
         /\ sources[s] \in SourceOf(Len(sources))
         /\ sources[s].file \in DOMAIN program
         /\ sources[s].above \subseteq Read
         /\ sources[s].nodes \in Seq(Node)
         /\ sources[s].messages \subseteq Wordings
         /\ Len(sources) \in Nat /\ s \in Nat
<1>1. sources \in Seq(SourceOf(Len(sources)))
  BY DEF TypeOK, SourceOf, Wordings, Read
<1>2. Len(sources) \in Nat /\ s \in 1 .. Len(sources)
  BY <1>1, LenProperties DEF Read
<1>3. sources[s] \in SourceOf(Len(sources))
  BY <1>1, <1>2, ElementOfSeq
<1> QED BY <1>1, <1>2, <1>3 DEF SourceOf, Read

LEMMA FrameFacts ==
  ASSUME TypeOK
  PROVE  /\ stack \in Seq(FrameOf(Len(sources)))
         /\ Len(stack) \in Nat /\ Len(sources) \in Nat
         /\ \A j \in 1 .. Len(stack) :
              stack[j] \in FrameOf(Len(sources)) /\ stack[j].src \in Read /\ stack[j].at \in Nat
         /\ stack # <<>> =>
              /\ Len(stack) \in 1 .. Len(stack)
              /\ Top \in FrameOf(Len(sources)) /\ Top.src \in Read /\ Top.at \in Nat
<1>1. stack \in Seq(FrameOf(Len(sources)))
  BY DEF TypeOK, FrameOf, Read
<1>2. Len(stack) \in Nat
  BY <1>1, LenProperties
<1>3. \A j \in 1 .. Len(stack) : stack[j] \in FrameOf(Len(sources))
  BY <1>1, ElementOfSeq
<1>4. stack # <<>> => Len(stack) \in 1 .. Len(stack)
  BY <1>1, <1>2, EmptySeq
<1>5. Len(sources) \in Nat
  BY LenProperties DEF TypeOK
<1>6. \A x \in FrameOf(Len(sources)) : x.src \in Read /\ x.at \in Nat
  BY Zenon DEF FrameOf, Read
<1> QED BY <1>1, <1>2, <1>3, <1>4, <1>5, <1>6 DEF Top

\* A frame further on in its document.
LEMMA AdvancedFacts ==
  ASSUME NEW n \in Nat, NEW s \in Seq(FrameOf(n)), s # <<>>
  PROVE  /\ Advanced(s) \in Seq(FrameOf(n)) /\ Advanced(s) # <<>>
         /\ Len(Advanced(s)) = Len(s) /\ Len(s) \in Nat \ {0}
         /\ \A j \in 1 .. Len(s) :
              /\ Advanced(s)[j].src = s[j].src
              /\ Advanced(s)[j].at = IF j = Len(s) THEN s[j].at + 1 ELSE s[j].at
<1>1. Len(s) \in Nat \ {0}
  BY EmptySeq
<1>2. s[Len(s)] \in FrameOf(n)
  BY <1>1, ElementOfSeq
<1> DEFINE e == [s[Len(s)] EXCEPT !.at = @ + 1]
<1>3. e \in FrameOf(n) /\ e.src = s[Len(s)].src /\ e.at = s[Len(s)].at + 1
  BY <1>2 DEF FrameOf
<1>4. Advanced(s) = [s EXCEPT ![Len(s)] = e]
  BY <1>1, <1>2 DEF Advanced, FrameOf
<1> HIDE DEF e
<1>5. /\ [s EXCEPT ![Len(s)] = e] \in Seq(FrameOf(n))
      /\ Len([s EXCEPT ![Len(s)] = e]) = Len(s)
      /\ \A j \in 1 .. Len(s) : [s EXCEPT ![Len(s)] = e][j] = IF j = Len(s) THEN e ELSE s[j]
  <2>1. Len(s) \in 1 .. Len(s)
    BY <1>1
  <2> QED BY <2>1, <1>3, ExceptSeq
<1>6. Advanced(s) # <<>>
  BY <1>1, <1>4, <1>5, EmptySeq
<1> QED BY <1>1, <1>3, <1>4, <1>5, <1>6, Zenon

LEMMA OuterFacts ==
  ASSUME TypeOK, stack # <<>>
  PROVE  /\ Outer \in Seq(FrameOf(Len(sources)))
         /\ Len(Outer) = Len(stack) - 1
         /\ \A j \in 1 .. Len(stack) - 1 : Outer[j] = stack[j]
<1>1. /\ stack \in Seq(FrameOf(Len(sources))) /\ Len(stack) \in Nat \ {0}
      /\ \A j \in 1 .. Len(stack) : stack[j] \in FrameOf(Len(sources))
  BY FrameFacts
<1> DEFINE m == Len(stack) - 1
<1>2. m \in Nat /\ \A i \in 1 .. m : stack[i] \in FrameOf(Len(sources))
  BY <1>1
<1>3. Outer = SubSeq(stack, 1, m)
  BY DEF Outer
<1> HIDE DEF m
<1>4. /\ SubSeq(stack, 1, m) \in Seq(FrameOf(Len(sources)))
      /\ Len(SubSeq(stack, 1, m)) = IF 1 <= m THEN m - 1 + 1 ELSE 0
      /\ \A i \in 1 .. m - 1 + 1 : SubSeq(stack, 1, m)[i] = stack[1 + i - 1]
  BY <1>2, SubSeqProperties
<1>5. Len(Outer) = m /\ \A i \in 1 .. m : Outer[i] = stack[i]
  BY <1>2, <1>3, <1>4
<1> QED BY <1>3, <1>4, <1>5 DEF m

\* The tree and the files are as before; messages may have been added.
SameTree ==
  /\ program' = program
  /\ sources' \in Seq(SourceOf(Len(sources))) /\ Len(sources') = Len(sources)
  /\ \A s \in Read : /\ sources'[s].file = sources[s].file
                     /\ sources'[s].above = sources[s].above
                     /\ sources'[s].nodes = sources[s].nodes

LEMMA ReportedFacts ==
  ASSUME TypeOK, NEW s \in Read, NEW m \in SUBSET Wordings
  PROVE  /\ Reported(s, m) \in Seq(SourceOf(Len(sources)))
         /\ Len(Reported(s, m)) = Len(sources)
         /\ \A t \in Read :
              /\ Reported(s, m)[t].file = sources[t].file
              /\ Reported(s, m)[t].above = sources[t].above
              /\ Reported(s, m)[t].nodes = sources[t].nodes
              /\ Reported(s, m)[t].messages =
                   IF t = s THEN sources[t].messages \cup m ELSE sources[t].messages
<1> DEFINE e == [sources[s] EXCEPT !.messages = @ \cup m]
<1>1. sources[s] \in SourceOf(Len(sources)) /\ sources \in Seq(SourceOf(Len(sources)))
  BY SourceFacts
<1>2. /\ e \in SourceOf(Len(sources)) /\ e.file = sources[s].file
      /\ e.above = sources[s].above /\ e.nodes = sources[s].nodes
      /\ e.messages = sources[s].messages \cup m
  BY <1>1 DEF SourceOf
<1>3. Reported(s, m) = [sources EXCEPT ![s] = e]
  BY <1>1 DEF Reported, SourceOf
<1> HIDE DEF e
<1>4. /\ [sources EXCEPT ![s] = e] \in Seq(SourceOf(Len(sources)))
      /\ Len([sources EXCEPT ![s] = e]) = Len(sources)
      /\ \A t \in 1 .. Len(sources) :
           [sources EXCEPT ![s] = e][t] = IF t = s THEN e ELSE sources[t]
  BY <1>1, <1>2, ExceptSeq DEF Read
<1> QED BY <1>2, <1>3, <1>4 DEF Read

LEMMA ReportedTree ==
  ASSUME TypeOK, NEW s \in Read, NEW m \in SUBSET Wordings, program' = program,
         sources' = Reported(s, m)
  PROVE  /\ SameTree
         /\ sources'[s].messages = sources[s].messages \cup m
         /\ \A t \in Read : t # s => sources'[t].messages = sources[t].messages
<1>1. PICK S : S = Reported(s, m)
  OBVIOUS
<1>2. /\ S \in Seq(SourceOf(Len(sources))) /\ Len(S) = Len(sources)
      /\ \A t \in Read :
           /\ S[t].file = sources[t].file
           /\ S[t].above = sources[t].above
           /\ S[t].nodes = sources[t].nodes
           /\ S[t].messages = IF t = s THEN sources[t].messages \cup m ELSE sources[t].messages
  <2>1. /\ Reported(s, m) \in Seq(SourceOf(Len(sources)))
        /\ Len(Reported(s, m)) = Len(sources)
        /\ \A t \in Read :
             /\ Reported(s, m)[t].file = sources[t].file
             /\ Reported(s, m)[t].above = sources[t].above
             /\ Reported(s, m)[t].nodes = sources[t].nodes
             /\ Reported(s, m)[t].messages =
                  IF t = s THEN sources[t].messages \cup m ELSE sources[t].messages
    BY ReportedFacts
  <2> QED BY <1>1, <2>1
<1>3. sources' = S
  BY <1>1
<1>4. \A t \in Read : /\ sources'[t].file = sources[t].file
                      /\ sources'[t].above = sources[t].above
                      /\ sources'[t].nodes = sources[t].nodes
  BY <1>2, <1>3
<1> QED BY <1>2, <1>3, <1>4 DEF SameTree

NodeAdded(S, s, x) == [S EXCEPT ![s].nodes = Append(@, x)]

LEMMA NodeAddedFacts ==
  ASSUME NEW n \in Nat, NEW S \in Seq(SourceOf(n)), NEW s \in 1 .. Len(S), NEW x \in Node
  PROVE  /\ NodeAdded(S, s, x) \in Seq(SourceOf(n)) /\ Len(NodeAdded(S, s, x)) = Len(S)
         /\ \A t \in 1 .. Len(S) :
              /\ NodeAdded(S, s, x)[t].file = S[t].file
              /\ NodeAdded(S, s, x)[t].above = S[t].above
              /\ NodeAdded(S, s, x)[t].messages = S[t].messages
              /\ NodeAdded(S, s, x)[t].nodes =
                   IF t = s THEN Append(S[t].nodes, x) ELSE S[t].nodes
<1> DEFINE e == [S[s] EXCEPT !.nodes = Append(@, x)]
<1>1. S[s] \in SourceOf(n)
  BY ElementOfSeq
<1>2. Append(S[s].nodes, x) \in Seq(Node)
  BY <1>1, AppendProperties DEF SourceOf
<1>3. /\ e \in SourceOf(n) /\ e.file = S[s].file /\ e.above = S[s].above
      /\ e.messages = S[s].messages /\ e.nodes = Append(S[s].nodes, x)
  BY <1>1, <1>2 DEF SourceOf
<1>4. NodeAdded(S, s, x) = [S EXCEPT ![s] = e]
  BY <1>1 DEF SourceOf, NodeAdded
<1> HIDE DEF e
<1>5. /\ [S EXCEPT ![s] = e] \in Seq(SourceOf(n))
      /\ Len([S EXCEPT ![s] = e]) = Len(S)
      /\ \A t \in 1 .. Len(S) : [S EXCEPT ![s] = e][t] = IF t = s THEN e ELSE S[t]
  BY <1>3, ExceptSeq
<1> QED BY <1>3, <1>4, <1>5
----------------------------------------------------------------------------
(***************************************************************************)
(* The tree of imports.  The files between the root and a file, itself     *)
(* included, are its line; numbers grow along a line and from one import   *)
(* to the next.                                                            *)
(***************************************************************************)
Line(s) == {s} \cup sources[s].above

Imports(p, i) == i \in DOMAIN sources[p].nodes /\ sources[p].nodes[i].kind = "import"

Child(p, i) == sources[p].nodes[i].src

Lines ==
  \A s \in Read :
    /\ \A t \in sources[s].above : t < s /\ sources[t].above \subseteq sources[s].above
    /\ 1 \in Line(s)
    /\ \A t, u \in Line(s) : t < u => t \in sources[u].above

Links ==
  \A p \in Read : \A i \in DOMAIN sources[p].nodes :
    Imports(p, i) =>
      /\ Child(p, i) \in Read /\ sources[Child(p, i)].above = Line(p)
      /\ \A k \in 1 .. i - 1 : Imports(p, k) => Child(p, k) < Child(p, i)

\* The documents on the stack are the line of the innermost.
Path ==
  /\ stack # <<>> /\ stack[1].src = 1
  /\ \A j \in 1 .. Len(stack) :
       sources[stack[j].src].above = {stack[k].src : k \in 1 .. j - 1}
  /\ \A j, k \in 1 .. Len(stack) : j < k => stack[j].src < stack[k].src

Tree == Lines /\ Links /\ Path

\* Of the imports in p one leads to s.
Joins(p, s) == \E i \in DOMAIN sources[p].nodes : Imports(p, i) /\ Child(p, i) \in Line(s)

(***************************************************************************)
(* What a visitor has before it: the files that a later import, of one of  *)
(* the documents it is in, leads to.                                       *)
(***************************************************************************)
Leads(j, i, s) ==
  /\ i > stack[j].at /\ Imports(stack[j].src, i)
  /\ Child(stack[j].src, i) \in Line(s)

Ahead(s) ==
  \E j \in 1 .. Len(stack) : \E i \in DOMAIN sources[stack[j].src].nodes : Leads(j, i, s)

\* It is through with node k of file s.
Passed(s, k) ==
  ~ Ahead(s) /\ \A j \in 1 .. Len(stack) : stack[j].src = s => k <= stack[j].at

Walking ==
  /\ \A s \in Read : \A p \in sources[s].above : Joins(p, s)
  /\ \A j \in 1 .. Len(stack) : ~ Ahead(stack[j].src)

LEMMA TreeKept ==
  ASSUME TypeOK, SameTree
  PROVE  /\ Read' = Read
         /\ \A s \in Read : Line(s)' = Line(s)
         /\ \A p \in Read : \A i :
              Imports(p, i)' = Imports(p, i) /\ Child(p, i)' = Child(p, i)
         /\ \A s, p \in Read : Joins(p, s)' = Joins(p, s)
         /\ Lines => Lines'
         /\ Links => Links'
<1>1. Read' = Read
  BY DEF SameTree, Read
<1>2. \A s \in Read : sources'[s].above = sources[s].above /\ sources'[s].nodes = sources[s].nodes
  BY DEF SameTree
<1>3. \A s \in Read : Line(s)' = Line(s)
  BY <1>2 DEF Line
<1>4. \A p \in Read : \A i :
        Imports(p, i)' = Imports(p, i) /\ Child(p, i)' = Child(p, i)
  BY <1>2 DEF Imports, Child
<1>5. \A s, p \in Read : Joins(p, s)' = Joins(p, s)
  BY <1>2, <1>3, <1>4 DEF Joins
<1>6. \A s \in Read : sources[s].above \subseteq Read
  BY SourceFacts
<1>7. Lines => Lines'
  <2>1. SUFFICES ASSUME Lines, NEW s \in Read
                 PROVE  /\ \A t \in sources'[s].above :
                             t < s /\ sources'[t].above \subseteq sources'[s].above
                        /\ 1 \in Line(s)'
                        /\ \A t, u \in Line(s)' : t < u => t \in sources'[u].above
    BY <1>1 DEF Lines
  <2>2. \A t \in Line(s) : t \in Read
    BY <1>6 DEF Line
  <2> QED BY <1>2, <1>3, <1>6, <2>1, <2>2 DEF Lines
<1>8. Links => Links'
  <2>1. SUFFICES ASSUME Links, NEW p \in Read, NEW i \in DOMAIN sources[p].nodes, Imports(p, i)
                 PROVE  /\ Child(p, i)' \in Read /\ sources'[Child(p, i)'].above = Line(p)'
                        /\ \A k \in 1 .. i - 1 : Imports(p, k)' => Child(p, k)' < Child(p, i)'
    BY <1>1, <1>2, <1>4 DEF Links
  <2>2. /\ Child(p, i) \in Read /\ sources[Child(p, i)].above = Line(p)
        /\ \A k \in 1 .. i - 1 : Imports(p, k) => Child(p, k) < Child(p, i)
    BY <2>1 DEF Links
  <2> QED BY <1>2, <1>3, <1>4, <2>2
<1> QED BY <1>1, <1>3, <1>4, <1>5, <1>7, <1>8

LEMMA NodesFacts ==
  ASSUME TypeOK, NEW p \in Read
  PROVE  /\ DOMAIN sources[p].nodes = 1 .. Len(sources[p].nodes) /\ Len(sources[p].nodes) \in Nat
         /\ \A i \in DOMAIN sources[p].nodes : i \in Nat \ {0} /\ sources[p].nodes[i] \in Node
<1>1. sources[p].nodes \in Seq(Node)
  BY SourceFacts
<1> QED BY <1>1, LenProperties, ElementOfSeq

LEMMA LineFacts ==
  ASSUME TypeOK, Lines, NEW s \in Read
  PROVE  Line(s) \subseteq Read /\ \A t \in Line(s) : t <= s /\ Line(t) \subseteq Line(s)
<1>1. sources[s].above \subseteq Read /\ s \in Nat /\ \A t \in Read : t \in Nat
  BY SourceFacts
<1>2. Line(s) \subseteq Read
  BY <1>1 DEF Line
<1>3. \A t \in Line(s) : t <= s
  BY <1>1 DEF Line, Lines
<1>4. \A t \in Line(s) : Line(t) \subseteq Line(s)
  BY <1>1 DEF Line, Lines
<1> QED BY <1>2, <1>3, <1>4

LEMMA ChildFacts ==
  ASSUME TypeOK, Lines, Links, NEW p \in Read, NEW i, Imports(p, i)
  PROVE  /\ Child(p, i) \in Read /\ sources[Child(p, i)].above = Line(p)
         /\ p < Child(p, i) /\ i \in DOMAIN sources[p].nodes
         /\ Child(p, i) \notin Line(p)
<1>1. i \in DOMAIN sources[p].nodes
  BY DEF Imports
<1>2. Child(p, i) \in Read /\ sources[Child(p, i)].above = Line(p)
  BY <1>1 DEF Links
<1>3. \A t \in Line(p) : t < Child(p, i)
  BY <1>2 DEF Lines
<1>4. p \in Line(p)
  BY DEF Line
<1>5. Child(p, i) \in Nat
  BY <1>2, SourceFacts
<1> QED BY <1>1, <1>2, <1>3, <1>4, <1>5

\* No two imports in one file lead to the same.
LEMMA OneChild ==
  ASSUME TypeOK, Lines, Links, NEW p \in Read, NEW s \in Read, NEW i, NEW k,
         Imports(p, i), Imports(p, k), Child(p, i) \in Line(s), Child(p, k) \in Line(s)
  PROVE  i = k
<1>1. i \in Nat \ {0} /\ k \in Nat \ {0}
  BY NodesFacts DEF Imports
<1>2. ASSUME NEW a \in Nat \ {0}, NEW b \in Nat \ {0}, a < b, Imports(p, a), Imports(p, b),
             Child(p, a) \in Line(s), Child(p, b) \in Line(s)
      PROVE  FALSE
  <2>1. a \in 1 .. b - 1
    BY <1>2
  <2>2. Child(p, a) < Child(p, b)
    BY <1>2, <2>1 DEF Links, Imports
  <2>3. Child(p, a) \in sources[Child(p, b)].above
    BY <1>2, <2>2 DEF Lines
  <2>4. Child(p, a) \in Line(p)
    BY <1>2, <2>3, ChildFacts
  <2> QED BY <1>2, <2>4, ChildFacts
<1> QED BY <1>1, <1>2

LEMMA PathFacts ==
  ASSUME TypeOK, Tree
  PROVE  /\ Len(stack) \in Nat \ {0} /\ stack # <<>>
         /\ 1 \in Read
         /\ \A j \in 1 .. Len(stack) :
              /\ stack[j].src \in Read /\ stack[j].src \in Nat /\ stack[j].at \in Nat
              /\ Line(stack[j].src) = {stack[k].src : k \in 1 .. j}
         /\ \A j, k \in 1 .. Len(stack) : stack[j].src = stack[k].src => j = k
         /\ \A j, k \in 1 .. Len(stack) : stack[j].src \in Line(stack[k].src) => j <= k
<1>1. stack # <<>> /\ Len(stack) \in Nat \ {0}
  BY FrameFacts, EmptySeq DEF Tree, Path
<1>2. \A j \in 1 .. Len(stack) :
        stack[j].src \in Read /\ stack[j].src \in Nat /\ stack[j].at \in Nat
  BY FrameFacts, SourceFacts
<1>3. 1 \in Read
  BY <1>1, <1>2 DEF Tree, Path
<1>4. \A j, k \in 1 .. Len(stack) : j < k => stack[j].src < stack[k].src
  BY DEF Tree, Path
<1>5. \A j \in 1 .. Len(stack) : Line(stack[j].src) = {stack[k].src : k \in 1 .. j}
  <2>1. TAKE j \in 1 .. Len(stack)
  <2>2. sources[stack[j].src].above = {stack[k].src : k \in 1 .. j - 1}
    BY DEF Tree, Path
  <2>3. 1 .. j = (1 .. j - 1) \cup {j}
    BY <1>1
  <2> QED BY <2>2, <2>3 DEF Line
<1>6. \A j, k \in 1 .. Len(stack) : stack[j].src = stack[k].src => j = k
  <2>1. TAKE j, k \in 1 .. Len(stack)
  <2>2. j < k \/ k < j \/ j = k
    BY <1>1
  <2> QED BY <1>2, <1>4, <2>2
<1>7. \A j, k \in 1 .. Len(stack) : stack[j].src \in Line(stack[k].src) => j <= k
  <2>1. SUFFICES ASSUME NEW j \in 1 .. Len(stack), NEW k \in 1 .. Len(stack),
                        stack[j].src \in Line(stack[k].src)
                 PROVE  j <= k
    OBVIOUS
  <2>2. PICK l \in 1 .. k : stack[j].src = stack[l].src
    BY <1>5, <2>1
  <2>3. l \in 1 .. Len(stack)
    BY <1>1
  <2> QED BY <1>6, <2>2, <2>3
<1> QED BY <1>1, <1>2, <1>3, <1>5, <1>6, <1>7
----------------------------------------------------------------------------
(***************************************************************************)
(* The ways a visitor goes: on in its document, into an import, and back.  *)
(***************************************************************************)
Walk == TypeOK /\ Tree /\ Walking

LEMMA NextNode ==
  ASSUME Walk, Top.at < Len(Nodes)
  PROVE  /\ Top.at + 1 \in DOMAIN sources[Top.src].nodes
         /\ Visited = sources[Top.src].nodes[Top.at + 1] /\ Visited \in Node
         /\ Top.src \in Read /\ Top.at \in Nat /\ Len(stack) \in 1 .. Len(stack)
         /\ Top = stack[Len(stack)]
         /\ Visited.kind = "import" =>
              Imports(Top.src, Top.at + 1) /\ Visited.src = Child(Top.src, Top.at + 1)
<1>1. Top.src \in Read /\ Top.at \in Nat /\ Len(stack) \in 1 .. Len(stack)
  BY FrameFacts DEF Walk, Tree, Path
<1>2. Top.at + 1 \in DOMAIN sources[Top.src].nodes
  BY <1>1, NodesFacts DEF Walk, Nodes
<1>3. Visited = sources[Top.src].nodes[Top.at + 1]
  BY DEF Visited, Nodes
<1>4. Visited \in Node
  BY <1>1, <1>2, <1>3, NodesFacts DEF Walk
<1> QED BY <1>1, <1>2, <1>3, <1>4 DEF Imports, Child, Top

\* On to the next node, without a visit of the file that it imports, if it does.
LEMMA PassOn ==
  ASSUME Walk, SameTree, Top.at < Len(Nodes), stack' = Advanced(stack),
         NEW here, NEW at, here = Top.src, at = Top.at
  PROVE  /\ Tree' /\ Walking'
         /\ \A s \in Read : Ahead(s)' => Ahead(s)
         /\ \A s \in Read : Ahead(s) /\ ~ Ahead(s)' =>
              Visited.kind = "import" /\ Visited.src \in Line(s)
         /\ \A s \in Read, k \in Nat : Passed(s, k) => Passed(s, k)'
         /\ Passed(here, at + 1)'
         /\ Visited.kind # "import" =>
              \A s \in Read, k \in Nat :
                Passed(s, k)' => Passed(s, k) \/ (s = here /\ k = at + 1)
         /\ stack'[1].at = IF InRoot THEN at + 1 ELSE stack[1].at
<1> USE DEF Walk
<1>1. /\ stack' # <<>> /\ Len(stack') = Len(stack) /\ Len(stack) \in Nat \ {0}
      /\ \A j \in 1 .. Len(stack) :
           /\ stack'[j].src = stack[j].src
           /\ stack'[j].at = IF j = Len(stack) THEN stack[j].at + 1 ELSE stack[j].at
  <2>1. /\ stack \in Seq(FrameOf(Len(sources))) /\ Len(sources) \in Nat /\ stack # <<>>
    BY FrameFacts, PathFacts
  <2> QED BY <2>1, AdvancedFacts
<1>2. /\ Lines' /\ Links' /\ Read' = Read
      /\ \A s \in Read : Line(s)' = Line(s) /\ sources'[s].above = sources[s].above
                         /\ sources'[s].nodes = sources[s].nodes
      /\ \A q \in Read : \A i : Imports(q, i)' = Imports(q, i) /\ Child(q, i)' = Child(q, i)
      /\ \A s, q \in Read : Joins(q, s)' = Joins(q, s)
  BY TreeKept DEF Tree, SameTree
<1>3. \A j \in 1 .. Len(stack) : stack[j].src \in Read /\ stack[j].at \in Nat
  BY PathFacts
<1>4. Path'
  <2>1. \A j \in 1 .. Len(stack') :
          sources'[stack'[j].src].above = {stack'[k].src : k \in 1 .. j - 1}
    <3>1. TAKE j \in 1 .. Len(stack')
    <3>2. sources[stack[j].src].above = {stack[k].src : k \in 1 .. j - 1}
      BY <1>1 DEF Tree, Path
    <3>3. {stack'[k].src : k \in 1 .. j - 1} = {stack[k].src : k \in 1 .. j - 1}
      BY <1>1
    <3>4. sources'[stack'[j].src].above = sources[stack[j].src].above
      BY <1>1, <1>2, <1>3
    <3> QED BY <3>2, <3>3, <3>4
  <2>2. \A j, k \in 1 .. Len(stack') : j < k => stack'[j].src < stack'[k].src
    BY <1>1 DEF Tree, Path
  <2>3. stack'[1].src = 1
    BY <1>1 DEF Tree, Path
  <2> QED BY <1>1, <2>1, <2>2, <2>3 DEF Path
<1>5. /\ here \in Read /\ at \in Nat /\ here = stack[Len(stack)].src /\ at = stack[Len(stack)].at
      /\ at + 1 \in DOMAIN sources[here].nodes
  BY NextNode
<1>6. ASSUME NEW s \in Read, NEW j \in 1 .. Len(stack), NEW i
      PROVE  Leads(j, i, s)' <=> Leads(j, i, s) /\ ~ (j = Len(stack) /\ i = at + 1)
  <2>1. Imports(stack[j].src, i) => i \in Nat
    BY <1>3, NodesFacts DEF Imports
  <2>2. Leads(j, i, s)' <=> /\ i > stack'[j].at /\ Imports(stack[j].src, i)
                            /\ Child(stack[j].src, i) \in Line(s)
    BY <1>1, <1>2, <1>3 DEF Leads
  <2>3. Imports(stack[j].src, i) =>
          (i > stack'[j].at <=> i > stack[j].at /\ ~ (j = Len(stack) /\ i = at + 1))
    BY <1>1, <1>3, <1>5, <2>1
  <2> QED BY <2>2, <2>3 DEF Leads
<1>7. \A s \in Read :
        Ahead(s)' <=> \E j \in 1 .. Len(stack) : \E i \in DOMAIN sources[stack[j].src].nodes :
                        Leads(j, i, s)'
  BY <1>1, <1>2, <1>3 DEF Ahead
<1>8. \A s \in Read : Ahead(s)' => Ahead(s)
  BY <1>6, <1>7 DEF Ahead
<1>9. ASSUME NEW s \in Read, Ahead(s), ~ Ahead(s)'
      PROVE  Visited.kind = "import" /\ Visited.src \in Line(s)
  <2>1. Leads(Len(stack), at + 1, s)
    BY <1>6, <1>7, <1>9 DEF Ahead
  <2> QED BY <2>1, <1>5, NextNode DEF Leads, Imports, Child
<1>10. Walking'
  BY <1>1, <1>2, <1>3, <1>8, SourceFacts, ZenonT(40) DEF Walking
<1>11. ASSUME NEW s \in Read, NEW k \in Nat, Passed(s, k)
       PROVE  Passed(s, k)'
  BY <1>1, <1>3, <1>8, <1>11 DEF Passed
<1>12. Passed(here, at + 1)'
  <2>1. ~ Ahead(here)'
    BY <1>1, <1>5, <1>8 DEF Walking
  <2>2. \A j \in 1 .. Len(stack) : stack[j].src = here => j = Len(stack)
    BY <1>1, <1>5, PathFacts
  <2> QED BY <1>1, <1>5, <2>1, <2>2 DEF Passed
<1>13. ASSUME NEW s \in Read, NEW k \in Nat, Visited.kind # "import", Passed(s, k)',
              ~ (s = here /\ k = at + 1)
       PROVE  Passed(s, k)
  <2>1. ~ Ahead(s)
    BY <1>9, <1>13 DEF Passed
  <2>2. \A j \in 1 .. Len(stack) : stack[j].src = s => k <= stack'[j].at
    BY <1>1, <1>13 DEF Passed
  <2>3. ASSUME NEW j \in 1 .. Len(stack), stack[j].src = s
        PROVE  k <= stack[j].at
    <3>1. k <= stack'[j].at
      BY <2>2, <2>3
    <3>2. j # Len(stack) => stack'[j].at = stack[j].at
      BY <1>1
    <3>3. j = Len(stack) => stack'[j].at = at + 1 /\ k # at + 1
      BY <1>1, <1>5, <1>13, <2>3
    <3> QED BY <1>3, <1>5, <3>1, <3>2, <3>3
  <2> QED BY <2>1, <2>3 DEF Passed
<1>14. stack'[1].at = IF InRoot THEN at + 1 ELSE stack[1].at
  BY <1>1, <1>5 DEF InRoot
<1> QED BY <1>2, <1>4, <1>8, <1>9, <1>10, <1>11, <1>12, <1>13, <1>14 DEF Tree

\* Into the file that is imported.
LEMMA GoInto ==
  ASSUME Walk, UNCHANGED <<program, sources>>, Top.at < Len(Nodes),
         Visited.kind = "import", Descend(Visited),
         NEW here, NEW at, NEW v, NEW n,
         here = Top.src, at = Top.at, v = Visited.src, n = Len(stack)
  PROVE  /\ Tree' /\ Walking'
         /\ stack' \in Seq(FrameOf(Len(sources)))
         /\ v \in Read /\ sources[v].above = Line(here) /\ Ahead(v)
         /\ \A s \in Read : Ahead(s)' => Ahead(s)
         /\ \A s \in Read : Ahead(s) /\ ~ Ahead(s)' => s = v
         /\ \A s \in Read, k \in Nat : Passed(s, k) => Passed(s, k)'
         /\ \A s \in Read, k \in Nat \ {0} :
              Passed(s, k)' => Passed(s, k) \/ (s = here /\ k = at + 1)
         /\ stack'[1].at = IF InRoot THEN at + 1 ELSE stack[1].at
<1> USE DEF Walk
<1>1. /\ stack \in Seq(FrameOf(Len(sources))) /\ Len(sources) \in Nat /\ stack # <<>>
      /\ n \in Nat \ {0}
  BY FrameFacts, PathFacts
<1>2. /\ here \in Read /\ at \in Nat /\ here = stack[n].src /\ at = stack[n].at
      /\ at + 1 \in DOMAIN sources[here].nodes /\ Imports(here, at + 1) /\ v = Child(here, at + 1)
  BY NextNode
<1>3. v \in Read /\ sources[v].above = Line(here) /\ here < v /\ v \notin Line(here)
  BY <1>2, ChildFacts DEF Tree
<1>4. /\ stack' \in Seq(FrameOf(Len(sources))) /\ Len(stack') = n + 1
      /\ \A j \in 1 .. n : /\ stack'[j].src = stack[j].src
                           /\ stack'[j].at = IF j = n THEN stack[j].at + 1 ELSE stack[j].at
      /\ stack'[n + 1].src = v /\ stack'[n + 1].at = 0
  <2>1. /\ Advanced(stack) \in Seq(FrameOf(Len(sources))) /\ Len(Advanced(stack)) = n
        /\ \A j \in 1 .. n :
              /\ Advanced(stack)[j].src = stack[j].src
              /\ Advanced(stack)[j].at = IF j = n THEN stack[j].at + 1 ELSE stack[j].at
    BY <1>1, AdvancedFacts
  <2>2. Frame(v) \in FrameOf(Len(sources)) /\ Frame(v).src = v /\ Frame(v).at = 0
    BY <1>3 DEF Frame, FrameOf, Read
  <2>3. stack' = Append(Advanced(stack), Frame(v))
    BY DEF Descend
  <2>4. /\ stack' \in Seq(FrameOf(Len(sources))) /\ Len(stack') = n + 1
        /\ \A j \in 1 .. n : stack'[j] = Advanced(stack)[j]
        /\ stack'[n + 1] = Frame(v)
    BY <2>1, <2>2, <2>3, AppendProperties
  <2> QED BY <2>1, <2>2, <2>4
<1>5. /\ \A j \in 1 .. n : stack[j].src \in Read /\ stack[j].src \in Nat /\ stack[j].at \in Nat
      /\ \A j \in 1 .. n : Line(stack[j].src) = {stack[k].src : k \in 1 .. j}
      /\ \A j, k \in 1 .. n : stack[j].src = stack[k].src => j = k
      /\ \A j, k \in 1 .. n : stack[j].src \in Line(stack[k].src) => j <= k
  BY PathFacts
<1>6. /\ Read' = Read /\ sources' = sources
      /\ \A s : Line(s)' = Line(s)
      /\ \A q, i : Imports(q, i)' = Imports(q, i) /\ Child(q, i)' = Child(q, i)
      /\ \A s, q : Joins(q, s)' = Joins(q, s)
      /\ Lines' /\ Links'
  BY DEF Read, Line, Imports, Child, Joins, Tree, Lines, Links
<1>7. \A j \in 1 .. n + 1 : j \in 1 .. n \/ j = n + 1
  BY <1>1
<1>8. Path'
  <2>1. ASSUME NEW j \in 1 .. Len(stack')
        PROVE  sources'[stack'[j].src].above = {stack'[k].src : k \in 1 .. j - 1}
    <3>1. {stack'[k].src : k \in 1 .. j - 1} = {stack[k].src : k \in 1 .. j - 1}
      BY <1>1, <1>4
    <3>2. CASE j \in 1 .. n
      BY <1>4, <1>6, <3>1, <3>2 DEF Tree, Path
    <3>3. CASE j = n + 1
      <4>1. Line(here) = {stack[k].src : k \in 1 .. n}
        <5>1. n \in 1 .. n
          BY <1>1
        <5>2. Line(stack[n].src) = {stack[k].src : k \in 1 .. n}
          BY <1>5, <5>1
        <5> QED BY <1>2, <5>2
      <4> QED BY <1>1, <1>3, <1>4, <1>6, <3>1, <3>3, <4>1
    <3> QED BY <1>4, <1>7, <3>2, <3>3
  <2>2. ASSUME NEW j \in 1 .. Len(stack'), NEW k \in 1 .. Len(stack'), j < k
        PROVE  stack'[j].src < stack'[k].src
    <3>1. \A a, b \in 1 .. n : a < b => stack[a].src < stack[b].src
      BY DEF Tree, Path
    <3>2. CASE k \in 1 .. n
      BY <1>1, <1>4, <2>2, <3>1, <3>2
    <3>3. CASE k = n + 1
      <4>1. j \in 1 .. n /\ n \in 1 .. n /\ j <= n
        BY <1>1, <1>4, <2>2, <3>3
      <4>2. stack[j].src <= here
        BY <1>2, <1>5, <3>1, <4>1
      <4>3. v \in Nat /\ stack[j].src \in Nat /\ here \in Nat
        BY <1>2, <1>3, <1>5, <4>1 DEF Read
      <4> QED BY <1>3, <1>4, <3>3, <4>1, <4>2, <4>3
    <3> QED BY <1>4, <1>7, <3>2, <3>3
  <2>3. stack'[1].src = 1 /\ stack' # <<>>
    <3>1. 1 \in 1 .. n /\ stack[1].src = 1
      BY <1>1 DEF Tree, Path
    <3> QED BY <1>1, <1>4, <3>1, EmptySeq
  <2> QED BY <2>1, <2>2, <2>3 DEF Path
<1>9. ASSUME NEW s \in Read, NEW j \in 1 .. n, NEW i
      PROVE  Leads(j, i, s)' <=> Leads(j, i, s) /\ ~ (j = n /\ i = at + 1)
  <2>1. Imports(stack[j].src, i) => i \in Nat
    BY <1>5, NodesFacts DEF Imports
  <2>2. Leads(j, i, s)' <=> /\ i > stack'[j].at /\ Imports(stack[j].src, i)
                            /\ Child(stack[j].src, i) \in Line(s)
    BY <1>4, <1>6 DEF Leads
  <2>3. Imports(stack[j].src, i) =>
          (i > stack'[j].at <=> i > stack[j].at /\ ~ (j = n /\ i = at + 1))
    BY <1>1, <1>2, <1>4, <1>5, <2>1
  <2> QED BY <2>2, <2>3 DEF Leads
\* The file that is entered leads on to all of those below it.
<1>10. ASSUME NEW s \in Read, NEW i
       PROVE  Leads(n + 1, i, s)' <=> Imports(v, i) /\ Child(v, i) \in Line(s)
  <2>1. Imports(v, i) => i > 0
    BY <1>3, NodesFacts DEF Imports
  <2> QED BY <1>4, <1>6, <2>1 DEF Leads
<1>11. \A s \in Read :
         Ahead(s)' <=> \/ \E j \in 1 .. n : \E i : Leads(j, i, s)'
                       \/ \E i : Leads(n + 1, i, s)'
  <2>1. \A s, j, i : Leads(j, i, s)' => i \in DOMAIN sources'[stack'[j].src].nodes
    BY DEF Leads, Imports
  <2>2. \A s : Ahead(s)' <=> \E j \in 1 .. n + 1 : \E i : Leads(j, i, s)'
    BY <1>4, <2>1 DEF Ahead
  <2>3. \A j \in 1 .. n : j \in 1 .. n + 1
    BY <1>1
  <2>4. n + 1 \in 1 .. n + 1
    BY <1>1
  <2> QED BY <1>7, <2>2, <2>3, <2>4
<1>12. \A s : Ahead(s) <=> \E j \in 1 .. n : \E i : Leads(j, i, s)
  BY DEF Ahead, Leads, Imports
<1>13. n \in 1 .. n
  BY <1>1
<1>14. \A s \in Read : v \in Line(s) => Ahead(s)
  <2>1. \A s \in Read : v \in Line(s) => Leads(n, at + 1, s)
    BY <1>2 DEF Leads
  <2> QED BY <1>12, <1>13, <2>1
<1>15. ASSUME NEW s \in Read, Ahead(s)' PROVE Ahead(s)
  <2>1. CASE \E j \in 1 .. n : \E i : Leads(j, i, s)'
    BY <1>9, <1>12, <2>1
  <2>2. ASSUME NEW i, Leads(n + 1, i, s)' PROVE Ahead(s)
    <3>1. Imports(v, i) /\ Child(v, i) \in Line(s)
      BY <1>10, <2>2
    <3>2. v \in Line(Child(v, i))
      BY <1>3, <3>1, ChildFacts DEF Tree, Line
    <3>3. v \in Line(s)
      BY <3>1, <3>2, LineFacts DEF Tree
    <3> QED BY <1>14, <3>3
  <2> QED BY <1>11, <1>15, <2>1, <2>2
<1>16. ASSUME NEW s \in Read, Ahead(s), ~ Ahead(s)' PROVE s = v
  <2>0. PICK j \in 1 .. n : \E i : Leads(j, i, s)
    BY <1>12, <1>16
  <2>1. PICK i : Leads(j, i, s)
    BY <2>0
  <2>2. j = n /\ i = at + 1
    BY <1>9, <1>11, <1>16, <2>1
  <2>3. v \in Line(s)
    BY <1>2, <2>1, <2>2 DEF Leads
  <2>4. CASE v \in sources[s].above
    <3>1. Joins(v, s)
      BY <2>4 DEF Walking
    <3>2. PICK k : Imports(v, k) /\ Child(v, k) \in Line(s)
      BY <3>1 DEF Joins
    <3> QED BY <1>10, <1>11, <1>16, <3>2
  <2> QED BY <2>3, <2>4 DEF Line
<1>17. ~ Ahead(v)'
  <2>1. ASSUME NEW j \in 1 .. n, NEW i, Leads(j, i, v)' PROVE FALSE
    <3>1. Leads(j, i, v) /\ ~ (j = n /\ i = at + 1)
      BY <1>3, <1>9, <2>1
    <3>2. Imports(stack[j].src, i) /\ Child(stack[j].src, i) \in Line(v)
      BY <3>1 DEF Leads
    <3>3. Child(stack[j].src, i) \notin Line(here)
      <4>1. Child(stack[j].src, i) \in Line(here) => Leads(j, i, here)
        BY <3>1 DEF Leads
      <4>2. ~ Ahead(here)
        BY <1>2, <1>13 DEF Walking
      <4> QED BY <1>12, <4>1, <4>2
    <3>4. Child(stack[j].src, i) = v
      BY <1>3, <3>2, <3>3 DEF Line
    <3>5. Line(here) = Line(stack[j].src)
      BY <1>3, <1>5, <3>2, <3>4, ChildFacts DEF Tree
    <3>6. here \in Line(stack[j].src)
      BY <3>5 DEF Line
    <3>7. j = n
      BY <1>1, <1>2, <1>5, <1>13, <3>6
    <3>8. i = at + 1
      BY <1>2, <1>3, <3>2, <3>4, <3>7, OneChild DEF Tree, Line
    <3> QED BY <3>1, <3>7, <3>8
  <2>2. ASSUME NEW i, Leads(n + 1, i, v)' PROVE FALSE
    <3>1. Imports(v, i) /\ Child(v, i) \in Line(v)
      BY <1>3, <1>10, <2>2
    <3> QED BY <1>3, <3>1, ChildFacts DEF Tree
  <2> QED BY <1>3, <1>11, <2>1, <2>2
<1>18. Walking'
  <2>1. \A s \in Read' : \A q \in sources'[s].above : Joins(q, s)'
    BY <1>6 DEF Walking
  <2>2. \A s \in Read, j \in 1 .. n : s = stack[j].src => ~ Ahead(s)'
    BY <1>15 DEF Walking
  <2>3. ASSUME NEW s \in Read, NEW j \in 1 .. Len(stack'), s = stack'[j].src
        PROVE  ~ Ahead(s)'
    <3>1. CASE j \in 1 .. n
      BY <1>4, <2>2, <2>3, <3>1
    <3>2. CASE j = n + 1
      BY <1>4, <1>17, <2>3, <3>2
    <3> QED BY <1>4, <1>7, <3>1, <3>2
  <2>4. \A j \in 1 .. Len(stack') : stack'[j].src \in Read
    BY <1>3, <1>4, <1>5, <1>7
  <2> QED BY <2>1, <2>3, <2>4 DEF Walking
<1>19. ASSUME NEW s \in Read, NEW k \in Nat, Passed(s, k) PROVE Passed(s, k)'
  <2>1. ~ Ahead(s) /\ \A j \in 1 .. n : stack[j].src = s => k <= stack[j].at
    BY <1>19 DEF Passed
  <2>2. s # v
    BY <1>3, <1>14, <2>1 DEF Line
  <2>3. \A j \in 1 .. n : stack'[j].src = s => k <= stack'[j].at
    BY <1>4, <1>5, <2>1
  <2>4. \A j \in 1 .. Len(stack') : stack'[j].src = s => k <= stack'[j].at
    BY <1>4, <1>7, <2>2, <2>3
  <2> QED BY <1>15, <2>1, <2>4 DEF Passed
<1>20. ASSUME NEW s \in Read, NEW k \in Nat \ {0}, Passed(s, k)', ~ (s = here /\ k = at + 1)
       PROVE  Passed(s, k)
  <2>1. ~ Ahead(s)' /\ \A j \in 1 .. Len(stack') : stack'[j].src = s => k <= stack'[j].at
    BY <1>20 DEF Passed
  <2>2. s # v
    <3>1. n + 1 \in 1 .. Len(stack')
      BY <1>1, <1>4
    <3> QED BY <1>4, <2>1, <3>1
  <2>3. ~ Ahead(s)
    BY <1>16, <2>1, <2>2
  <2>4. ASSUME NEW j \in 1 .. n, stack[j].src = s PROVE k <= stack[j].at
    <3>1. j \in 1 .. Len(stack')
      BY <1>1, <1>4
    <3>2. k <= stack'[j].at
      BY <1>4, <2>1, <2>4, <3>1
    <3>3. j # n => stack'[j].at = stack[j].at
      BY <1>4
    <3>4. j = n => stack'[j].at = at + 1 /\ k # at + 1
      BY <1>2, <1>4, <1>20, <2>4
    <3> QED BY <1>2, <1>5, <3>2, <3>3, <3>4
  <2> QED BY <2>3, <2>4 DEF Passed
<1>21. stack'[1].at = IF InRoot THEN at + 1 ELSE stack[1].at
  <2>1. 1 \in 1 .. n
    BY <1>1
  <2> QED BY <1>2, <1>4, <2>1 DEF InRoot
<1>22. Ahead(v)
  BY <1>3, <1>14 DEF Line
<1> QED BY <1>3, <1>4, <1>6, <1>8, <1>15, <1>16, <1>18, <1>19, <1>20, <1>21, <1>22 DEF Tree

\* At the end of an imported document, back to the one that imports it.
LEMMA GoBack ==
  ASSUME Walk, SameTree, Top.at = Len(Nodes), ~ InRoot, stack' = Outer
  PROVE  /\ Tree' /\ Walking'
         /\ stack' \in Seq(FrameOf(Len(sources)))
         /\ \A s \in Read : Ahead(s)' <=> Ahead(s)
         /\ \A s \in Read, k \in Nat : Passed(s, k) => Passed(s, k)'
         /\ \A s \in Read : \A k \in DOMAIN sources[s].nodes : Passed(s, k)' => Passed(s, k)
         /\ stack'[1].at = stack[1].at
<1> USE DEF Walk
<1>1. /\ Len(stack) \in Nat /\ Len(stack) > 1 /\ stack # <<>>
      /\ Top.src \in Read /\ Top.at \in Nat /\ Top = stack[Len(stack)]
  <2>1. Len(stack) \in Nat \ {0} /\ stack # <<>>
    BY PathFacts
  <2>2. Top.src \in Read /\ Top.at \in Nat
    BY <2>1, FrameFacts
  <2>3. Len(stack) # 1
    BY DEF InRoot
  <2>4. Len(stack) > 1
    <3>1. \A n \in Nat \ {0} : n # 1 => n > 1
      OBVIOUS
    <3> QED BY <2>1, <2>3, <3>1
  <2>5. Top = stack[Len(stack)]
    BY DEF Top
  <2> QED BY <2>1, <2>2, <2>4, <2>5
<1>2. /\ stack' \in Seq(FrameOf(Len(sources))) /\ Len(stack') = Len(stack) - 1
      /\ \A j \in 1 .. Len(stack) - 1 : stack'[j] = stack[j]
  BY <1>1, OuterFacts
<1>3. /\ Lines' /\ Links' /\ Read' = Read
      /\ \A s \in Read : Line(s)' = Line(s) /\ sources'[s].above = sources[s].above
                         /\ sources'[s].nodes = sources[s].nodes
      /\ \A q \in Read : \A i : Imports(q, i)' = Imports(q, i) /\ Child(q, i)' = Child(q, i)
      /\ \A s, q \in Read : Joins(q, s)' = Joins(q, s)
  BY TreeKept DEF Tree, SameTree
<1>4. \A j \in 1 .. Len(stack) : stack[j].src \in Read /\ stack[j].at \in Nat
  BY PathFacts
<1>5. Path'
  <2>1. ASSUME NEW j \in 1 .. Len(stack')
        PROVE  sources'[stack'[j].src].above = {stack'[k].src : k \in 1 .. j - 1}
    <3>1. {stack'[k].src : k \in 1 .. j - 1} = {stack[k].src : k \in 1 .. j - 1}
      BY <1>1, <1>2
    <3>2. j \in 1 .. Len(stack)
      BY <1>1, <1>2
    <3>3. sources'[stack'[j].src].above = sources[stack[j].src].above
      BY <1>2, <1>3, <1>4, <3>2
    <3> QED BY <3>1, <3>2, <3>3 DEF Tree, Path
  <2>2. \A j, k \in 1 .. Len(stack') : j < k => stack'[j].src < stack'[k].src
    <3>1. \A j \in 1 .. Len(stack') : j \in 1 .. Len(stack)
      BY <1>1, <1>2
    <3> QED BY <1>2, <3>1 DEF Tree, Path
  <2>3. stack'[1].src = 1 /\ stack' # <<>>
    <3>1. 1 \in 1 .. Len(stack) - 1 /\ stack[1].src = 1
      BY <1>1 DEF Tree, Path
    <3> QED BY <1>1, <1>2, <3>1, EmptySeq
  <2> QED BY <2>1, <2>2, <2>3 DEF Path
<1>6. ASSUME NEW s \in Read, NEW j \in 1 .. Len(stack) - 1, NEW i
      PROVE  Leads(j, i, s)' <=> Leads(j, i, s)
  <2>1. stack[j].src \in Read /\ stack'[j] = stack[j]
    BY <1>1, <1>2, <1>4
  <2> QED BY <1>3, <2>1 DEF Leads
<1>7. ASSUME NEW s, NEW i, Leads(Len(stack), i, s) PROVE FALSE
  <2>1. i \in DOMAIN sources[Top.src].nodes /\ i > Top.at
    BY <1>1, <1>7 DEF Leads, Imports
  <2> QED BY <1>1, <2>1, NodesFacts DEF Nodes
<1>8. ASSUME NEW s \in Read PROVE Ahead(s)' <=> Ahead(s)
  <2>1. Ahead(s)' <=> \E j \in 1 .. Len(stack) - 1 : \E i : Leads(j, i, s)'
    BY <1>2 DEF Ahead, Leads, Imports
  <2>2. Ahead(s) <=> \E j \in 1 .. Len(stack) : \E i : Leads(j, i, s)
    BY DEF Ahead, Leads, Imports
  <2>3. \A j \in 1 .. Len(stack) : j \in 1 .. Len(stack) - 1 \/ j = Len(stack)
    BY <1>1
  <2>4. \A j \in 1 .. Len(stack) - 1 : j \in 1 .. Len(stack)
    BY <1>1
  <2> QED BY <1>6, <1>7, <2>1, <2>2, <2>3, <2>4
<1>9. Walking'
  <2>1. ASSUME NEW s \in Read, NEW j \in 1 .. Len(stack'), s = stack'[j].src
        PROVE  ~ Ahead(s)'
    <3>1. j \in 1 .. Len(stack) /\ s = stack[j].src
      BY <1>1, <1>2, <2>1
    <3> QED BY <1>8, <3>1 DEF Walking
  <2>2. \A j \in 1 .. Len(stack') : stack'[j].src \in Read
    BY <1>1, <1>2, <1>4
  <2> QED BY <1>3, <2>1, <2>2, SourceFacts DEF Walking
<1>10. ASSUME NEW s \in Read, NEW k \in Nat, Passed(s, k) PROVE Passed(s, k)'
  BY <1>1, <1>2, <1>8, <1>10 DEF Passed
<1>11. ASSUME NEW s \in Read, NEW k \in DOMAIN sources[s].nodes, Passed(s, k)' PROVE Passed(s, k)
  <2>1. ~ Ahead(s) /\ \A j \in 1 .. Len(stack) - 1 : stack[j].src = s => k <= stack[j].at
    BY <1>2, <1>8, <1>11 DEF Passed
  <2>2. stack[Len(stack)].src = s => k <= stack[Len(stack)].at
    BY <1>1, NodesFacts DEF Nodes
  <2>3. \A j \in 1 .. Len(stack) : j \in 1 .. Len(stack) - 1 \/ j = Len(stack)
    BY <1>1
  <2> QED BY <2>1, <2>2, <2>3 DEF Passed
<1>12. stack'[1].at = stack[1].at
  BY <1>1, <1>2
<1> QED BY <1>2, <1>3, <1>5, <1>8, <1>9, <1>10, <1>11, <1>12 DEF Tree

\* From the beginning of the root everything but the root is ahead.
LEMMA FromRoot ==
  ASSUME TypeOK, Tree, SameTree, stack' = <<Frame(1)>>,
         \A s \in Read : \A q \in sources[s].above : Joins(q, s)
  PROVE  /\ Tree' /\ Walking'
         /\ stack' \in Seq(FrameOf(Len(sources))) /\ stack' # <<>>
         /\ \A s \in Read : s # 1 => Ahead(s)'
         /\ \A k \in Nat \ {0} : ~ Passed(1, k)' /\ ~ (k <= stack'[1].at)
         /\ sources[1].above = {}
<1>1. /\ Lines' /\ Links' /\ Read' = Read
      /\ \A s \in Read : Line(s)' = Line(s) /\ sources'[s].above = sources[s].above
                         /\ sources'[s].nodes = sources[s].nodes
      /\ \A q \in Read : \A i : Imports(q, i)' = Imports(q, i) /\ Child(q, i)' = Child(q, i)
      /\ \A s, q \in Read : Joins(q, s)' = Joins(q, s)
  BY TreeKept DEF Tree, SameTree
<1>2. 1 \in Read /\ Len(sources) \in Nat
  BY PathFacts, FrameFacts
<1>3. /\ Frame(1) \in FrameOf(Len(sources)) /\ Frame(1).src = 1 /\ Frame(1).at = 0
  BY <1>2 DEF Frame, FrameOf, Read
<1>4. /\ stack' \in Seq(FrameOf(Len(sources))) /\ stack' # <<>> /\ Len(stack') = 1
      /\ stack'[1].src = 1 /\ stack'[1].at = 0
  BY <1>3
<1>5. \A j \in 1 .. Len(stack') : j = 1
  BY <1>4
<1>6. sources[1].above = {}
  <2>1. sources[stack[1].src].above = {stack[k].src : k \in 1 .. 0}
    BY DEF Tree, Path
  <2> QED BY <2>1 DEF Tree, Path
<1>7. Path'
  <2>1. sources'[stack'[1].src].above = {stack'[k].src : k \in 1 .. 0}
    BY <1>1, <1>2, <1>4, <1>6
  <2> QED BY <1>4, <1>5, <2>1 DEF Path
<1>8. \A s \in Read : Ahead(s)' <=> \E i : Imports(1, i) /\ Child(1, i) \in Line(s)
  <2>1. \A s, j, i : Leads(j, i, s)' => i \in DOMAIN sources'[stack'[j].src].nodes
    BY DEF Leads, Imports
  <2>2. \A s : Ahead(s)' <=> \E i : Leads(1, i, s)'
    BY <1>4, <1>5, <2>1 DEF Ahead
  <2>3. \A i : Imports(1, i) => i > 0
    BY <1>2, NodesFacts DEF Imports
  <2>4. \A s \in Read : \A i : Leads(1, i, s)' <=> Imports(1, i) /\ Child(1, i) \in Line(s)
    BY <1>1, <1>2, <1>4, <2>3 DEF Leads
  <2> QED BY <2>2, <2>4
<1>9. ~ Ahead(1)'
  <2>1. \A i : Imports(1, i) => Child(1, i) \notin Line(1)
    BY <1>2, ChildFacts DEF Tree
  <2> QED BY <1>2, <1>8, <2>1
<1>10. \A s \in Read : s # 1 => Ahead(s)'
  <2>1. \A s \in Read : s # 1 => 1 \in sources[s].above
    BY DEF Tree, Lines, Line
  <2> QED BY <1>8, <2>1 DEF Joins
<1>11. Walking'
  <2>1. ASSUME NEW s, NEW j \in 1 .. Len(stack'), s = stack'[j].src
        PROVE  ~ Ahead(s)'
    BY <1>4, <1>5, <1>9, <2>1
  <2> QED BY <1>1, <2>1, SourceFacts DEF Walking
<1>12. ASSUME NEW k \in Nat \ {0} PROVE ~ Passed(1, k)' /\ ~ (k <= stack'[1].at)
  BY <1>4 DEF Passed
<1> QED BY <1>1, <1>4, <1>6, <1>7, <1>10, <1>11, <1>12 DEF Tree
----------------------------------------------------------------------------
(***************************************************************************)
(* Parsing builds the tree: the documents on the stack are not yet nodes   *)
(* of those that import them.                                              *)
(***************************************************************************)
Parsing ==
  /\ \A s \in Read : sources[s].messages \subseteq {"syntax"}
  /\ \A j \in 1 .. Len(stack) - 1 : \A i :
       Imports(stack[j].src, i) => Child(stack[j].src, i) < stack[j + 1].src
  /\ \A s \in Read : \A p \in sources[s].above :
       \/ Joins(p, s)
       \/ \E j \in 1 .. Len(stack) - 1 : p = stack[j].src /\ stack[j + 1].src \in Line(s)

LEMMA ItemFacts ==
  ASSUME TypeOK, program \in Programs, stack # <<>>, Top.at < Len(Text)
  PROVE  /\ Next_item \in Item
         /\ Next_item.kind \in {"function", "extern", "struct"} => Next_item \in Node
         /\ Next_item.kind = "import" => Next_item.file \in Files
<1>1. Top.src \in Read /\ Top.at \in Nat
  BY FrameFacts
<1>2. sources[Top.src].file \in DOMAIN program
  BY <1>1, SourceFacts
<1>3. Text \in Seq(Item)
  BY <1>2, ProgramsAssumption DEF Text
<1>4. Len(Text) \in Nat
  BY <1>3, LenProperties
<1>5. Top.at + 1 \in 1 .. Len(Text)
  BY <1>1, <1>4
<1>6. Next_item \in Item
  BY <1>3, <1>5, ElementOfSeq DEF Next_item
<1>7. \A x \in Item : x.kind \in {"function", "extern", "struct"} => x \in Node
  BY DEF Item
<1>8. \A x \in Item : x.kind = "import" => x.file \in Files
  BY DEF Item
<1> HIDE DEF Next_item
<1> QED BY <1>6, <1>7, <1>8

\* Only what is imported makes the tree.
LEMMA TreeAlike ==
  ASSUME TypeOK, Read' = Read,
         \A s \in Read : sources'[s].above = sources[s].above,
         \A p \in Read : \A i : /\ Imports(p, i)' <=> Imports(p, i)
                                /\ Imports(p, i) => Child(p, i)' = Child(p, i)
  PROVE  /\ \A s \in Read : Line(s)' = Line(s)
         /\ \A s, p \in Read : Joins(p, s)' <=> Joins(p, s)
         /\ Lines => Lines'
         /\ Links => Links'
<1>1. \A s \in Read : Line(s)' = Line(s)
  BY DEF Line
<1>2. \A s, p \in Read : Joins(p, s)' <=> Joins(p, s)
  BY <1>1 DEF Joins, Imports
<1>3. \A s \in Read : sources[s].above \subseteq Read
  BY SourceFacts
<1>4. Lines => Lines'
  <2>1. SUFFICES ASSUME Lines, NEW s \in Read
                 PROVE  /\ \A t \in sources'[s].above :
                             t < s /\ sources'[t].above \subseteq sources'[s].above
                        /\ 1 \in Line(s)'
                        /\ \A t, u \in Line(s)' : t < u => t \in sources'[u].above
    BY DEF Lines
  <2>2. \A t \in Line(s) : t \in Read
    BY <1>3 DEF Line
  <2> QED BY <1>1, <1>3, <2>1, <2>2 DEF Lines
<1>5. Links => Links'
  <2>1. SUFFICES ASSUME Links, NEW p \in Read, NEW i, Imports(p, i)
                 PROVE  /\ Child(p, i) \in Read /\ sources'[Child(p, i)].above = Line(p)'
                        /\ \A k \in 1 .. i - 1 : Imports(p, k)' => Child(p, k)' < Child(p, i)
    BY DEF Links
  <2>2. /\ Child(p, i) \in Read /\ sources[Child(p, i)].above = Line(p)
        /\ \A k \in 1 .. i - 1 : Imports(p, k) => Child(p, k) < Child(p, i)
    BY <2>1 DEF Links, Imports
  <2> QED BY <1>1, <2>2
<1> QED BY <1>1, <1>2, <1>4, <1>5

\* Messages and nodes that import nothing.
LEMMA ParseOn ==
  ASSUME TypeOK, Tree, Parsing,
         sources' \in Seq(SourceOf(Len(sources))), Len(sources') = Len(sources),
         stack' \in {Advanced(stack), stack},
         \A s \in Read : sources'[s].above = sources[s].above,
         \A s \in Read : sources'[s].messages \subseteq {"syntax"},
         \A p \in Read : \A i : /\ Imports(p, i)' <=> Imports(p, i)
                                /\ Imports(p, i) => Child(p, i)' = Child(p, i)
  PROVE  Tree' /\ Parsing' /\ stack' \in Seq(FrameOf(Len(sources))) /\ stack' # <<>>
<1>1. /\ stack' \in Seq(FrameOf(Len(sources))) /\ stack' # <<>> /\ Len(stack') = Len(stack)
      /\ Len(stack) \in Nat \ {0}
      /\ \A j \in 1 .. Len(stack) : stack'[j].src = stack[j].src
  <2>1. stack \in Seq(FrameOf(Len(sources))) /\ Len(sources) \in Nat /\ stack # <<>>
    BY FrameFacts, PathFacts
  <2>2. CASE stack' = Advanced(stack)
    BY <2>1, <2>2, AdvancedFacts
  <2>3. CASE stack' = stack
    BY <2>1, <2>3, LenProperties, EmptySeq
  <2> QED BY <2>2, <2>3
<1>2. Read' = Read
  BY DEF Read
<1>3. /\ \A s \in Read : Line(s)' = Line(s)
      /\ \A s, p \in Read : Joins(p, s)' <=> Joins(p, s)
      /\ Lines' /\ Links'
  BY <1>2, TreeAlike DEF Tree
<1>4. \A j \in 1 .. Len(stack) : stack[j].src \in Read
  BY FrameFacts
<1>5. Path'
  <2>1. ASSUME NEW j \in 1 .. Len(stack')
        PROVE  sources'[stack'[j].src].above = {stack'[k].src : k \in 1 .. j - 1}
    <3>1. {stack'[k].src : k \in 1 .. j - 1} = {stack[k].src : k \in 1 .. j - 1}
      BY <1>1
    <3>2. sources'[stack'[j].src].above = sources[stack[j].src].above
      BY <1>1, <1>4
    <3> QED BY <1>1, <3>1, <3>2 DEF Tree, Path
  <2>2. \A j, k \in 1 .. Len(stack') : j < k => stack'[j].src < stack'[k].src
    BY <1>1 DEF Tree, Path
  <2>3. stack'[1].src = 1
    BY <1>1 DEF Tree, Path
  <2> QED BY <1>1, <2>1, <2>2, <2>3 DEF Path
<1>6. \A j \in 1 .. Len(stack) - 1 : stack'[j].src = stack[j].src /\ stack'[j + 1].src = stack[j + 1].src
                                    /\ stack[j].src \in Read
  BY <1>1, <1>4
<1>7. Parsing'
  <2>1. ASSUME NEW j \in 1 .. Len(stack') - 1, NEW p, p = stack'[j].src, NEW i, Imports(p, i)'
        PROVE  Child(p, i)' < stack'[j + 1].src
    <3>1. p = stack[j].src /\ p \in Read /\ stack'[j + 1].src = stack[j + 1].src
      BY <1>1, <1>6, <2>1
    <3>2. Imports(p, i) /\ Child(p, i)' = Child(p, i)
      BY <2>1, <3>1
    <3>3. \A l \in 1 .. Len(stack) - 1 : \A q, k :
            q = stack[l].src /\ Imports(q, k) => Child(q, k) < stack[l + 1].src
      BY DEF Parsing
    <3>4. j \in 1 .. Len(stack) - 1
      BY <1>1
    <3>5. Child(p, i) < stack[j + 1].src
      BY <3>1, <3>2, <3>3, <3>4
    <3> QED BY <3>1, <3>2, <3>5
  <2>2. ASSUME NEW s \in Read, NEW p \in sources[s].above
        PROVE  \/ Joins(p, s)'
               \/ \E j \in 1 .. Len(stack') - 1 : p = stack'[j].src /\ stack'[j + 1].src \in Line(s)'
    <3>1. p \in Read
      BY SourceFacts
    <3>2. \/ Joins(p, s)
          \/ \E j \in 1 .. Len(stack) - 1 : p = stack[j].src /\ stack[j + 1].src \in Line(s)
      BY DEF Parsing
    <3> QED BY <1>1, <1>3, <1>6, <3>1, <3>2
  <2>3. (\A j \in 1 .. Len(stack) - 1 : \A i :
          Imports(stack[j].src, i) => Child(stack[j].src, i) < stack[j + 1].src)'
    <3>1. TAKE j \in 1 .. Len(stack') - 1
    <3>2. PICK p : p = stack'[j].src
      OBVIOUS
    <3> QED BY <2>1, <3>2
  <2>4. (\A s \in Read : \A p \in sources[s].above :
          \/ Joins(p, s)
          \/ \E j \in 1 .. Len(stack) - 1 : p = stack[j].src /\ stack[j + 1].src \in Line(s))'
    BY <1>2, <2>2
  <2> QED BY <1>2, <2>3, <2>4 DEF Parsing
<1> QED BY <1>1, <1>3, <1>5, <1>7 DEF Tree

\* A file that is imported is parsed inside the one that imports it.
LEMMA ParseInto ==
  ASSUME TypeOK, Tree, Parsing, NEW f \in DOMAIN program, program' = program,
         Open(f, sources[Top.src].above \cup {Top.src})
  PROVE  /\ Tree' /\ Parsing'
         /\ sources' \in Seq(SourceOf(Len(sources'))) /\ stack' \in Seq(FrameOf(Len(sources')))
         /\ stack' # <<>> /\ Read \subseteq Read'
<1> DEFINE x == [file |-> f, above |-> sources[Top.src].above \cup {Top.src},
                 nodes |-> <<>>, messages |-> {}]
<1>1. PICK here, v, n : here = Top.src /\ v = Len(sources) + 1 /\ n = Len(stack)
  OBVIOUS
<1>2. /\ sources \in Seq(SourceOf(Len(sources))) /\ Len(sources) \in Nat
      /\ stack \in Seq(FrameOf(Len(sources)))
      /\ n \in Nat \ {0} /\ here \in Read /\ here = stack[n].src
  BY <1>1, FrameFacts, PathFacts, SourceFacts DEF Top
<1>3. Line(here) \subseteq Read /\ Line(here) = sources[here].above \cup {here}
  BY <1>2, LineFacts DEF Tree, Line
<1>4. v \in Nat /\ \A s \in Read : s \in Nat /\ s < v /\ s \in 1 .. v
  BY <1>1, <1>2 DEF Read
<1>5. x \in SourceOf(v)
  BY <1>1, <1>3, <1>4 DEF SourceOf
<1>6. sources \in Seq(SourceOf(v)) /\ stack \in Seq(FrameOf(v))
  <2>1. SourceOf(Len(sources)) \subseteq SourceOf(v)
    BY <1>1, <1>2 DEF SourceOf
  <2>2. FrameOf(Len(sources)) \subseteq FrameOf(v)
    BY <1>1, <1>2 DEF FrameOf
  <2> QED BY <1>2, <2>1, <2>2, SeqMonotonic
<1>7. sources' = Append(sources, x)
  BY DEF Open
<1>8. x.above = Line(here) /\ x.nodes = <<>> /\ x.messages = {}
  BY <1>1, <1>3
<1> HIDE DEF x
<1>9. /\ sources' \in Seq(SourceOf(v)) /\ Len(sources') = v
      /\ \A s \in Read : sources'[s] = sources[s]
      /\ sources'[v] = x
  BY <1>1, <1>5, <1>6, <1>7, AppendProperties DEF Read
<1>10. Frame(v) \in FrameOf(v) /\ Frame(v).src = v
  BY <1>1, <1>2 DEF Frame, FrameOf
<1>11. /\ stack' \in Seq(FrameOf(v)) /\ stack' # <<>> /\ Len(stack') = n + 1
       /\ \A j \in 1 .. n : stack'[j] = stack[j]
       /\ stack'[n + 1].src = v
  <2>1. stack' = Append(stack, Frame(v))
    BY <1>1 DEF Open
  <2> QED BY <1>1, <1>6, <1>10, <2>1, AppendProperties
<1>12. /\ Read \subseteq Read' /\ v \in Read' /\ \A s \in Read' : s \in Read \/ s = v
  BY <1>1, <1>2, <1>9 DEF Read
<1>13. /\ \A s \in Read : Line(s)' = Line(s) /\ sources'[s] = sources[s]
       /\ Line(v)' = {v} \cup Line(here) /\ sources'[v].above = Line(here)
  BY <1>8, <1>9 DEF Line
<1>14. /\ \A q \in Read : \A i : Imports(q, i)' = Imports(q, i) /\ Child(q, i)' = Child(q, i)
       /\ \A i : ~ Imports(v, i)'
       /\ \A q, s \in Read : Joins(q, s)' = Joins(q, s)
  BY <1>8, <1>9, <1>13 DEF Imports, Child, Joins
<1>15. /\ \A j \in 1 .. n : stack[j].src \in Read
       /\ \A j \in 1 .. n : Line(stack[j].src) = {stack[k].src : k \in 1 .. j}
  BY <1>1, PathFacts
<1>16. Line(here) = {stack[k].src : k \in 1 .. n}
  <2>1. n \in 1 .. n
    BY <1>2
  <2>2. Line(stack[n].src) = {stack[k].src : k \in 1 .. n}
    BY <1>15, <2>1
  <2> QED BY <1>2, <2>2
<1>17. Lines'
  <2>1. ASSUME NEW s \in Read
        PROVE  /\ \A t \in sources'[s].above :
                    t < s /\ sources'[t].above \subseteq sources'[s].above
               /\ 1 \in Line(s)'
               /\ \A t, u \in Line(s)' : t < u => t \in sources'[u].above
    <3>1. Line(s) \subseteq Read /\ sources[s].above \subseteq Line(s)
      BY LineFacts DEF Tree, Line
    <3> QED BY <1>13, <3>1 DEF Tree, Lines
  <2>2. \A t \in Line(here) : t < v /\ sources'[t].above \subseteq Line(here)
    <3>1. \A t \in Line(here) : sources[t].above \subseteq Line(here)
      BY <1>2, LineFacts DEF Tree, Line
    <3> QED BY <1>3, <1>4, <1>13, <3>1
  <2>3. 1 \in Line(here)
    BY <1>2 DEF Tree, Lines
  <2>4. ASSUME NEW t \in Line(v)', NEW u \in Line(v)', t < u
        PROVE  t \in sources'[u].above
    <3>1. t # v
      BY <1>3, <1>4, <1>13, <2>4
    <3>2. CASE u = v
      BY <1>13, <2>4, <3>1, <3>2
    <3>3. CASE u # v
      BY <1>2, <1>3, <1>13, <2>4, <3>1, <3>3 DEF Tree, Lines
    <3> QED BY <3>2, <3>3
  <2> QED BY <1>12, <1>13, <2>1, <2>2, <2>3, <2>4 DEF Lines
<1>18. Links'
  <2>1. ASSUME NEW q \in Read', NEW i, Imports(q, i)'
        PROVE  /\ Child(q, i)' \in Read'
               /\ sources'[Child(q, i)'].above = Line(q)'
               /\ \A k \in 1 .. i - 1 : Imports(q, k)' => Child(q, k)' < Child(q, i)'
    <3>1. q \in Read /\ Imports(q, i)
      BY <1>12, <1>14, <2>1
    <3>2. /\ Child(q, i) \in Read /\ sources[Child(q, i)].above = Line(q)
          /\ \A k \in 1 .. i - 1 : Imports(q, k) => Child(q, k) < Child(q, i)
      BY <3>1 DEF Tree, Links, Imports
    <3> QED BY <1>12, <1>13, <1>14, <3>1, <3>2
  <2> QED BY <2>1 DEF Links
<1>19. \A j \in 1 .. n + 1 : j \in 1 .. n \/ j = n + 1
  BY <1>2
<1>20. Path'
  <2>1. ASSUME NEW j \in 1 .. Len(stack')
        PROVE  sources'[stack'[j].src].above = {stack'[k].src : k \in 1 .. j - 1}
    <3>1. {stack'[k].src : k \in 1 .. j - 1} = {stack[k].src : k \in 1 .. j - 1}
      BY <1>2, <1>11
    <3>2. CASE j \in 1 .. n
      <4>1. sources'[stack'[j].src].above = sources[stack[j].src].above
        BY <1>11, <1>13, <1>15, <3>2
      <4> QED BY <1>1, <3>1, <3>2, <4>1 DEF Tree, Path
    <3>3. CASE j = n + 1
      <4>1. sources'[stack'[j].src].above = Line(here)
        BY <1>11, <1>13, <3>3
      <4>2. j - 1 = n
        BY <1>2, <3>3
      <4> QED BY <1>16, <3>1, <4>1, <4>2
    <3> QED BY <1>11, <1>19, <3>2, <3>3
  <2>2. ASSUME NEW j \in 1 .. Len(stack'), NEW k \in 1 .. Len(stack'), j < k
        PROVE  stack'[j].src < stack'[k].src
    <3>1. CASE k \in 1 .. n
      BY <1>1, <1>2, <1>11, <2>2, <3>1 DEF Tree, Path
    <3>2. CASE k = n + 1
      <4>1. j \in 1 .. n
        BY <1>2, <1>11, <2>2, <3>2
      <4> QED BY <1>4, <1>11, <1>15, <3>2, <4>1
    <3> QED BY <1>11, <1>19, <3>1, <3>2
  <2>3. stack'[1].src = 1
    <3>1. 1 \in 1 .. n /\ stack[1].src = 1
      BY <1>2 DEF Tree, Path
    <3> QED BY <1>11, <3>1
  <2> QED BY <1>11, <2>1, <2>2, <2>3 DEF Path
<1>21. Parsing'
  <2>1. \A s \in Read' : sources'[s].messages \subseteq {"syntax"}
    BY <1>8, <1>9, <1>12 DEF Parsing
  <2>2. ASSUME NEW j \in 1 .. Len(stack') - 1, NEW q, q = stack'[j].src, NEW i, Imports(q, i)'
        PROVE  Child(q, i)' < stack'[j + 1].src
    <3>1. j \in 1 .. n
      BY <1>2, <1>11
    <3>2. q = stack[j].src /\ q \in Read /\ Imports(q, i) /\ Child(q, i)' = Child(q, i)
      BY <1>11, <1>14, <1>15, <2>2, <3>1
    <3>3. CASE j = n
      <4>1. Child(q, i) \in Read
        BY <3>2, ChildFacts DEF Tree
      <4> QED BY <1>4, <1>11, <3>2, <3>3, <4>1
    <3>4. CASE j # n
      <4>1. j \in 1 .. Len(stack) - 1 /\ j + 1 \in 1 .. n
        BY <1>1, <1>2, <3>1, <3>4
      <4>2. \A l \in 1 .. Len(stack) - 1 : \A p, k :
              p = stack[l].src /\ Imports(p, k) => Child(p, k) < stack[l + 1].src
        BY DEF Parsing
      <4> QED BY <1>11, <3>2, <4>1, <4>2
    <3> QED BY <3>3, <3>4
  <2>3. ASSUME NEW s \in Read', NEW q \in sources'[s].above
        PROVE  \/ Joins(q, s)'
               \/ \E j \in 1 .. Len(stack') - 1 : q = stack'[j].src /\ stack'[j + 1].src \in Line(s)'
    <3>1. CASE s \in Read
      <4>1. q \in Read /\ q \in sources[s].above
        BY <1>13, <2>3, <3>1, SourceFacts
      <4>2. CASE Joins(q, s)
        BY <1>14, <3>1, <4>1, <4>2
      <4>3. CASE \E j \in 1 .. Len(stack) - 1 : q = stack[j].src /\ stack[j + 1].src \in Line(s)
        <5>1. PICK j \in 1 .. Len(stack) - 1 : q = stack[j].src /\ stack[j + 1].src \in Line(s)
          BY <4>3
        <5>2. j \in 1 .. n /\ j + 1 \in 1 .. n /\ j \in 1 .. Len(stack') - 1
          BY <1>1, <1>2, <1>11, <5>1
        <5> QED BY <1>11, <1>13, <3>1, <5>1, <5>2
      <4> QED BY <3>1, <4>1, <4>2, <4>3 DEF Parsing
    <3>2. CASE s = v
      <4>1. PICK j \in 1 .. n : q = stack[j].src
        BY <1>13, <1>16, <2>3, <3>2
      <4>2. j \in 1 .. Len(stack') - 1
        BY <1>2, <1>11
      <4>3. CASE j = n
        BY <1>11, <1>13, <3>2, <4>1, <4>2, <4>3
      <4>4. CASE j # n
        <5>1. j + 1 \in 1 .. n
          BY <1>2, <4>1, <4>4
        <5>2. stack[j + 1].src \in Line(here)
          BY <1>16, <5>1
        <5> QED BY <1>11, <1>13, <3>2, <4>1, <4>2, <5>1, <5>2
      <4> QED BY <4>3, <4>4
    <3> QED BY <1>12, <3>1, <3>2
  <2> QED BY <2>1, <2>2, <2>3 DEF Parsing
<1> QED BY <1>9, <1>11, <1>12, <1>17, <1>18, <1>20, <1>21 DEF Tree

\* Sources that differ from those there are in messages alone.
Alike(S) ==
  /\ S \in Seq(SourceOf(Len(sources))) /\ Len(S) = Len(sources)
  /\ \A s \in Read : /\ S[s].file = sources[s].file
                     /\ S[s].above = sources[s].above
                     /\ S[s].nodes = sources[s].nodes
                     /\ S[s].messages \subseteq {"syntax"}

\* The document of an import becomes a node of the one outside.
LEMMA ParseOut ==
  ASSUME TypeOK, Tree, Parsing, NEW S, Alike(S), Len(stack) # 1,
         stack' = Advanced(Outer),
         sources' = NodeAdded(S, Outer[Len(Outer)].src, [kind |-> "import", src |-> Top.src])
  PROVE  /\ Tree' /\ Parsing'
         /\ sources' \in Seq(SourceOf(Len(sources))) /\ Len(sources') = Len(sources)
         /\ stack' \in Seq(FrameOf(Len(sources))) /\ stack' # <<>>
<1>1. PICK n, m, p, v : n = Len(stack) /\ m = n - 1 /\ v = Top.src /\ p = stack[m].src
  OBVIOUS
<1>2. /\ n \in Nat \ {0} /\ m \in Nat \ {0} /\ n = m + 1 /\ v = stack[n].src
      /\ Len(sources) \in Nat /\ stack # <<>>
  <2>1. \A k \in Nat \ {0} : k # 1 => k - 1 \in Nat \ {0} /\ k = (k - 1) + 1
    OBVIOUS
  <2>2. n \in Nat \ {0} /\ stack # <<>> /\ Len(sources) \in Nat
    BY <1>1, PathFacts, FrameFacts
  <2> QED BY <1>1, <2>1, <2>2 DEF Top
<1>3. /\ \A j \in 1 .. n : stack[j].src \in Read
      /\ \A j \in 1 .. n : Line(stack[j].src) = {stack[k].src : k \in 1 .. j}
      /\ \A j, k \in 1 .. n : stack[j].src = stack[k].src => j = k
  BY <1>1, PathFacts
<1>4. m \in 1 .. n /\ n \in 1 .. n /\ p \in Read /\ v \in Read /\ Read = 1 .. Len(sources)
  BY <1>1, <1>2, <1>3 DEF Read
<1>5. /\ Outer \in Seq(FrameOf(Len(sources))) /\ Len(Outer) = m /\ Outer # <<>>
      /\ \A j \in 1 .. m : Outer[j] = stack[j]
  <2>1. /\ Outer \in Seq(FrameOf(Len(sources))) /\ Len(Outer) = m
        /\ \A j \in 1 .. m : Outer[j] = stack[j]
    BY <1>1, <1>2, OuterFacts
  <2> QED BY <1>2, <2>1, EmptySeq
<1>6. /\ stack' \in Seq(FrameOf(Len(sources))) /\ stack' # <<>> /\ Len(stack') = m
      /\ \A j \in 1 .. m : stack'[j].src = stack[j].src
  <2>1. /\ Advanced(Outer) \in Seq(FrameOf(Len(sources))) /\ Advanced(Outer) # <<>>
        /\ Len(Advanced(Outer)) = m
        /\ \A j \in 1 .. m : Advanced(Outer)[j].src = Outer[j].src
    BY <1>2, <1>5, AdvancedFacts
  <2> QED BY <1>5, <2>1
<1>7. /\ sources' \in Seq(SourceOf(Len(sources))) /\ Len(sources') = Len(sources)
      /\ \A s \in Read :
           /\ sources'[s].above = sources[s].above
           /\ sources'[s].messages \subseteq {"syntax"}
           /\ sources'[s].nodes = IF s = p THEN Append(sources[s].nodes, [kind |-> "import", src |-> v])
                                          ELSE sources[s].nodes
  <2>1. [kind |-> "import", src |-> v] \in Node
    BY <1>4, SourceFacts DEF Node
  <2>2. Outer[Len(Outer)].src = p
    BY <1>1, <1>2, <1>5
  <2>3. p \in 1 .. Len(S) /\ Len(S) = Len(sources)
    BY <1>4 DEF Alike
  <2>4. sources' = NodeAdded(S, p, [kind |-> "import", src |-> v])
    BY <1>1, <2>2
  <2>5. /\ NodeAdded(S, p, [kind |-> "import", src |-> v]) \in Seq(SourceOf(Len(sources)))
        /\ Len(NodeAdded(S, p, [kind |-> "import", src |-> v])) = Len(S)
        /\ \A t \in 1 .. Len(S) :
             /\ NodeAdded(S, p, [kind |-> "import", src |-> v])[t].above = S[t].above
             /\ NodeAdded(S, p, [kind |-> "import", src |-> v])[t].messages = S[t].messages
             /\ NodeAdded(S, p, [kind |-> "import", src |-> v])[t].nodes =
                  IF t = p THEN Append(S[t].nodes, [kind |-> "import", src |-> v]) ELSE S[t].nodes
    BY <1>2, <2>1, <2>3, NodeAddedFacts DEF Alike
  <2> QED BY <1>4, <2>3, <2>4, <2>5 DEF Alike
<1>8. PICK l : l = Len(sources[p].nodes) + 1
  OBVIOUS
<1>9. Read' = Read /\ \A s \in Read : Line(s)' = Line(s)
  BY <1>7 DEF Read, Line
<1>10. /\ \A q \in Read : \A i : Imports(q, i)' <=> Imports(q, i) \/ (q = p /\ i = l)
       /\ \A q \in Read : \A i : Imports(q, i) => Child(q, i)' = Child(q, i)
       /\ Child(p, l)' = v
       /\ l \in Nat \ {0} /\ \A i : Imports(p, i) => i \in 1 .. l - 1
  <2>1. sources[p].nodes \in Seq(Node)
    BY <1>4, SourceFacts
  <2>2. PICK x : x = [kind |-> "import", src |-> v]
    OBVIOUS
  <2>3. x \in Node /\ x.kind = "import" /\ x.src = v
    BY <1>4, <2>2, SourceFacts DEF Node
  <2>4. /\ Append(sources[p].nodes, x) \in Seq(Node)
        /\ Len(Append(sources[p].nodes, x)) = l
        /\ \A i \in 1 .. l - 1 : Append(sources[p].nodes, x)[i] = sources[p].nodes[i]
        /\ Append(sources[p].nodes, x)[l] = x
        /\ l \in Nat \ {0} /\ DOMAIN Append(sources[p].nodes, x) = 1 .. l
        /\ DOMAIN sources[p].nodes = 1 .. l - 1
    BY <1>8, <2>1, <2>3, AppendProperties, LenProperties
  <2>5. sources'[p].nodes = Append(sources[p].nodes, x)
    BY <1>4, <1>7, <2>2
  <2>6. \A i \in 1 .. l : i \in 1 .. l - 1 \/ i = l
    BY <2>4
  <2>7. \A i \in 1 .. l - 1 : i \in 1 .. l
    BY <2>4
  <2>8. l \in 1 .. l
    BY <2>4
  <2>9. \A i : Imports(p, i)' <=> Imports(p, i) \/ i = l
    BY <2>3, <2>4, <2>5, <2>6, <2>7, <2>8 DEF Imports
  <2>10. \A i : Imports(p, i) => Child(p, i)' = Child(p, i)
    BY <2>4, <2>5 DEF Imports, Child
  <2>11. \A q \in Read : q # p => \A i : Imports(q, i)' = Imports(q, i) /\ Child(q, i)' = Child(q, i)
    BY <1>7 DEF Imports, Child
  <2>12. Child(p, l)' = v
    BY <2>3, <2>4, <2>5 DEF Child
  <2> QED BY <2>4, <2>9, <2>10, <2>11, <2>12, ZenonT(40) DEF Imports
<1>11. sources[v].above = Line(p)
  <2>1. sources[stack[n].src].above = {stack[k].src : k \in 1 .. n - 1}
    BY <1>1, <1>4 DEF Tree, Path
  <2>2. Line(stack[m].src) = {stack[k].src : k \in 1 .. m}
    BY <1>3, <1>4
  <2> QED BY <1>1, <1>2, <2>1, <2>2
<1>12. Lines'
  <2>1. SUFFICES ASSUME NEW s \in Read
                 PROVE  /\ \A t \in sources'[s].above :
                             t < s /\ sources'[t].above \subseteq sources'[s].above
                        /\ 1 \in Line(s)'
                        /\ \A t, u \in Line(s)' : t < u => t \in sources'[u].above
    BY <1>9 DEF Lines
  <2>2. Line(s) \subseteq Read /\ sources[s].above \subseteq Line(s)
    BY LineFacts DEF Tree, Line
  <2> QED BY <1>7, <1>9, <2>2, SMTT(40) DEF Tree, Lines
<1>13. Links'
  <2>1. SUFFICES ASSUME NEW q \in Read, NEW i, Imports(q, i)'
                 PROVE  /\ Child(q, i)' \in Read /\ sources'[Child(q, i)'].above = Line(q)'
                        /\ \A k \in 1 .. i - 1 : Imports(q, k)' => Child(q, k)' < Child(q, i)'
    BY <1>9 DEF Links
  <2>2. CASE Imports(q, i)
    <3>1. /\ Child(q, i) \in Read /\ sources[Child(q, i)].above = Line(q)
          /\ \A k \in 1 .. i - 1 : Imports(q, k) => Child(q, k) < Child(q, i)
      BY <2>2 DEF Tree, Links, Imports
    <3>2. ASSUME NEW k \in 1 .. i - 1, Imports(q, k)' PROVE Imports(q, k)
      <4>1. q = p => k # l
        BY <1>10, <2>2
      <4> QED BY <1>10, <3>2, <4>1
    <3> QED BY <1>7, <1>9, <1>10, <2>2, <3>1, <3>2
  <2>3. CASE q = p /\ i = l
    <3>1. ASSUME NEW k \in 1 .. l - 1, Imports(p, k)' PROVE Child(p, k)' < v
      <4>1. Imports(p, k) /\ Child(p, k)' = Child(p, k)
        BY <1>4, <1>10, <3>1
      <4>2. \A a \in 1 .. Len(stack) - 1 : \A b, c :
              b = stack[a].src /\ Imports(b, c) => Child(b, c) < stack[a + 1].src
        BY DEF Parsing
      <4>3. m \in 1 .. Len(stack) - 1
        BY <1>1, <1>2
      <4> QED BY <1>1, <1>2, <4>1, <4>2, <4>3
    <3> QED BY <1>4, <1>7, <1>9, <1>10, <1>11, <2>3, <3>1
  <2> QED BY <1>10, <2>1, <2>2, <2>3
<1>14. \A j \in 1 .. m : j \in 1 .. n
  BY <1>2
<1>15. Path'
  <2>1. ASSUME NEW j \in 1 .. Len(stack')
        PROVE  sources'[stack'[j].src].above = {stack'[k].src : k \in 1 .. j - 1}
    <3>1. {stack'[k].src : k \in 1 .. j - 1} = {stack[k].src : k \in 1 .. j - 1}
      BY <1>2, <1>6
    <3>2. sources'[stack'[j].src].above = sources[stack[j].src].above
      BY <1>3, <1>6, <1>7, <1>14
    <3> QED BY <1>1, <1>6, <1>14, <3>1, <3>2 DEF Tree, Path
  <2>2. \A j, k \in 1 .. Len(stack') : j < k => stack'[j].src < stack'[k].src
    BY <1>1, <1>6, <1>14 DEF Tree, Path
  <2>3. stack'[1].src = 1
    <3>1. 1 \in 1 .. m /\ stack[1].src = 1
      BY <1>2 DEF Tree, Path
    <3> QED BY <1>6, <3>1
  <2> QED BY <1>6, <2>1, <2>2, <2>3 DEF Path
<1>16. \A j \in 1 .. m - 1 : /\ j \in 1 .. m /\ j + 1 \in 1 .. m
                            /\ j \in 1 .. Len(stack) - 1 /\ j # m
  BY <1>1, <1>2
<1>17. Parsing'
  <2>1. ASSUME NEW j \in 1 .. Len(stack') - 1, NEW q, q = stack'[j].src, NEW i, Imports(q, i)'
        PROVE  Child(q, i)' < stack'[j + 1].src
    <3>1. j \in 1 .. m - 1
      BY <1>6
    <3>2. q = stack[j].src /\ q \in Read /\ q # p /\ stack'[j + 1].src = stack[j + 1].src
      BY <1>1, <1>3, <1>4, <1>6, <1>14, <1>16, <2>1, <3>1
    <3>3. Imports(q, i) /\ Child(q, i)' = Child(q, i)
      BY <1>10, <2>1, <3>2
    <3>4. \A a \in 1 .. Len(stack) - 1 : \A b, c :
            b = stack[a].src /\ Imports(b, c) => Child(b, c) < stack[a + 1].src
      BY DEF Parsing
    <3>5. Child(q, i) < stack[j + 1].src
      BY <1>16, <3>1, <3>2, <3>3, <3>4
    <3> QED BY <3>2, <3>3, <3>5
  <2>2. ASSUME NEW s \in Read, NEW q \in sources[s].above
        PROVE  \/ Joins(q, s)'
               \/ \E j \in 1 .. Len(stack') - 1 : q = stack'[j].src /\ stack'[j + 1].src \in Line(s)'
    <3>1. q \in Read
      BY SourceFacts
    <3>2. CASE Joins(q, s)
      <4>1. PICK i : Imports(q, i) /\ Child(q, i) \in Line(s)
        BY <3>2 DEF Joins
      <4>2. Imports(q, i)' /\ Child(q, i)' \in Line(s)'
        BY <1>9, <1>10, <3>1, <4>1
      <4> QED BY <4>2 DEF Joins, Imports
    <3>3. CASE \E j \in 1 .. Len(stack) - 1 : q = stack[j].src /\ stack[j + 1].src \in Line(s)
      <4>1. PICK j \in 1 .. Len(stack) - 1 : q = stack[j].src /\ stack[j + 1].src \in Line(s)
        BY <3>3
      <4>2. j \in 1 .. m /\ (j # m => j \in 1 .. m - 1)
        BY <1>1, <1>2
      <4>3. CASE j = m
        <5>1. q = p /\ v \in Line(s)
          BY <1>1, <1>2, <4>1, <4>3
        <5>2. Imports(p, l)' /\ Child(p, l)' \in Line(s)'
          BY <1>4, <1>9, <1>10, <5>1
        <5> QED BY <5>1, <5>2 DEF Joins, Imports
      <4>4. CASE j # m
        <5>1. j \in 1 .. m - 1 /\ j \in 1 .. Len(stack') - 1
          BY <1>6, <4>2, <4>4
        <5> QED BY <1>6, <1>9, <1>16, <4>1, <5>1
      <4> QED BY <4>3, <4>4
    <3> QED BY <3>2, <3>3 DEF Parsing
  <2>3. \A s \in Read' : sources'[s].messages \subseteq {"syntax"}
    BY <1>7, <1>9
  <2>4. \A s \in Read' : sources'[s].above = sources[s].above
    BY <1>7, <1>9
  <2>5. (\A j \in 1 .. Len(stack) - 1 : \A i :
          Imports(stack[j].src, i) => Child(stack[j].src, i) < stack[j + 1].src)'
    <3>1. TAKE j \in 1 .. Len(stack') - 1
    <3>2. PICK q : q = stack'[j].src
      OBVIOUS
    <3> QED BY <2>1, <3>2
  <2>6. (\A s \in Read : \A q \in sources[s].above :
          \/ Joins(q, s)
          \/ \E j \in 1 .. Len(stack) - 1 : q = stack[j].src /\ stack[j + 1].src \in Line(s))'
    BY <1>9, <2>2, <2>4, ZenonT(40)
  <2> QED BY <1>9, <2>3, <2>5, <2>6 DEF Parsing
<1> QED BY <1>6, <1>7, <1>12, <1>13, <1>15, <1>17 DEF Tree
----------------------------------------------------------------------------
(***************************************************************************)
(* What the verifier has established of what it has passed.                *)
(***************************************************************************)
FunctionAt(s, k) == k \in DOMAIN sources[s].nodes /\ sources[s].nodes[k].kind \in Functions

\* Node k of file s is visited before or as node i of the root is.
Before(s, k, i) ==
  \/ s = 1 /\ k <= i
  \/ \E h : h < i /\ Imports(1, h) /\ Child(1, h) \in Line(s)

IsCall(i) ==
  /\ i \in DOMAIN sources[1].nodes
  /\ sources[1].nodes[i].kind = "function" /\ sources[1].nodes[i].use.what = "call"

Answers(s, k, i) ==
  /\ FunctionAt(s, k) /\ Before(s, k, i)
  /\ sources[s].nodes[k].name = sources[1].nodes[i].use.of
  /\ sources[s].nodes[k].arity >= sources[1].nodes[i].use.args

\* For a call in the root there is a function with enough parameters.
Checked(i) == IsCall(i) => \E s \in Read : \E k : Answers(s, k, i)

ShownOrRoot(s) == \E t \in Line(s) : Erroneous(t) /\ (t \in printed \/ t = 1)

\* Errors of the files it is through with are printed, or in the root.
ErrorsMet ==
  /\ \A s \in Read : Ahead(s) => sources[s].messages \subseteq {"syntax"}
  /\ \A s \in Read : Erroneous(s) /\ ~ Ahead(s) => ShownOrRoot(s)
  /\ \A s \in Read : sources[s].above = {1} /\ Erroneous(s) /\ ~ Ahead(s) =>
       sources[1].messages # {}

NamesMet ==
  \A n \in DOMAIN v_funcs : \E s \in Read : \E k \in Nat :
    /\ FunctionAt(s, k) /\ Passed(s, k)
    /\ sources[s].nodes[k].name = n /\ sources[s].nodes[k].arity = v_funcs[n]

CallsMet == sources[1].messages = {} => \A i : i <= stack[1].at => Checked(i)

Verifying == ErrorsMet /\ NamesMet /\ CallsMet

\* The whole program has been parsed; the visit of the root begins.
LEMMA ParsedAll ==
  ASSUME TypeOK, Tree, Parsing, NEW S, Alike(S), Len(stack) = 1, v_funcs = <<>>,
         stack' = <<Frame(1)>>, sources' = S, UNCHANGED <<program, v_funcs>>
  PROVE  /\ Tree' /\ Walking' /\ Verifying'
         /\ SameTree
         /\ stack' \in Seq(FrameOf(Len(sources))) /\ stack' # <<>>
<1>1. /\ SameTree /\ \A s \in Read : sources'[s].messages \subseteq {"syntax"}
  BY DEF Alike, SameTree
<1>2. \A s \in Read : \A q \in sources[s].above : Joins(q, s)
  <2>1. 1 .. Len(stack) - 1 = {}
    OBVIOUS
  <2> QED BY <2>1 DEF Parsing
<1>3. /\ Tree' /\ Walking' /\ stack' \in Seq(FrameOf(Len(sources))) /\ stack' # <<>>
      /\ \A s \in Read : s # 1 => Ahead(s)'
      /\ \A k \in Nat \ {0} : ~ (k <= stack'[1].at)
      /\ sources[1].above = {}
  BY <1>1, <1>2, FromRoot
<1>4. /\ 1 \in Read /\ Read' = Read
      /\ \A s \in Read : /\ sources'[s].above = sources[s].above
                         /\ sources'[s].nodes = sources[s].nodes
  BY <1>1, PathFacts, TreeKept DEF SameTree
<1>5. ErrorsMet'
  <2>1. ASSUME NEW s \in Read, Erroneous(s)', ~ Ahead(s)' PROVE ShownOrRoot(s)'
    <3>1. s = 1
      BY <1>3, <2>1
    <3>2. 1 \in Line(1)'
      BY DEF Line
    <3> QED BY <2>1, <3>1, <3>2 DEF ShownOrRoot
  <2>2. \A s \in Read : sources[s].above = {1} => Ahead(s)'
    BY <1>3
  <2> QED BY <1>1, <1>4, <2>1, <2>2 DEF ErrorsMet
<1>6. NamesMet'
  <2>1. DOMAIN v_funcs' = {}
    OBVIOUS
  <2> QED BY <2>1 DEF NamesMet
<1>7. CallsMet'
  <2>1. \A i : IsCall(i)' => i \in Nat \ {0}
    BY <1>4, NodesFacts DEF IsCall
  <2> QED BY <1>3, <2>1 DEF CallsMet, Checked
<1> QED BY <1>1, <1>3, <1>5, <1>6, <1>7 DEF Verifying

LEMMA CheckedKept ==
  ASSUME TypeOK, SameTree, 1 \in Read
  PROVE  /\ \A s \in Read : \A k : FunctionAt(s, k)' <=> FunctionAt(s, k)
         /\ \A i : Checked(i)' <=> Checked(i)
<1>1. /\ Read' = Read
      /\ \A s \in Read : Line(s)' = Line(s) /\ sources'[s].nodes = sources[s].nodes
      /\ \A i : Imports(1, i)' = Imports(1, i) /\ Child(1, i)' = Child(1, i)
  BY TreeKept DEF SameTree
<1>2. \A s \in Read : \A k : FunctionAt(s, k)' <=> FunctionAt(s, k)
  BY <1>1 DEF FunctionAt
<1>3. \A s \in Read : \A k, i : Before(s, k, i)' <=> Before(s, k, i)
  BY <1>1 DEF Before
<1>4. \A i : IsCall(i)' <=> IsCall(i)
  BY <1>1 DEF IsCall
<1>5. \A s \in Read : \A k, i : Answers(s, k, i)' <=> Answers(s, k, i)
  BY <1>1, <1>2, <1>3 DEF Answers
<1>6. \A i : Checked(i)' <=> Checked(i)
  BY <1>1, <1>4, <1>5 DEF Checked
<1> QED BY <1>2, <1>6

LEMMA WithFacts ==
  ASSUME NEW f, NEW n, NEW x
  PROVE  /\ DOMAIN With(f, n, x) = DOMAIN f \cup {n}
         /\ \A m \in DOMAIN With(f, n, x) : With(f, n, x)[m] = IF m = n THEN x ELSE f[m]
BY DEF With

LEMMA NamesKept ==
  ASSUME TypeOK, SameTree, 1 \in Read, NamesMet, v_funcs' = v_funcs,
         \A s \in Read, k \in Nat : Passed(s, k) => Passed(s, k)'
  PROVE  NamesMet'
<1>1. /\ Read' = Read /\ \A s \in Read : sources'[s].nodes = sources[s].nodes
  BY TreeKept DEF SameTree
<1>2. \A s \in Read : \A k : FunctionAt(s, k)' <=> FunctionAt(s, k)
  BY CheckedKept
<1>3. ASSUME NEW n \in DOMAIN v_funcs
      PROVE  \E s \in Read : \E k \in Nat :
               /\ FunctionAt(s, k)' /\ Passed(s, k)'
               /\ sources'[s].nodes[k].name = n /\ sources'[s].nodes[k].arity = v_funcs[n]
  <2>1. PICK s \in Read, k \in Nat :
          /\ FunctionAt(s, k) /\ Passed(s, k)
          /\ sources[s].nodes[k].name = n /\ sources[s].nodes[k].arity = v_funcs[n]
    BY DEF NamesMet
  <2> QED BY <1>1, <1>2, <2>1
<1> QED BY <1>1, <1>3 DEF NamesMet

\* The verifier takes a declaration.
LEMMA VerifyNode ==
  ASSUME Walk, Verifying, SameTree, Top.at < Len(Nodes), stack' = Advanced(stack),
         Visited.kind # "import", printed' = printed,
         \A s \in Read : Erroneous(s)' <=> Erroneous(s),
         \A s \in Read : sources[s].messages \subseteq sources'[s].messages,
         \A s \in Read : s # Top.src => sources'[s].messages = sources[s].messages,
         \/ v_funcs' = v_funcs
         \/ /\ Visited.kind \in Functions
            /\ v_funcs' = With(v_funcs, Visited.name, Visited.arity),
         InRoot /\ Visited.kind = "function" /\ Visited.use.what = "call"
             /\ sources'[1].messages = {} =>
           Visited.use.of \in DOMAIN v_funcs' /\ Visited.use.args <= v_funcs'[Visited.use.of]
  PROVE  Tree' /\ Walking' /\ Verifying'
<1>1. PICK here, at, x : here = Top.src /\ at = Top.at /\ x = Visited
  OBVIOUS
<1>2. /\ at + 1 \in DOMAIN sources[here].nodes /\ x = sources[here].nodes[at + 1]
      /\ here \in Read /\ at \in Nat /\ x \in Node /\ x.kind # "import"
      /\ here = stack[Len(stack)].src
  BY <1>1, NextNode
<1>3. /\ Tree' /\ Walking'
      /\ \A s \in Read : Ahead(s)' => Ahead(s)
      /\ \A s \in Read : Ahead(s) => Ahead(s)'
      /\ \A s \in Read, k \in Nat : Passed(s, k) => Passed(s, k)'
      /\ Passed(here, at + 1)'
      /\ stack'[1].at = IF InRoot THEN at + 1 ELSE stack[1].at
  BY <1>1, PassOn
<1>4. /\ TypeOK /\ Tree /\ Walking
      /\ 1 \in Read /\ Len(stack) \in Nat \ {0}
      /\ \A j \in 1 .. Len(stack) : stack[j].src \in Read /\ stack[j].at \in Nat
  BY PathFacts DEF Walk
<1>5. /\ Read' = Read
      /\ \A s \in Read : Line(s)' = Line(s) /\ sources'[s].above = sources[s].above
                         /\ sources'[s].nodes = sources[s].nodes
      /\ \A q \in Read : \A i : Imports(q, i)' = Imports(q, i) /\ Child(q, i)' = Child(q, i)
      /\ \A s \in Read : Line(s) \subseteq Read
  BY <1>4, TreeKept, LineFacts DEF Tree, SameTree
<1>6. ~ Ahead(here)
  BY <1>2, <1>4 DEF Walking
<1>7. ErrorsMet'
  <2>1. ASSUME NEW s \in Read, Ahead(s)' PROVE sources'[s].messages \subseteq {"syntax"}
    BY <1>1, <1>3, <1>6, <2>1 DEF Verifying, ErrorsMet
  <2>2. ASSUME NEW s \in Read, Erroneous(s)', ~ Ahead(s)' PROVE ShownOrRoot(s)'
    <3>1. ShownOrRoot(s)
      BY <1>3, <2>2 DEF Verifying, ErrorsMet
    <3> QED BY <1>5, <3>1 DEF ShownOrRoot
  <2>3. ASSUME NEW s \in Read, sources'[s].above = {1}, Erroneous(s)', ~ Ahead(s)'
        PROVE  sources'[1].messages # {}
    <3>1. sources[1].messages # {}
      BY <1>3, <1>5, <2>3 DEF Verifying, ErrorsMet
    <3> QED BY <1>4, <3>1
  <2> QED BY <1>5, <2>1, <2>2, <2>3 DEF ErrorsMet
<1>8. /\ \A s \in Read : \A k : FunctionAt(s, k)' <=> FunctionAt(s, k)
      /\ \A i : Checked(i)' <=> Checked(i)
  BY <1>4, CheckedKept
<1>9. NamesMet'
  <2>1. CASE v_funcs' = v_funcs
    BY <1>3, <1>4, <2>1, NamesKept DEF Verifying
  <2>2. CASE x.kind \in Functions /\ v_funcs' = With(v_funcs, x.name, x.arity)
    <3>1. ASSUME NEW n \in DOMAIN v_funcs'
          PROVE  \E s \in Read : \E k \in Nat :
                   /\ FunctionAt(s, k)' /\ Passed(s, k)'
                   /\ sources'[s].nodes[k].name = n /\ sources'[s].nodes[k].arity = v_funcs'[n]
      <4>1. CASE n = x.name
        <5>1. v_funcs'[n] = x.arity
          BY <2>2, <3>1, <4>1 DEF With
        <5>2. FunctionAt(here, at + 1)
          BY <1>2, <2>2, Zenon DEF FunctionAt
        <5>3. at + 1 \in Nat
          BY <1>2
        <5> QED BY <1>2, <1>3, <1>5, <1>8, <4>1, <5>1, <5>2, <5>3, Zenon
      <4>2. CASE n # x.name
        <5>1. n \in DOMAIN v_funcs /\ v_funcs'[n] = v_funcs[n]
          BY <2>2, <3>1, <4>2 DEF With
        <5>2. PICK s \in Read, k \in Nat :
                /\ FunctionAt(s, k) /\ Passed(s, k)
                /\ sources[s].nodes[k].name = n /\ sources[s].nodes[k].arity = v_funcs[n]
          BY <5>1 DEF Verifying, NamesMet
        <5> QED BY <1>3, <1>5, <1>8, <5>1, <5>2
      <4> QED BY <4>1, <4>2
    <3> QED BY <1>5, <3>1 DEF NamesMet
  <2> QED BY <1>1, <2>1, <2>2
<1>10. ASSUME InRoot, sources'[1].messages = {}, IsCall(at + 1) PROVE Checked(at + 1)
  <2>1. Len(stack) = 1 /\ here = 1
    BY <1>2, <1>4, <1>10 DEF InRoot, Tree, Path
  <2>2. x.kind = "function" /\ x.use.what = "call" /\ x = sources[1].nodes[at + 1]
    BY <1>2, <1>10, <2>1 DEF IsCall
  <2>3. x.use.of \in DOMAIN v_funcs' /\ x.use.args <= v_funcs'[x.use.of]
    BY <1>1, <1>10, <2>2
  <2>4. PICK s \in Read, k \in Nat :
          /\ FunctionAt(s, k)' /\ Passed(s, k)'
          /\ sources'[s].nodes[k].name = x.use.of /\ sources'[s].nodes[k].arity = v_funcs'[x.use.of]
    BY <1>5, <1>9, <2>3 DEF NamesMet
  <2>5. /\ FunctionAt(s, k)
        /\ sources[s].nodes[k].name = x.use.of /\ sources[s].nodes[k].arity = v_funcs'[x.use.of]
    BY <1>5, <1>8, <2>4, Zenon
  <2>6. sources[s].nodes[k].arity \in Nat /\ x.use.args \in Nat
    <3>1. sources[s].nodes[k] \in Node
      BY <1>4, <2>5, NodesFacts DEF FunctionAt
    <3>2. \A y \in Node : y.kind \in Functions => y.arity \in Nat
      BY DEF Node, Functions
    <3>3. \A y \in Node : y.kind = "function" => y.use.args \in Nat
      BY DEF Node, Use
    <3> QED BY <1>2, <2>2, <2>5, <3>1, <3>2, <3>3 DEF FunctionAt
  <2>7. ~ Ahead(s)' /\ (s = 1 => k <= at + 1)
    <3>1. stack'[1].src = 1 /\ 1 \in 1 .. Len(stack')
      <4>1. Len(stack') \in Nat \ {0}
        <5>1. stack \in Seq(FrameOf(Len(sources))) /\ Len(sources) \in Nat /\ stack # <<>>
          BY <1>4, FrameFacts, PathFacts
        <5> QED BY <5>1, AdvancedFacts
      <4> QED BY <1>3, <4>1 DEF Tree, Path
    <3> QED BY <1>3, <1>10, <2>4, <3>1 DEF Passed
  <2>8. Before(s, k, at + 1)
    <3>1. CASE s = 1
      BY <2>7, <3>1 DEF Before
    <3>2. CASE s # 1
      <4>1. Joins(1, s)
        BY <1>4, <3>2 DEF Tree, Lines, Line, Walking
      <4>2. PICK h : Imports(1, h) /\ Child(1, h) \in Line(s)
        BY <4>1 DEF Joins
      <4>3. ~ Ahead(s)
        BY <1>3, <2>7
      <4>4. ~ (h > stack[1].at) /\ stack[1].at = at
        <5>1. 1 \in 1 .. Len(stack) /\ stack[1].src = 1
          BY <1>4, <2>1 DEF Tree, Path
        <5>2. stack[1].at = at
          BY <1>1, <2>1 DEF Top
        <5> QED BY <4>2, <4>3, <5>1, <5>2 DEF Ahead, Leads, Imports
      <4>5. h \in Nat
        BY <1>4, <4>2, NodesFacts DEF Imports
      <4>6. h < at + 1
        BY <1>2, <4>4, <4>5
      <4> QED BY <4>2, <4>6 DEF Before
    <3> QED BY <3>1, <3>2
  <2>9. Answers(s, k, at + 1)
    BY <2>2, <2>3, <2>5, <2>6, <2>8 DEF Answers
  <2> QED BY <2>9 DEF Checked
<1>11. CallsMet'
  <2>1. SUFFICES ASSUME sources'[1].messages = {}, NEW i, i <= stack'[1].at
                 PROVE  Checked(i)'
    BY DEF CallsMet
  <2>2. sources[1].messages = {}
    BY <1>4, <2>1
  <2>3. CASE i <= stack[1].at
    BY <1>8, <2>2, <2>3 DEF Verifying, CallsMet
  <2>4. CASE ~ (i <= stack[1].at) /\ IsCall(i)
    <3>1. InRoot
      BY <1>3, <2>1, <2>4
    <3>2. i \in Nat
      BY <1>4, <2>4, NodesFacts DEF IsCall
    <3>3. stack[1].at = at
      BY <1>1, <3>1 DEF InRoot, Top
    <3>4. i = at + 1
      BY <1>2, <1>3, <2>1, <2>4, <3>1, <3>2, <3>3
    <3> QED BY <1>8, <1>10, <2>1, <2>4, <3>1, <3>4
  <2>5. CASE ~ IsCall(i)
    BY <1>8, <2>5 DEF Checked
  <2> QED BY <2>3, <2>4, <2>5
<1> QED BY <1>3, <1>7, <1>9, <1>11 DEF Verifying

\* An import with messages is not visited: they are printed, and it is one for
\* the file that imports.
LEMMA VerifySkip ==
  ASSUME Walk, Verifying, SameTree, Top.at < Len(Nodes), stack' = Advanced(stack),
         Visited.kind = "import", NEW here, NEW v, here = Top.src, v = Visited.src,
         sources[v].messages # {}, printed' = printed \cup {v}, v_funcs' = v_funcs,
         sources'[here].messages = sources[here].messages \cup {"included"},
         \A s \in Read : s # here => sources'[s].messages = sources[s].messages
  PROVE  Tree' /\ Walking' /\ Verifying'
<1>1. PICK at : at = Top.at
  OBVIOUS
<1>2. /\ at + 1 \in DOMAIN sources[here].nodes /\ here \in Read /\ at \in Nat
      /\ here = stack[Len(stack)].src /\ at = stack[Len(stack)].at
      /\ Imports(here, at + 1) /\ v = Child(here, at + 1)
      /\ sources[here].nodes[at + 1].kind = "import"
  BY <1>1, NextNode
<1>3. /\ Tree' /\ Walking'
      /\ \A s \in Read : Ahead(s)' => Ahead(s)
      /\ \A s \in Read : Ahead(s) /\ ~ Ahead(s)' => v \in Line(s)
      /\ \A s \in Read, k \in Nat : Passed(s, k) => Passed(s, k)'
      /\ stack'[1].at = IF InRoot THEN at + 1 ELSE stack[1].at
  BY <1>1, PassOn
<1>4. /\ TypeOK /\ Tree /\ Walking
      /\ 1 \in Read /\ Len(stack) \in Nat \ {0} /\ Len(stack) \in 1 .. Len(stack)
      /\ \A j \in 1 .. Len(stack) : stack[j].src \in Read /\ stack[j].at \in Nat
  BY PathFacts, FrameFacts DEF Walk
<1>5. /\ Read' = Read
      /\ \A s \in Read : Line(s)' = Line(s) /\ sources'[s].above = sources[s].above
                         /\ sources'[s].nodes = sources[s].nodes
      /\ \A s \in Read : Line(s) \subseteq Read
  BY <1>4, TreeKept, LineFacts DEF Tree, SameTree
<1>6. v \in Read /\ sources[v].above = Line(here) /\ Ahead(v)
  <2>1. v \in Read /\ sources[v].above = Line(here)
    BY <1>2, <1>4, ChildFacts DEF Tree
  <2>2. Leads(Len(stack), at + 1, v)
    BY <1>2, <1>4 DEF Leads, Line
  <2> QED BY <1>2, <1>4, <2>1, <2>2 DEF Ahead
<1>7. ~ Ahead(here)
  BY <1>2, <1>4 DEF Walking
<1>8. Erroneous(v) /\ v # here /\ Erroneous(v)' /\ v \in printed'
  <2>1. Erroneous(v)
    BY <1>6 DEF Verifying, ErrorsMet, Erroneous
  <2>2. v # here
    BY <1>6, <1>7
  <2> QED BY <1>6, <2>1, <2>2 DEF Erroneous
<1>9. \A s \in Read : Erroneous(s)' <=> Erroneous(s)
  BY DEF Erroneous
<1>10. ErrorsMet'
  <2>1. ASSUME NEW s \in Read, Ahead(s)' PROVE sources'[s].messages \subseteq {"syntax"}
    BY <1>3, <1>7, <2>1 DEF Verifying, ErrorsMet
  <2>2. ASSUME NEW s \in Read, Erroneous(s)', ~ Ahead(s)' PROVE ShownOrRoot(s)'
    <3>1. CASE Ahead(s)
      <4>1. v \in Line(s)
        BY <1>3, <2>2, <3>1
      <4> QED BY <1>5, <1>8, <4>1 DEF ShownOrRoot
    <3>2. CASE ~ Ahead(s)
      <4>1. PICK t \in Line(s) : Erroneous(t) /\ (t \in printed \/ t = 1)
        BY <1>9, <2>2, <3>2 DEF Verifying, ErrorsMet, ShownOrRoot
      <4>2. t \in Read /\ t \in Line(s)' /\ Erroneous(t)' /\ (t \in printed' \/ t = 1)
        BY <1>5, <1>9, <4>1
      <4> QED BY <4>2 DEF ShownOrRoot
    <3> QED BY <3>1, <3>2
  <2>3. ASSUME NEW s \in Read, sources'[s].above = {1}, Erroneous(s)', ~ Ahead(s)'
        PROVE  sources'[1].messages # {}
    <3>1. CASE Ahead(s)
      <4>1. v \in {s, 1}
        BY <1>3, <1>5, <2>3, <3>1 DEF Line
      <4>2. ~ Ahead(1)
        BY <1>4 DEF Walking, Tree, Path
      <4>3. v = s
        BY <1>6, <4>1, <4>2
      <4>4. here = 1
        <5>1. sources[v].above = {1}
          BY <1>5, <2>3, <4>3
        <5> QED BY <1>6, <5>1 DEF Line
      <4> QED BY <4>4
    <3>2. CASE ~ Ahead(s)
      <4>1. sources[1].messages # {}
        BY <1>5, <1>9, <2>3, <3>2 DEF Verifying, ErrorsMet
      <4> QED BY <1>4, <4>1
    <3> QED BY <3>1, <3>2
  <2> QED BY <1>5, <2>1, <2>2, <2>3 DEF ErrorsMet
<1>11. NamesMet'
  BY <1>3, <1>4, NamesKept DEF Verifying
<1>12. CallsMet'
  <2>1. SUFFICES ASSUME sources'[1].messages = {}, NEW i, i <= stack'[1].at
                 PROVE  Checked(i)'
    BY DEF CallsMet
  <2>2. sources[1].messages = {} /\ here # 1
    BY <1>4, <2>1
  <2>3. ~ InRoot
    BY <1>2, <1>4, <2>2 DEF InRoot, Tree, Path
  <2>4. Checked(i)
    BY <1>3, <2>1, <2>2, <2>3 DEF Verifying, CallsMet
  <2> QED BY <1>4, <2>4, CheckedKept
<1> QED BY <1>3, <1>10, <1>11, <1>12 DEF Verifying

\* Without messages, it is.
LEMMA VerifyInto ==
  ASSUME Walk, Verifying, UNCHANGED <<program, sources, printed, v_funcs>>,
         Top.at < Len(Nodes), Visited.kind = "import", Descend(Visited),
         Messages(Visited.src) = {}
  PROVE  Tree' /\ Walking' /\ Verifying' /\ stack' \in Seq(FrameOf(Len(sources)))
<1>1. PICK here, at, v, n : here = Top.src /\ at = Top.at /\ v = Visited.src /\ n = Len(stack)
  OBVIOUS
<1>2. /\ at + 1 \in DOMAIN sources[here].nodes /\ here \in Read /\ at \in Nat
      /\ here = stack[Len(stack)].src /\ at = stack[Len(stack)].at
      /\ sources[here].nodes[at + 1].kind = "import"
  BY <1>1, NextNode
<1>3. /\ Tree' /\ Walking' /\ stack' \in Seq(FrameOf(Len(sources)))
      /\ v \in Read
      /\ \A s \in Read : Ahead(s)' => Ahead(s)
      /\ \A s \in Read : Ahead(s) /\ ~ Ahead(s)' => s = v
      /\ \A s \in Read, k \in Nat : Passed(s, k) => Passed(s, k)'
      /\ stack'[1].at = IF InRoot THEN at + 1 ELSE stack[1].at
  BY <1>1, GoInto
<1>4. /\ TypeOK /\ Tree /\ 1 \in Read /\ SameTree /\ ~ Erroneous(v)
      /\ Len(stack) \in Nat \ {0}
  BY <1>1, PathFacts, SourceFacts DEF Walk, SameTree, Messages, Erroneous
<1>5. Read' = Read /\ \A s : Line(s)' = Line(s) /\ (Erroneous(s)' <=> Erroneous(s))
                             /\ (ShownOrRoot(s)' <=> ShownOrRoot(s))
  BY DEF Read, Line, Erroneous, ShownOrRoot
<1>6. ErrorsMet'
  <2>1. \A s \in Read : Ahead(s)' => sources[s].messages \subseteq {"syntax"}
    BY <1>3 DEF Verifying, ErrorsMet
  <2>2. \A s \in Read : Erroneous(s) /\ ~ Ahead(s)' => ~ Ahead(s)
    BY <1>3, <1>4
  <2>3. \A s \in Read : Erroneous(s) /\ ~ Ahead(s)' => ShownOrRoot(s)
    BY <2>2 DEF Verifying, ErrorsMet
  <2>4. \A s \in Read : sources[s].above = {1} /\ Erroneous(s) /\ ~ Ahead(s)' =>
          sources[1].messages # {}
    BY <2>2 DEF Verifying, ErrorsMet
  <2> QED BY <1>5, <2>1, <2>3, <2>4 DEF ErrorsMet
<1>7. NamesMet'
  BY <1>3, <1>4, NamesKept DEF Verifying
<1>8. CallsMet'
  <2>1. SUFFICES ASSUME sources[1].messages = {}, NEW i, i <= stack'[1].at
                 PROVE  Checked(i)
    BY <1>4, CheckedKept DEF CallsMet
  <2>2. CASE i <= stack[1].at
    BY <2>1, <2>2 DEF Verifying, CallsMet
  <2>3. ASSUME ~ (i <= stack[1].at), IsCall(i) PROVE FALSE
    <3>1. InRoot /\ i \in Nat
      BY <1>3, <1>4, <2>1, <2>3, NodesFacts DEF IsCall
    <3>2. here = 1 /\ at = stack[1].at
      BY <1>2, <1>4, <3>1 DEF InRoot, Tree, Path
    <3>3. i = at + 1
      BY <1>2, <1>3, <2>1, <2>3, <3>1, <3>2
    <3> QED BY <1>2, <2>3, <3>2, <3>3 DEF IsCall
  <2> QED BY <2>2, <2>3 DEF Checked
<1> QED BY <1>3, <1>6, <1>7, <1>8 DEF Verifying

LEMMA VerifyBack ==
  ASSUME Walk, Verifying, UNCHANGED <<program, sources, printed, v_funcs>>,
         Top.at = Len(Nodes), ~ InRoot, stack' = Outer
  PROVE  Tree' /\ Walking' /\ Verifying' /\ stack' \in Seq(FrameOf(Len(sources)))
<1>1. /\ TypeOK /\ Tree /\ 1 \in Read /\ SameTree
  BY PathFacts, SourceFacts DEF Walk, SameTree
<1>2. /\ Tree' /\ Walking' /\ stack' \in Seq(FrameOf(Len(sources)))
      /\ \A s \in Read : Ahead(s)' <=> Ahead(s)
      /\ \A s \in Read, k \in Nat : Passed(s, k) => Passed(s, k)'
      /\ stack'[1].at = stack[1].at
  BY <1>1, GoBack
<1>3. Read' = Read /\ \A s : (Erroneous(s)' <=> Erroneous(s))
                             /\ (ShownOrRoot(s)' <=> ShownOrRoot(s))
  BY DEF Read, Line, Erroneous, ShownOrRoot
<1>4. ErrorsMet'
  BY <1>2, <1>3 DEF ErrorsMet, Verifying
<1>5. NamesMet'
  BY <1>1, <1>2, NamesKept DEF Verifying
<1>6. CallsMet'
  BY <1>1, <1>2, CheckedKept DEF CallsMet, Verifying
<1> QED BY <1>2, <1>4, <1>5, <1>6 DEF Verifying
----------------------------------------------------------------------------
(***************************************************************************)
(* What the generator finds of what it has passed.                         *)
(***************************************************************************)
Untouched == wrong = {} /\ functions = <<>> /\ structures = [n \in Names |-> 0]

\* The module has the functions that are declared in what it is through with.
Entered ==
  \A s \in Read : \A k \in Nat :
    FunctionAt(s, k) /\ Passed(s, k) => sources[s].nodes[k].name \in DOMAIN functions

\* Its functions are declared, with as many parameters.
Sourced(f) ==
  \A n \in DOMAIN f : \E s \in Read : \E k \in Nat :
    FunctionAt(s, k) /\ sources[s].nodes[k].name = n /\ sources[s].nodes[k].arity = f[n]

StructAt(s, k) == k \in DOMAIN sources[s].nodes /\ sources[s].nodes[k].kind = "struct"

StructsMet ==
  \A n \in Names : structures[n] > 0 => \E s \in Read : \E k \in Nat :
    StructAt(s, k) /\ Passed(s, k) /\ sources[s].nodes[k].name = n

StructsOnce == \A n \in Names : structures[n] > 1 => Twice({"struct"}) # {}

Generating ==
  /\ sources[1].messages = {} /\ \A i : Checked(i)
  /\ Entered /\ Sourced(functions) /\ StructsMet /\ StructsOnce

\* At the end of the root the verifier is through with everything.
LEMMA EndVisit ==
  ASSUME Walk, Verifying, Untouched, UNCHANGED <<program, sources, functions, structures>>,
         Top.at = Len(Nodes), InRoot, stack' = <<Frame(1)>>, Show(1)
  PROVE  /\ Tree' /\ Walking' /\ stack' \in Seq(FrameOf(Len(sources))) /\ stack' # <<>>
         /\ \A s \in Read : Erroneous(s) => \E t \in Line(s) : Erroneous(t) /\ t \in printed'
         /\ Messages(1) = {} =>
              /\ \A s \in Read : sources[s].above \subseteq {1} => ~ Erroneous(s)
              /\ Generating'
<1>1. TypeOK /\ Tree /\ SameTree /\ \A s \in Read : \A q \in sources[s].above : Joins(q, s)
  BY SourceFacts, PathFacts DEF Walk, Walking, SameTree
<1>2. /\ Tree' /\ Walking' /\ stack' \in Seq(FrameOf(Len(sources))) /\ stack' # <<>>
      /\ \A s \in Read : s # 1 => Ahead(s)'
      /\ \A k \in Nat \ {0} : ~ Passed(1, k)'
  BY <1>1, FromRoot
<1>3. /\ 1 \in Read /\ stack[1].src = 1 /\ Len(stack) = 1 /\ stack[1].at \in Nat
      /\ Len(sources[1].nodes) = stack[1].at
      /\ DOMAIN sources[1].nodes = 1 .. stack[1].at
  <2>1. Len(stack) = 1 /\ stack[1].src = 1
    BY <1>1 DEF InRoot, Tree, Path
  <2>2. 1 \in Read /\ Top = stack[1] /\ stack[1].at \in Nat
    BY <1>1, <2>1, PathFacts DEF Top
  <2> QED BY <1>1, <2>1, <2>2, NodesFacts DEF Nodes
<1>4. \A s : ~ Ahead(s)
  BY <1>3 DEF Ahead, Leads, Imports
<1>5. \A s : Erroneous(s) => s \in printed' \/ s # 1
  BY DEF Show, Messages, Erroneous
<1>6. ASSUME NEW s \in Read, Erroneous(s)
      PROVE  \E t \in Line(s) : Erroneous(t) /\ t \in printed'
  <2>1. PICK t \in Line(s) : Erroneous(t) /\ (t \in printed \/ t = 1)
    BY <1>4, <1>6 DEF Verifying, ErrorsMet, ShownOrRoot
  <2>2. printed \subseteq printed'
    BY DEF Show
  <2> QED BY <1>5, <2>1, <2>2
<1>7. ASSUME Messages(1) = {} PROVE Generating'
  <2>1. sources[1].messages = {}
    BY <1>7 DEF Messages
  <2>2. \A i : Checked(i)
    <3>1. \A i : i \in 1 .. stack[1].at => Checked(i)
      BY <1>3, <2>1 DEF Verifying, CallsMet
    <3>2. \A i : IsCall(i) => i \in 1 .. stack[1].at
      BY <1>3 DEF IsCall
    <3> QED BY <3>1, <3>2 DEF Checked
  <2>3. \A i : Checked(i)'
    BY <1>1, <1>3, <2>2, CheckedKept
  <2>4. Read' = Read
    BY DEF Read
  <2>5. Entered'
    <3>1. \A s \in Read : \A k \in Nat : FunctionAt(s, k)' => k \in Nat \ {0}
      BY <1>1, NodesFacts DEF FunctionAt
    <3>2. \A s \in Read : \A k \in Nat \ {0} : ~ Passed(s, k)'
      BY <1>2 DEF Passed
    <3> QED BY <2>4, <3>1, <3>2 DEF Entered
  <2>6. Sourced(functions)'
    BY DEF Sourced, Untouched
  <2>7. \A n \in Names : structures'[n] = 0
    BY DEF Untouched
  <2>8. StructsMet' /\ StructsOnce'
    BY <2>7 DEF StructsMet, StructsOnce
  <2> QED BY <2>1, <2>3, <2>5, <2>6, <2>8 DEF Generating
<1>8. ASSUME Messages(1) = {}, NEW s \in Read, sources[s].above \subseteq {1}, Erroneous(s)
      PROVE  FALSE
  <2>1. sources[1].messages = {} /\ ~ Erroneous(1)
    BY <1>8 DEF Messages, Erroneous
  <2>2. s # 1
    BY <1>8, <2>1
  <2>3. 1 \in sources[s].above
    BY <1>1, <2>2 DEF Tree, Lines, Line
  <2>4. sources[s].above = {1}
    BY <1>8, <2>3
  <2> QED BY <1>4, <1>8, <2>1, <2>4 DEF Verifying, ErrorsMet
<1> QED BY <1>2, <1>6, <1>7, <1>8

\* What it does not make anew stays: its sources, and all it has passed.
LEMMA GenerateKept ==
  ASSUME TypeOK, 1 \in Read, UNCHANGED <<program, sources>>, Generating
  PROVE  /\ sources'[1].messages = {} /\ \A i : Checked(i)'
         /\ Read' = Read
         /\ \A s, k : /\ FunctionAt(s, k)' <=> FunctionAt(s, k)
                      /\ StructAt(s, k)' <=> StructAt(s, k)
         /\ (Twice({"struct"}) # {})' <=> (Twice({"struct"}) # {})
<1>1. SameTree
  BY SourceFacts DEF SameTree
<1>2. \A i : Checked(i)'
  BY <1>1, CheckedKept DEF Generating
<1>3. Twice({"struct"})' = Twice({"struct"})
  BY DEF Twice, Declared, NodeAt, Read
<1> QED BY <1>2, <1>3 DEF Generating, Read, FunctionAt, StructAt

LEMMA CreatedFacts ==
  ASSUME Sourced(functions), NEW s \in Read, NEW k \in Nat, FunctionAt(s, k),
         NEW x, x = sources[s].nodes[k]
  PROVE  DOMAIN Created(x) = DOMAIN functions \cup {x.name} /\ Sourced(Created(x))
<1>1. /\ DOMAIN Created(x) = DOMAIN functions \cup {x.name}
      /\ \A n \in DOMAIN functions : Created(x)[n] = functions[n]
      /\ x.name \notin DOMAIN functions => Created(x)[x.name] = x.arity
  BY DEF Created, With
<1>2. ASSUME NEW n \in DOMAIN Created(x)
      PROVE  \E t \in Read : \E l \in Nat :
               /\ FunctionAt(t, l) /\ sources[t].nodes[l].name = n
               /\ sources[t].nodes[l].arity = Created(x)[n]
  <2>1. CASE n \in DOMAIN functions
    BY <1>1, <2>1 DEF Sourced
  <2>2. CASE n \notin DOMAIN functions
    BY <1>1, <1>2, <2>2
  <2> QED BY <2>1, <2>2
<1> QED BY <1>1, <1>2 DEF Sourced

\* The generator takes a declaration.
LEMMA GenerateNode ==
  ASSUME Walk, Generating, UNCHANGED <<program, sources>>, Top.at < Len(Nodes),
         stack' = Advanced(stack),
         \/ /\ Visited.kind \in Functions
            /\ functions' = Created(Visited) /\ structures' = structures
         \/ /\ Visited.kind = "struct" /\ functions' = functions
            /\ structures' = [structures EXCEPT ![Visited.name] = @ + 1]
  PROVE  Tree' /\ Walking' /\ Generating'
<1>1. PICK here, at, x : here = Top.src /\ at = Top.at /\ x = Visited
  OBVIOUS
<1>2. /\ at + 1 \in DOMAIN sources[here].nodes /\ x = sources[here].nodes[at + 1]
      /\ here \in Read /\ at \in Nat /\ x \in Node /\ at + 1 \in Nat
      /\ here = stack[Len(stack)].src /\ at = stack[Len(stack)].at
      /\ Len(stack) \in 1 .. Len(stack)
  BY <1>1, NextNode
<1>3. TypeOK /\ Tree /\ 1 \in Read /\ SameTree /\ x.kind # "import"
  BY <1>1, PathFacts, SourceFacts DEF Walk, SameTree, Functions
<1>4. /\ Tree' /\ Walking'
      /\ \A s \in Read, k \in Nat : Passed(s, k) => Passed(s, k)'
      /\ Passed(here, at + 1)'
      /\ \A s \in Read, k \in Nat : Passed(s, k)' => Passed(s, k) \/ (s = here /\ k = at + 1)
  BY <1>1, <1>3, PassOn
<1>5. /\ sources'[1].messages = {} /\ \A i : Checked(i)'
      /\ Read' = Read
      /\ \A s, k : /\ FunctionAt(s, k)' <=> FunctionAt(s, k)
                   /\ StructAt(s, k)' <=> StructAt(s, k)
      /\ (Twice({"struct"}) # {})' <=> (Twice({"struct"}) # {})
  BY <1>3, GenerateKept
<1>6. /\ Entered /\ Sourced(functions) /\ StructsMet /\ StructsOnce
  BY DEF Generating
<1>7. structures \in [Names -> Nat]
  BY <1>3 DEF TypeOK
<1>8. CASE x.kind \in Functions /\ functions' = Created(x) /\ structures' = structures
  <2>1. FunctionAt(here, at + 1)
    BY <1>2, <1>8, Zenon DEF FunctionAt
  <2>2. DOMAIN functions' = DOMAIN functions \cup {x.name} /\ Sourced(Created(x))
    BY <1>2, <1>6, <1>8, <2>1, CreatedFacts
  <2>3. Entered'
    <3>1. ASSUME NEW s \in Read, NEW k \in Nat, FunctionAt(s, k), Passed(s, k)'
          PROVE  sources[s].nodes[k].name \in DOMAIN functions'
      <4>1. CASE Passed(s, k)
        BY <1>6, <2>2, <3>1, <4>1, Zenon DEF Entered
      <4>2. CASE s = here /\ k = at + 1
        BY <1>2, <2>2, <4>2, Zenon
      <4> QED BY <1>4, <3>1, <4>1, <4>2
    <3> QED BY <1>5, <3>1 DEF Entered
  <2>4. Sourced(functions)'
    BY <1>5, <1>8, <2>2 DEF Sourced
  <2>5. StructsMet'
    BY <1>4, <1>5, <1>6, <1>8 DEF StructsMet
  <2>6. StructsOnce'
    BY <1>5, <1>6, <1>8, Zenon DEF StructsOnce
  <2> QED BY <1>4, <1>5, <2>3, <2>4, <2>5, <2>6, Zenon DEF Generating
<1>9. CASE /\ x.kind = "struct" /\ functions' = functions
           /\ structures' = [structures EXCEPT ![x.name] = @ + 1]
  <2>1. StructAt(here, at + 1) /\ ~ FunctionAt(here, at + 1)
    BY <1>2, <1>9, Zenon DEF StructAt, FunctionAt, Functions
  <2>2. \A n \in Names : structures'[n] = IF n = x.name THEN structures[n] + 1 ELSE structures[n]
    BY <1>7, <1>9
  <2>3. Entered'
    BY <1>4, <1>5, <1>6, <1>9, <2>1 DEF Entered
  <2>4. Sourced(functions)'
    BY <1>5, <1>6, <1>9 DEF Sourced
  <2>5. StructsMet'
    <3>1. ASSUME NEW n \in Names, structures'[n] > 0
          PROVE  \E s \in Read : \E k \in Nat :
                   StructAt(s, k) /\ Passed(s, k)' /\ sources[s].nodes[k].name = n
      <4>1. CASE n = x.name
        BY <1>2, <1>4, <2>1, <4>1
      <4>2. CASE n # x.name
        BY <1>4, <1>6, <2>2, <3>1, <4>2 DEF StructsMet
      <4> QED BY <4>1, <4>2
    <3> QED BY <1>5, <3>1 DEF StructsMet
\* One made before is of another declaration: this one has not been passed.
  <2>6. StructsOnce'
    <3>1. SUFFICES ASSUME NEW n \in Names, structures'[n] > 1 PROVE Twice({"struct"}) # {}
      BY <1>5 DEF StructsOnce
    <3>2. CASE n # x.name
      BY <1>6, <2>2, <3>1, <3>2 DEF StructsOnce
    <3>3. CASE n = x.name
      <4>1. structures[n] > 0
        BY <1>7, <2>2, <3>1, <3>3
      <4>2. PICK s \in Read, k \in Nat :
              StructAt(s, k) /\ Passed(s, k) /\ sources[s].nodes[k].name = n
        BY <1>6, <4>1 DEF StructsMet
      <4>3. ~ Passed(here, at + 1)
        BY <1>2 DEF Passed
      <4>4. <<s, k>> # <<here, at + 1>>
        BY <4>2, <4>3
      <4>5. <<s, k>> \in Declared({"struct"}) /\ <<here, at + 1>> \in Declared({"struct"})
        BY <1>2, <2>1, <4>2 DEF Declared, StructAt
      <4>6. NodeAt(<<s, k>>).name = NodeAt(<<here, at + 1>>).name
        BY <1>2, <3>3, <4>2 DEF NodeAt
      <4> QED BY <4>4, <4>5, <4>6 DEF Twice
    <3> QED BY <3>2, <3>3
  <2> QED BY <1>4, <1>5, <2>3, <2>4, <2>5, <2>6 DEF Generating
<1> QED BY <1>1, <1>8, <1>9

LEMMA GenerateInto ==
  ASSUME Walk, Generating, UNCHANGED <<program, sources, functions, structures>>,
         Top.at < Len(Nodes), Visited.kind = "import", Descend(Visited)
  PROVE  Tree' /\ Walking' /\ Generating' /\ stack' \in Seq(FrameOf(Len(sources)))
<1>1. PICK here, at, v, n : here = Top.src /\ at = Top.at /\ v = Visited.src /\ n = Len(stack)
  OBVIOUS
<1>2. /\ here \in Read /\ at \in Nat /\ sources[here].nodes[at + 1].kind = "import"
  BY <1>1, NextNode
<1>3. /\ Tree' /\ Walking' /\ stack' \in Seq(FrameOf(Len(sources)))
      /\ \A s \in Read, k \in Nat : Passed(s, k) => Passed(s, k)'
      /\ \A s \in Read, k \in Nat \ {0} :
           Passed(s, k)' => Passed(s, k) \/ (s = here /\ k = at + 1)
  BY <1>1, GoInto
<1>4. TypeOK /\ 1 \in Read
  BY PathFacts DEF Walk
<1>5. /\ sources'[1].messages = {} /\ \A i : Checked(i)'
      /\ Read' = Read
      /\ \A s, k : /\ FunctionAt(s, k)' <=> FunctionAt(s, k)
                   /\ StructAt(s, k)' <=> StructAt(s, k)
      /\ (Twice({"struct"}) # {})' <=> (Twice({"struct"}) # {})
  BY <1>4, GenerateKept
<1>6. /\ Entered /\ Sourced(functions) /\ StructsMet /\ StructsOnce
  BY DEF Generating
<1>7. Entered'
  <2>1. \A s \in Read : \A k \in Nat : FunctionAt(s, k) => k \in Nat \ {0}
    BY <1>4, NodesFacts DEF FunctionAt
  <2>2. ~ FunctionAt(here, at + 1)
    BY <1>2 DEF FunctionAt, Functions
  <2> QED BY <1>3, <1>5, <1>6, <2>1, <2>2 DEF Entered
<1>8. Sourced(functions)'
  BY <1>5, <1>6 DEF Sourced
<1>9. StructsMet' /\ StructsOnce'
  BY <1>3, <1>5, <1>6 DEF StructsMet, StructsOnce
<1> QED BY <1>3, <1>5, <1>7, <1>8, <1>9 DEF Generating

LEMMA GenerateBack ==
  ASSUME Walk, Generating, UNCHANGED <<program, sources, functions, structures>>,
         Top.at = Len(Nodes), ~ InRoot, stack' = Outer
  PROVE  Tree' /\ Walking' /\ Generating' /\ stack' \in Seq(FrameOf(Len(sources)))
<1>1. TypeOK /\ 1 \in Read /\ SameTree
  BY PathFacts, SourceFacts DEF Walk, SameTree
<1>2. /\ Tree' /\ Walking' /\ stack' \in Seq(FrameOf(Len(sources)))
      /\ \A s \in Read, k \in Nat : Passed(s, k) => Passed(s, k)'
      /\ \A s \in Read : \A k \in DOMAIN sources[s].nodes : Passed(s, k)' => Passed(s, k)
  BY <1>1, GoBack
<1>3. /\ sources'[1].messages = {} /\ \A i : Checked(i)'
      /\ Read' = Read
      /\ \A s, k : /\ FunctionAt(s, k)' <=> FunctionAt(s, k)
                   /\ StructAt(s, k)' <=> StructAt(s, k)
      /\ (Twice({"struct"}) # {})' <=> (Twice({"struct"}) # {})
  BY <1>1, GenerateKept
<1>4. /\ Entered /\ Sourced(functions) /\ StructsMet /\ StructsOnce
  BY DEF Generating
<1>5. Entered'
  BY <1>2, <1>3, <1>4 DEF Entered, FunctionAt
<1>6. Sourced(functions)' /\ StructsMet' /\ StructsOnce'
  BY <1>2, <1>3, <1>4 DEF Sourced, StructsMet, StructsOnce
<1> QED BY <1>2, <1>3, <1>5, <1>6 DEF Generating

\* All that answers a call has been entered when the call is generated.
LEMMA CalleeEntered ==
  ASSUME Walk, Generating, InRoot, Top.at < Len(Nodes), Visited.kind = "function",
         NEW i, i = Top.at + 1, NEW s \in Read, NEW k, Answers(s, k, i)
  PROVE  sources[s].nodes[k].name \in DOMAIN Created(Visited)
<1>1. PICK at, x : at = Top.at /\ x = Visited
  OBVIOUS
<1>2. /\ TypeOK /\ Tree /\ Walking /\ 1 \in Read /\ Len(stack) = 1 /\ stack[1].src = 1
      /\ Top = stack[1]
  BY PathFacts DEF Walk, Tree, Path, InRoot, Top
<1>3. /\ i = at + 1 /\ at \in Nat /\ at = stack[1].at /\ x = sources[1].nodes[i]
      /\ i \in DOMAIN sources[1].nodes /\ x.kind = "function"
  BY <1>1, <1>2, NextNode
<1>4. FunctionAt(1, i) /\ i \in Nat
  BY <1>3 DEF FunctionAt, Functions
<1>5. FunctionAt(s, k) /\ Before(s, k, i) /\ k \in Nat
  BY <1>2, NodesFacts DEF Answers, FunctionAt
<1>6. DOMAIN Created(x) = DOMAIN functions \cup {x.name}
  BY <1>2, <1>3, <1>4, CreatedFacts DEF Generating
<1>7. Passed(s, k) => sources[s].nodes[k].name \in DOMAIN functions
  BY <1>5 DEF Generating, Entered
<1>8. \A j \in 1 .. Len(stack) : j = 1
  BY <1>2
<1>9. CASE s = 1 /\ k <= i
  <2>1. CASE k = i
    BY <1>1, <1>3, <1>6, <1>9, <2>1
  <2>2. CASE k # i
    <3>1. k <= at
      BY <1>3, <1>5, <1>9, <2>2
    <3>2. ~ Ahead(1)
      BY <1>2 DEF Walking
    <3>3. Passed(s, k)
      BY <1>3, <1>8, <1>9, <3>1, <3>2 DEF Passed
    <3> QED BY <1>1, <1>6, <1>7, <3>3
  <2> QED BY <2>1, <2>2
<1>10. ASSUME NEW h, h < i, Imports(1, h), Child(1, h) \in Line(s)
       PROVE  sources[s].nodes[k].name \in DOMAIN Created(Visited)
  <2>1. s # 1
    BY <1>2, <1>10, ChildFacts DEF Tree
  <2>2. \A l : Imports(1, l) /\ Child(1, l) \in Line(s) => l = h
    BY <1>2, <1>10, OneChild DEF Tree
  <2>3. h \in Nat
    BY <1>2, <1>10, NodesFacts DEF Imports
  <2>4. ~ Ahead(s)
    <3>1. \A l : ~ Leads(1, l, s)
      BY <1>2, <1>3, <1>10, <2>2, <2>3 DEF Leads
    <3> QED BY <1>8, <3>1 DEF Ahead
  <2>5. Passed(s, k)
    BY <1>2, <1>8, <2>1, <2>4 DEF Passed
  <2> QED BY <1>1, <1>6, <1>7, <2>5
<1> QED BY <1>5, <1>9, <1>10 DEF Before

\* What can go wrong with a function of the root.
LEMMA GeneratedUse ==
  ASSUME Walk, Generating, InRoot, Top.at < Len(Nodes), NEW x, x = Visited, x.kind = "function"
  PROVE  /\ x.use.what = "call" => x.use.of \in DOMAIN Created(x)
         /\ Created(x)[x.name] > x.arity => ArityDiffers
         /\ x.use.what = "call" /\ Created(x)[x.use.of] # x.use.args =>
              ArityDiffers \/ TooFewArguments
         /\ structures[x.use.of] > 1 => Twice({"struct"}) # {}
<1>1. PICK at, i : at = Top.at /\ i = at + 1
  OBVIOUS
<1>2. /\ TypeOK /\ Tree /\ Walking /\ 1 \in Read /\ Len(stack) = 1 /\ stack[1].src = 1
      /\ Top = stack[1]
  BY PathFacts DEF Walk, Tree, Path, InRoot, Top
<1>3. /\ i = at + 1 /\ at \in Nat /\ x = sources[1].nodes[i]
      /\ i \in DOMAIN sources[1].nodes /\ x \in Node
  BY <1>1, <1>2, NextNode
<1>4. FunctionAt(1, i) /\ i \in Nat
  BY <1>3 DEF FunctionAt, Functions
<1>5. /\ x.arity \in Nat /\ x.use \in Use /\ x.use.of \in Names /\ x.use.args \in Nat
  BY <1>3 DEF Node, Use
<1>6. DOMAIN Created(x) = DOMAIN functions \cup {x.name} /\ Sourced(Created(x))
  BY <1>2, <1>3, <1>4, CreatedFacts DEF Generating
<1>7. \A s \in Read : \A k : FunctionAt(s, k) =>
        /\ <<s, k>> \in Declared(Functions) /\ NodeAt(<<s, k>>) = sources[s].nodes[k]
        /\ sources[s].nodes[k].arity \in Nat
  <2>1. ASSUME NEW s \in Read, NEW k, FunctionAt(s, k)
        PROVE  /\ <<s, k>> \in Declared(Functions) /\ NodeAt(<<s, k>>) = sources[s].nodes[k]
               /\ sources[s].nodes[k].arity \in Nat
    <3>1. <<s, k>> \in Declared(Functions) /\ NodeAt(<<s, k>>) = sources[s].nodes[k]
      BY <2>1 DEF FunctionAt, Declared, NodeAt
    <3>2. sources[s].nodes[k] \in Node /\ sources[s].nodes[k].kind \in Functions
      BY <1>2, <2>1, NodesFacts DEF FunctionAt
    <3>3. \A y \in Node : y.kind \in Functions => y.arity \in Nat
      BY DEF Node, Functions
    <3> QED BY <3>1, <3>2, <3>3
  <2> QED BY <2>1
<1>8. <<1, i>> \in Declared({"function"}) /\ NodeAt(<<1, i>>) = x
  BY <1>2, <1>3 DEF Declared, NodeAt
<1>9. ASSUME x.use.what = "call"
      PROVE  \E s \in Read : \E k : Answers(s, k, i)
  <2>1. IsCall(i) /\ Checked(i)
    BY <1>3, <1>9 DEF IsCall, Generating
  <2> QED BY <2>1 DEF Checked
<1>10. ASSUME NEW s \in Read, NEW k, Answers(s, k, i)
       PROVE  /\ FunctionAt(s, k) /\ sources[s].nodes[k].name = x.use.of
              /\ sources[s].nodes[k].arity >= x.use.args /\ x.use.of \in DOMAIN Created(x)
  <2>1. sources[s].nodes[k].name \in DOMAIN Created(x)
    BY <1>1, <1>10, CalleeEntered
  <2> QED BY <1>3, <1>10, <2>1 DEF Answers
<1>11. ASSUME x.use.what = "call" PROVE x.use.of \in DOMAIN Created(x)
  BY <1>9, <1>10, <1>11
<1>12. ASSUME Created(x)[x.name] > x.arity PROVE ArityDiffers
  <2>1. PICK s \in Read, k \in Nat :
          /\ FunctionAt(s, k) /\ sources[s].nodes[k].name = x.name
          /\ sources[s].nodes[k].arity = Created(x)[x.name]
    BY <1>6 DEF Sourced
  <2>2. sources[s].nodes[k].arity # x.arity
    BY <1>5, <1>7, <1>12, <2>1
  <2>3. <<1, i>> \in Declared(Functions) /\ <<s, k>> \in Declared(Functions)
    BY <1>2, <1>4, <1>7, <2>1
  <2>4. NodeAt(<<s, k>>).name = NodeAt(<<1, i>>).name /\ NodeAt(<<s, k>>).arity # NodeAt(<<1, i>>).arity
    BY <1>7, <1>8, <2>1, <2>2
  <2> QED BY <2>3, <2>4 DEF ArityDiffers
<1>13. ASSUME x.use.what = "call", Created(x)[x.use.of] # x.use.args
       PROVE  ArityDiffers \/ TooFewArguments
  <2>1. PICK s \in Read : \E k : Answers(s, k, i)
    BY <1>9, <1>13
  <2>2. PICK k : Answers(s, k, i)
    BY <2>1
  <2>3. /\ FunctionAt(s, k) /\ sources[s].nodes[k].name = x.use.of
        /\ sources[s].nodes[k].arity >= x.use.args /\ x.use.of \in DOMAIN Created(x)
    BY <1>10, <2>2
  <2>4. PICK t \in Read, l \in Nat :
          /\ FunctionAt(t, l) /\ sources[t].nodes[l].name = x.use.of
          /\ sources[t].nodes[l].arity = Created(x)[x.use.of]
    BY <1>6, <2>3 DEF Sourced
  <2>5. /\ <<s, k>> \in Declared(Functions) /\ NodeAt(<<s, k>>) = sources[s].nodes[k]
        /\ <<t, l>> \in Declared(Functions) /\ NodeAt(<<t, l>>) = sources[t].nodes[l]
        /\ sources[s].nodes[k].arity \in Nat /\ sources[t].nodes[l].arity \in Nat
    BY <1>7, <2>3, <2>4
  <2>6. CASE sources[t].nodes[l].arity < x.use.args
    <3>1. sources[t].nodes[l].arity # sources[s].nodes[k].arity
      BY <1>5, <2>3, <2>5, <2>6
    <3>2. /\ NodeAt(<<s, k>>).name = NodeAt(<<t, l>>).name
          /\ NodeAt(<<s, k>>).arity # NodeAt(<<t, l>>).arity
      BY <2>3, <2>4, <2>5, <3>1
    <3> QED BY <2>5, <3>2 DEF ArityDiffers
  <2>7. CASE x.use.args < sources[t].nodes[l].arity
    <3>1. /\ NodeAt(<<1, i>>).use.what = "call" /\ NodeAt(<<1, i>>).use.of = NodeAt(<<t, l>>).name
          /\ NodeAt(<<1, i>>).use.args < NodeAt(<<t, l>>).arity
      BY <1>8, <1>13, <2>4, <2>5, <2>7
    <3> QED BY <1>8, <2>5, <3>1 DEF TooFewArguments
  <2>8. sources[t].nodes[l].arity # x.use.args
    BY <1>13, <2>4
  <2> QED BY <1>5, <2>5, <2>6, <2>7, <2>8
<1>14. structures[x.use.of] > 1 => Twice({"struct"}) # {}
  BY <1>5 DEF Generating, StructsOnce
<1> QED BY <1>11, <1>12, <1>13, <1>14
----------------------------------------------------------------------------
(***************************************************************************)
(* The inductive invariant: what holds in each phase, and the properties.  *)
(***************************************************************************)
Promised ==
  ErrorsShown /\ NoDirectErrors /\ CalleesFound /\ WrongOnlyIfRepeated /\ OverflowsInCycle

Working ==
  /\ phase = "start" => sources = <<>> /\ stack = <<>> /\ v_funcs = <<>>
  /\ phase \in {"start", "parse", "verify"} => Untouched
  /\ phase = "parse" => Tree /\ Parsing /\ v_funcs = <<>>
  /\ phase = "verify" => Tree /\ Walking /\ Verifying
  /\ phase = "gen" => Tree /\ Walking /\ Generating

Inv == program \in Programs /\ TypeOK /\ Working /\ Promised

NamesTyped ==
  /\ v_structures \subseteq Names
  /\ DOMAIN v_funcs \subseteq Names /\ \A n \in DOMAIN v_funcs : v_funcs[n] \in Nat
  /\ DOMAIN functions \subseteq Names /\ \A n \in DOMAIN functions : functions[n] \in Nat
  /\ structures \in [Names -> Nat]

Phases == {"start", "parse", "verify", "gen", "emit"} \cup Final

LEMMA TypeNext ==
  ASSUME TypeOK, program' = program, phase' \in Phases, NEW n, n = Len(sources'),
         sources' \in Seq(SourceOf(n)), stack' \in Seq(FrameOf(n)), stack' # <<>>,
         NamesTyped', printed' \subseteq Read', wrong' \subseteq {"signature", "field"}
  PROVE  TypeOK'
<1>1. sources' \in Seq([file : DOMAIN program', above : SUBSET Read', nodes : Seq(Node),
                        messages : SUBSET {"syntax", "not in scope", "extra argument", "included"}])
  BY DEF SourceOf, Read, Wordings
<1>2. stack' \in Seq([src : Read', at : Nat])
  BY DEF FrameOf, Read
<1>3. DOMAIN program' \subseteq Files
  BY DEF TypeOK
<1> QED BY <1>1, <1>2, <1>3 DEF TypeOK, NamesTyped, Phases

\* Before the visit of the root is over, the properties ask nothing of the run.
LEMMA PromisedEarly ==
  ASSUME wrong' = {}, phase' \in {"start", "parse", "verify", "thrown", "null"}
  PROVE  Promised'
BY DEF Promised, ErrorsShown, NoDirectErrors, CalleesFound, WrongOnlyIfRepeated, OverflowsInCycle

\* After it they ask of the tree and of what has been printed.
LEMMA PromisedLate ==
  ASSUME Promised, phase \in {"gen", "emit"}, UNCHANGED <<sources, printed>>,
         phase' \in {"gen", "emit", "wrote", "refused", "range", "null"},
         "field" \in wrong' => "field" \in wrong \/ Twice({"struct"}) # {},
         "signature" \in wrong' => "signature" \in wrong \/ ArityDiffers \/ TooFewArguments,
         phase' = "range" => ArityDiffers
  PROVE  Promised'
<1>1. Read' = Read /\ \A s : Erroneous(s)' <=> Erroneous(s)
  BY DEF Read, Erroneous
<1>2. ErrorsShown' /\ NoDirectErrors'
  BY <1>1 DEF Promised, ErrorsShown, NoDirectErrors
<1>3. \A kinds : Declared(kinds)' = Declared(kinds)
  BY DEF Declared, Read
<1>4. /\ Twice({"struct"})' = Twice({"struct"}) /\ ArityDiffers' = ArityDiffers
      /\ TooFewArguments' = TooFewArguments
  BY DEF Twice, ArityDiffers, TooFewArguments, Declared, Read, NodeAt
<1>5. WrongOnlyIfRepeated'
  BY <1>4 DEF Promised, WrongOnlyIfRepeated
<1> QED BY <1>2, <1>5 DEF Promised, CalleesFound, OverflowsInCycle

\* As many calls as there are files: of the file in each and the next two are one.
LEMMA ChainRepeats ==
  ASSUME TypeOK, Tree, Len(stack) = Depth, NEW file \in Files, NEW here, here = Top.src
  PROVE  \/ \E s \in Line(here) : sources[s].file = file
         \/ \E s, t \in Line(here) : s # t /\ sources[s].file = sources[t].file
<1> DEFINE n == Len(stack)
           f == [j \in 1 .. n + 1 |-> IF j = n + 1 THEN file ELSE sources[stack[j].src].file]
<1>1. n \in Nat \ {0} /\ n \in 1 .. n /\ here = stack[n].src
  BY PathFacts, FrameFacts DEF Top
<1>2. /\ \A j \in 1 .. n : stack[j].src \in Read
      /\ \A j \in 1 .. n : Line(stack[j].src) = {stack[k].src : k \in 1 .. j}
      /\ \A j, k \in 1 .. n : stack[j].src = stack[k].src => j = k
  BY PathFacts
<1>3. Line(here) = {stack[k].src : k \in 1 .. n}
  BY <1>1, <1>2
<1>4. \A j \in 1 .. n + 1 : j = n + 1 \/ j \in 1 .. n
  BY <1>1
<1>5. f \in [1 .. n + 1 -> Files]
  <2>1. \A j \in 1 .. n : sources[stack[j].src].file \in Files
    BY <1>2, SourceFacts DEF TypeOK
  <2> QED BY <1>4, <2>1
<1>6. /\ IsFiniteSet(1 .. n + 1) /\ Cardinality(1 .. n + 1) = n + 1
  <2>1. 1 \in Int /\ n + 1 \in Int /\ ~ (1 > n + 1) /\ n + 1 - 1 + 1 = n + 1
    BY <1>1
  <2> QED BY <2>1, FS_Interval
<1>7. IsFiniteSet(Files) /\ Cardinality(Files) < n + 1
  <2>1. IsFiniteSet(Files) /\ Cardinality(Files) \in Nat /\ Cardinality(Files) <= n
    BY DepthAssumption, FS_CardinalityType
  <2> QED BY <1>1, <2>1
<1> HIDE DEF f, n
<1>8. \E j, k \in 1 .. n + 1 : j # k /\ f[j] = f[k]
  BY <1>5, <1>6, <1>7, FS_PigeonHole
<1>9. PICK j \in 1 .. n + 1, k \in 1 .. n + 1 : j # k /\ f[j] = f[k]
  BY <1>8
<1>10. /\ f[n + 1] = file
       /\ \A l \in 1 .. n : f[l] = sources[stack[l].src].file /\ stack[l].src \in Line(here)
  BY <1>1, <1>3 DEF f
<1>11. CASE j = n + 1 \/ k = n + 1
  <2>1. PICK l \in 1 .. n : f[l] = f[n + 1]
    BY <1>4, <1>9, <1>11
  <2> QED BY <1>10, <2>1
<1>12. CASE j \in 1 .. n /\ k \in 1 .. n
  BY <1>2, <1>9, <1>10, <1>12 DEF n
<1> QED BY <1>4, <1>11, <1>12

\* A crash while the files are parsed, or of the verifier.
LEMMA StopEarly ==
  ASSUME Inv, NEW how, Stop(how), phase \in {"start", "parse", "verify"},
         \/ how \in {"thrown", "null"}
         \/ how = "overflow" /\ OverflowsInCycle'
  PROVE  Inv'
<1>1. TypeOK'
  BY DEF Inv, Stop, names, TypeOK, Read, Final, Crashes
<1>2. wrong' = {}
  BY DEF Inv, Working, Untouched, Stop
<1>3. Promised'
  <2>1. CASE how \in {"thrown", "null"}
    BY <1>2, <2>1, PromisedEarly DEF Stop
  <2>2. CASE how = "overflow" /\ OverflowsInCycle'
    BY <1>2, <2>2 DEF Stop, Promised, ErrorsShown, NoDirectErrors, CalleesFound, WrongOnlyIfRepeated
  <2> QED BY <2>1, <2>2
<1> QED BY <1>1, <1>3 DEF Inv, Working, Stop

LEMMA StepMain ==
  ASSUME Inv, Main
  PROVE  Inv'
<1>1. phase = "start" /\ sources = <<>> /\ stack = <<>> /\ v_funcs = <<>> /\ Untouched
  BY DEF Main, Inv, Working
<1>2. CASE Stop("null") \/ Stop("thrown")
  BY <1>1, <1>2, StopEarly
<1>3. CASE Root \in DOMAIN program /\ Open(Root, {})
  <2> DEFINE x == [file |-> Root, above |-> {}, nodes |-> <<>>, messages |-> {}]
  <2>1. x \in SourceOf(1)
    BY <1>3 DEF SourceOf
  <2>2. sources' = <<x>> /\ stack' = <<Frame(1)>>
    BY <1>1, <1>3 DEF Open
  <2>3. x.above = {} /\ x.nodes = <<>> /\ x.messages = {}
    OBVIOUS
  <2> HIDE DEF x
  <2>4. Frame(1) \in FrameOf(1) /\ Frame(1).src = 1
    BY DEF Frame, FrameOf
  <2>5. /\ sources' \in Seq(SourceOf(1)) /\ Len(sources') = 1 /\ sources'[1] = x
        /\ stack' \in Seq(FrameOf(1)) /\ Len(stack') = 1 /\ stack'[1].src = 1 /\ stack' # <<>>
    BY <2>1, <2>2, <2>4
  <2>6. Read' = {1}
    BY <2>5 DEF Read
  <2>7. /\ program' = program /\ phase' = "parse" /\ wrong' = {} /\ v_funcs' = <<>> /\ Untouched'
        /\ NamesTyped' /\ printed' \subseteq Read'
    BY <1>1, <1>3 DEF Open, names, NamesTyped, Inv, TypeOK, Untouched, Read
  <2>8. TypeOK'
    BY <1>1, <2>5, <2>7, TypeNext DEF Inv, Phases
  <2>9. \A i : ~ Imports(1, i)'
    BY <2>3, <2>5 DEF Imports
  <2>10. Lines' /\ Links'
    <3>1. Line(1)' = {1} /\ sources'[1].above = {}
      BY <2>3, <2>5 DEF Line
    <3> QED BY <2>6, <2>9, <3>1 DEF Lines, Links
  <2>11. Path'
    <3>1. \A j \in 1 .. Len(stack') : j = 1
      BY <2>5
    <3>2. sources'[stack'[1].src].above = {stack'[k].src : k \in 1 .. 0}
      BY <2>3, <2>5
    <3> QED BY <2>5, <3>1, <3>2 DEF Path
  <2>12. Parsing'
    <3>1. 1 .. Len(stack') - 1 = {}
      BY <2>5
    <3> QED BY <2>3, <2>5, <2>6, <3>1 DEF Parsing
  <2>13. Promised'
    BY <2>7, PromisedEarly
  <2> QED BY <2>7, <2>8, <2>10, <2>11, <2>12, <2>13 DEF Inv, Working, Tree
<1> QED BY <1>2, <1>3 DEF Main

\* A step of the parser, inside a document, that leaves the names alone.
LEMMA StepParse ==
  ASSUME Inv, UNCHANGED <<program, names, printed, wrong>>, phase = "parse",
         phase' = "parse", sources' \in Seq(SourceOf(Len(sources'))),
         stack' \in Seq(FrameOf(Len(sources'))), stack' # <<>>, Read \subseteq Read',
         Tree', Parsing'
  PROVE  Inv'
<1>1. Untouched /\ v_funcs = <<>>
  BY DEF Inv, Working
<1>2. /\ program' = program /\ wrong' = {} /\ v_funcs' = <<>> /\ Untouched'
      /\ NamesTyped' /\ printed' \subseteq Read'
  BY <1>1 DEF names, NamesTyped, Inv, TypeOK, Untouched
<1>3. TypeOK'
  BY <1>2, TypeNext DEF Inv, Phases
<1>4. Promised'
  BY <1>2, PromisedEarly
<1> QED BY <1>2, <1>3, <1>4 DEF Inv, Working

LEMMA ParseFacts ==
  ASSUME Inv, phase = "parse"
  PROVE  /\ TypeOK /\ Tree /\ Parsing /\ v_funcs = <<>> /\ Untouched /\ stack # <<>>
         /\ Top.src \in Read /\ Top.at \in Nat
         /\ Len(sources) \in Nat /\ sources \in Seq(SourceOf(Len(sources)))
         /\ Reading => /\ Next_item \in Item
                       /\ Next_item.kind \in {"function", "extern", "struct"} => Next_item \in Node
                       /\ Next_item.kind = "import" => Next_item.file \in Files
<1>1. /\ TypeOK /\ Tree /\ Parsing /\ v_funcs = <<>> /\ Untouched /\ program \in Programs
  BY DEF Inv, Working
<1>2. stack # <<>> /\ Top.src \in Read /\ Top.at \in Nat
  BY <1>1, PathFacts, FrameFacts
<1>3. Len(sources) \in Nat /\ sources \in Seq(SourceOf(Len(sources)))
  BY <1>1, <1>2, SourceFacts
<1>4. Reading => /\ Next_item \in Item
                 /\ Next_item.kind \in {"function", "extern", "struct"} => Next_item \in Node
                 /\ Next_item.kind = "import" => Next_item.file \in Files
  BY <1>1, <1>2, ItemFacts DEF Reading
<1> QED BY <1>1, <1>2, <1>3, <1>4

LEMMA ReportedAlike ==
  ASSUME Inv, phase = "parse", NEW m \in SUBSET {"syntax"}
  PROVE  Alike(Reported(Top.src, m)) /\ Alike(sources)
<1>1. PICK here : here = Top.src
  OBVIOUS
<1>2. TypeOK /\ here \in Read /\ \A s \in Read : sources[s].messages \subseteq {"syntax"}
  BY <1>1, ParseFacts DEF Parsing
<1>3. /\ Reported(here, m) \in Seq(SourceOf(Len(sources)))
      /\ Len(Reported(here, m)) = Len(sources)
      /\ \A t \in Read :
           /\ Reported(here, m)[t].file = sources[t].file
           /\ Reported(here, m)[t].above = sources[t].above
           /\ Reported(here, m)[t].nodes = sources[t].nodes
           /\ Reported(here, m)[t].messages =
                IF t = here THEN sources[t].messages \cup m ELSE sources[t].messages
  <2>1. m \in SUBSET Wordings
    BY DEF Wordings
  <2> QED BY <1>2, <2>1, ReportedFacts
<1>4. \A t \in Read : Reported(here, m)[t].messages \subseteq {"syntax"}
  BY <1>2, <1>3
<1> QED BY <1>1, <1>2, <1>3, <1>4, ParseFacts DEF Alike

LEMMA StepDeclaration ==
  ASSUME Inv, ParseDeclaration
  PROVE  Inv'
<1>1. PICK here, x : here = Top.src /\ x = Next_item
  OBVIOUS
<1>2. PICK m \in SUBSET {"syntax"} : sources' = NodeAdded(Reported(here, m), here, x)
  <2>1. CASE Next_item.kind = "function" /\ Next_item.use.what = "gap"
    BY <1>1, <2>1 DEF ParseDeclaration, NodeAdded
  <2>2. CASE ~ (Next_item.kind = "function" /\ Next_item.use.what = "gap")
    BY <1>1, <2>2 DEF ParseDeclaration, NodeAdded
  <2> QED BY <2>1, <2>2
<1>3. phase = "parse" /\ Reading /\ x.kind \in {"function", "extern", "struct"}
  BY <1>1 DEF ParseDeclaration, Reading
<1>4. /\ TypeOK /\ Tree /\ Parsing /\ here \in Read /\ Len(sources) \in Nat /\ x \in Node
  BY <1>1, <1>3, ParseFacts
<1>5. PICK S : S = Reported(here, m)
  OBVIOUS
<1>6. Alike(S)
  BY <1>1, <1>3, <1>5, ReportedAlike
<1>7. /\ sources' \in Seq(SourceOf(Len(sources))) /\ Len(sources') = Len(sources)
      /\ \A t \in Read :
           /\ sources'[t].above = sources[t].above
           /\ sources'[t].messages \subseteq {"syntax"}
           /\ sources'[t].nodes =
                IF t = here THEN Append(sources[t].nodes, x) ELSE sources[t].nodes
  <2>1. sources' = NodeAdded(S, here, x) /\ here \in 1 .. Len(S) /\ S \in Seq(SourceOf(Len(sources)))
    BY <1>2, <1>4, <1>5, <1>6 DEF Alike, Read
  <2>2. /\ NodeAdded(S, here, x) \in Seq(SourceOf(Len(sources)))
        /\ Len(NodeAdded(S, here, x)) = Len(S)
        /\ \A t \in 1 .. Len(S) :
             /\ NodeAdded(S, here, x)[t].above = S[t].above
             /\ NodeAdded(S, here, x)[t].messages = S[t].messages
             /\ NodeAdded(S, here, x)[t].nodes =
                  IF t = here THEN Append(S[t].nodes, x) ELSE S[t].nodes
    BY <1>4, <2>1, NodeAddedFacts
  <2>3. Len(S) = Len(sources) /\ \A t \in Read : /\ t \in 1 .. Len(S)
                                               /\ S[t].above = sources[t].above
                                               /\ S[t].nodes = sources[t].nodes
                                               /\ S[t].messages \subseteq {"syntax"}
    BY <1>6 DEF Alike, Read
  <2> QED BY <2>1, <2>2, <2>3
<1>8. ASSUME NEW p \in Read, NEW i
      PROVE  /\ Imports(p, i)' <=> Imports(p, i)
             /\ Imports(p, i) => Child(p, i)' = Child(p, i)
  <2>1. CASE p # here
    BY <1>7, <2>1 DEF Imports, Child
  <2>2. CASE p = here
    <3>1. PICK q : q = sources[p].nodes
      OBVIOUS
    <3>2. q \in Seq(Node) /\ sources'[p].nodes = Append(q, x)
      BY <1>4, <1>7, <2>2, <3>1, SourceFacts
    <3>3. /\ DOMAIN Append(q, x) = DOMAIN q \cup {Len(q) + 1}
          /\ \A j \in DOMAIN q : Append(q, x)[j] = q[j]
          /\ Append(q, x)[Len(q) + 1] = x /\ Len(q) + 1 \notin DOMAIN q
      <4>1. /\ Append(q, x) \in Seq(Node) /\ Len(Append(q, x)) = Len(q) + 1
            /\ \A j \in 1 .. Len(q) : Append(q, x)[j] = q[j]
            /\ Append(q, x)[Len(q) + 1] = x
        BY <1>4, <3>2, AppendProperties
      <4>2. /\ DOMAIN q = 1 .. Len(q) /\ Len(q) \in Nat
            /\ DOMAIN Append(q, x) = 1 .. Len(Append(q, x))
        BY <3>2, <4>1, LenProperties
      <4>3. \A l \in Nat : 1 .. l + 1 = (1 .. l) \cup {l + 1} /\ l + 1 \notin 1 .. l
        OBVIOUS
      <4> QED BY <4>1, <4>2, <4>3
    <3> QED BY <1>3, <3>1, <3>2, <3>3 DEF Imports, Child
  <2> QED BY <2>1, <2>2
<1>9. /\ Tree' /\ Parsing' /\ stack' \in Seq(FrameOf(Len(sources))) /\ stack' # <<>>
  BY <1>4, <1>7, <1>8, ParseOn DEF ParseDeclaration
<1>10. Read' = Read
  BY <1>7 DEF Read
<1> QED BY <1>3, <1>7, <1>9, <1>10, StepParse DEF ParseDeclaration

LEMMA StepSlip ==
  ASSUME Inv, ParseSlip \/ ParseUnclosed
  PROVE  Inv'
<1>1. phase = "parse" /\ phase' = "parse" /\ sources' = Reported(Top.src, {"syntax"})
  BY DEF ParseSlip, ParseUnclosed, Reading
<1>2. PICK S : S = sources' /\ Alike(S)
  BY <1>1, ReportedAlike
<1>3. TypeOK /\ Tree /\ Parsing
  BY <1>1, ParseFacts
<1>4. /\ sources' \in Seq(SourceOf(Len(sources))) /\ Len(sources') = Len(sources)
      /\ \A t \in Read :
           /\ sources'[t].above = sources[t].above
           /\ sources'[t].messages \subseteq {"syntax"}
           /\ sources'[t].nodes = sources[t].nodes
  BY <1>2 DEF Alike
<1>5. \A p \in Read : \A i : /\ Imports(p, i)' <=> Imports(p, i)
                             /\ Imports(p, i) => Child(p, i)' = Child(p, i)
  BY <1>4 DEF Imports, Child
<1>6. /\ Tree' /\ Parsing' /\ stack' \in Seq(FrameOf(Len(sources))) /\ stack' # <<>>
  BY <1>3, <1>4, <1>5, ParseOn DEF ParseSlip, ParseUnclosed
<1>7. Read' = Read
  BY <1>4 DEF Read
<1> QED BY <1>1, <1>4, <1>6, <1>7, StepParse DEF ParseSlip, ParseUnclosed

LEMMA StepImport ==
  ASSUME Inv, ParseImport
  PROVE  Inv'
<1>1. phase = "parse" /\ Reading /\ Next_item.kind = "import"
  BY DEF ParseImport, Reading
<1>2. TypeOK /\ Tree /\ Parsing /\ Next_item.file \in Files
  BY <1>1, ParseFacts
<1>3. CASE Stop("thrown")
  BY <1>1, <1>3, StopEarly
<1>4. CASE Len(stack) = Depth /\ Stop("overflow")
  <2>1. PICK here, file : here = Top.src /\ file = Next_item.file
    OBVIOUS
  <2>2. \/ \E s \in Line(here) : sources[s].file = file
        \/ \E s, t \in Line(here) : s # t /\ sources[s].file = sources[t].file
    BY <1>2, <1>4, <2>1, ChainRepeats
  <2>3. Line(here) = {Top.src} \cup sources[Top.src].above
    BY <2>1 DEF Line
  <2>4. OverflowsInCycle
    BY <2>1, <2>2, <2>3 DEF OverflowsInCycle
  <2>5. OverflowsInCycle'
    <3>1. Top' = Top /\ Next_item' = Next_item /\ sources' = sources
      BY <1>4 DEF Stop, Top, Next_item, Text
    <3> QED BY <2>1, <2>2, <2>3, <3>1 DEF OverflowsInCycle
  <2> QED BY <1>1, <1>4, <2>5, StopEarly
<1>5. CASE Next_item.file \in DOMAIN program /\ Open(Next_item.file, sources[Top.src].above \cup {Top.src})
  <2>1. phase' = "parse" /\ UNCHANGED <<program, names, printed, wrong>>
    BY <1>5 DEF Open
  <2>2. PICK f : f = Next_item.file
    OBVIOUS
  <2>3. /\ Tree' /\ Parsing'
        /\ sources' \in Seq(SourceOf(Len(sources'))) /\ stack' \in Seq(FrameOf(Len(sources')))
        /\ stack' # <<>> /\ Read \subseteq Read'
    BY <1>2, <1>5, <2>1, <2>2, ParseInto
  <2> QED BY <1>1, <2>1, <2>3, StepParse
<1> QED BY <1>3, <1>4, <1>5 DEF ParseImport

\* The end of a document, at the end of its text or at junk.
LEMMA StepReturn ==
  ASSUME Inv, phase = "parse", NEW S, Alike(S), ReturnDocument(S),
         UNCHANGED <<program, names, printed, wrong>>
  PROVE  Inv'
<1>1. TypeOK /\ Tree /\ Parsing /\ v_funcs = <<>> /\ Untouched /\ v_funcs' = v_funcs
  BY ParseFacts DEF names
<1>2. CASE Len(stack) = 1
  <2>1. phase' = "verify" /\ stack' = <<Frame(1)>> /\ sources' = S
    BY <1>2 DEF ReturnDocument
  <2>2. /\ Tree' /\ Walking' /\ Verifying' /\ SameTree
        /\ stack' \in Seq(FrameOf(Len(sources))) /\ stack' # <<>>
    BY <1>1, <1>2, <2>1, ParsedAll
  <2>3. Read' = Read /\ Len(sources') = Len(sources) /\ sources' \in Seq(SourceOf(Len(sources)))
    BY <2>2 DEF SameTree, Read
  <2>4. wrong' = {} /\ Untouched' /\ NamesTyped' /\ printed' \subseteq Read'
    BY <1>1, <2>3 DEF names, NamesTyped, Inv, TypeOK, Untouched
  <2>5. TypeOK'
    BY <1>1, <2>1, <2>2, <2>3, <2>4, TypeNext DEF Phases
  <2>6. Promised'
    BY <2>1, <2>4, PromisedEarly
  <2> QED BY <2>1, <2>2, <2>4, <2>5, <2>6 DEF Inv, Working
<1>3. CASE Len(stack) # 1
  <2>1. /\ phase' = "parse" /\ stack' = Advanced(Outer)
        /\ sources' = NodeAdded(S, Outer[Len(Outer)].src, [kind |-> "import", src |-> Top.src])
    BY <1>3 DEF ReturnDocument, NodeAdded
  <2>2. /\ Tree' /\ Parsing'
        /\ sources' \in Seq(SourceOf(Len(sources))) /\ Len(sources') = Len(sources)
        /\ stack' \in Seq(FrameOf(Len(sources))) /\ stack' # <<>>
    BY <1>1, <1>3, <2>1, ParseOut
  <2>3. Read' = Read
    BY <2>2 DEF Read
  <2> QED BY <2>1, <2>2, <2>3, StepParse
<1> QED BY <1>2, <1>3

\* A step of the verifier.
LEMMA StepVerify ==
  ASSUME Inv, phase = "verify", phase' = "verify",
         UNCHANGED <<functions, structures, wrong>>, SameTree,
         v_structures' \subseteq Names,
         DOMAIN v_funcs' \subseteq Names, \A n \in DOMAIN v_funcs' : v_funcs'[n] \in Nat,
         printed' \subseteq Read,
         stack' \in Seq(FrameOf(Len(sources))), Tree', Walking', Verifying'
  PROVE  Inv'
<1>1. Untouched /\ TypeOK
  BY DEF Inv, Working
<1>2. /\ Read' = Read /\ Len(sources') = Len(sources) /\ stack' # <<>>
      /\ sources' \in Seq(SourceOf(Len(sources))) /\ program' = program
  BY DEF SameTree, Read, Tree, Path
<1>3. NamesTyped' /\ Untouched' /\ wrong' = {}
  BY <1>1 DEF NamesTyped, TypeOK, Untouched
<1>4. TypeOK'
  BY <1>1, <1>2, <1>3, TypeNext DEF Phases
<1>5. Promised'
  BY <1>3, PromisedEarly
<1> QED BY <1>2, <1>3, <1>4, <1>5 DEF Inv, Working

LEMMA VisitFacts ==
  ASSUME Inv, phase \in {"verify", "gen"}
  PROVE  /\ Walk /\ TypeOK /\ Tree /\ Walking /\ 1 \in Read /\ stack # <<>>
         /\ Top.src \in Read /\ Top.at \in Nat /\ (InRoot => Top.src = 1)
         /\ Len(sources) \in Nat /\ stack \in Seq(FrameOf(Len(sources)))
         /\ stack' = Advanced(stack) => stack' \in Seq(FrameOf(Len(sources)))
         /\ UNCHANGED <<program, sources>> => SameTree
         /\ phase = "verify" => Verifying
         /\ phase = "gen" => Generating
         /\ v_structures \subseteq Names
         /\ DOMAIN v_funcs \subseteq Names /\ \A n \in DOMAIN v_funcs : v_funcs[n] \in Nat
         /\ printed \subseteq Read
<1>1. TypeOK /\ Tree /\ Walking /\ (phase = "verify" => Verifying) /\ (phase = "gen" => Generating)
  BY DEF Inv, Working
<1>2. 1 \in Read /\ stack # <<>>
  BY <1>1, PathFacts
<1>3. Top.src \in Read /\ Top.at \in Nat /\ Len(sources) \in Nat /\ stack \in Seq(FrameOf(Len(sources)))
  BY <1>1, <1>2, FrameFacts
<1>4. InRoot => Top.src = 1
  BY <1>1 DEF InRoot, Top, Tree, Path
<1>5. stack' = Advanced(stack) => stack' \in Seq(FrameOf(Len(sources)))
  BY <1>2, <1>3, AdvancedFacts
<1>6. UNCHANGED <<program, sources>> => SameTree
  BY <1>1, <1>2, SourceFacts DEF SameTree
<1> QED BY <1>1, <1>2, <1>3, <1>4, <1>5, <1>6 DEF Walk, TypeOK

LEMMA DeclarationFacts ==
  ASSUME Inv, phase \in {"verify", "gen"}, Top.at < Len(Nodes), NEW x, x = Visited
  PROVE  /\ x \in Node
         /\ x.kind \in Functions => x.name \in Names /\ x.arity \in Nat
         /\ x.kind = "struct" => x.name \in Names
         /\ x.kind = "function" => x.use \in Use /\ x.use.args \in Nat /\ x.use.of \in Names
         /\ x.kind = "import" => x.src \in Read
<1>1. x \in Node
  BY VisitFacts, NextNode
<1>2. \A y \in Node : /\ y.kind \in Functions => y.name \in Names /\ y.arity \in Nat
                      /\ y.kind = "struct" => y.name \in Names
  BY DEF Node, Functions
<1>3. \A y \in Node : y.kind = "function" => y.use \in Use
  BY DEF Node
<1>4. \A u \in Use : u.args \in Nat /\ u.of \in Names
  BY DEF Use
<1>5. x.kind = "import" => x.src \in Read
  <2>1. PICK here, i : here = Top.src /\ i = Top.at + 1
    OBVIOUS
  <2>2. x.kind = "import" => Imports(here, i) /\ x.src = Child(here, i) /\ here \in Read
    BY <2>1, VisitFacts, NextNode
  <2> QED BY <2>2, VisitFacts, ChildFacts DEF Tree
<1> QED BY <1>1, <1>2, <1>3, <1>4, <1>5

LEMMA StepVerifyFunction ==
  ASSUME Inv, VerifyFunction
  PROVE  Inv'
<1>1. PICK x, here, known :
        x = Visited /\ here = Top.src /\ known = With(v_funcs, x.name, x.arity)
  OBVIOUS
<1>2. phase = "verify" /\ Top.at < Len(Nodes) /\ x.kind = "function"
  BY <1>1 DEF VerifyFunction, Visiting
<1>3. CASE Stop("null")
  BY <1>2, <1>3, StopEarly
<1>4. ASSUME v_funcs' = known, Done, UNCHANGED <<v_structures, functions, structures, wrong>>,
             sources' = IF InRoot /\ x.use.what = "call"
                        THEN Reported(here, CallMessages(x.use, known)) ELSE sources
      PROVE  Inv'
  <2>1. /\ Walk /\ TypeOK /\ Verifying /\ 1 \in Read /\ here \in Read /\ (InRoot => here = 1)
    BY <1>1, <1>2, VisitFacts
  <2>2. /\ x.name \in Names /\ x.arity \in Nat /\ x.use.args \in Nat /\ x.use.of \in Names
    BY <1>1, <1>2, DeclarationFacts DEF Functions
  <2>3. /\ DOMAIN known \subseteq Names /\ \A n \in DOMAIN known : known[n] \in Nat
    BY <1>1, <1>2, <2>2, VisitFacts DEF With
  <2>4. PICK m : m = CallMessages(x.use, known)
    OBVIOUS
  <2>5. m \in SUBSET {"not in scope", "extra argument"}
    BY <2>4 DEF CallMessages
  <2>6. /\ SameTree
        /\ \A s \in Read : Erroneous(s)' <=> Erroneous(s)
        /\ \A s \in Read : sources[s].messages \subseteq sources'[s].messages
        /\ \A s \in Read : s # here => sources'[s].messages = sources[s].messages
    <3>1. CASE sources' = sources
      BY <1>2, <1>4, <3>1, VisitFacts DEF Done, Erroneous
    <3>2. CASE sources' = Reported(here, m)
      <4>1. m \in SUBSET Wordings
        BY <2>5 DEF Wordings
      <4>2. /\ SameTree
            /\ sources'[here].messages = sources[here].messages \cup m
            /\ \A t \in Read : t # here => sources'[t].messages = sources[t].messages
        BY <1>4, <2>1, <3>2, <4>1, ReportedTree DEF Done
      <4>3. "syntax" \notin m
        BY <2>5
      <4> QED BY <4>2, <4>3 DEF Erroneous
    <3> QED BY <1>4, <2>4, <3>1, <3>2
  <2>7. ASSUME InRoot, x.use.what = "call", sources'[1].messages = {}
        PROVE  x.use.of \in DOMAIN known /\ x.use.args <= known[x.use.of]
    <3>1. sources' = Reported(1, m) /\ m \in SUBSET Wordings
      BY <1>4, <2>1, <2>4, <2>5, <2>7 DEF Wordings
    <3>2. sources'[1].messages = sources[1].messages \cup m
      BY <2>1, <3>1, ReportedFacts
    <3>3. m = {}
      BY <2>7, <3>2
    <3>4. x.use.of \in DOMAIN known /\ ~ (x.use.args > known[x.use.of])
      BY <2>4, <3>3 DEF CallMessages
    <3> QED BY <2>2, <2>3, <3>4
  <2>8. Tree' /\ Walking' /\ Verifying'
    <3>1. stack' = Advanced(stack) /\ printed' = printed
      BY <1>4 DEF Done
    <3>2. Visited.kind # "import" /\ Visited.kind \in Functions
      BY <1>1, <1>2 DEF Functions
    <3>3. v_funcs' = With(v_funcs, Visited.name, Visited.arity)
      BY <1>1, <1>4
    <3>4. InRoot /\ Visited.kind = "function" /\ Visited.use.what = "call"
             /\ sources'[1].messages = {} =>
            Visited.use.of \in DOMAIN v_funcs' /\ Visited.use.args <= v_funcs'[Visited.use.of]
      BY <1>1, <1>4, <2>7
    <3> QED BY <1>1, <1>2, <2>1, <2>6, <3>1, <3>2, <3>3, <3>4, VerifyNode
  <2>9. /\ stack' \in Seq(FrameOf(Len(sources))) /\ phase' = "verify" /\ printed' \subseteq Read
        /\ v_structures' \subseteq Names
    BY <1>2, <1>4, VisitFacts DEF Done
  <2> QED BY <1>2, <1>4, <2>3, <2>6, <2>8, <2>9, StepVerify
<1> QED BY <1>1, <1>3, <1>4 DEF VerifyFunction

LEMMA StepVerifyExtern ==
  ASSUME Inv, VerifyExtern
  PROVE  Inv'
<1>1. PICK x : x = Visited
  OBVIOUS
<1>2. /\ phase = "verify" /\ Top.at < Len(Nodes) /\ x.kind = "extern" /\ phase' = "verify"
      /\ stack' = Advanced(stack)
      /\ UNCHANGED <<program, sources, printed, v_structures, functions, structures, wrong>>
      /\ v_funcs' = With(v_funcs, x.name, x.arity)
  BY <1>1 DEF VerifyExtern, Visiting, Done
<1>3. /\ Walk /\ Verifying /\ SameTree /\ stack' \in Seq(FrameOf(Len(sources)))
      /\ v_structures' \subseteq Names /\ printed' \subseteq Read
  BY <1>2, VisitFacts
<1>4. /\ x.name \in Names /\ x.arity \in Nat
  BY <1>1, <1>2, DeclarationFacts DEF Functions
<1>5. DOMAIN v_funcs' \subseteq Names /\ \A n \in DOMAIN v_funcs' : v_funcs'[n] \in Nat
  BY <1>2, <1>4, VisitFacts DEF With
<1>6. Tree' /\ Walking' /\ Verifying'
  <2>1. Visited.kind # "import" /\ Visited.kind # "function" /\ Visited.kind \in Functions
    BY <1>1, <1>2 DEF Functions
  <2>2. \A s \in Read : Erroneous(s)' <=> Erroneous(s)
    BY <1>2 DEF Erroneous
  <2>3. \A s \in Read : sources[s].messages \subseteq sources'[s].messages
    BY <1>2
  <2>4. \A s \in Read : s # Top.src => sources'[s].messages = sources[s].messages
    BY <1>2
  <2>5. v_funcs' = With(v_funcs, Visited.name, Visited.arity)
    BY <1>1, <1>2
  <2> QED BY <1>2, <1>3, <2>1, <2>2, <2>3, <2>4, <2>5, VerifyNode
<1> QED BY <1>2, <1>3, <1>5, <1>6, StepVerify

LEMMA StepVerifyStruct ==
  ASSUME Inv, VerifyStruct
  PROVE  Inv'
<1>1. PICK x : x = Visited
  OBVIOUS
<1>2. /\ phase = "verify" /\ Top.at < Len(Nodes) /\ x.kind = "struct" /\ phase' = "verify"
      /\ stack' = Advanced(stack)
      /\ UNCHANGED <<program, sources, printed, v_funcs, functions, structures, wrong>>
      /\ v_structures' = v_structures \cup {x.name}
  BY <1>1 DEF VerifyStruct, Visiting, Done
<1>3. /\ Walk /\ Verifying /\ SameTree /\ stack' \in Seq(FrameOf(Len(sources)))
      /\ printed' \subseteq Read
      /\ DOMAIN v_funcs' \subseteq Names /\ \A n \in DOMAIN v_funcs' : v_funcs'[n] \in Nat
  BY <1>2, VisitFacts
<1>4. v_structures' \subseteq Names
  BY <1>1, <1>2, DeclarationFacts, VisitFacts
<1>5. Tree' /\ Walking' /\ Verifying'
  <2>1. Visited.kind # "import" /\ Visited.kind # "function"
    BY <1>1, <1>2
  <2>2. \A s \in Read : Erroneous(s)' <=> Erroneous(s)
    BY <1>2 DEF Erroneous
  <2>3. \A s \in Read : sources[s].messages \subseteq sources'[s].messages
    BY <1>2
  <2>4. \A s \in Read : s # Top.src => sources'[s].messages = sources[s].messages
    BY <1>2
  <2> QED BY <1>2, <1>3, <2>1, <2>2, <2>3, <2>4, VerifyNode
<1> QED BY <1>2, <1>3, <1>4, <1>5, StepVerify

LEMMA StepVerifyImport ==
  ASSUME Inv, VerifyImport
  PROVE  Inv'
<1>1. PICK here, v : here = Top.src /\ v = Visited.src
  OBVIOUS
<1>2. /\ phase = "verify" /\ Top.at < Len(Nodes) /\ Visited.kind = "import" /\ phase' = "verify"
      /\ UNCHANGED <<program, v_structures, v_funcs, functions, structures, wrong>>
  BY DEF VerifyImport, Visiting, names
<1>3. /\ Walk /\ TypeOK /\ Verifying /\ here \in Read /\ v \in Read /\ printed \subseteq Read
      /\ v_structures' \subseteq Names
      /\ DOMAIN v_funcs' \subseteq Names /\ \A n \in DOMAIN v_funcs' : v_funcs'[n] \in Nat
  BY <1>1, <1>2, VisitFacts, DeclarationFacts
<1>4. CASE Messages(v) = {}
  <2>1. Descend(Visited) /\ sources' = sources /\ printed' = printed
    BY <1>1, <1>4 DEF VerifyImport, Show
  <2>2. Tree' /\ Walking' /\ Verifying' /\ stack' \in Seq(FrameOf(Len(sources)))
    BY <1>1, <1>2, <1>3, <1>4, <2>1, VerifyInto
  <2>3. SameTree
    BY <1>2, <2>1, VisitFacts
  <2> QED BY <1>2, <1>3, <2>1, <2>2, <2>3, StepVerify
<1>5. CASE Messages(v) # {}
  <2>1. /\ sources' = Reported(here, {"included"}) /\ printed' = printed \cup {v}
        /\ stack' = Advanced(stack)
    BY <1>1, <1>5 DEF VerifyImport, Show
  <2>2. {"included"} \in SUBSET Wordings
    BY DEF Wordings
  <2>3. /\ SameTree
        /\ sources'[here].messages = sources[here].messages \cup {"included"}
        /\ \A s \in Read : s # here => sources'[s].messages = sources[s].messages
    BY <1>2, <1>3, <2>1, <2>2, ReportedTree
  <2>4. sources[v].messages # {}
    BY <1>5 DEF Messages
  <2>5. Tree' /\ Walking' /\ Verifying'
    BY <1>1, <1>2, <1>3, <2>1, <2>3, <2>4, VerifySkip
  <2>6. printed' \subseteq Read /\ stack' \in Seq(FrameOf(Len(sources)))
    BY <1>2, <1>3, <2>1, VisitFacts
  <2> QED BY <1>2, <1>3, <2>3, <2>5, <2>6, StepVerify
<1> QED BY <1>4, <1>5

LEMMA StepEndVerify ==
  ASSUME Inv, EndVerify
  PROVE  Inv'
<1>1. /\ phase = "verify" /\ Top.at = Len(Nodes) /\ InRoot /\ Show(1) /\ stack' = <<Frame(1)>>
      /\ phase' = IF Messages(1) = {} THEN "gen" ELSE "failed"
      /\ UNCHANGED <<program, sources, v_structures, v_funcs, functions, structures, wrong>>
  BY DEF EndVerify, names
<1>2. /\ Walk /\ TypeOK /\ Verifying /\ Untouched /\ SameTree /\ 1 \in Read
      /\ Len(sources) \in Nat
  BY <1>1, VisitFacts DEF Inv, Working
<1>3. /\ Tree' /\ Walking' /\ stack' \in Seq(FrameOf(Len(sources))) /\ stack' # <<>>
      /\ \A s \in Read : Erroneous(s) => \E t \in Line(s) : Erroneous(t) /\ t \in printed'
      /\ Messages(1) = {} =>
           /\ \A s \in Read : sources[s].above \subseteq {1} => ~ Erroneous(s)
           /\ Generating'
  BY <1>1, <1>2, EndVisit
<1>4. Read' = Read /\ \A s : Erroneous(s)' <=> Erroneous(s)
  BY <1>1 DEF Read, Erroneous
<1>5. TypeOK'
  <2>1. NamesTyped' /\ phase' \in Phases /\ wrong' \subseteq {"signature", "field"}
    BY <1>1, <1>2 DEF TypeOK, NamesTyped, Phases, Final
  <2>2. printed' \subseteq Read'
    BY <1>1, <1>2, <1>4 DEF Show, TypeOK
  <2>3. Len(sources') = Len(sources) /\ sources' \in Seq(SourceOf(Len(sources)))
    BY <1>1, <1>2 DEF SameTree
  <2> QED BY <1>1, <1>2, <1>3, <2>1, <2>2, <2>3, TypeNext
<1>6. Promised'
  <2>1. ErrorsShown'
    <3>1. ASSUME NEW s \in Read, Erroneous(s)
          PROVE  \E t \in {s} \cup sources[s].above : Erroneous(t) /\ t \in printed'
      BY <1>3, <3>1 DEF Line
    <3> QED BY <1>1, <1>4, <3>1 DEF ErrorsShown
  <2>2. NoDirectErrors'
    BY <1>1, <1>3, <1>4 DEF NoDirectErrors
  <2>3. WrongOnlyIfRepeated'
    BY <1>1, <1>2 DEF Untouched, WrongOnlyIfRepeated
  <2> QED BY <1>1, <2>1, <2>2, <2>3 DEF Promised, CalleesFound, OverflowsInCycle
<1>7. Working'
  BY <1>1, <1>3 DEF Working
<1> QED BY <1>1, <1>5, <1>6, <1>7 DEF Inv

\* A step of the generator.
LEMMA StepGenerate ==
  ASSUME Inv, phase = "gen",
         UNCHANGED <<program, sources, printed, v_structures, v_funcs>>,
         DOMAIN functions' \subseteq Names, \A n \in DOMAIN functions' : functions'[n] \in Nat,
         structures' \in [Names -> Nat], wrong' \subseteq {"signature", "field"},
         stack' \in Seq(FrameOf(Len(sources))), stack' # <<>>,
         phase' \in {"gen", "emit", "range", "null"},
         phase' = "gen" => Tree' /\ Walking' /\ Generating',
         "field" \in wrong' => "field" \in wrong \/ Twice({"struct"}) # {},
         "signature" \in wrong' => "signature" \in wrong \/ ArityDiffers \/ TooFewArguments,
         phase' = "range" => ArityDiffers
  PROVE  Inv'
<1>1. TypeOK /\ SameTree /\ Read' = Read
  BY VisitFacts DEF Read
<1>2. TypeOK'
  <2>1. NamesTyped' /\ phase' \in Phases
    BY <1>1 DEF TypeOK, NamesTyped, Phases, Final, Crashes
  <2>2. printed' \subseteq Read' /\ Len(sources') = Len(sources)
        /\ sources' \in Seq(SourceOf(Len(sources)))
    BY <1>1 DEF SameTree, TypeOK
  <2> QED BY <1>1, <2>1, <2>2, TypeNext
<1>3. Promised'
  BY PromisedLate DEF Inv
<1> QED BY <1>2, <1>3 DEF Inv, Working

LEMMA GenerateFacts ==
  ASSUME Inv, phase = "gen"
  PROVE  /\ DOMAIN functions \subseteq Names /\ \A n \in DOMAIN functions : functions[n] \in Nat
         /\ structures \in [Names -> Nat] /\ wrong \subseteq {"signature", "field"}
BY DEF Inv, TypeOK

LEMMA CreatedTyped ==
  ASSUME Inv, phase = "gen", Top.at < Len(Nodes), Visited.kind \in Functions,
         NEW made, made = Created(Visited)
  PROVE  DOMAIN made \subseteq Names /\ \A n \in DOMAIN made : made[n] \in Nat
<1>1. PICK x : x = Visited
  OBVIOUS
<1>2. x.name \in Names /\ x.arity \in Nat /\ made = Created(x)
  BY <1>1, DeclarationFacts
<1>3. CASE x.name \in DOMAIN functions
  BY <1>2, <1>3, GenerateFacts DEF Created
<1>4. CASE x.name \notin DOMAIN functions
  <2>1. made = With(functions, x.name, x.arity)
    BY <1>2, <1>4 DEF Created
  <2> QED BY <1>2, <2>1, GenerateFacts DEF With
<1> QED BY <1>3, <1>4

LEMMA StepGenFunction ==
  ASSUME Inv, GenFunction
  PROVE  Inv'
<1>1. PICK x, made : x = Visited /\ made = Created(x)
  OBVIOUS
<1>2. phase = "gen" /\ Top.at < Len(Nodes) /\ x.kind = "function"
  BY <1>1 DEF GenFunction, Visiting
<1>3. Walk /\ Generating /\ stack # <<>> /\ stack \in Seq(FrameOf(Len(sources)))
  BY <1>2, VisitFacts
<1>4. /\ DOMAIN functions \subseteq Names /\ \A n \in DOMAIN functions : functions[n] \in Nat
      /\ structures \in [Names -> Nat] /\ wrong \subseteq {"signature", "field"}
  BY <1>2, GenerateFacts
<1>5. InRoot =>
        /\ x.use.what = "call" => x.use.of \in DOMAIN made
        /\ made[x.name] > x.arity => ArityDiffers
        /\ x.use.what = "call" /\ made[x.use.of] # x.use.args => ArityDiffers \/ TooFewArguments
        /\ structures[x.use.of] > 1 => Twice({"struct"}) # {}
  BY <1>1, <1>2, <1>3, GeneratedUse
<1>6. ASSUME NEW how, Stop(how), how \in {"range", "null"}, how = "range" => ArityDiffers
      PROVE  Inv'
  BY <1>2, <1>3, <1>4, <1>6, StepGenerate DEF Stop, names
<1>7. CASE /\ functions' = made
           /\ wrong' = wrong \cup (IF InRoot THEN WrongUse(x.use, made) ELSE {})
           /\ Done /\ UNCHANGED <<sources, v_funcs, v_structures, structures>>
  <2>1. /\ DOMAIN functions' \subseteq Names /\ \A n \in DOMAIN functions' : functions'[n] \in Nat
    BY <1>1, <1>2, <1>7, CreatedTyped DEF Functions
  <2>2. /\ stack' \in Seq(FrameOf(Len(sources))) /\ phase' = "gen"
        /\ stack' = Advanced(stack) /\ printed' = printed /\ program' = program
    BY <1>2, <1>7, VisitFacts DEF Done
  <2>3. Tree' /\ Walking' /\ Generating'
    <3>1. Visited.kind \in Functions /\ functions' = Created(Visited) /\ structures' = structures
      BY <1>1, <1>2, <1>7 DEF Functions
    <3> QED BY <1>2, <1>3, <1>7, <2>2, <3>1, GenerateNode
  <2>4. /\ WrongUse(x.use, made) \subseteq {"signature", "field"}
        /\ "field" \in WrongUse(x.use, made) => structures[x.use.of] > 1
        /\ "signature" \in WrongUse(x.use, made) =>
             x.use.what = "call" /\ made[x.use.of] # x.use.args
    <3>1. CASE x.use.what = "call"
      BY <3>1 DEF WrongUse
    <3>2. CASE x.use.what = "field"
      BY <3>2 DEF WrongUse
    <3>3. CASE x.use.what # "call" /\ x.use.what # "field"
      BY <3>3 DEF WrongUse
    <3> QED BY <3>1, <3>2, <3>3
  <2>5. /\ wrong' \subseteq {"signature", "field"}
        /\ "field" \in wrong' => "field" \in wrong \/ Twice({"struct"}) # {}
        /\ "signature" \in wrong' => "signature" \in wrong \/ ArityDiffers \/ TooFewArguments
    BY <1>4, <1>5, <1>7, <2>4
  <2>6. stack' # <<>>
    BY <2>3 DEF Tree, Path
  <2> QED BY <1>2, <1>4, <1>7, <2>1, <2>2, <2>3, <2>5, <2>6, StepGenerate
<1>8. \/ InRoot /\ made[x.name] > x.arity /\ Stop("range")
      \/ InRoot /\ x.use.what = "call" /\ x.use.of \notin DOMAIN made
      \/ Stop("null")
      \/ /\ functions' = made
         /\ wrong' = wrong \cup (IF InRoot THEN WrongUse(x.use, made) ELSE {})
         /\ Done /\ UNCHANGED <<sources, v_funcs, v_structures, structures>>
  BY <1>1 DEF GenFunction
<1> QED BY <1>5, <1>6, <1>7, <1>8

LEMMA StepGenExtern ==
  ASSUME Inv, GenExtern
  PROVE  Inv'
<1>1. /\ phase = "gen" /\ Top.at < Len(Nodes) /\ Visited.kind = "extern" /\ phase' = "gen"
      /\ functions' = Created(Visited) /\ stack' = Advanced(stack)
      /\ UNCHANGED <<program, sources, printed, v_funcs, v_structures, structures, wrong>>
  BY DEF GenExtern, Visiting, Done
<1>2. /\ Walk /\ Generating /\ stack' \in Seq(FrameOf(Len(sources)))
      /\ structures' \in [Names -> Nat] /\ wrong' \subseteq {"signature", "field"}
  BY <1>1, VisitFacts, GenerateFacts
<1>3. Visited.kind \in Functions
  BY <1>1 DEF Functions
<1>4. DOMAIN functions' \subseteq Names /\ \A n \in DOMAIN functions' : functions'[n] \in Nat
  BY <1>1, <1>3, CreatedTyped
<1>5. Tree' /\ Walking' /\ Generating'
  BY <1>1, <1>2, <1>3, GenerateNode
<1>6. stack' # <<>>
  BY <1>5 DEF Tree, Path
<1> QED BY <1>1, <1>2, <1>4, <1>5, <1>6, StepGenerate

LEMMA StepGenStruct ==
  ASSUME Inv, GenStruct
  PROVE  Inv'
<1>1. /\ phase = "gen" /\ Top.at < Len(Nodes) /\ Visited.kind = "struct" /\ phase' = "gen"
      /\ structures' = [structures EXCEPT ![Visited.name] = @ + 1] /\ stack' = Advanced(stack)
      /\ UNCHANGED <<program, sources, printed, v_funcs, v_structures, functions, wrong>>
  BY DEF GenStruct, Visiting, Done
<1>2. /\ Walk /\ Generating /\ stack' \in Seq(FrameOf(Len(sources)))
      /\ structures \in [Names -> Nat] /\ wrong' \subseteq {"signature", "field"}
      /\ DOMAIN functions' \subseteq Names /\ \A n \in DOMAIN functions' : functions'[n] \in Nat
  BY <1>1, VisitFacts, GenerateFacts
<1>3. structures' \in [Names -> Nat]
  <2>1. PICK x : x = Visited
    OBVIOUS
  <2>2. x.name \in Names /\ structures' = [structures EXCEPT ![x.name] = structures[x.name] + 1]
    BY <1>1, <2>1, DeclarationFacts
  <2> QED BY <1>2, <2>2
<1>4. Tree' /\ Walking' /\ Generating'
  BY <1>1, <1>2, GenerateNode
<1>5. stack' # <<>>
  BY <1>4 DEF Tree, Path
<1> QED BY <1>1, <1>2, <1>3, <1>4, <1>5, StepGenerate

LEMMA StepGenImport ==
  ASSUME Inv, GenImport
  PROVE  Inv'
<1>1. /\ phase = "gen" /\ Top.at < Len(Nodes) /\ Visited.kind = "import" /\ phase' = "gen"
      /\ Descend(Visited)
      /\ UNCHANGED <<program, sources, printed, v_funcs, v_structures, functions, structures, wrong>>
  BY DEF GenImport, Visiting, names
<1>2. /\ Walk /\ Generating
      /\ structures' \in [Names -> Nat] /\ wrong' \subseteq {"signature", "field"}
      /\ DOMAIN functions' \subseteq Names /\ \A n \in DOMAIN functions' : functions'[n] \in Nat
  BY <1>1, VisitFacts, GenerateFacts
<1>3. Tree' /\ Walking' /\ Generating' /\ stack' \in Seq(FrameOf(Len(sources)))
  BY <1>1, <1>2, GenerateInto
<1>4. stack' # <<>>
  BY <1>3 DEF Tree, Path
<1> QED BY <1>1, <1>2, <1>3, <1>4, StepGenerate

LEMMA StepAscend ==
  ASSUME Inv, Ascend("verify") \/ Ascend("gen")
  PROVE  Inv'
<1>1. /\ phase \in {"verify", "gen"} /\ phase' = phase /\ Top.at = Len(Nodes) /\ ~ InRoot
      /\ stack' = Outer
      /\ UNCHANGED <<program, sources, printed, v_funcs, v_structures, functions, structures, wrong>>
  BY DEF Ascend, names
<1>2. /\ Walk /\ SameTree /\ v_structures' \subseteq Names /\ printed' \subseteq Read
      /\ DOMAIN v_funcs' \subseteq Names /\ \A n \in DOMAIN v_funcs' : v_funcs'[n] \in Nat
      /\ phase = "verify" => Verifying
      /\ phase = "gen" => Generating
  BY <1>1, VisitFacts
<1>3. CASE phase = "verify"
  <2>1. Tree' /\ Walking' /\ Verifying' /\ stack' \in Seq(FrameOf(Len(sources)))
    BY <1>1, <1>2, <1>3, VerifyBack
  <2> QED BY <1>1, <1>2, <1>3, <2>1, StepVerify
<1>4. CASE phase = "gen"
  <2>1. Tree' /\ Walking' /\ Generating' /\ stack' \in Seq(FrameOf(Len(sources)))
    BY <1>1, <1>2, <1>4, GenerateBack
  <2>2. stack' # <<>>
    BY <2>1 DEF Tree, Path
  <2>3. /\ structures' \in [Names -> Nat] /\ wrong' \subseteq {"signature", "field"}
        /\ DOMAIN functions' \subseteq Names /\ \A n \in DOMAIN functions' : functions'[n] \in Nat
    BY <1>1, <1>4, GenerateFacts
  <2> QED BY <1>1, <1>4, <2>1, <2>2, <2>3, StepGenerate
<1> QED BY <1>1, <1>3, <1>4

LEMMA StepEndGen ==
  ASSUME Inv, EndGen
  PROVE  Inv'
<1>1. /\ phase = "gen" /\ phase' = "emit"
      /\ UNCHANGED <<program, sources, stack, printed, v_funcs, v_structures, functions,
                     structures, wrong>>
  BY DEF EndGen, names
<1>2. stack \in Seq(FrameOf(Len(sources))) /\ stack # <<>>
  BY <1>1, VisitFacts
<1> QED BY <1>1, <1>2, GenerateFacts, StepGenerate

LEMMA StepEmit ==
  ASSUME Inv, Emit
  PROVE  Inv'
<1>1. /\ phase = "emit" /\ phase' \in {"wrote", "refused"}
      /\ UNCHANGED <<program, sources, stack, printed, v_funcs, v_structures, functions,
                     structures, wrong>>
  BY DEF Emit, Stop, names
<1>2. TypeOK'
  BY <1>1 DEF Inv, TypeOK, Read, Final
<1>3. Promised'
  BY <1>1, PromisedLate DEF Inv
<1> QED BY <1>1, <1>2, <1>3 DEF Inv, Working

LEMMA StepStutter ==
  ASSUME Inv, UNCHANGED vars
  PROVE  Inv'
<1>1. /\ UNCHANGED <<program, phase, sources, stack, v_funcs, v_structures, functions,
                     structures, printed, wrong>>
  BY DEF vars, names
<1>2. TypeOK'
  BY <1>1 DEF Inv, TypeOK, Read
<1>3. /\ Read' = Read /\ Top' = Top /\ Next_item' = Next_item
      /\ \A s : (Erroneous(s)' <=> Erroneous(s)) /\ Line(s)' = Line(s)
      /\ \A kinds : Declared(kinds)' = Declared(kinds)
      /\ \A d : NodeAt(d)' = NodeAt(d)
      /\ \A p, i : (Imports(p, i)' <=> Imports(p, i)) /\ Child(p, i)' = Child(p, i)
  BY <1>1 DEF Read, Top, Next_item, Text, Erroneous, Line, Declared, NodeAt, Imports, Child
<1>4. \A kinds : Twice(kinds)' = Twice(kinds)
  BY <1>3 DEF Twice
<1>5. Promised'
  <2>1. ErrorsShown' /\ NoDirectErrors' /\ CalleesFound'
    BY <1>1, <1>3 DEF Inv, Promised, ErrorsShown, NoDirectErrors, CalleesFound
  <2>2. WrongOnlyIfRepeated'
    BY <1>1, <1>3, <1>4 DEF Inv, Promised, WrongOnlyIfRepeated, ArityDiffers, TooFewArguments
  <2>3. OverflowsInCycle'
    BY <1>1, <1>3 DEF Inv, Promised, OverflowsInCycle
  <2> QED BY <2>1, <2>2, <2>3 DEF Promised
<1>6. /\ \A s, p : Joins(p, s)' <=> Joins(p, s)
      /\ \A j, i, s : Leads(j, i, s)' <=> Leads(j, i, s)
  BY <1>1, <1>3 DEF Joins, Leads
<1>7. \A s : Ahead(s)' <=> Ahead(s)
  BY <1>1, <1>6 DEF Ahead
<1>8. \A s, k : Passed(s, k)' <=> Passed(s, k)
  BY <1>1, <1>7 DEF Passed
<1>9. /\ Tree' <=> Tree
      /\ Parsing' <=> Parsing
      /\ Walking' <=> Walking
  <2>1. Lines' <=> Lines
    BY <1>1, <1>3 DEF Lines
  <2>2. Links' <=> Links
    BY <1>1, <1>3 DEF Links
  <2>3. Path' <=> Path
    BY <1>1 DEF Path
  <2>4. Parsing' <=> Parsing
    BY <1>1, <1>3, <1>6 DEF Parsing
  <2>5. \A j : Ahead(stack[j].src)' <=> Ahead(stack[j].src)
    BY <1>1, <1>7
  <2>6. Walking' <=> Walking
    BY <1>1, <1>3, <1>6, <1>7, <2>5 DEF Walking
  <2> QED BY <2>1, <2>2, <2>3, <2>4, <2>6 DEF Tree
<1>10. /\ \A s, k : /\ FunctionAt(s, k)' <=> FunctionAt(s, k)
                    /\ StructAt(s, k)' <=> StructAt(s, k)
       /\ \A i : Checked(i)' <=> Checked(i)
       /\ \A s : ShownOrRoot(s)' <=> ShownOrRoot(s)
  BY <1>1, <1>3 DEF FunctionAt, StructAt, Checked, IsCall, Answers, Before, ShownOrRoot
<1>11. /\ Verifying' <=> Verifying
       /\ Generating' <=> Generating
  <2>1. ErrorsMet' <=> ErrorsMet
    BY <1>1, <1>3, <1>7, <1>10 DEF ErrorsMet
  <2>2. NamesMet' <=> NamesMet
    BY <1>1, <1>3, <1>8, <1>10 DEF NamesMet
  <2>3. CallsMet' <=> CallsMet
    BY <1>1, <1>10 DEF CallsMet
  <2>4. Entered' <=> Entered
    BY <1>1, <1>3, <1>8, <1>10 DEF Entered
  <2>5. Sourced(functions)' <=> Sourced(functions)
    BY <1>1, <1>3, <1>10 DEF Sourced
  <2>6. StructsMet' <=> StructsMet
    BY <1>1, <1>3, <1>8, <1>10 DEF StructsMet
  <2>7. StructsOnce' <=> StructsOnce
    BY <1>1, <1>4 DEF StructsOnce
  <2> QED BY <1>1, <1>10, <2>1, <2>2, <2>3, <2>4, <2>5, <2>6, <2>7 DEF Verifying, Generating
<1>12. Working'
  BY <1>1, <1>9, <1>11 DEF Inv, Working, Untouched
<1> QED BY <1>1, <1>2, <1>5, <1>12 DEF Inv

LEMMA Invariant == Spec => []Inv
<1>1. Init => Inv
  <2> SUFFICES ASSUME Init PROVE Inv
    OBVIOUS
  <2>1. TypeOK
    BY ProgramsAssumption DEF Init, TypeOK, Read
  <2>2. Promised
    BY DEF Init, Promised, ErrorsShown, NoDirectErrors, CalleesFound, WrongOnlyIfRepeated,
           OverflowsInCycle
  <2> QED BY <2>1, <2>2 DEF Init, Inv, Working, Untouched
<1>2. Inv /\ [Next]_vars => Inv'
  <2> SUFFICES ASSUME Inv, [Next]_vars PROVE Inv'
    OBVIOUS
  <2>1. CASE Main
    BY <2>1, StepMain
  <2>2. CASE ParseDeclaration
    BY <2>2, StepDeclaration
  <2>3. CASE ParseSlip \/ ParseUnclosed
    BY <2>3, StepSlip
  <2>4. CASE ParseImport
    BY <2>4, StepImport
  <2>5. CASE EndDocument
    <3>1. phase = "parse" /\ Alike(sources)
      BY <2>5, ReportedAlike DEF EndDocument
    <3> QED BY <2>5, <3>1, StepReturn DEF EndDocument
  <2>6. CASE AbandonDocument
    <3>1. phase = "parse" /\ Alike(Reported(Top.src, {"syntax"}))
      BY <2>6, ReportedAlike DEF AbandonDocument, Reading
    <3> QED BY <2>6, <3>1, StepReturn DEF AbandonDocument
  <2>7. CASE VerifyFunction
    BY <2>7, StepVerifyFunction
  <2>8. CASE VerifyExtern
    BY <2>8, StepVerifyExtern
  <2>9. CASE VerifyStruct
    BY <2>9, StepVerifyStruct
  <2>10. CASE VerifyImport
    BY <2>10, StepVerifyImport
  <2>11. CASE EndVerify
    BY <2>11, StepEndVerify
  <2>12. CASE GenFunction
    BY <2>12, StepGenFunction
  <2>13. CASE GenExtern
    BY <2>13, StepGenExtern
  <2>14. CASE GenStruct
    BY <2>14, StepGenStruct
  <2>15. CASE GenImport
    BY <2>15, StepGenImport
  <2>16. CASE EndGen
    BY <2>16, StepEndGen
  <2>17. CASE Ascend("verify") \/ Ascend("gen")
    BY <2>17, StepAscend
  <2>18. CASE Emit
    BY <2>18, StepEmit
  <2>19. CASE UNCHANGED vars
    BY <2>19, StepStutter
  <2> QED BY <2>1, <2>2, <2>3, <2>4, <2>5, <2>6, <2>7, <2>8, <2>9, <2>10, <2>11, <2>12, <2>13,
             <2>14, <2>15, <2>16, <2>17, <2>18, <2>19 DEF Next
<1> QED BY <1>1, <1>2, PTL DEF Spec
----------------------------------------------------------------------------
(***************************************************************************)
(* The theorems.                                                           *)
(***************************************************************************)

\* The variables of a run keep their types: what a frame of the stack or an
\* import refers to is a Source that has been read, and what the State maps a
\* name to is a number of arguments.
THEOREM TypeCorrect == Spec => []TypeOK
<1>1. Inv => TypeOK
  BY DEF Inv
<1> QED BY <1>1, Invariant, PTL

\* No syntax error is passed over in silence, in however many files and however
\* deep the imports: when the visit of verify.cc is over, it or one of a file
\* that imports its file has been printed.
THEOREM ErrorsAreShown == Spec => []ErrorsShown
<1>1. Inv => ErrorsShown
  BY DEF Inv, Promised
<1> QED BY <1>1, Invariant, PTL

\* main() generates no code for a program with a syntax error in its own file or
\* in one that it imports itself.
THEOREM DirectErrorsStop == Spec => []NoDirectErrors
<1>1. Inv => NoDirectErrors
  BY DEF Inv, Promised
<1> QED BY <1>1, Invariant, PTL

\* The null function that getFunction() of gen.cc answers is never called: each
\* callee that the verifier found in scope has been generated, in the order of
\* the walk, before the call.
THEOREM CalleesAreFound == Spec => []CalleesFound
<1>1. Inv => CalleesFound
  BY DEF Inv, Promised
<1> QED BY <1>1, Invariant, PTL

\* Only a structure declared twice makes the generator miss a field, and only
\* functions that differ, or a call with too few arguments, an ill-typed call.
THEOREM WrongOnlyRepeated == Spec => []WrongOnlyIfRepeated
<1>1. Inv => WrongOnlyIfRepeated
  BY DEF Inv, Promised
<1> QED BY <1>1, Invariant, PTL

\* parseImport() exhausts a stack that holds as many calls as there are files
\* only where a file imports itself, along whatever way.
THEOREM OverflowOnlyInCycle == Spec => []OverflowsInCycle
<1>1. Inv => OverflowsInCycle
  BY DEF Inv, Promised
<1> QED BY <1>1, Invariant, PTL
=============================================================================
