---------------------------- MODULE SpansProofs ----------------------------
(***************************************************************************)
(* What debugPrintMessages() shows, for any texts and any number of        *)
(* messages: getLine() finds the line that getLocation() has counted to,   *)
(* and what is cut off in front of it is taken off the column.             *)
(***************************************************************************)
EXTENDS Spans, WellFoundedInduction, FiniteSetTheorems, SequenceTheorems, TLAPS

(***************************************************************************)
(* Lines of a text v: how many end before position n, and what begins and  *)
(* is free of one.                                                         *)
(***************************************************************************)
Newlines(v, n) == {i \in 1 .. n : v[i] = "newline"}

Lines(v, n) == Cardinality(Newlines(v, n)) + 1

Begins(v, n) == n = 0 \/ v[n] = "newline"

Free(v, from, to) == \A i \in from + 1 .. to : v[i] # "newline"

Column(v, n, c) == c \in 1 .. n + 1 /\ Begins(v, n + 1 - c) /\ Free(v, n + 1 - c, n)

LEMMA LinesType ==
  ASSUME NEW v, NEW n \in Nat
  PROVE  /\ IsFiniteSet(Newlines(v, n)) /\ Cardinality(Newlines(v, n)) \in 0 .. n
         /\ Lines(v, n) \in 1 .. n + 1
<1>1. IsFiniteSet(1 .. n) /\ Cardinality(1 .. n) = n
  BY FS_Interval
<1>2. Newlines(v, n) \in SUBSET (1 .. n)
  BY DEF Newlines
<1>3. IsFiniteSet(Newlines(v, n)) /\ Cardinality(Newlines(v, n)) <= n
  BY <1>1, <1>2, FS_Subset
<1>4. Cardinality(Newlines(v, n)) \in Nat
  BY <1>3, FS_CardinalityType
<1> QED BY <1>3, <1>4 DEF Lines

LEMMA LinesZero == \A v : Lines(v, 0) = 1
<1> SUFFICES ASSUME NEW v PROVE Lines(v, 0) = 1
  OBVIOUS
<1>1. Newlines(v, 0) = {}
  BY DEF Newlines
<1> QED BY <1>1, FS_EmptySet DEF Lines

LEMMA LinesStep ==
  ASSUME NEW v, NEW n \in Nat
  PROVE  /\ v[n + 1] = "newline" => Lines(v, n + 1) = Lines(v, n) + 1
         /\ v[n + 1] # "newline" => Lines(v, n + 1) = Lines(v, n)
<1>1. IsFiniteSet(Newlines(v, n)) /\ Cardinality(Newlines(v, n)) \in Nat
  BY LinesType
<1>2. n + 1 \notin Newlines(v, n)
  BY DEF Newlines
<1>3. ASSUME v[n + 1] = "newline" PROVE Lines(v, n + 1) = Lines(v, n) + 1
  <2>1. Newlines(v, n + 1) = Newlines(v, n) \cup {n + 1}
    BY <1>3 DEF Newlines
  <2>2. Cardinality(Newlines(v, n + 1)) = Cardinality(Newlines(v, n)) + 1
    BY <1>1, <1>2, <2>1, FS_AddElement
  <2> QED BY <1>1, <2>2 DEF Lines
<1>4. ASSUME v[n + 1] # "newline" PROVE Lines(v, n + 1) = Lines(v, n)
  <2>1. Newlines(v, n + 1) = Newlines(v, n)
    BY <1>4 DEF Newlines
  <2> QED BY <2>1 DEF Lines
<1> QED BY <1>3, <1>4

LEMMA LinesGrow ==
  ASSUME NEW v, NEW m \in Nat, NEW n \in Nat, m <= n
  PROVE  /\ Lines(v, m) <= Lines(v, n)
         /\ Lines(v, m) = Lines(v, n) => Free(v, m, n)
<1>1. /\ IsFiniteSet(Newlines(v, n)) /\ Cardinality(Newlines(v, n)) \in Nat
      /\ Cardinality(Newlines(v, m)) \in Nat
  BY LinesType
<1>2. Newlines(v, m) \in SUBSET Newlines(v, n)
  BY DEF Newlines
<1>3. /\ Cardinality(Newlines(v, m)) <= Cardinality(Newlines(v, n))
      /\ Cardinality(Newlines(v, n)) = Cardinality(Newlines(v, m)) => Newlines(v, n) = Newlines(v, m)
  BY <1>1, <1>2, FS_Subset
<1>4. ASSUME Lines(v, m) = Lines(v, n) PROVE Free(v, m, n)
  <2>1. Newlines(v, n) = Newlines(v, m)
    BY <1>1, <1>3, <1>4 DEF Lines
  <2>2. SUFFICES ASSUME NEW i \in m + 1 .. n PROVE v[i] # "newline"
    BY DEF Free
  <2>3. i \in 1 .. n /\ i \notin 1 .. m
    OBVIOUS
  <2>4. i \notin Newlines(v, m)
    BY <2>3 DEF Newlines
  <2> QED BY <2>1, <2>3, <2>4 DEF Newlines
<1> QED BY <1>1, <1>3, <1>4 DEF Lines

LEMMA FreeJoins ==
  ASSUME NEW v, NEW k \in Nat, NEW m \in Nat, NEW n \in Nat, k <= m, m <= n
  PROVE  Free(v, k, n) <=> Free(v, k, m) /\ Free(v, m, n)
BY DEF Free

\* A line has one beginning.
LEMMA OneBeginning ==
  ASSUME NEW v, NEW a \in Nat, NEW b \in Nat, NEW n \in Nat, a <= n, b <= n,
         Begins(v, a), Begins(v, b), Free(v, a, n), Free(v, b, n)
  PROVE  a = b
<1>1. CASE a < b
  <2>1. b \in a + 1 .. n /\ v[b] = "newline"
    BY <1>1 DEF Begins
  <2> QED BY <2>1 DEF Free
<1>2. CASE b < a
  <2>1. a \in b + 1 .. n /\ v[a] = "newline"
    BY <1>2 DEF Begins
  <2> QED BY <2>1 DEF Free
<1> QED BY <1>1, <1>2

LEMMA ColumnStep ==
  ASSUME NEW v, NEW n \in Nat, NEW c, Column(v, n, c)
  PROVE  /\ v[n + 1] = "newline" => Column(v, n + 1, 1)
         /\ v[n + 1] # "newline" => Column(v, n + 1, c + 1)
<1>1. Column(v, n + 1, 1) <=> Begins(v, n + 1) /\ Free(v, n + 1, n + 1)
  <2>1. n + 1 + 1 - 1 = n + 1 /\ 1 \in 1 .. n + 1 + 1
    OBVIOUS
  <2> QED BY <2>1 DEF Column
<1>2. Free(v, n + 1, n + 1)
  BY DEF Free
<1>3. ASSUME v[n + 1] # "newline" PROVE Column(v, n + 1, c + 1)
  <2> DEFINE b == n + 1 - c
  <2>1. c \in 1 .. n + 1 /\ Begins(v, b) /\ Free(v, b, n) /\ b \in 0 .. n
    BY DEF Column
  <2>2. c + 1 \in 1 .. n + 1 + 1 /\ n + 1 + 1 - (c + 1) = b
    BY <2>1
  <2> HIDE DEF b
  <2>3. Free(v, b, n + 1)
    BY <1>3, <2>1 DEF Free
  <2> QED BY <2>1, <2>2, <2>3 DEF Column
<1> QED BY <1>1, <1>2, <1>3 DEF Begins
----------------------------------------------------------------------------
(***************************************************************************)
(* The invariant.                                                          *)
(***************************************************************************)
Phases == {"next", "getLocation", "getLine", "show", "done", "runtime_error", "length_error"}

Given ==
  /\ value \in Seq(Chars) /\ messages \in Seq(Starts(value))
  /\ at \in 0 .. Len(messages) /\ index \in 0 .. Len(value) /\ phase \in Phases

Counts ==
  /\ phase \in {"next", "done"} => Len(shown) = at
  /\ phase \notin {"next", "done"} => at > 0 /\ Len(shown) = at - 1
  /\ phase = "done" => at = Len(messages)

Locating ==
  phase = "getLocation" => index <= Start /\ line = Lines(value, index) /\ Column(value, index, char)

Found ==
  phase \in {"getLine", "show", "length_error"} =>
    /\ Start < Len(value)
    /\ location[1] = Lines(value, Start)
    /\ Column(value, Start, location[2])

Collecting ==
  phase = "getLine" =>
    /\ line = Lines(value, index) /\ line <= location[1]
    /\ buffer[1] + buffer[2] = index
    /\ Begins(value, buffer[1]) /\ Free(value, buffer[1], index)

Collected ==
  phase \in {"show", "length_error"} =>
    /\ buffer[1] = Start + 1 - location[2]
    /\ buffer[1] + buffer[2] \in Start .. Len(value)
    /\ Free(value, buffer[1], buffer[1] + buffer[2])
    /\ buffer[1] + buffer[2] < Len(value) => value[buffer[1] + buffer[2] + 1] = "newline"

AtEnd == phase = "runtime_error" => Start = Len(value)

Overrun == phase = "length_error" => location[2] - 1 < Indentation

Ranges ==
  /\ line \in 1 .. Len(value) + 1 /\ char \in 1 .. Len(value) + 1
  /\ location \in (1 .. Len(value) + 1) \X (1 .. Len(value) + 1)
  /\ buffer \in (0 .. Len(value)) \X (0 .. Len(value))
  /\ shown \in Seq([line : Nat, first : Nat, padding : Nat])

\* What is shown of message n begins in its line, with white space before it.
ShownWell(v, n, first, padding) ==
  /\ first + padding = n
  /\ \E b \in 0 .. first :
       /\ Begins(v, b) /\ Free(v, b, n)
       /\ \A j \in b + 1 .. first : IsSpace(v[j])

AllShown ==
  \A i \in 1 .. Len(shown) :
    /\ ShownWell(value, messages[i], shown[i].first, shown[i].padding)
    /\ ~ Unshowable(messages[i])

SpansInv ==
  /\ Given /\ Counts /\ Ranges
  /\ Locating /\ Found /\ Collecting /\ Collected /\ AtEnd /\ Overrun
  /\ AllShown

LEMMA StartFacts ==
  ASSUME Given, at > 0
  PROVE  Start \in Starts(value) /\ Start \in 0 .. Len(value) /\ at \in 1 .. Len(messages)
<1>1. at \in 1 .. Len(messages)
  BY DEF Given
<1>2. Start \in Starts(value)
  BY <1>1 DEF Given, Start
<1> QED BY <1>1, <1>2 DEF Starts

\* The module's predicates on lines and those of the lemmas.
LEMMA SameLines ==
  ASSUME NEW m \in Nat, NEW n \in Nat
  PROVE  /\ LineBegins(m) <=> Begins(value, m)
         /\ NoNewline(m, n) <=> Free(value, m, n)
<1>1. LineBegins(m) <=> Begins(value, m)
  BY DEF LineBegins, Begins
<1>2. ASSUME NoNewline(m, n) PROVE Free(value, m, n)
  <2>1. SUFFICES ASSUME NEW i \in m + 1 .. n PROVE value[i] # "newline"
    BY DEF Free
  <2>2. i - 1 \in m .. n - 1 /\ i - 1 + 1 = i
    OBVIOUS
  <2>3. value[i - 1 + 1] # "newline"
    BY <1>2, <2>2 DEF NoNewline
  <2> QED BY <2>2, <2>3
<1>3. ASSUME Free(value, m, n) PROVE NoNewline(m, n)
  BY <1>3 DEF Free, NoNewline
<1> QED BY <1>1, <1>2, <1>3

LEMMA IndentationFacts ==
  ASSUME Given, Ranges
  PROVE  /\ Indentation \in 0 .. buffer[2]
         /\ \A j \in 1 .. Indentation : IsSpace(value[buffer[1] + j])
         /\ Indentation < buffer[2] => ~ IsSpace(value[buffer[1] + Indentation + 1])
<1> DEFINE n == buffer[2]
           Dark == {k \in 0 .. n : k < n => ~ IsSpace(value[buffer[1] + k + 1])}
           P(k) == /\ \A j \in 1 .. k : IsSpace(value[buffer[1] + j])
                   /\ k < n => ~ IsSpace(value[buffer[1] + k + 1])
<1>1. n \in Nat /\ buffer[1] \in Nat
  BY DEF Ranges, Given
<1>2. n \in Dark /\ Dark \subseteq Nat
  BY <1>1
<1>3. PICK k \in Dark : \A m \in Dark : k <= m
  <2>1. Dark \subseteq Nat /\ Dark # {}
    BY <1>2
  <2> DEFINE R == OpToRel(<, Nat)
  <2>2. IsWellFoundedOn(R, Nat)
    BY NatLessThanWellFounded
  <2>3. \A x, y \in Nat : x < y => <<x, y>> \in R
    BY DEF OpToRel
  <2> HIDE DEF Dark, R
  <2>4. PICK k \in Dark : \A m \in Dark : ~ (<<m, k>> \in R)
    BY <2>1, <2>2, WFMin
  <2>5. \A m \in Dark : ~ (m < k)
    BY <2>1, <2>3, <2>4
  <2>6. k \in Nat /\ \A m \in Dark : m \in Nat
    BY <2>1
  <2> QED BY <2>5, <2>6
<1>4. \A j \in 1 .. k : IsSpace(value[buffer[1] + j])
  <2>1. SUFFICES ASSUME NEW j \in 1 .. k PROVE IsSpace(value[buffer[1] + j])
    OBVIOUS
  <2>2. k \in 0 .. n
    OBVIOUS
  <2>3. j - 1 \in 0 .. n /\ j - 1 < k /\ j - 1 < n /\ buffer[1] + (j - 1) + 1 = buffer[1] + j
    BY <1>1, <2>2
  <2>4. j - 1 \notin Dark
    BY <1>3, <1>2, <2>3
  <2> QED BY <2>3, <2>4
<1>5. k \in 0 .. n /\ P(k)
  BY <1>4
<1> HIDE DEF n
<1>6. Indentation = CHOOSE m \in 0 .. n : P(m)
  BY DEF Indentation, n
<1> HIDE DEF P
<1>7. Indentation \in 0 .. n /\ P(Indentation)
  BY <1>5, <1>6
<1> QED BY <1>7 DEF P, n
----------------------------------------------------------------------------
(***************************************************************************)
(* The steps.                                                              *)
(***************************************************************************)
LEMMA ShownStays ==
  ASSUME AllShown, UNCHANGED <<value, messages, shown>>
  PROVE  AllShown'
<1>1. \A n : Unshowable(n)' <=> Unshowable(n)
  BY DEF Unshowable, InIndentation, NoNewline
<1> QED BY <1>1 DEF AllShown

LEMMA IndentationStays ==
  ASSUME UNCHANGED <<value, buffer>> PROVE Indentation' = Indentation
BY DEF Indentation

LEMMA NextMessageStep == SpansInv /\ NextMessage => SpansInv'
<1> SUFFICES ASSUME SpansInv, NextMessage PROVE SpansInv'
  OBVIOUS
<1>1. /\ phase = "next" /\ at < Len(messages) /\ at' = at + 1 /\ phase' = "getLocation"
      /\ index' = 0 /\ line' = 1 /\ char' = 1
      /\ value' = value /\ messages' = messages /\ location' = location /\ buffer' = buffer
      /\ shown' = shown
  BY DEF NextMessage
<1>2. Given' /\ at \in Nat
  BY <1>1 DEF SpansInv, Given, Phases
<1>3. Counts'
  BY <1>1, <1>2 DEF SpansInv, Counts
<1>4. Ranges'
  BY <1>1 DEF SpansInv, Given, Ranges
<1>5. Locating'
  <2>1. (Start \in 0 .. Len(value))'
    BY <1>1, <1>2 DEF Given, Start, Starts
  <2>2. Column(value, 0, 1)
    BY DEF Column, Begins, Free
  <2> QED BY <1>1, <2>1, <2>2, LinesZero DEF Locating
<1>6. Found' /\ Collecting' /\ Collected' /\ AtEnd' /\ Overrun'
  BY <1>1 DEF Found, Collecting, Collected, AtEnd, Overrun
<1>7. AllShown'
  BY <1>1, ShownStays DEF SpansInv
<1> QED BY <1>2, <1>3, <1>4, <1>5, <1>6, <1>7 DEF SpansInv

LEMMA FinishStep == SpansInv /\ Finish => SpansInv'
<1> SUFFICES ASSUME SpansInv, Finish PROVE SpansInv'
  OBVIOUS
<1>1. /\ phase = "next" /\ at = Len(messages) /\ phase' = "done"
      /\ UNCHANGED <<value, messages, at, index, line, char, location, buffer, shown>>
  BY DEF Finish
<1>2. Given' /\ Counts' /\ Ranges'
  BY <1>1 DEF SpansInv, Given, Phases, Counts, Ranges
<1>3. Locating' /\ Found' /\ Collecting' /\ Collected' /\ AtEnd' /\ Overrun'
  BY <1>1 DEF Locating, Found, Collecting, Collected, AtEnd, Overrun
<1>4. AllShown'
  BY <1>1, ShownStays DEF SpansInv
<1> QED BY <1>2, <1>3, <1>4 DEF SpansInv

LEMMA LocatedStep == SpansInv /\ Located => SpansInv'
<1> SUFFICES ASSUME SpansInv, Located PROVE SpansInv'
  OBVIOUS
<1>1. /\ phase = "getLocation" /\ index < Len(value) /\ index = Start /\ phase' = "getLine"
      /\ location' = <<line, char>> /\ index' = 0 /\ line' = 1 /\ buffer' = <<0, 0>>
      /\ value' = value /\ messages' = messages /\ at' = at /\ char' = char /\ shown' = shown
  BY DEF Located
<1>2. Given' /\ Counts'
  BY <1>1 DEF SpansInv, Given, Phases, Counts
<1>3. Len(value) \in Nat /\ line \in 1 .. Len(value) + 1 /\ char \in 1 .. Len(value) + 1
  BY DEF SpansInv, Given, Ranges
<1>4. location'[1] = line /\ location'[2] = char /\ buffer'[1] = 0 /\ buffer'[2] = 0
  BY <1>1
<1>5. Ranges'
  BY <1>1, <1>3 DEF SpansInv, Ranges
<1>6. Start' = Start
  BY <1>1 DEF Start
<1>7. Found'
  BY <1>1, <1>4, <1>6 DEF SpansInv, Locating, Found
<1>8. Collecting'
  <2>1. Begins(value, 0) /\ Free(value, 0, 0) /\ Lines(value, 0) = 1
    BY LinesZero DEF Begins, Free
  <2> QED BY <1>1, <1>3, <1>4, <2>1 DEF Collecting
<1>9. Locating' /\ Collected' /\ AtEnd' /\ Overrun'
  BY <1>1 DEF Locating, Collected, AtEnd, Overrun
<1>10. AllShown'
  BY <1>1, ShownStays DEF SpansInv
<1> QED BY <1>2, <1>5, <1>7, <1>8, <1>9, <1>10 DEF SpansInv

LEMMA LocateOnStep == SpansInv /\ LocateOn => SpansInv'
<1> SUFFICES ASSUME SpansInv, LocateOn PROVE SpansInv'
  OBVIOUS
<1>1. /\ phase = "getLocation" /\ index < Len(value) /\ index # Start /\ index' = index + 1
      /\ value' = value /\ messages' = messages /\ at' = at /\ phase' = phase
      /\ location' = location /\ buffer' = buffer /\ shown' = shown
  BY DEF LocateOn
<1>2. Given' /\ Counts'
  BY <1>1 DEF SpansInv, Given, Phases, Counts
<1>3. Start' = Start /\ Start \in 0 .. Len(value) /\ index \in 0 .. Len(value)
  BY <1>1, StartFacts DEF SpansInv, Given, Start, Counts
<1>4. index <= Start /\ line = Lines(value, index) /\ Column(value, index, char)
  BY <1>1 DEF SpansInv, Locating
<1>5. line' = Lines(value, index + 1) /\ Column(value, index + 1, char')
  <2>1. CASE value[index + 1] = "newline"
    BY <1>3, <1>4, <2>1, LinesStep, ColumnStep DEF LocateOn, Here
  <2>2. CASE value[index + 1] # "newline"
    BY <1>3, <1>4, <2>2, LinesStep, ColumnStep DEF LocateOn, Here
  <2> QED BY <2>1, <2>2
<1>6. Locating'
  BY <1>1, <1>3, <1>4, <1>5 DEF Locating
<1>7. Ranges'
  <2>1. line' \in 1 .. index + 1 + 1
    BY <1>3, <1>5, LinesType
  <2>2. char' \in 1 .. index + 1 + 1
    BY <1>5 DEF Column
  <2>3. index + 1 + 1 <= Len(value) + 1 /\ Len(value) \in Nat
    BY <1>1, <1>3 DEF SpansInv, Given
  <2> QED BY <1>1, <1>3, <2>1, <2>2, <2>3 DEF SpansInv, Ranges
<1>8. Found' /\ Collecting' /\ Collected' /\ AtEnd' /\ Overrun'
  BY <1>1 DEF Found, Collecting, Collected, AtEnd, Overrun
<1>9. AllShown'
  BY <1>1, ShownStays DEF SpansInv
<1> QED BY <1>2, <1>6, <1>7, <1>8, <1>9 DEF SpansInv

LEMMA NotLocatedStep == SpansInv /\ NotLocated => SpansInv'
<1> SUFFICES ASSUME SpansInv, NotLocated PROVE SpansInv'
  OBVIOUS
<1>1. /\ phase = "getLocation" /\ index = Len(value) /\ phase' = "runtime_error"
      /\ UNCHANGED <<value, messages, at, index, line, char, location, buffer, shown>>
  BY DEF NotLocated
<1>2. Given' /\ Counts' /\ Ranges'
  BY <1>1 DEF SpansInv, Given, Phases, Counts, Ranges
<1>3. Start \in 0 .. Len(value) /\ Start' = Start /\ index <= Start
  BY <1>1, StartFacts DEF SpansInv, Counts, Start, Locating
<1>4. AtEnd'
  BY <1>1, <1>3 DEF AtEnd
<1>5. Locating' /\ Found' /\ Collecting' /\ Collected' /\ Overrun'
  BY <1>1 DEF Locating, Found, Collecting, Collected, Overrun
<1>6. AllShown'
  BY <1>1, ShownStays DEF SpansInv
<1> QED BY <1>2, <1>4, <1>5, <1>6 DEF SpansInv

LEMMA GetLineOnStep == SpansInv /\ GetLineOn => SpansInv'
<1> SUFFICES ASSUME SpansInv, GetLineOn PROVE SpansInv'
  OBVIOUS
<1>1. /\ phase = "getLine" /\ index < Len(value) /\ index' = index + 1
      /\ value[index + 1] = "newline" => line # location[1]
      /\ value' = value /\ messages' = messages /\ at' = at /\ phase' = phase
      /\ char' = char /\ location' = location /\ shown' = shown
  BY DEF GetLineOn, Here
<1>2. Given' /\ Counts'
  BY <1>1 DEF SpansInv, Given, Phases, Counts
<1>3. Start' = Start /\ index \in Nat /\ index \in 0 .. Len(value) /\ Len(value) \in Nat
  BY <1>1 DEF SpansInv, Given, Start
<1>4. /\ line = Lines(value, index) /\ line <= location[1] /\ buffer[1] + buffer[2] = index
      /\ Begins(value, buffer[1]) /\ Free(value, buffer[1], index)
  BY <1>1 DEF SpansInv, Collecting
<1>5. /\ location[1] \in Nat /\ line \in Nat
      /\ buffer[1] \in 0 .. Len(value) /\ buffer[2] \in 0 .. Len(value)
  BY DEF SpansInv, Ranges, Given
<1>6. /\ line' = Lines(value, index + 1) /\ line' <= location[1]
      /\ buffer'[1] + buffer'[2] = index + 1
      /\ Begins(value, buffer'[1]) /\ Free(value, buffer'[1], index + 1)
      /\ buffer' \in (0 .. Len(value)) \X (0 .. Len(value))
  <2>1. CASE value[index + 1] = "newline"
    <3>1. line' = line + 1 /\ buffer' = <<index + 1, 0>>
      BY <2>1 DEF GetLineOn, Here
    <3>2. line' = Lines(value, index + 1) /\ line' <= location[1]
      BY <1>1, <1>3, <1>4, <1>5, <2>1, <3>1, LinesStep
    <3>3. buffer'[1] = index + 1 /\ buffer'[2] = 0 /\ index + 1 \in 0 .. Len(value)
      BY <1>1, <1>3, <3>1
    <3>4. Begins(value, index + 1) /\ Free(value, index + 1, index + 1)
      BY <1>3, <2>1 DEF Begins, Free
    <3> QED BY <1>3, <3>1, <3>2, <3>3, <3>4
  <2>2. CASE value[index + 1] # "newline"
    <3>1. line' = line /\ buffer' = <<buffer[1], buffer[2] + 1>>
      BY <2>2 DEF GetLineOn, Here
    <3>2. line' = Lines(value, index + 1) /\ line' <= location[1]
      BY <1>3, <1>4, <2>2, <3>1, LinesStep
    <3>3. buffer'[1] = buffer[1] /\ buffer'[2] = buffer[2] + 1
      BY <3>1
    <3>4. buffer[1] + (buffer[2] + 1) = index + 1 /\ buffer[2] + 1 \in 0 .. Len(value)
      BY <1>1, <1>3, <1>4, <1>5
    <3>5. Free(value, buffer[1], index + 1)
      BY <1>3, <1>4, <1>5, <2>2 DEF Free
    <3> QED BY <1>4, <1>5, <3>1, <3>2, <3>3, <3>4, <3>5
  <2> QED BY <2>1, <2>2
<1>7. Collecting'
  BY <1>1, <1>6 DEF Collecting
<1>8. Ranges'
  <2>1. line' \in 1 .. index + 1 + 1
    BY <1>3, <1>6, LinesType
  <2> QED BY <1>1, <1>3, <1>6, <2>1 DEF SpansInv, Ranges
<1>9. Found'
  BY <1>1, <1>3 DEF SpansInv, Found
<1>10. Locating' /\ Collected' /\ AtEnd' /\ Overrun'
  BY <1>1 DEF Locating, Collected, AtEnd, Overrun
<1>11. AllShown'
  BY <1>1, ShownStays DEF SpansInv
<1> QED BY <1>2, <1>7, <1>8, <1>9, <1>10, <1>11 DEF SpansInv

\* What getLine() stops with is the line that the span begins in.
LEMMA GotLineStep == SpansInv /\ GotLine => SpansInv'
<1> SUFFICES ASSUME SpansInv, GotLine PROVE SpansInv'
  OBVIOUS
<1>1. /\ phase = "getLine" /\ phase' = "show"
      /\ index < Len(value) => value[index + 1] = "newline" /\ line = location[1]
      /\ UNCHANGED <<value, messages, at, index, line, char, location, buffer, shown>>
  BY DEF GotLine, Here
<1>2. Given' /\ Counts' /\ Ranges'
  BY <1>1 DEF SpansInv, Given, Phases, Counts, Ranges
<1>3. Start' = Start /\ index \in Nat /\ index \in 0 .. Len(value) /\ Len(value) \in Nat
  BY <1>1 DEF SpansInv, Given, Start
<1>4. /\ line = Lines(value, index) /\ line <= location[1] /\ buffer[1] + buffer[2] = index
      /\ Begins(value, buffer[1]) /\ Free(value, buffer[1], index)
  BY <1>1 DEF SpansInv, Collecting
<1>5. /\ Start < Len(value) /\ location[1] = Lines(value, Start)
      /\ Column(value, Start, location[2])
  BY <1>1 DEF SpansInv, Found
<1>6. Start \in Nat /\ Start \in 0 .. Len(value)
  BY <1>1, <1>3, StartFacts DEF SpansInv, Counts
<1>7. buffer[1] \in Nat /\ buffer[2] \in Nat /\ location[1] \in Nat /\ line \in Nat
  BY DEF SpansInv, Ranges, Given
<1>8. line = location[1] /\ Start <= index
  <2>1. CASE index < Len(value)
    <3>1. value[index + 1] = "newline" /\ line = location[1]
      BY <1>1, <2>1
    <3>2. ASSUME index < Start PROVE FALSE
      <4>1. Lines(value, index + 1) <= Lines(value, Start)
        BY <1>3, <1>6, <3>2, LinesGrow
      <4>2. Lines(value, index + 1) = Lines(value, index) + 1
        BY <1>3, <3>1, LinesStep
      <4> QED BY <1>4, <1>5, <1>7, <3>1, <4>1, <4>2
    <3> QED BY <1>3, <1>6, <3>1, <3>2
  <2>2. CASE index = Len(value)
    <3>1. Lines(value, Start) <= Lines(value, index)
      BY <1>3, <1>6, <2>2, LinesGrow
    <3> QED BY <1>4, <1>5, <1>6, <1>7, <2>2, <3>1
  <2> QED BY <1>3, <2>1, <2>2
<1> DEFINE b == Start + 1 - location[2]
<1>9. b \in Nat /\ b <= Start /\ Begins(value, b) /\ Free(value, b, Start)
  BY <1>5, <1>6 DEF Column
<1> HIDE DEF b
<1>10. Free(value, Start, index)
  BY <1>3, <1>4, <1>5, <1>6, <1>8, LinesGrow
<1>11. Free(value, b, index) /\ b <= index
  BY <1>3, <1>6, <1>8, <1>9, <1>10, FreeJoins
<1>12. buffer[1] = b
  BY <1>3, <1>4, <1>7, <1>9, <1>11, OneBeginning
<1>13. Collected'
  <2>1. buffer[1] + buffer[2] \in Start .. Len(value)
    BY <1>3, <1>4, <1>6, <1>8
  <2> QED BY <1>1, <1>3, <1>4, <1>12, <2>1 DEF Collected, b
<1>14. Found'
  BY <1>1, <1>3 DEF SpansInv, Found
<1>15. Locating' /\ Collecting' /\ AtEnd' /\ Overrun'
  BY <1>1 DEF Locating, Collecting, AtEnd, Overrun
<1>16. AllShown'
  BY <1>1, ShownStays DEF SpansInv
<1> QED BY <1>2, <1>13, <1>14, <1>15, <1>16 DEF SpansInv

\* Where the line of the span begins, and how much of it is cut off.
LEMMA LineOfSpan ==
  ASSUME SpansInv, phase \in {"show", "length_error"}, NEW k, k = Indentation
  PROVE  /\ Start \in Starts(value) /\ Start \in Nat /\ Start < Len(value) /\ Len(value) \in Nat
         /\ buffer[1] \in 0 .. Start /\ buffer[2] \in Nat /\ Start <= buffer[1] + buffer[2]
         /\ location[2] - 1 = Start - buffer[1]
         /\ Begins(value, buffer[1]) /\ Free(value, buffer[1], Start)
         /\ k \in 0 .. buffer[2]
         /\ \A j \in 1 .. k : IsSpace(value[buffer[1] + j])
         /\ k < buffer[2] => ~ IsSpace(value[buffer[1] + k + 1])
<1>1. Start \in Starts(value) /\ Start \in Nat /\ Len(value) \in Nat
  BY StartFacts DEF SpansInv, Counts, Given
<1>2. Start < Len(value) /\ Column(value, Start, location[2])
  BY DEF SpansInv, Found
<1>3. buffer[1] = Start + 1 - location[2] /\ buffer[1] + buffer[2] \in Start .. Len(value)
  BY DEF SpansInv, Collected
<1>4. buffer[1] \in 0 .. Start /\ Begins(value, buffer[1]) /\ Free(value, buffer[1], Start)
      /\ location[2] - 1 = Start - buffer[1]
  BY <1>1, <1>2, <1>3 DEF Column
<1>5. buffer[2] \in Nat
  BY DEF SpansInv, Ranges, Given
<1> QED BY <1>1, <1>2, <1>3, <1>4, <1>5, IndentationFacts DEF SpansInv

\* White space from the beginning of the line to the span, and the span itself.
LEMMA InIndentationFacts ==
  ASSUME NEW n \in Nat, n < Len(value), NEW b \in 0 .. n, Begins(value, b), Free(value, b, n)
  PROVE  InIndentation(n) <=> IsSpace(value[n + 1]) /\ \A j \in b + 1 .. n : IsSpace(value[j])
<1>1. ASSUME InIndentation(n), NEW j \in b + 1 .. n PROVE IsSpace(value[j])
  <2>1. j \in 1 .. n /\ j \in Nat /\ b <= j
    OBVIOUS
  <2>2. Free(value, j, n)
    BY <2>1 DEF Free
  <2>3. NoNewline(j, n)
    BY <2>1, <2>2, SameLines
  <2> QED BY <1>1, <2>1, <2>3 DEF InIndentation
<1>2. ASSUME \A j \in b + 1 .. n : IsSpace(value[j]), NEW j \in 1 .. n, NoNewline(j, n)
      PROVE  IsSpace(value[j])
  <2>1. Free(value, j, n)
    BY <1>2, SameLines
  <2>2. CASE j > b
    BY <1>2, <2>2
  <2>3. CASE j = b
    <3>1. value[j] = "newline"
      BY <2>3 DEF Begins
    <3> QED BY <3>1 DEF IsSpace
  <2>4. CASE j < b
    <3>1. b \in j + 1 .. n /\ value[b] = "newline"
      BY <2>4 DEF Begins
    <3> QED BY <2>1, <3>1 DEF Free
  <2> QED BY <2>2, <2>3, <2>4
<1> QED BY <1>1, <1>2 DEF InIndentation

LEMMA ShowStep == SpansInv /\ Show => SpansInv'
<1> SUFFICES ASSUME SpansInv, Show PROVE SpansInv'
  OBVIOUS
<1> DEFINE k == Indentation
           b == buffer[1]
           new == [line |-> location[1], first |-> b + k, padding |-> location[2] - 1 - k]
<1>1. /\ phase = "show" /\ phase' = "next" /\ location[2] - 1 >= k
      /\ shown' = Append(shown, new)
      /\ UNCHANGED <<value, messages, at, index, line, char, location, buffer>>
  BY DEF Show
<1> HIDE DEF k
<1>2. /\ Start \in Starts(value) /\ Start \in Nat /\ Start < Len(value) /\ Len(value) \in Nat
      /\ b \in 0 .. Start /\ buffer[2] \in Nat /\ Start <= b + buffer[2]
      /\ location[2] - 1 = Start - b
      /\ Begins(value, b) /\ Free(value, b, Start)
      /\ k \in 0 .. buffer[2]
      /\ \A j \in 1 .. k : IsSpace(value[b + j])
      /\ k < buffer[2] => ~ IsSpace(value[b + k + 1])
  BY <1>1, LineOfSpan DEF k
<1> HIDE DEF b
<1>3. b + k <= Start /\ b + k \in Nat /\ location[2] - 1 - k \in Nat /\ location[1] \in Nat
  <2>1. location[1] \in Nat
    BY <1>2 DEF SpansInv, Ranges
  <2>2. k <= Start - b
    BY <1>1, <1>2
  <2> QED BY <1>2, <2>1, <2>2
<1>4. new \in [line : Nat, first : Nat, padding : Nat]
  BY <1>3
<1>5. /\ shown \in Seq([line : Nat, first : Nat, padding : Nat]) /\ Len(shown) = at - 1
      /\ at \in 1 .. Len(messages) /\ at \in Nat
  BY <1>1, StartFacts DEF SpansInv, Ranges, Counts, Given
<1>6. Given' /\ Counts'
  BY <1>1, <1>5 DEF SpansInv, Given, Phases, Counts
<1>7. Ranges'
  BY <1>1, <1>4, <1>5 DEF SpansInv, Ranges
<1>8. ShownWell(value, Start, new.first, new.padding)
  <2>1. b + k + (location[2] - 1 - k) = Start
    BY <1>2, <1>3
  <2>2. \A j \in b + 1 .. b + k : IsSpace(value[j])
    <3>1. SUFFICES ASSUME NEW j \in b + 1 .. b + k PROVE IsSpace(value[j])
      OBVIOUS
    <3>2. j - b \in 1 .. k /\ b + (j - b) = j
      BY <1>2
    <3>3. IsSpace(value[b + (j - b)])
      BY <1>2, <3>2
    <3> QED BY <3>2, <3>3
  <2>3. b \in 0 .. b + k
    BY <1>2
  <2> QED BY <1>2, <2>1, <2>2, <2>3 DEF ShownWell
<1>9. ~ Unshowable(Start)
  <2>1. SUFFICES ASSUME InIndentation(Start) PROVE FALSE
    BY <1>2 DEF Unshowable
  <2>2. IsSpace(value[Start + 1]) /\ \A j \in b + 1 .. Start : IsSpace(value[j])
    BY <1>2, <2>1, InIndentationFacts
  <2>3. CASE k < buffer[2]
    <3>1. b + k + 1 \in b + 1 .. Start \/ b + k + 1 = Start + 1
      BY <1>2, <1>3
    <3> QED BY <1>2, <2>2, <2>3, <3>1
  <2>4. CASE k = buffer[2]
    <3>1. Start = b + buffer[2]
      BY <1>2, <1>3, <2>4
    <3>2. value[Start + 1] = "newline"
      BY <1>1, <1>2, <3>1 DEF SpansInv, Collected, b
    <3>3. ASSUME Start > 0, value[Start] = "quote" PROVE FALSE
      <4>1. b # Start
        BY <1>2, <3>3 DEF Begins
      <4>2. Start \in b + 1 .. Start
        BY <1>2, <4>1
      <4> QED BY <2>2, <3>3, <4>2 DEF IsSpace
    <3>4. ~ LexerBlank(value[Start + 1])
      BY <1>2, <3>3 DEF Starts
    <3> QED BY <3>2, <3>4 DEF LexerBlank
  <2> QED BY <1>2, <2>3, <2>4
<1>10. AllShown'
  <2> SUFFICES ASSUME NEW i \in 1 .. Len(shown')
               PROVE  /\ ShownWell(value, messages[i], shown'[i].first, shown'[i].padding)
                      /\ ~ Unshowable(messages[i])
    <3>1. \A n : Unshowable(n)' <=> Unshowable(n)
      BY <1>1 DEF Unshowable, InIndentation, NoNewline
    <3> QED BY <1>1, <3>1 DEF AllShown
  <2> HIDE DEF new
  <2>1. Len(shown') = at /\ shown'[at] = new /\ \A m \in 1 .. at - 1 : shown'[m] = shown[m]
    BY <1>1, <1>4, <1>5
  <2>2. CASE i = at
    BY <1>8, <1>9, <2>1, <2>2 DEF Start
  <2>3. CASE i < at
    <3>1. i \in 1 .. Len(shown) /\ shown'[i] = shown[i]
      BY <1>5, <2>1, <2>3
    <3> QED BY <3>1 DEF SpansInv, AllShown
  <2> QED BY <1>5, <2>1, <2>2, <2>3
<1>11. Locating' /\ Found' /\ Collecting' /\ Collected' /\ AtEnd' /\ Overrun'
  BY <1>1 DEF Locating, Found, Collecting, Collected, AtEnd, Overrun
<1> QED BY <1>6, <1>7, <1>10, <1>11 DEF SpansInv

LEMMA ShowFailsStep == SpansInv /\ ShowFails => SpansInv'
<1> SUFFICES ASSUME SpansInv, ShowFails PROVE SpansInv'
  OBVIOUS
<1>1. /\ phase = "show" /\ phase' = "length_error" /\ location[2] - 1 < Indentation
      /\ UNCHANGED <<value, messages, at, index, line, char, location, buffer, shown>>
  BY DEF ShowFails
<1>2. Given' /\ Counts' /\ Ranges'
  BY <1>1 DEF SpansInv, Given, Phases, Counts, Ranges
<1>3. Start' = Start
  BY <1>1 DEF Start
<1>4. Found' /\ Collected'
  BY <1>1, <1>3 DEF SpansInv, Found, Collected
<1>5. Overrun'
  BY <1>1, IndentationStays DEF Overrun
<1>6. Locating' /\ Collecting' /\ AtEnd'
  BY <1>1 DEF Locating, Collecting, AtEnd
<1>7. AllShown'
  BY <1>1, ShownStays DEF SpansInv
<1> QED BY <1>2, <1>4, <1>5, <1>6, <1>7 DEF SpansInv

LEMMA SpansStep == SpansInv /\ [Next]_vars => SpansInv'
<1> SUFFICES ASSUME SpansInv, [Next]_vars PROVE SpansInv'
  OBVIOUS
<1>1. CASE UNCHANGED vars
  <2>1. UNCHANGED <<value, messages, at, phase, index, line, char, location, buffer, shown>>
    BY <1>1 DEF vars
  <2>2. Start' = Start /\ Indentation' = Indentation
    BY <2>1, IndentationStays DEF Start
  <2>3. AllShown'
    BY <2>1, ShownStays DEF SpansInv
  <2> QED BY <2>1, <2>2, <2>3
        DEF SpansInv, Given, Counts, Ranges, Locating, Found, Collecting, Collected, AtEnd, Overrun
<1>2. CASE Next
  BY <1>2, NextMessageStep, FinishStep, LocatedStep, LocateOnStep, NotLocatedStep,
     GetLineOnStep, GotLineStep, ShowStep, ShowFailsStep DEF Next
<1> QED BY <1>1, <1>2

LEMMA SpansInit == Init => SpansInv
<1> SUFFICES ASSUME Init PROVE SpansInv
  OBVIOUS
<1>1. value \in Seq(Chars) /\ Len(value) \in Nat
  BY SpansAssumption DEF Init
<1>2. messages \in Seq(Starts(value))
  <2>1. PICK k \in 0 .. MaxMessages : messages \in [1 .. k -> Starts(value)]
    BY DEF Init
  <2>2. k \in Nat
    BY SpansAssumption
  <2> QED BY <2>1, <2>2
<1>3. /\ at = 0 /\ phase = "next" /\ index = 0 /\ line = 1 /\ char = 1 /\ location = <<1, 1>>
      /\ buffer = <<0, 0>> /\ shown = <<>>
  BY DEF Init
<1>4. Given /\ Counts /\ Ranges
  BY <1>1, <1>2, <1>3 DEF Given, Phases, Counts, Ranges
<1>5. Locating /\ Found /\ Collecting /\ Collected /\ AtEnd /\ Overrun
  BY <1>3 DEF Locating, Found, Collecting, Collected, AtEnd, Overrun
<1>6. AllShown
  BY <1>3 DEF AllShown
<1> QED BY <1>4, <1>5, <1>6 DEF SpansInv

LEMMA SpansAlways == Spec => []SpansInv
BY SpansInit, SpansStep, PTL DEF Spec

(***************************************************************************)
(* Every state is well typed: no position leaves the text.                 *)
(***************************************************************************)
THEOREM TypeCorrect == Spec => []TypeOK
<1>1. SpansInv => TypeOK
  BY DEF SpansInv, Given, Ranges, Phases, TypeOK
<1> QED BY <1>1, SpansAlways, PTL

(***************************************************************************)
(* The carets of every message begin below the first character of its span.*)
(***************************************************************************)
THEOREM CaretsBelow == Spec => []CaretBelowSpan
<1>1. SpansInv => CaretBelowSpan
  <2> SUFFICES ASSUME SpansInv, NEW i \in 1 .. Len(shown)
               PROVE  LET first == shown[i].first IN
                      /\ first + shown[i].padding = messages[i]
                      /\ \E n \in 0 .. first :
                           /\ LineBegins(n) /\ NoNewline(n, messages[i])
                           /\ \A j \in n + 1 .. first : IsSpace(value[j])
    BY DEF CaretBelowSpan
  <2>1. ShownWell(value, messages[i], shown[i].first, shown[i].padding)
    BY DEF SpansInv, AllShown
  <2>2. shown[i].first \in Nat /\ shown[i].padding \in Nat
    <3>1. shown \in Seq([line : Nat, first : Nat, padding : Nat])
      BY DEF SpansInv, Ranges
    <3>2. shown[i] \in [line : Nat, first : Nat, padding : Nat]
      BY <3>1, ElementOfSeq
    <3> QED BY <3>2
  <2>3. messages[i] \in Nat /\ shown[i].first + shown[i].padding = messages[i]
    BY <2>1, <2>2 DEF ShownWell
  <2>4. \A n \in 0 .. shown[i].first :
          /\ LineBegins(n) <=> Begins(value, n)
          /\ NoNewline(n, messages[i]) <=> Free(value, n, messages[i])
    BY <2>3, SameLines
  <2> QED BY <2>1, <2>3, <2>4 DEF ShownWell
<1> QED BY <1>1, SpansAlways, PTL

(***************************************************************************)
(* The call throws exactly for a span at the end of the text, or one that  *)
(* begins within its line's indentation.                                   *)
(***************************************************************************)
THEOREM Throws == Spec => []ThrowsExactlyIf
<1>1. SpansInv => ThrowsExactlyIf
  <2> SUFFICES ASSUME SpansInv PROVE ThrowsExactlyIf
    OBVIOUS
  <2>1. \A i \in 1 .. Len(shown) : ~ Unshowable(messages[i])
    BY DEF SpansInv, AllShown
  <2>2. phase = "done" => Len(shown) = Len(messages)
    BY DEF SpansInv, Counts
  <2>3. ASSUME phase = "runtime_error" PROVE Unshowable(Start) /\ Len(shown) = at - 1
    BY <2>3 DEF SpansInv, AtEnd, Counts, Unshowable
  <2>4. ASSUME phase = "length_error" PROVE Unshowable(Start) /\ Len(shown) = at - 1
    <3> DEFINE k == Indentation
               b == buffer[1]
    <3>1. /\ Start \in Nat /\ Start < Len(value) /\ Len(value) \in Nat
          /\ b \in 0 .. Start /\ location[2] - 1 = Start - b
          /\ Begins(value, b) /\ Free(value, b, Start)
          /\ k \in Nat /\ \A j \in 1 .. k : IsSpace(value[b + j])
      BY <2>4, LineOfSpan
    <3>2. Start - b < k
      BY <2>4, <3>1 DEF SpansInv, Overrun
    <3> HIDE DEF k, b
    <3>3. \A j \in b + 1 .. Start + 1 : IsSpace(value[j])
      <4>1. SUFFICES ASSUME NEW j \in b + 1 .. Start + 1 PROVE IsSpace(value[j])
        OBVIOUS
      <4>2. j - b \in 1 .. k /\ b + (j - b) = j
        BY <3>1, <3>2
      <4>3. IsSpace(value[b + (j - b)])
        BY <3>1, <4>2
      <4> QED BY <4>2, <4>3
    <3>4. IsSpace(value[Start + 1]) /\ \A j \in b + 1 .. Start : IsSpace(value[j])
      BY <3>1, <3>3
    <3>5. InIndentation(Start)
      BY <3>1, <3>4, InIndentationFacts
    <3> QED BY <2>4, <3>5 DEF Unshowable, SpansInv, Counts
  <2> QED BY <2>1, <2>2, <2>3, <2>4 DEF ThrowsExactlyIf
<1> QED BY <1>1, SpansAlways, PTL
=============================================================================
