------------------------------- MODULE Spans -------------------------------
(***************************************************************************)
(* Source::debugPrintMessages() (source.cc): for each message the line and *)
(* column of its span, the text of that line without its indentation, and  *)
(* carets below the span.  Positions count from 0; of a span only its start*)
(* matters, its length is the number of carets.                            *)
(***************************************************************************)
EXTENDS Naturals, Sequences

CONSTANTS
  Texts,       \* what a source may hold
  MaxMessages  \* bounds its messages

\* "return" stands for the characters that trim_left() takes for space and the
\* lexer does not: carriage return, form feed, vertical tab.
Chars == {"newline", "blank", "return", "quote", "x"}

ASSUME SpansAssumption == Texts \subseteq Seq(Chars) /\ MaxMessages \in Nat

IsSpace(c) == c \in {"newline", "blank", "return"}

LexerBlank(c) == c \in {"newline", "blank"}

(***************************************************************************)
(* Where the span of a token can begin: at a character the lexer does not  *)
(* drop, behind a quote, or, for END_OF_FILE, at the end of the text.      *)
(***************************************************************************)
Starts(s) ==
  {n \in 0 .. Len(s) : n < Len(s) => ~ LexerBlank(s[n + 1]) \/ (n > 0 /\ s[n] = "quote")}

VARIABLES
  value,     \* the text of the source
  messages,  \* the starts of their spans, oldest first
  at,        \* the message being shown
  phase,     \* the loop that runs, or how the call ended
  index,     \* the position the loop has reached
  line,      \* its line_number, or count
  char,      \* char_number of getLocation()
  location,  \* what getLocation() returned
  buffer,    \* first position and length of what getLine() has collected
  shown      \* history: of each message, line, first position shown, padding

vars == <<value, messages, at, phase, index, line, char, location, buffer, shown>>

Init ==
  /\ value \in Texts
  /\ messages \in UNION {[1 .. k -> Starts(value)] : k \in 0 .. MaxMessages}
  /\ at = 0
  /\ phase = "next"
  /\ index = 0
  /\ line = 1
  /\ char = 1
  /\ location = <<1, 1>>
  /\ buffer = <<0, 0>>
  /\ shown = <<>>

\* Mutant: the loop goes on behind the last message.
NextMessagePast ==
  /\ phase = "next"
  /\ at' = at + 1
  /\ phase' = "getLocation"
  /\ index' = 0
  /\ line' = 1
  /\ char' = 1
  /\ UNCHANGED <<value, messages, location, buffer, shown>>

NextMessage ==
  /\ phase = "next" /\ at < Len(messages)
  /\ at' = at + 1
  /\ phase' = "getLocation"
  /\ index' = 0
  /\ line' = 1
  /\ char' = 1
  /\ UNCHANGED <<value, messages, location, buffer, shown>>

Finish ==
  /\ phase = "next" /\ at = Len(messages)
  /\ phase' = "done"
  /\ UNCHANGED <<value, messages, at, index, line, char, location, buffer, shown>>

Start == messages[at]

Here == value[index + 1]

(***************************************************************************)
(* getLocation(), and getLine() of the line it found.                      *)
(***************************************************************************)
Located ==
  /\ phase = "getLocation" /\ index < Len(value) /\ index = Start
  /\ phase' = "getLine"
  /\ location' = <<line, char>>
  /\ index' = 0
  /\ line' = 1
  /\ buffer' = <<0, 0>>
  /\ UNCHANGED <<value, messages, at, char, shown>>

\* Mutant: the column goes on from line to line.
LocateOnRunning ==
  /\ phase = "getLocation" /\ index < Len(value) /\ index # Start
  /\ index' = index + 1
  /\ char' = char + 1
  /\ line' = IF Here = "newline" THEN line + 1 ELSE line
  /\ UNCHANGED <<value, messages, at, phase, location, buffer, shown>>

LocateOn ==
  /\ phase = "getLocation" /\ index < Len(value) /\ index # Start
  /\ index' = index + 1
  /\ IF Here = "newline" THEN line' = line + 1 /\ char' = 1
     ELSE line' = line /\ char' = char + 1
  /\ UNCHANGED <<value, messages, at, phase, location, buffer, shown>>

\* "Unexpected end of file", which nobody catches.
NotLocated ==
  /\ phase = "getLocation" /\ index = Len(value)
  /\ phase' = "runtime_error"
  /\ UNCHANGED <<value, messages, at, index, line, char, location, buffer, shown>>

\* Mutant: the buffer is not cleared.
GetLineOnKeeping ==
  /\ phase = "getLine" /\ index < Len(value)
  /\ Here = "newline" => line # location[1]
  /\ index' = index + 1
  /\ line' = IF Here = "newline" THEN line + 1 ELSE line
  /\ buffer' = <<buffer[1], buffer[2] + 1>>
  /\ UNCHANGED <<value, messages, at, phase, char, location, shown>>

GetLineOn ==
  /\ phase = "getLine" /\ index < Len(value)
  /\ Here = "newline" => line # location[1]
  /\ index' = index + 1
  /\ IF Here = "newline" THEN line' = line + 1 /\ buffer' = <<index + 1, 0>>
     ELSE line' = line /\ buffer' = <<buffer[1], buffer[2] + 1>>
  /\ UNCHANGED <<value, messages, at, phase, char, location, shown>>

\* Mutant: a line that the text ends is not returned.
GotLineAtNewline ==
  /\ phase = "getLine"
  /\ index < Len(value) /\ Here = "newline" /\ line = location[1]
  /\ phase' = "show"
  /\ UNCHANGED <<value, messages, at, index, line, char, location, buffer, shown>>

GotLine ==
  /\ phase = "getLine"
  /\ index < Len(value) => Here = "newline" /\ line = location[1]
  /\ phase' = "show"
  /\ UNCHANGED <<value, messages, at, index, line, char, location, buffer, shown>>

(***************************************************************************)
(* What trim_left_copy() takes off the line.                               *)
(***************************************************************************)
Indentation ==
  CHOOSE k \in 0 .. buffer[2] :
    /\ \A j \in 1 .. k : IsSpace(value[buffer[1] + j])
    /\ k < buffer[2] => ~ IsSpace(value[buffer[1] + k + 1])

Show ==
  /\ phase = "show" /\ location[2] - 1 >= Indentation
  /\ shown' = Append(shown, [line |-> location[1], first |-> buffer[1] + Indentation,
                              padding |-> location[2] - 1 - Indentation])
  /\ phase' = "next"
  /\ UNCHANGED <<value, messages, at, index, line, char, location, buffer>>

\* The padding is below zero, and a string of that size cannot be made.
ShowFails ==
  /\ phase = "show" /\ location[2] - 1 < Indentation
  /\ phase' = "length_error"
  /\ UNCHANGED <<value, messages, at, index, line, char, location, buffer, shown>>

Next ==
  \/ NextMessage \/ Finish \/ Located \/ LocateOn \/ NotLocated
  \/ GetLineOn \/ GotLine \/ Show \/ ShowFails

Spec == Init /\ [][Next]_vars /\ WF_vars(Next)
----------------------------------------------------------------------------
(***************************************************************************)
(* The type invariant.                                                     *)
(***************************************************************************)
TypeOK ==
  /\ value \in Seq(Chars)
  /\ messages \in Seq(Starts(value))
  /\ at \in 0 .. Len(messages)
  /\ phase \in {"next", "getLocation", "getLine", "show", "done", "runtime_error", "length_error"}
  /\ index \in 0 .. Len(value)
  /\ line \in 1 .. Len(value) + 1
  /\ char \in 1 .. Len(value) + 1
  /\ location \in (1 .. Len(value) + 1) \X (1 .. Len(value) + 1)
  /\ buffer \in (0 .. Len(value)) \X (0 .. Len(value))
  /\ shown \in Seq([line : Nat, first : Nat, padding : Nat])

NoNewline(from, to) == \A i \in from .. to - 1 : value[i + 1] # "newline"

LineBegins(n) == n = 0 \/ value[n] = "newline"

(***************************************************************************)
(* The carets of every message begin below the first character of its span:*)
(* the text shown begins in the span's line, with everything before it in  *)
(* that line white space, and the padding leads from there to the span.    *)
(***************************************************************************)
CaretBelowSpan ==
  \A i \in 1 .. Len(shown) :
    LET first == shown[i].first IN
    /\ first + shown[i].padding = messages[i]
    /\ \E n \in 0 .. first :
         /\ LineBegins(n) /\ NoNewline(n, messages[i])
         /\ \A j \in n + 1 .. first : IsSpace(value[j])

\* Nothing but white space is between n and the beginning of its line.
InIndentation(n) ==
  /\ n < Len(value) /\ IsSpace(value[n + 1])
  /\ \A j \in 1 .. n : NoNewline(j, n) => IsSpace(value[j])

(***************************************************************************)
(* The call throws exactly for a span at the end of the text, or one that  *)
(* begins within its line's indentation, as a carriage return of an empty  *)
(* line does: the messages before it are shown, it and the others are not. *)
(***************************************************************************)
Unshowable(n) == n = Len(value) \/ InIndentation(n)

ThrowsExactlyIf ==
  /\ phase \in {"runtime_error", "length_error"} => Unshowable(Start) /\ Len(shown) = at - 1
  /\ \A i \in 1 .. Len(shown) : ~ Unshowable(messages[i])
  /\ phase = "done" => Len(shown) = Len(messages)

(***************************************************************************)
(* debugPrintMessages() returns or throws.                                 *)
(***************************************************************************)
Terminates == <>(phase \in {"done", "runtime_error", "length_error"})
=============================================================================
