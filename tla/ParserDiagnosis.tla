-------------------------- MODULE ParserDiagnosis --------------------------
(***************************************************************************)
(* What the errors that the parser reports say of the text: Parser, after  *)
(* all derivations of the grammar have gone as far as they can.            *)
(***************************************************************************)
EXTENDS Parser, Grammar

VARIABLES
  derivations,  \* those of the grammar that are still going on, all as many steps long
  verdict       \* how far any has read: the place of the token that none can read

allVars == <<vars, derivations, verdict>>

DiagnosisInit == Init /\ derivations = {Begun} /\ verdict = 0

Derive ==
  /\ derivations # {}
  /\ derivations' = UNION {Onward(input, d) : d \in derivations}
  /\ verdict' = IF \E d \in derivations' : d.read > verdict THEN verdict + 1 ELSE verdict
  /\ UNCHANGED vars

Parse ==
  /\ derivations = {}
  /\ Next
  /\ UNCHANGED <<derivations, verdict>>

DiagnosisNext == Derive \/ Parse

DiagnosisSpec == DiagnosisInit /\ [][DiagnosisNext]_allVars /\ WF_allVars(DiagnosisNext)

(***************************************************************************)
(* The first error reported is at the first token that no program has      *)
(* after the tokens before it (expect() and fail() throughout parser.cc):  *)
(* the parser neither rejects a program nor gets past a mistake, and what  *)
(* it says next is about what follows the mistake.  A parse that ends      *)
(* without an error has read a program, to the end of the text.            *)
(***************************************************************************)
Diagnosed ==
  /\ messages # {} =>
       /\ \E m \in messages : m.at = verdict
       /\ \A m \in messages : m.at >= verdict
  /\ work = <<>> /\ messages = {} => verdict > Len(input)
=============================================================================
