------------------------------ MODULE MCSpans ------------------------------
(***************************************************************************)
(* Instances of Spans: every text of at most so many characters.           *)
(***************************************************************************)
EXTENDS Spans

CONSTANTS MaxLen

MCTexts == UNION {[1 .. k -> Chars] : k \in 0 .. MaxLen}
=============================================================================
