------------------------------ MODULE MCTyping ------------------------------
(***************************************************************************)
(* An instance of Typing: a structure within a structure and one without a *)
(* size, variables of every kind but floats, of two sizes and of what has  *)
(* none, functions of none, one and two parameters, one of them malloc()   *)
(* of example/stl.lll.                                                     *)
(***************************************************************************)
EXTENDS Typing

Ptr(base) == Ref(Plain(base))

MCFieldOf ==
  [s \in Structs |->
     CASE s = "Line" -> Plain("Point") [] s = "Point" -> Plain("i64") [] s = "Empty" -> Void]

MCVarTypes == {Plain("i8"), Plain("i64"), Plain("Line"), Ptr("Line"), Plain("Empty"), Ptr("void")}

MCSignatures == {
  [params |-> <<>>, result |-> Void],
  [params |-> <<Plain("i64")>>, result |-> Ptr("void")],
  [params |-> <<Ptr("Line"), Plain("f64")>>, result |-> Plain("Line")]}
=============================================================================
