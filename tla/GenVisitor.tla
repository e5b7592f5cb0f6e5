----------------------------- MODULE GenVisitor -----------------------------
(***************************************************************************)
(* The control flow that GenVisitor (src/gen.cc) builds for one function:  *)
(* basic blocks, the instructions appended at the builder's insert point,  *)
(* and the recursion of the visitor over blocks and statements, kept as a  *)
(* stack of frames.                                                        *)
(*                                                                         *)
(* The body of the function is chosen as it is visited: at each point the  *)
(* next statement may be any the grammar allows there.  What an expression *)
(* evaluates is left out; its code is one instruction, numbered in the     *)
(* order of the visits.  The allocas, all put at the head of the entry     *)
(* block, are left out too.                                                *)
(***************************************************************************)
EXTENDS Naturals, Sequences

CONSTANTS
  MaxBlocks,  \* bound: basic blocks of the function
  MaxExprs    \* bound: expressions of the function

ASSUME MaxBlocksAssumption == MaxBlocks \in Nat \ {0}
ASSUME MaxExprsAssumption == MaxExprs \in Nat

VARIABLES
  made,      \* basic blocks created, numbered from 1, the entry block
  attached,  \* those in the function's block list
  code,      \* the instructions of each block
  at,        \* the builder's insert point
  frames,    \* the statements being visited, innermost last
  last,      \* what visitBlock has of the innermost block: its last statement's value
  exprs,     \* expressions visited
  done,      \* visitFunctionDecl has reached its verifyFunction()
  flaws      \* history: the shapes of the body that no case of the visitor expects

vars == <<made, attached, code, at, frames, last, exprs, done, flaws>>

Blocks == 1 .. MaxBlocks

(***************************************************************************)
(* Instructions.  Targets lists the blocks a terminator may go to.         *)
(***************************************************************************)
Value(n)     == [op |-> "value", arg |-> <<n>>]
Ret          == [op |-> "ret", arg |-> <<>>]
Br(b)        == [op |-> "br", arg |-> <<b>>]
CondBr(b, c) == [op |-> "condbr", arg |-> <<b, c>>]

Instr == [op : {"value", "ret", "br", "condbr"}, arg : Seq(Nat)]

IsTerminator(i) == i.op # "value"

Targets(i) == IF IsTerminator(i) THEN {i.arg[k] : k \in 1 .. Len(i.arg)} ELSE {}

(***************************************************************************)
(* Frames: the block (or the for's init statement) that is being visited,  *)
(* with the basic blocks its visit still refers to, 0 for none.            *)
(***************************************************************************)
Kinds == {"then", "else", "while", "init", "for"}

Frame == [kind : Kinds, cont : Nat, loop : Nat, next : Nat]

Enter(kind, c, l, n) == [kind |-> kind, cont |-> c, loop |-> l, next |-> n]

Top == frames[Len(frames)]

Outer == SubSeq(frames, 1, Len(frames) - 1)

Init ==
  /\ made = 1
  /\ attached = {1}
  /\ code = [b \in Blocks |-> <<>>]
  /\ at = 1
  /\ frames = <<>>
  /\ last = "none"
  /\ exprs = 0
  /\ done = FALSE
  /\ flaws = {}

----------------------------------------------------------------------------
(***************************************************************************)
(* Visiting a statement.  An init frame takes exactly one.  A statement    *)
(* after a return is appended behind the return's ret instruction.  Some   *)
(* append nothing; last is "past" if only such statements follow a return, *)
(* and is then, like "value", no ReturnInst.                               *)
(***************************************************************************)
InBlock(kind) == ~ done /\ frames # <<>> /\ Top.kind = kind

CanVisit ==
  /\ ~ done
  /\ frames # <<>> /\ Top.kind = "init" => last = "none"

Returned == last \in {"ret", "past"}

Note(flaw, when) == flaws' = IF when THEN flaws \cup {flaw} ELSE flaws

NoteDead == Note("after_return", Returned)

CanEvaluate(n) == exprs + n <= MaxExprs

CanCreate(n) == made + n <= MaxBlocks

\* An expression, or a let with its right-hand side.
VisitExpression ==
  /\ CanVisit /\ CanEvaluate(1)
  /\ code' = [code EXCEPT ![at] = @ \o <<Value(exprs + 1)>>]
  /\ exprs' = exprs + 1
  /\ last' = "value"
  /\ NoteDead
  /\ UNCHANGED <<made, attached, at, frames, done>>

\* A let without one, or an expression the builder folds to a constant.
VisitCodeless ==
  /\ CanVisit
  /\ last' = IF Returned THEN "past" ELSE "value"
  /\ UNCHANGED <<made, attached, code, at, frames, exprs, done, flaws>>

\* A bare return counts as an expression too: that bounds the body.
VisitReturn ==
  /\ CanVisit /\ CanEvaluate(1)
  /\ \E instrs \in {<<Ret>>, <<Value(exprs + 1), Ret>>} :
       code' = [code EXCEPT ![at] = @ \o instrs]
  /\ exprs' = exprs + 1
  /\ last' = "ret"
  /\ NoteDead
  /\ UNCHANGED <<made, attached, at, frames, done>>

(***************************************************************************)
(* visitIfStatement.  cont is created detached; then and next are created  *)
(* in the function, the condition is evaluated in the block before them.   *)
(***************************************************************************)
\* Mutant: the block's value is not looked at.
CloseAlways(b) == <<Br(b)>>

\* A block that does not end in a return goes on at b.
Close(b) == IF last = "ret" THEN <<>> ELSE <<Br(b)>>

NotePast == Note("after_return", last = "past")

VisitIf ==
  LET cont == made + 1  then == made + 2  next == made + 3
  IN  /\ CanVisit /\ CanCreate(3) /\ CanEvaluate(1)
      /\ made' = made + 3
      /\ attached' = attached \cup {then, next}
      /\ code' = [code EXCEPT ![at] = @ \o <<Value(exprs + 1), CondBr(then, next)>>]
      /\ exprs' = exprs + 1
      /\ at' = then
      /\ frames' = Append(frames, Enter("then", cont, 0, next))
      /\ last' = "none"
      /\ NoteDead
      /\ UNCHANGED done

\* Mutant: the insert point is not moved on to the new next block.
VisitElseIfSameNext ==
  LET then == made + 1  next == made + 2
  IN  /\ InBlock("then") /\ CanCreate(2) /\ CanEvaluate(1)
      /\ made' = made + 2
      /\ attached' = attached \cup {then, next}
      /\ code' = [code EXCEPT
           ![at] = @ \o Close(Top.cont),
           ![Top.next] = @ \o <<Value(exprs + 1), CondBr(then, next)>>]
      /\ exprs' = exprs + 1
      /\ at' = then
      /\ frames' = Append(Outer, Enter("then", Top.cont, 0, Top.next))
      /\ last' = "none"
      /\ NotePast
      /\ UNCHANGED done

\* The next turn of the loop over the pairs.
VisitElseIf ==
  LET then == made + 1  next == made + 2
  IN  /\ InBlock("then") /\ CanCreate(2) /\ CanEvaluate(1)
      /\ made' = made + 2
      /\ attached' = attached \cup {then, next}
      /\ code' = [code EXCEPT
           ![at] = @ \o Close(Top.cont),
           ![Top.next] = @ \o <<Value(exprs + 1), CondBr(then, next)>>]
      /\ exprs' = exprs + 1
      /\ at' = then
      /\ frames' = Append(Outer, Enter("then", Top.cont, 0, next))
      /\ last' = "none"
      /\ NotePast
      /\ UNCHANGED done

VisitElse ==
  /\ InBlock("then")
  /\ code' = [code EXCEPT ![at] = @ \o Close(Top.cont)]
  /\ at' = Top.next
  /\ frames' = Append(Outer, Enter("else", Top.cont, 0, 0))
  /\ last' = "none"
  /\ NotePast
  /\ UNCHANGED <<made, attached, exprs, done>>

\* Mutant: cont is not pushed back on the function's block list.
LeaveDetached ==
  /\ attached' = attached
  /\ at' = Top.cont
  /\ frames' = Outer
  /\ last' = "null"
  /\ UNCHANGED <<made, done>>

\* Leave a statement at its cont block; visit...Statement returns nullptr.
Leave ==
  /\ attached' = attached \cup {Top.cont}
  /\ at' = Top.cont
  /\ frames' = Outer
  /\ last' = "null"
  /\ UNCHANGED <<made, done>>

\* Mutant: without an else, no branch is created in the next block.
EndIfOpen ==
  /\ InBlock("then")
  /\ code' = [code EXCEPT ![at] = @ \o Close(Top.cont)]
  /\ Leave
  /\ NotePast
  /\ UNCHANGED exprs

\* No else: the next block of the last pair is the one that goes to cont.
EndIf ==
  /\ InBlock("then")
  /\ code' = [code EXCEPT ![at] = @ \o Close(Top.cont), ![Top.next] = @ \o <<Br(Top.cont)>>]
  /\ Leave
  /\ NotePast
  /\ UNCHANGED exprs

\* The else block's own value is not looked at.
EndElse ==
  /\ InBlock("else")
  /\ code' = [code EXCEPT ![at] = @ \o <<Br(Top.cont)>>]
  /\ Note("else_returns", Returned)
  /\ Leave
  /\ UNCHANGED exprs

(***************************************************************************)
(* visitWhileStatement and visitForStatement.                              *)
(***************************************************************************)
\* Into the loop block: its condition, and on to the body or to cont.
EnterLoop(cont, loop, then) ==
  /\ code' = [code EXCEPT
       ![at] = @ \o <<Br(loop)>>,
       ![loop] = @ \o <<Value(exprs + 1), CondBr(then, cont)>>]
  /\ exprs' = exprs + 1
  /\ at' = then
  /\ last' = "none"

VisitWhile ==
  LET cont == made + 1  loop == made + 2  then == made + 3
  IN  /\ CanVisit /\ CanCreate(3) /\ CanEvaluate(1)
      /\ made' = made + 3
      /\ attached' = attached \cup {loop, then}
      /\ EnterLoop(cont, loop, then)
      /\ frames' = Append(frames, Enter("while", cont, loop, 0))
      /\ NoteDead
      /\ UNCHANGED done

\* Mutant: the body of a while goes on to cont.
EndWhileOnce ==
  /\ InBlock("while")
  /\ code' = [code EXCEPT ![at] = @ \o Close(Top.cont)]
  /\ Leave
  /\ NotePast
  /\ UNCHANGED exprs

\* Mutant: the body of a while is left open.
EndWhileOpen ==
  /\ InBlock("while")
  /\ Leave
  /\ NotePast
  /\ UNCHANGED <<code, exprs>>

EndWhile ==
  /\ InBlock("while")
  /\ code' = [code EXCEPT ![at] = @ \o Close(Top.loop)]
  /\ Leave
  /\ NotePast
  /\ UNCHANGED exprs

\* The three blocks are created before the init statement is visited.
VisitFor ==
  LET cont == made + 1  loop == made + 2  then == made + 3
  IN  /\ CanVisit /\ CanCreate(3)
      /\ made' = made + 3
      /\ attached' = attached \cup {loop, then}
      /\ frames' = Append(frames, Enter("init", cont, loop, then))
      /\ last' = "none"
      /\ NoteDead
      /\ UNCHANGED <<code, at, exprs, done>>

EndInit ==
  /\ InBlock("init") /\ last # "none" /\ CanEvaluate(1)
  /\ EnterLoop(Top.cont, Top.loop, Top.next)
  /\ frames' = Append(Outer, Enter("for", Top.cont, Top.loop, 0))
  /\ Note("init_returns", Returned)
  /\ UNCHANGED <<made, attached, done>>

\* The increment is evaluated where the body ends.
EndFor ==
  /\ InBlock("for")
  /\ IF last = "ret"
     THEN UNCHANGED <<code, exprs>>
     ELSE /\ CanEvaluate(1)
          /\ code' = [code EXCEPT ![at] = @ \o <<Value(exprs + 1), Br(Top.loop)>>]
          /\ exprs' = exprs + 1
  /\ Leave
  /\ NotePast

\* visitFunctionDecl, once the body is visited.  Nothing is appended.
EndFunction ==
  /\ ~ done /\ frames = <<>>
  /\ done' = TRUE
  /\ Note("falls_off", ~ Returned)
  /\ UNCHANGED <<made, attached, code, at, frames, last, exprs>>

Next ==
  \/ VisitExpression \/ VisitCodeless \/ VisitReturn
  \/ VisitIf \/ VisitElseIf \/ VisitElse \/ EndIf \/ EndElse
  \/ VisitWhile \/ EndWhile
  \/ VisitFor \/ EndInit \/ EndFor
  \/ EndFunction

Spec == Init /\ [][Next]_vars

----------------------------------------------------------------------------
(***************************************************************************)
(* The type invariant.                                                     *)
(***************************************************************************)
Flaws == {"after_return", "else_returns", "init_returns", "falls_off"}

TypeOK ==
  /\ made \in Blocks
  /\ attached \subseteq 1 .. made
  /\ code \in [Blocks -> Seq(Instr)]
  /\ 1 \in attached
  /\ at \in attached
  /\ frames \in Seq(Frame)
  /\ last \in {"none", "value", "ret", "past", "null"}
  /\ exprs \in 0 .. MaxExprs
  /\ done \in BOOLEAN
  /\ flaws \subseteq Flaws

(***************************************************************************)
(* The rules verifyFunction() holds a function to: every block ends in a   *)
(* terminator and has no other, every branch goes to a block of the        *)
(* function, and none goes to the entry block.                             *)
(***************************************************************************)
Ends(instrs) == instrs # <<>> /\ IsTerminator(instrs[Len(instrs)])

Buries(instrs) == \E i \in 1 .. Len(instrs) - 1 : IsTerminator(instrs[i])

BranchesInto(blocks) ==
  \A b \in Blocks : \A i \in 1 .. Len(code[b]) : Targets(code[b][i]) \subseteq blocks

WellFormed ==
  /\ \A b \in attached : Ends(code[b]) /\ ~ Buries(code[b])
  /\ BranchesInto(attached \ {1})

(***************************************************************************)
(* The function verifies exactly if its body has none of the four shapes:  *)
(* code after a return, an else that returns, a for whose init returns, or *)
(* a body that does not return where it ends.  So every body of ifs, loops *)
(* and returns without them gets well-formed code, however the statements  *)
(* nest (the cont, loop, then and next blocks of gen.cc).                  *)
(***************************************************************************)
VerifiesUnlessFlawed == done => (WellFormed <=> flaws = {})

(***************************************************************************)
(* What the visitor keeps true as it goes.  A frame owns the blocks it has *)
(* created and has still to fill: cont, not yet in the function, and those *)
(* already there.                                                          *)
(***************************************************************************)
Waiting(f) ==
  CASE f.kind = "then" -> {f.next}
    [] f.kind = "init" -> {f.loop, f.next}
    [] OTHER -> {}

Owned(f) == {f.cont} \cup Waiting(f)

Conts == {frames[k].cont : k \in 1 .. Len(frames)}

Reserved == UNION {Owned(frames[k]) : k \in 1 .. Len(frames)}

\* No block is owned twice, and all that are owned are empty.
OwnedApart ==
  /\ \A k \in 1 .. Len(frames) :
       /\ frames[k].cont \in 1 .. made \ attached
       /\ Waiting(frames[k]) \subseteq attached \ {1, at}
       /\ frames[k].kind = "init" => frames[k].loop # frames[k].next
       /\ frames[k].kind \in {"while", "for"} => frames[k].loop \in attached \ {1}
  /\ \A j, k \in 1 .. Len(frames) :
       j # k => Owned(frames[j]) \cap Owned(frames[k]) = {}
  /\ \A b \in Blocks : b \in Reserved \/ b > made => code[b] = <<>>

\* The blocks left behind are closed; the one at the insert point is open.
OthersClosed ==
  /\ \A b \in attached \ ({at} \cup Reserved) : Ends(code[b])
  /\ BranchesInto((attached \cup Conts) \ {1})

\* A flaw is a terminator buried in a block, or about to be.
Misshapen == flaws \ {"falls_off"} # {}

BuriedIffMisshapen ==
  /\ Returned => Ends(code[at])
  /\ ~ Misshapen => /\ ~ Returned => ~ Ends(code[at])
                    /\ \A b \in Blocks : ~ Buries(code[b])
  /\ Misshapen => \/ \E b \in attached : Buries(code[b])
                  \/ frames # <<>> /\ Top.kind = "init" /\ Ends(code[at])
  /\ done => frames = <<>>
  /\ "falls_off" \in flaws <=> done /\ ~ Returned

(***************************************************************************)
(* The rule that verifyFunction() is called to enforce, without regard to  *)
(* the shape of the body.                                                  *)
(***************************************************************************)
FunctionVerifies == done => WellFormed
=============================================================================
