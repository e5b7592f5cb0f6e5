------------------------------ MODULE GenExec ------------------------------
(***************************************************************************)
(* What the code GenVisitor emits for a function does when it runs, beside *)
(* what the function's source says: the tree that is visited is kept as it *)
(* is chosen, and when the function verifies, the basic blocks and the     *)
(* tree are run together, the conditions answered the same way for both.   *)
(***************************************************************************)
EXTENDS GenVisitor

VARIABLES
  tree,   \* history: the statements visited, a list per block that is open
  rest,   \* what the source has still to do
  pc      \* the next instruction: its block and its place there

allVars == <<vars, tree, rest, pc>>

(***************************************************************************)
(* The tree (ast.hh).  An expression is its number; a statement that is    *)
(* still being visited stands, with the list of its block so far, on a     *)
(* stack whose bottom is the body of the function.                         *)
(***************************************************************************)
Expr(n)               == [is |-> "expr", n |-> n]
Return(n)             == [is |-> "return", n |-> n]
If(pairs, els)        == [is |-> "if", pairs |-> pairs, els |-> els]
While(c, body)        == [is |-> "while", cond |-> c, body |-> body]
For(s, c, inc, body)  == [is |-> "for", init |-> s, cond |-> c, inc |-> inc, body |-> body]

Open(pairs, init, cond) == [pairs |-> pairs, init |-> init, cond |-> cond, list |-> <<>>]

Inner == tree[Len(tree)]

Enclosing == SubSeq(tree, 1, Len(tree) - 1)

Listed(stack, stmt) == [stack EXCEPT ![Len(stack)].list = Append(@, stmt)]

\* The pairs of an if once the block being visited is added to them.
Pairs == Append(Inner.pairs, [cond |-> Inner.cond, body |-> Inner.list])

\* The number of the expression a step evaluates last.
Evaluated == exprs'

ExecInit ==
  /\ Init
  /\ tree = <<Open(<<>>, <<>>, 0)>>
  /\ rest = <<>>
  /\ pc = <<1, 1>>

Visit ==
  /\ \/ VisitExpression /\ tree' = Listed(tree, Expr(Evaluated))
     \/ VisitCodeless /\ UNCHANGED tree
     \/ /\ VisitReturn
        /\ LET bare == Len(code'[at]) = Len(code[at]) + 1
           IN  tree' = Listed(tree, Return(IF bare THEN 0 ELSE Evaluated))
     \/ VisitIf /\ tree' = Append(tree, Open(<<>>, <<>>, Evaluated))
     \/ VisitElseIf /\ tree' = Append(Enclosing, Open(Pairs, <<>>, Evaluated))
     \/ VisitElse /\ tree' = Append(Enclosing, Open(Pairs, <<>>, 0))
     \/ EndIf /\ tree' = Listed(Enclosing, If(Pairs, <<>>))
     \/ EndElse /\ tree' = Listed(Enclosing, If(Inner.pairs, Inner.list))
     \/ VisitWhile /\ tree' = Append(tree, Open(<<>>, <<>>, Evaluated))
     \/ EndWhile /\ tree' = Listed(Enclosing, While(Inner.cond, Inner.list))
     \/ VisitFor /\ tree' = Append(tree, Open(<<>>, <<>>, 0))
     \/ EndInit /\ tree' = Append(Enclosing, Open(<<>>, Inner.list, Evaluated))
     \/ /\ EndFor
        /\ tree' = Listed(Enclosing, For(Inner.init, Inner.cond, Evaluated, Inner.list))
  /\ UNCHANGED <<rest, pc>>

Finish ==
  /\ EndFunction
  /\ rest' = Inner.list
  /\ UNCHANGED <<tree, pc>>

----------------------------------------------------------------------------
(***************************************************************************)
(* The source runs by its structure: what is left to do is a list of       *)
(* statements, and of tests that pick what goes on.  Unfold brings an      *)
(* expression, a test or a return to the head of it.                       *)
(***************************************************************************)
Test(n, yes, no) == [is |-> "test", n |-> n, yes |-> yes, no |-> no]
Choose(yes, no)  == [is |-> "choose", yes |-> yes, no |-> no]
Leaves           == [is |-> "leave"]

Running == done /\ flaws = {}

Unfolded(s) ==
  CASE s.is = "if" /\ s.pairs = <<>> -> s.els
    [] s.is = "if" /\ s.pairs # <<>> ->
         <<Test(Head(s.pairs).cond, Head(s.pairs).body, <<If(Tail(s.pairs), s.els)>>)>>
    [] s.is = "while" -> <<Test(s.cond, Append(s.body, s), <<>>)>>
    [] s.is = "for" -> Append(s.init, While(s.cond, Append(s.body, Expr(s.inc))))
    [] s.is = "return" -> IF s.n = 0 THEN <<Leaves>> ELSE <<Expr(s.n), Leaves>>

Folded == rest # <<>> /\ Head(rest).is \in {"if", "while", "for", "return"}

Unfold ==
  /\ Running /\ Folded
  /\ rest' = Unfolded(Head(rest)) \o Tail(rest)
  /\ UNCHANGED <<vars, tree, pc>>

(***************************************************************************)
(* The emitted code runs as LLVM defines its instructions.                 *)
(***************************************************************************)
Here == code[pc[1]][pc[2]]

Jump ==
  /\ Running /\ ~ Folded
  /\ Here.op = "br"
  /\ pc' = <<Here.arg[1], 1>>
  /\ UNCHANGED <<vars, tree, rest>>

(***************************************************************************)
(* What each is about to do: evaluate an expression, choose, or return.    *)
(***************************************************************************)
SourceDoes ==
  CASE rest = <<>> -> <<"end">>
    [] rest # <<>> /\ Head(rest).is \in {"expr", "test"} -> <<"evaluate", Head(rest).n>>
    [] rest # <<>> /\ Head(rest).is = "choose" -> <<"choose">>
    [] rest # <<>> /\ Head(rest).is = "leave" -> <<"return">>

CodeDoes ==
  CASE Here.op = "value" -> <<"evaluate", Here.arg[1]>>
    [] Here.op = "condbr" -> <<"choose">>
    [] Here.op = "ret" -> <<"return">>

AtEvent == Running /\ ~ Folded /\ Here.op # "br"

\* One expression of both, or one condition decided for both.
Evaluate ==
  /\ AtEvent
  /\ SourceDoes = CodeDoes
  /\ Here.op = "value"
  /\ rest' = LET s == Head(rest)
             IN  (IF s.is = "test" THEN <<Choose(s.yes, s.no)>> ELSE <<>>) \o Tail(rest)
  /\ pc' = <<pc[1], pc[2] + 1>>
  /\ UNCHANGED <<vars, tree>>

Decide ==
  /\ AtEvent
  /\ SourceDoes = CodeDoes
  /\ Here.op = "condbr"
  /\ \E holds \in BOOLEAN :
       /\ rest' = (IF holds THEN Head(rest).yes ELSE Head(rest).no) \o Tail(rest)
       /\ pc' = <<IF holds THEN Here.arg[1] ELSE Here.arg[2], 1>>
  /\ UNCHANGED <<vars, tree>>

ExecNext == Visit \/ Finish \/ Unfold \/ Jump \/ Evaluate \/ Decide

ExecSpec == ExecInit /\ [][ExecNext]_allVars

----------------------------------------------------------------------------
(***************************************************************************)
(* The emitted code does what the source says, at every point of every run *)
(* and whatever the conditions answer: it evaluates the same expressions   *)
(* in the same order, tests where the source tests and returns where the   *)
(* source returns (visitIfStatement, visitWhileStatement and               *)
(* visitForStatement of gen.cc).                                           *)
(***************************************************************************)
RunsAsWritten == AtEvent => SourceDoes = CodeDoes
=============================================================================
