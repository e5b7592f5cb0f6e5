------------------------------ MODULE MCScopes ------------------------------
(***************************************************************************)
(* Instances of Scopes: every program of at most so many nodes over one    *)
(* name, shorter ones over two, and longer ones of one function.  With two *)
(* names there are functions of two parameters, in either order or equal.  *)
(***************************************************************************)
EXTENDS Scopes

CONSTANTS
  First,  \* the function of the first node
  MaxLen

Head_(kind, f, names) ==
  [kind |-> kind, of |-> f, names |-> names, uses |-> {}, hidden |-> {}, loops |-> 0]

Let(f, n, uses, loops) ==
  [kind |-> "let", of |-> f, names |-> <<n>>, uses |-> uses, hidden |-> {}, loops |-> loops]

Expression(f, uses, hidden, loops) ==
  [kind |-> "expression", of |-> f, names |-> <<>>, uses |-> uses, hidden |-> hidden, loops |-> loops]

Few(names) == {{}} \cup {{n} : n \in names}

Lists(names) ==
  {<<>>} \cup {<<n>> : n \in names}
    \cup (IF \E n, m \in names : n # m THEN {<<n, m>> : n \in names, m \in names} ELSE {})

NodesOver(functions, names) ==
  {Head_(kind, f, ns) : kind \in Heads, f \in functions, ns \in Lists(names)}
    \cup {Let(f, n, uses, loops) : f \in functions, n \in names, uses \in Few(names), loops \in 0 .. 1}
    \cup {Expression(f, uses, {}, loops) : f \in functions, uses \in Few(names), loops \in 0 .. 1}
    \cup {Expression(f, {}, {n}, 0) : f \in functions, n \in names}

\* The first node is of First; the body of a while is behind its condition.
Grows(p) ==
  \A i \in DOMAIN p :
    IF p[i].kind \in Heads THEN i = 1 => p[i].of = First
    ELSE /\ i > 1 /\ p[i - 1].kind # "prototype" /\ p[i - 1].of = p[i].of
         /\ p[i].loops > 0 => p[i - 1].loops > 0 \/ p[i - 1].kind = "expression"

ProgramsOver(functions, names, n) ==
  LET nodes == NodesOver(functions, names)
  IN  UNION {{p \in [1 .. k -> nodes] : Grows(p)} : k \in 0 .. n}

MCPrograms ==
  ProgramsOver(Functions, {"x"}, MaxLen) \cup ProgramsOver(Functions, {"x", "y"}, MaxLen - 1)
    \cup ProgramsOver({First}, {"x"}, MaxLen + 1)
=============================================================================
