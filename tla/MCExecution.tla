----------------------------- MODULE MCExecution ----------------------------
(***************************************************************************)
(* Small clean programs for Execution: jumps are put where clean programs  *)
(* have them, at the end of then branches, and IsClean drops the rest.     *)
(***************************************************************************)
EXTENDS Execution, Syntax

CONSTANT BodySize      \* statements in the body of a function

Expr == Leaf("expr")
Jump == {Leaf("break"), Leaf("continue")}
Compound(f) == Tree("compound", "", f)

Longer(n, G) ==
  UNION {{<<s>> \o f : s \in G[k].one, f \in G[n - k].lists} : k \in 1..(n - 1)}

(* Then branches that count as n.                                          *)
Then(n, G) ==
  G[n].one \cup (IF n = 1 THEN Jump \cup {Compound(<<Expr, j>>) : j \in Jump} ELSE {})

From(simple, n, G) ==
  (IF n = 1 THEN simple ELSE {})
  \cup {Compound(f) : f \in Longer(n, G)}
  \cup {Tree("if", "", <<Expr, b>>) : b \in Then(n - 1, G)}
  \cup {Tree("while", "", <<Expr, b>>) : b \in G[n - 1].one}
  \cup {Tree("for", "", <<Expr, Expr, Expr, b>>) : b \in G[n - 1].one}
  \cup UNION {{Tree("if", "", <<Expr, b, c>>) : b \in Then(k, G), c \in G[n - 1 - k].one}
              : k \in 1..(n - 2)}

FromValue(n, G) == From({Expr, Tree("ret", "", <<Expr>>)}, n, G)
FromVoid(n, G)  == From({Compound(<<>>), Leaf("ret")}, n, G)

Fun(body) == Tree("function", "", <<Tree("block", "", body)>>)

MCPrograms ==
  {t \in {Program(<<Fun(b)>>) : b \in Lists(BodySize, FromValue) \cup Lists(BodySize, FromVoid)}
     : IsClean(t)}

=============================================================================
