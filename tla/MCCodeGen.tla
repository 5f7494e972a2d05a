------------------------------ MODULE MCCodeGen -----------------------------
(***************************************************************************)
(* Small programs for CodeGen: every statement list of bounded size, in    *)
(* every nesting.                                                          *)
(***************************************************************************)
EXTENDS Destruction, Syntax

CONSTANTS
  BodySize,      \* statements in the body of a function
  DeepSize       \* the same, with few kinds of simple statements

Expr == Leaf("expr")

ReturnValue == Tree("ret", "", <<Expr>>)
ReturnVoid  == {Leaf("ret"), Tree("ret", "", <<Leaf("voidcall")>>)}

(* The lists of two or more statements that count as n together.           *)
Longer(n, G) ==
  UNION {{<<s>> \o f : s \in G[k].one, f \in G[n - k].lists} : k \in 1..(n - 1)}

(* The statements that count as n, simple ones counting as 1.  A compound  *)
(* around a single statement adds nothing and is left out.                 *)
From(simple, n, G) ==
  (IF n = 1 THEN simple ELSE {})
  \cup {Tree("compound", "", f) : f \in Longer(n, G)}
  \cup {Tree("if", "", <<Expr, b>>) : b \in G[n - 1].one}
  \cup {Tree("while", "", <<Expr, b>>) : b \in G[n - 1].one}
  \cup {Tree("for", "", <<Expr, Expr, Expr, b>>) : b \in G[n - 1].one}
  \cup UNION {{Tree("if", "", <<Expr, b, c>>) : b \in G[k].one, c \in G[n - 1 - k].one}
              : k \in 1..(n - 2)}

Plain == {Expr, Leaf("break"), Leaf("continue"), Tree("compound", "", <<>>)}

FromValue(n, G) == From(Plain \cup {ReturnValue}, n, G)
FromVoid(n, G)  ==
  From((Plain \ {Expr}) \cup {Leaf("voidcall")} \cup ReturnVoid, n, G)

FromFew(n, G)   == From({Leaf("break"), Leaf("ret")}, n, G)
FromCall(n, G)  == From({Leaf("break"), Leaf("voidcall")}, n, G)

Bodies(n) == Lists(n, FromValue) \cup Lists(n, FromVoid)

Fun(body) == Tree("function", "", <<Leaf("arg"), Tree("block", "", body)>>)

(* One function of any body; two functions, the first of which leaves      *)
(* loops and blocks behind or fails.                                       *)
MCPrograms ==
  {Program(<<Fun(b)>>) : b \in Bodies(BodySize) \cup Lists(DeepSize, FromFew)
                                     \cup Lists(DeepSize, FromCall)}
  \cup {Program(<<Fun(b), Fun(c)>>) : b \in Bodies(1), c \in Bodies(1)}

(* A jump as the whole body of a loop, and as the else branch in one.      *)
MCJumpPrograms ==
  {Program(<<Fun(<<Tree("while", "", <<Expr, b>>)>>)>>) :
     b \in UNION {{j, Tree("if", "", <<Expr, Expr, j>>)} : j \in {Leaf("break"), Leaf("continue")}}}

=============================================================================
