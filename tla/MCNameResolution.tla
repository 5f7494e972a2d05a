-------------------------- MODULE MCNameResolution --------------------------
(***************************************************************************)
(* Small programs for NameResolution: statement lists over the names x and *)
(* f, built from the statements whose shape matters to the passes:         *)
(* references as statements and as operands, declarations, nodes that own  *)
(* a scope (for, compound) and nodes that do not (while).                  *)
(***************************************************************************)
EXTENDS NameResolution, Syntax

CONSTANTS
  BodySize,     \* statements in the body of the function under test
  SmallBody     \* the same, where a second function keeps it company

Literal   == Tree("literal", "", <<>>)
Ref(x)    == Tree("ref", x, <<>>)
Op(e)     == Tree("op", "", <<e>>)
Let(x, e) == Tree("let", "", <<e, Tree("var", x, <<>>)>>)

Simple == {Ref("x"), Ref("f"), Op(Ref("x")), Let("x", Literal), Let("x", Ref("x")),
           Let("x", Op(Ref("x"))), Let("f", Literal)}

(* Init and condition of a for statement.                                  *)
ForHeads == {<<Let("x", Literal), Ref("x")>>, <<Let("x", Literal), Op(Ref("x"))>>,
             <<Ref("x"), Literal>>}

(* The statements that hold n statements, themselves counted if simple.    *)
From(n, G) ==
  (IF n = 1 THEN Simple ELSE {})
  \cup {Tree("compound", "", f) : f \in G[n - 1].lists}
  \cup {Tree("while", "", <<Ref("x"), b>>) : b \in G[n - 1].one}
  \cup {Tree("for", "", h \o <<Literal, b>>) : h \in ForHeads, b \in G[n - 1].one}

Fun(f, args, body) ==
  Tree("function", f, [i \in 1..Len(args) |-> Tree("arg", args[i], <<>>)]
                        \o <<Tree("block", "", body)>>)

Bodies(n) == Lists(n, From)

(* One function with and without an argument; one with an argument twice;  *)
(* a second function that is mentioned before it is defined; two functions *)
(* of one name.                                                            *)
MCPrograms ==
  {Program(<<Fun("f", a, b)>>) : a \in {<<>>, <<"x">>}, b \in Bodies(BodySize)}
  \cup {Program(<<Fun("f", <<"x", "x">>, <<>>)>>)}
  \cup {Program(<<Fun("g", <<"f">>, b), Fun("f", <<>>, c)>>) :
          b \in Bodies(SmallBody), c \in {<<>>, <<Ref("g")>>}}
  \cup {Program(<<Fun("f", <<>>, <<>>), Fun("f", <<>>, <<>>)>>)}

(* for statements alone, with an empty body.                               *)
MCForLoops ==
  {Program(<<Fun("f", <<>>, <<Tree("for", "", h \o <<Literal, Tree("compound", "", <<>>)>>)>>)>>)
     : h \in ForHeads}

=============================================================================
