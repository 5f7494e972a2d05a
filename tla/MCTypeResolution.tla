-------------------------- MODULE MCTypeResolution --------------------------
(***************************************************************************)
(* Small programs for TypeResolution: a function f with an argument x and  *)
(* at most three statements, between a function g before or after it.      *)
(***************************************************************************)
EXTENDS TypeResolution, Syntax

Typed(ty, t) ==
  [t EXCEPT ![<<>>] = [kind |-> @.kind, arity |-> @.arity, name |-> @.name, ty |-> ty]]

Literal(x)   == Typed(Primitive(x), Leaf("literal"))
Ref(x)       == Tree("ref", x, <<>>)
Op(kind, es) == Tree(kind, "", es)
Let(x, e)    == Tree("let", "", <<e, Tree("var", x, <<>>)>>)
Return(e)    == Tree("ret", "", <<e>>)

Fun(f, ty, body) ==
  Typed(ty, Tree("function", f,
    <<Typed(Primitive("integer"), Tree("arg", "x", <<>>)), Tree("block", "", body)>>))

Integer == Literal("integer")
Double  == Literal("double")

(* Operands, and what the variable h may be initialised with.              *)
Simple == {Integer, Double, Literal("string"), Ref("x"), Ref("f"), Ref("g")}

Initial ==
  Simple
  \cup {Op("array", <<a, b>>) : a, b \in {Integer, Double, Ref("f"), Op("array", <<Integer>>)}}
  \cup {Op("array", <<>>), Op("arith", <<Integer, Double>>),
        Op("array", <<Op("array", <<Integer>>), Op("array", <<Double>>)>>)}
  \cup {Op("call", <<Ref(f), e>>) : f \in {"f", "g", "x"}, e \in {Integer, Double}}
  \cup {Op("call", <<Ref("g")>>)}

(* What is done with h, or with an h that is not there.                    *)
Uses ==
  {Ref("h"), Op("index", <<Ref("h"), Integer>>),
   Op("call", <<Ref("h"), Integer>>),
   Op("array", <<Ref("h"), Op("array", <<Integer>>)>>),
   Op("arith", <<Ref("h"), Integer>>),
   Op("unary", <<Ref("h")>>)}

UseStatements ==
  {Return(u) : u \in Uses}
  \cup {Op("if", <<Op("compare", <<u, Integer>>), Return(u)>>) : u \in Uses}
  \cup {Op(k, <<Ref("h"), Op("compound", <<>>)>>) : k \in {"if", "while"}}

(* The use after the declaration, or before it in an inner list, where     *)
(* the name passes bind it all the same.                                   *)
FBodies ==
  {<<Let("h", i), s>> : i \in Initial, s \in UseStatements}
  \cup {<<Op("compound", <<s>>), Let("h", Integer)>> : s \in UseStatements}
  \cup {<<Let("h", i), s, Return(Integer)>> : i \in Simple, s \in UseStatements}
  \cup {<<Op("for", <<Let("h", i), Op("compare", <<Op("unary", <<Ref("h")>>), Integer>>),
                     Integer, Tree("break", "", <<>>)>>)>> : i \in Simple}
  \cup {<<Let("h", Integer), Op("assign", <<Ref("h"), Integer>>), Tree("ret", "", <<>>)>>}

MCPrograms ==
  {Program(<<Fun("g", Null, <<Return(Integer)>>), Fun("f", ty, b)>>) :
     ty \in {Null, Primitive("integer")}, b \in FBodies}
  \cup {Program(<<Fun("f", Null, b), Fun("g", Null, <<Return(Integer)>>)>>) : b \in FBodies}

(* Arrays of two arrays.                                                   *)
MCArrays ==
  {Program(<<Fun("f", Null,
     <<Op("array", <<Op("array", <<a>>), Op("array", <<b>>)>>)>>)>>) : a, b \in {Integer, Double}}

(* prog.ts, the sample program, cut down to its function hoge.             *)
MCSample ==
  {Program(<<Fun("hoge", Null,
     <<Op("if", <<Op("compare", <<Ref("x"), Integer>>), Op("compound", <<Return(Ref("x"))>>)>>),
       Return(Op("call", <<Ref("hoge"), Op("arith", <<Ref("x"), Integer>>)>>))>>)>>)}

=============================================================================
