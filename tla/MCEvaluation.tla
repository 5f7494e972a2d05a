---------------------------- MODULE MCEvaluation ----------------------------
(***************************************************************************)
(* Small programs for Evaluation: a function f with an argument x, mostly  *)
(* with a variable y and an array a, and one or two statements that do     *)
(* something with them.                                                    *)
(***************************************************************************)
EXTENDS Evaluation, Syntax

Typed(ty, t) ==
  [t EXCEPT ![<<>>] = [kind |-> @.kind, arity |-> @.arity, name |-> @.name, ty |-> ty]]

Literal(ty, x) == Typed(Primitive(ty), Tree("literal", x, <<>>))
Num(x)         == Literal("integer", x)
Ref(x)         == Tree("ref", x, <<>>)
Op(x, a, b)    == Tree("arith", x, <<a, b>>)
Cmp(x, a, b)   == Tree("compare", x, <<a, b>>)
Un(x, a)       == Tree("unary", x, <<a>>)
Inc(a)         == Un("++", a)
Index(a, i)    == Tree("index", "", <<a, i>>)
Array(es)      == Tree("array", "", es)
CallOf(g, e)   == Tree("call", "", <<Ref(g), e>>)
Let(x, e)      == Tree("let", "", <<e, Tree("var", x, <<>>)>>)
Assign(l, e)   == Tree("assign", "", <<l, e>>)
Ret(e)         == Tree("ret", "", <<e>>)
Compound(ss)   == Tree("compound", "", ss)

Fun(f, body) ==
  Typed(Null, Tree("function", f,
    <<Typed(Primitive("integer"), Tree("arg", "x", <<>>)), Tree("block", "", body)>>))

One   == Num("1")
X     == Ref("x")
Y     == Ref("y")
A(i)  == Index(Ref("a"), i)

(* Declares y and a around the statements in the middle.                   *)
Body3(ss) ==
  Program(<<Fun("g", <<Ret(One)>>),
            Fun("f", <<Let("y", Num("0")), Let("a", Array(<<Num("3"), One, Num("2")>>))>> \o ss)>>)

Plain  == {One, X, Y, A(X)}
Effect == {Inc(X), Un("--", Y), Inc(A(Y)), CallOf("g", Inc(Y))}
Deep   == {A(Inc(Y)), Inc(A(Inc(Y))), Inc(A(Inc(A(Inc(Y))))), A(Num("3")), A(Num("0")),
           A(CallOf("g", One)), Index(Array(<<One, Inc(X)>>), Inc(Y))}

Binary ==
  {Op("-", l, r) : l \in Plain \cup Effect, r \in Effect}
  \cup {Op("+", l, r) : l \in Effect, r \in {Y, A(Y)}}
  \cup {Op("*", Num("2"), Un("-", X)), Op("-", Op("-", X, Y), Inc(Y))}

Integers3 == Plain \cup Effect \cup Deep \cup Binary

Straight ==
  {Body3(<<Ret(e)>>) : e \in Integers3}
  \cup {Body3(<<Assign(A(Inc(Y)), e), Ret(Y)>>) : e \in Effect \cup Plain}
  \cup {Body3(<<Assign(X, e), e, Ret(X)>>) : e \in Effect}
  \cup {Body3(<<Let("z", Cmp(c, X, Inc(Y))), Ret(Ref("z"))>>) : c \in {"==", "<", ">="}}
  \cup {Body3(<<Ret(Inc(Y)), Ret(Inc(Y))>>)}
  \cup {Body3(<<Let("b", Ref("a")), Assign(Index(Ref("b"), Y), X), Ret(A(Num("0")))>>)}

(* Operands of every type, under every operator.                           *)
Operand3 ==
  {One, Literal("double", "1"), Literal("boolean", "true"), Literal("string", "s"),
   Array(<<One>>), Ref("g"), CallOf("v", One), CallOf("h", One)}

Under(e) ==
  {Op("+", e, e), Cmp("==", e, e), Cmp("<", e, e), Un("-", e), Inc(e),
   Index(Array(<<One>>), e), Index(e, Num("0")), Array(<<e>>)}

Typings ==
  {Program(<<Fun("g", <<Ret(One)>>), Fun("v", <<>>), Fun("h", <<Ret(Array(<<X, One>>))>>),
             Fun("f", ss)>>) :
     ss \in UNION {UNION {{<<u>>, <<Let("z", u)>>} : u \in Under(e)} : e \in Operand3}
            \cup {<<Let("z", e), Inc(Ref("z"))>> : e \in Operand3}
            \cup {<<Let("z", e), Assign(Ref("z"), Ref("z"))>> : e \in Operand3}
            \cup {<<Ret(e)>> : e \in Operand3}
            \cup {<<s, Un("-", Literal("boolean", "true"))>> :
                    s \in {Assign(Ref("g"), Ref("g")), Assign(X, Literal("double", "1")),
                           Assign(One, One), Inc(Ref("g"))}}}

(* Arrays whose types differ below their names.                            *)
Nested ==
  {Program(<<Fun("f", <<Let("a", Array(<<p, q>>)), Ret(Index(Index(Ref("a"), Num(i)), Num("0")))>>)>>) :
     p, q \in {Array(<<One>>), Array(<<Literal("double", "1")>>)}, i \in {"0", "1"}}
  \cup {Program(<<Fun("f", <<Let("a", Array(<<p>>)), Assign(Ref("a"), Array(<<q>>)),
                             Ret(Index(A(Num("0")), One))>>)>>) :
     p, q \in {Array(<<One>>), Array(<<One, Num("2")>>)}}

(* A variable mentioned before it is declared.                             *)
Forward ==
  {Program(<<Fun("f", <<Compound(<<s>>), Let("y", One), Ret(Y)>>)>>) :
     s \in {Y, Assign(Y, Y), Assign(Y, One), Let("z", Y), Op("+", Y, Y), Un("-", Y),
            Cmp("<", Y, Y), Index(Array(<<One>>), Y)}}

MCPrograms == Straight \cup Typings \cup Nested \cup Forward

MCInputs == {0, 3}

=============================================================================
