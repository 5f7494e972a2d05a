------------------------------ MODULE Grammar -------------------------------
(***************************************************************************)
(* The grammar in the comment of parser.hpp, lines 50 to 95, as sets of    *)
(* sentences with their trees, built from short to long.  Names are left   *)
(* out of the trees.                                                       *)
(*                                                                         *)
(* Where the code takes more than the comment says the grammar here is     *)
(* that of the code: a comma after the last element of a list, no comma    *)
(* between the arguments of a function, any statement after if, else and   *)
(* the heads of loops, any expression in front of an assignment, "return"  *)
(* alone, and "const" alone, which makes a null pointer where a statement  *)
(* should be (Block::gen dereferences it).                                 *)
(*                                                                         *)
(* Where the code takes less, what only the comment has stands by itself,  *)
(* at the end: the declaration of a constant (lines 67 and 70) and an      *)
(* index behind a call (lines 63, 82 and 90).  Taken as slips are the      *)
(* semicolon after an if and the second one after a return (67, 77).       *)
(***************************************************************************)
EXTENDS Syntax, SequencesExt

Said(text, tree)   == [text |-> text, tree |-> tree]
Listed(text, kids) == [text |-> text, kids |-> kids]

Shape(kind, kids) == Tree(kind, 0, kids)

Nothing == Listed(<<>>, <<>>)

One(s) == Listed(s.text, <<s.tree>>)

(* Two lists, with the token between between them, if any.                 *)
Joined(a, between, b) == Listed(a.text \o between \o b.text, a.kids \o b.kids)

(* A tree from a list in brackets, and what stands before it.              *)
Wrapped(kind, before, open, list, close) ==
  Said(before.text \o open \o list.text \o close, Shape(kind, before.kids \o list.kids))

(***************************************************************************)
(* Expressions.  G[k] holds what k tokens can say, for all k < n.          *)
(***************************************************************************)
Leaves == {Said(<<"symbol">>, Shape("ref", <<>>)),
           Said(<<"integer_literal">>, Shape("integer", <<>>))}

(* (Without le, of which the code makes something else.)                   *)
Products   == [mul |-> "*", div |-> "/"]
Sums       == [add |-> "+", sub |-> "-"]
Comparison == [lt |-> "<", ge |-> ">="]
Equality   == [eq |-> "==", neq |-> "!="]

(* An a and a b that have n tokens together.                               *)
Two(G, a, b, n) == UNION {G[k][a] \X G[n - k][b] : k \in 1..(n - 1)}

(* Operators of one level group to the left.                               *)
Level(G, ops, this, tighter, n) ==
  {Said(p[1].text \o <<o>> \o p[2].text, Shape(ops[o], <<p[1].tree, p[2].tree>>)) :
     o \in DOMAIN ops, p \in Two(G, this, tighter, n - 1)}

Of(G, a, n) == IF n < 1 THEN {} ELSE G[n][a]

(* Lists of n tokens, or none.                                             *)
OrNone(lists, n) == IF n = 0 THEN {Nothing} ELSE lists

Expressions(G, n) ==
  LET lists == OrNone(Of(G, "list", n - 2), n - 2)
      atom  == (IF n = 1 THEN Leaves ELSE {})
               \cup {Said(<<"left_paren">> \o e.text \o <<"right_paren">>, e.tree) :
                       e \in Of(G, "expr", n - 2)}
               \cup {Wrapped("array", Nothing, <<"left_square_bracket">>, l,
                             <<"right_square_bracket">>) : l \in lists}
      index == atom
               \cup {Wrapped("[]", One(p[1]), <<"left_square_bracket">>, One(p[2]),
                             <<"right_square_bracket">>) : p \in Two(G, "index", "expr", n - 2)}
      call  == index
               \cup {Wrapped("(...)", One(p[1]), <<"left_paren">>, p[2], <<"right_paren">>) :
                       p \in Two(G, "call", "list", n - 2)}
               \cup {Wrapped("(...)", One(f), <<"left_paren">>, Nothing, <<"right_paren">>) :
                       f \in Of(G, "call", n - 2)}
      unary == call
               \cup {Said(<<"add">> \o p.text, p.tree) : p \in Of(G, "call", n - 1)}
               \cup {Said(<<"sub">> \o p.text, Shape("(-)", <<p.tree>>)) :
                       p \in Of(G, "call", n - 1)}
               \cup {Said(p.text \o <<"increment">>, Shape("()++", <<p.tree>>)) :
                       p \in Of(G, "call", n - 1)}
      mul   == unary \cup Level(G, Products, "mul", "unary", n)
      sum   == mul \cup Level(G, Sums, "sum", "mul", n)
      rel   == sum \cup Level(G, Comparison, "rel", "sum", n)
      expr  == rel \cup Level(G, Equality, "expr", "rel", n)
      list  == {One(e) : e \in expr}
               \cup {Joined(One(e), <<"comma">>, Nothing) : e \in Of(G, "expr", n - 1)}
               \cup {Joined(One(p[1]), <<"comma">>, p[2]) : p \in Two(G, "expr", "list", n - 1)}
  IN  [index |-> index, call |-> call, unary |-> unary, mul |-> mul, sum |-> sum,
       rel |-> rel, expr |-> expr, list |-> list]

(* F(G, n) for n = 1 to N, each from those before.                         *)
Built(N, F(_, _)) ==
  FoldLeft(LAMBDA G, n : Append(G, F(G, n)), <<>>, [n \in 1..N |-> n])

ExpressionsUpTo(N) ==
  LET G == Built(N, Expressions) IN UNION {G[n].expr : n \in 1..N}

(***************************************************************************)
(* The n tokens that an expression, a list or what a call ends with can    *)
(* begin with, whatever the length of the whole: B[k] for all k < n.       *)
(***************************************************************************)
BegunOf(B, a, n) == IF n = 0 THEN {<<>>} ELSE B[n][a]

Begun(G, B, n) ==
  LET Whole(a) == {e.text : e \in G[n][a]}
      Opened(word, a) == {<<word>> \o b : b \in BegunOf(B, a, n - 1)}
      (* A whole a, the token word, and a beginning of b.                  *)
      After(a, word, b) ==
        UNION {{p[1].text \o <<word>> \o p[2] : p \in G[k][a] \X BegunOf(B, b, n - k - 1)} :
                 k \in 1..(n - 1)}
      call == Whole("call") \cup Opened("left_paren", "expr") \cup Opened("left_square_bracket", "list")
              \cup After("index", "left_square_bracket", "expr")
              \cup After("call", "left_paren", "list")
      expr == Whole("expr") \cup call \cup Opened("add", "call") \cup Opened("sub", "call")
              \cup UNION {After("expr", o, "expr") :
                            o \in UNION {DOMAIN l : l \in {Products, Sums, Comparison, Equality}}}
      list == Whole("list") \cup expr \cup After("expr", "comma", "list")
  IN  [call |-> call, expr |-> expr, list |-> list]

BegunUpTo(N) ==
  LET G == Built(N, Expressions)
      B == Built(N, LAMBDA H, n : Begun(G, H, n))
  IN  UNION {B[n].expr : n \in 1..N}

(***************************************************************************)
(* Statements, over the expression x and the simple statements given.  A   *)
(* statement counts as one more than the statements in it.  It is open if  *)
(* an else that follows belongs to it.                                     *)
(***************************************************************************)
X == Said(<<"symbol">>, Shape("ref", <<>>))

LetX == Said(<<"vardecl", "symbol", "assign", "symbol">>,
             Shape("let", <<X.tree, Shape("var", <<>>)>>))

(* A null pointer: "const" alone, or no else.                              *)
Null == Shape("null", <<>>)

Const == Said(<<"constdecl", "semicolon">>, Null)

Simples ==
  {Said(<<"symbol", "semicolon">>, X.tree),
   Said(<<"symbol", "assign", "symbol", "semicolon">>, Shape("assign", <<X.tree, X.tree>>)),
   Said(LetX.text \o <<"semicolon">>, LetX.tree),
   Const,
   Said(<<"return_stmt", "semicolon">>, Shape("ret", <<>>)),
   Said(<<"return_stmt", "symbol", "semicolon">>, Shape("ret", <<X.tree>>)),
   Said(<<"break", "semicolon">>, Shape("break", <<>>)),
   Said(<<"continue", "semicolon">>, Shape("continue", <<>>))}

Stated(text, kind, kids, open) ==
  [text |-> text, tree |-> Shape(kind, kids), open |-> open]

Under(word) == <<word, "left_paren", "symbol", "right_paren">>

UnderFor(init) ==
  <<"for", "left_paren">> \o init.text
  \o <<"semicolon", "symbol", "semicolon", "symbol", "right_paren">>

Statements(simples, G, n) ==
  LET blocks == OrNone(Of(G, "lists", n - 1), n - 1)
      below  == Of(G, "one", n - 1)
      (* what stands before and after an else                              *)
      parts  == {p \in Two(G, "one", "one", n - 1) : ~ p[1].open}
      Else(word, p, rest) ==
        Stated(Under("if_stmt") \o p[1].text \o <<word>> \o rest,
               "if", <<X.tree, p[1].tree, p[2].tree>>, p[2].open)
      one ==
        (IF n = 1 THEN {[text |-> s.text, tree |-> s.tree, open |-> FALSE] : s \in simples}
         ELSE {})
        \cup {Stated(<<"begin_block">> \o b.text \o <<"end_block">>, "compound", b.kids, FALSE) :
                b \in blocks}
        \cup {Stated(Under("while") \o s.text, "while", <<X.tree, s.tree>>, s.open) : s \in below}
        \cup {Stated(UnderFor(i) \o s.text, "for", <<i.tree, X.tree, X.tree, s.tree>>, s.open) :
                i \in {X, LetX}, s \in below}
        \cup {Stated(Under("if_stmt") \o s.text, "if", <<X.tree, s.tree, Null>>, TRUE) : s \in below}
        \cup {Else("else_stmt", p, p[2].text) : p \in parts}
        \cup {Else("else_if_stmt", p, Tail(p[2].text)) :
                p \in {q \in parts : Head(q[2].text) = "if_stmt"}}
  IN  [one   |-> one,
       lists |-> {One(s) : s \in one}
                 \cup {Joined(One(p[1]), <<>>, p[2]) : p \in Two(G, "one", "lists", n)}]

(* The lists that count as N at most.                                      *)
StatementsUpTo(N, simples) ==
  LET G == Built(N, LAMBDA H, n : Statements(simples, H, n))
  IN  {Nothing} \cup UNION {G[n].lists : n \in 1..N}

(***************************************************************************)
(* Functions and programs.                                                 *)
(***************************************************************************)
AnArgument == <<"symbol", "colon", "type_specifier">>

ArgumentsUpTo(N) ==
  LET arg == {Listed(AnArgument \o c, <<Shape("arg", <<>>)>>) : c \in {<<>>, <<"comma">>}}
      G == Built(N, LAMBDA H, n :
                 IF n = 1 THEN arg ELSE {Joined(p[1], <<>>, p[2]) : p \in arg \X H[n - 1]})
  IN  {Nothing} \cup UNION {G[n] : n \in 1..N}

ReturnTypes == {<<>>, <<"colon", "type_specifier">>}

AFunction(args, ret, body) ==
  Said(<<"function", "symbol", "left_paren">> \o args.text \o <<"right_paren">> \o ret
         \o <<"begin_block">> \o body.text \o <<"end_block">>,
       Shape("function", args.kids \o <<Shape("block", body.kids)>>))

(* What the tokenizer delivers for a text.                                 *)
Framed(text) == <<"bof">> \o text \o <<"eof">>

AProgram(functions) == Listed(Framed(functions.text), functions.kids)

(***************************************************************************)
(* Sentences of the comment only.                                          *)
(***************************************************************************)
ConstX == Said(<<"constdecl", "symbol", "assign", "symbol", "semicolon">>,
               Shape("const", <<X.tree, Shape("var", <<>>)>>))

IndexedCalls(N) ==
  {Wrapped("[]", One(c), <<"left_square_bracket">>, One(X), <<"right_square_bracket">>) :
     c \in {e \in ExpressionsUpTo(N) : /\ Head(e.text) = "symbol"
                                       /\ e.tree[<<>>].kind = "(...)"
                                       /\ e.tree[<<1>>].kind = "ref"}}

=============================================================================
