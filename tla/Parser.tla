------------------------------- MODULE Parser -------------------------------
(***************************************************************************)
(* The recursive descent parser (parser.cpp).  Its only state is tokitr,   *)
(* the token consumed last; a parse... function is an operator from that   *)
(* position to a result: the node and the position after it, or the        *)
(* position at which a SyntaxError was thrown.                             *)
(*                                                                         *)
(* A token is its kind.  A node made from a symbol or a literal has the    *)
(* index of its token as its name.  A null pointer is a leaf.  Types go to *)
(* the signature of a function, which is not part of the tree.             *)
(***************************************************************************)
EXTENDS Syntax, SequencesExt

CONSTANT Inputs   \* what the tokenizer delivers: bof, tokens, eof

ASSUME InputsAreFramed ==
  \A s \in Inputs : /\ Len(s) > 1 /\ s[1] = "bof" /\ Last(s) = "eof"
                    /\ \A i \in 2..(Len(s) - 1) : s[i] \notin {"bof", "eof"}

VARIABLES
  tokens,
  tokitr,      \* index of the token consumed last
  functions,   \* the trees of the functions parsed so far
  phase        \* "parse", "parsed" or "failed"

vars == <<tokens, tokitr, functions, phase>>

(***************************************************************************)
(* Results.  A ParseError is at the token consumed last.  That is the last *)
(* one that fits, though the messages of expect and parsePrimary call it   *)
(* the unexpected one.                                                     *)
(***************************************************************************)
Ok(node, i) == [ok |-> TRUE, node |-> node, at |-> i]
Error(i)    == [ok |-> FALSE, at |-> i]

(* An exception ends the calls that led to it.                             *)
Then(r, F(_, _)) == IF r.ok THEN F(r.node, r.at) ELSE r

Peek(i) == tokens[i + 1]

(* Faulty variant of Expect: the token that does not fit is consumed.      *)
ExpectAny(k, node, i) == IF Peek(i) = k THEN Ok(node, i + 1) ELSE Error(i + 1)

(* What was parsed before goes through.                                    *)
Expect(k, node, i) == IF Peek(i) = k THEN Ok(node, i + 1) ELSE Error(i)

(* What parseConstantVarDecl returns; also els of an if without else.      *)
NullStatement == Tree("null", 0, <<>>)

(* What a constructor is given.  appendChild leaves null pointers out of   *)
(* children, but stmts of a block keeps them.                              *)
Node(kind, kids) == Tree(kind, 0, kids)

(***************************************************************************)
(* Expressions.  The four levels of binary operators, the tightest first,  *)
(* with the operator each token makes.  (le makes an LtOperator.)          *)
(***************************************************************************)
Levels ==
  << [mul |-> "*", div |-> "/"],
     [add |-> "+", sub |-> "-"],
     [lt |-> "<", gt |-> ">", le |-> "<", ge |-> ">="],
     [eq |-> "==", neq |-> "!="] >>

Literals ==
  [double_literal |-> "double", integer_literal |-> "integer",
   boolean_literal |-> "boolean", string_literal |-> "string", symbol |-> "ref"]

RECURSIVE Binary(_, _), Chain(_, _, _), Unary(_), Primary(_), Indexing(_, _),
          Call(_, _), CommaList(_, _, _)

(* parseMul, parseAdd, parseRelational, parseEquality                      *)
Binary(l, i) ==
  IF l = 0 THEN Unary(i)
  ELSE Then(Binary(l - 1, i), LAMBDA left, j : Chain(l, left, j))

(* Faulty variant of Chain: the right operand takes the rest.              *)
ChainRight(l, left, i) ==
  IF Peek(i) \notin DOMAIN Levels[l] THEN Ok(left, i)
  ELSE Then(Binary(l, i + 1),
            LAMBDA right, j : Ok(Node(Levels[l][Peek(i)], <<left, right>>), j))

Chain(l, left, i) ==
  IF Peek(i) \notin DOMAIN Levels[l] THEN Ok(left, i)
  ELSE Then(Binary(l - 1, i + 1),
            LAMBDA right, j : Chain(l, Node(Levels[l][Peek(i)], <<left, right>>), j))

Expression(i) == Binary(Len(Levels), i)

Unary(i) ==
  CASE Peek(i) = "add" -> Primary(i + 1)
    [] Peek(i) = "sub" -> Then(Primary(i + 1), LAMBDA e, j : Ok(Node("(-)", <<e>>), j))
    [] OTHER ->
         Then(Primary(i),
              LAMBDA e, j :
                CASE Peek(j) = "increment" -> Ok(Node("()++", <<e>>), j + 1)
                  [] Peek(j) = "decrement" -> Ok(Node("()--", <<e>>), j + 1)
                  [] OTHER -> Ok(e, j))

(* Faulty variant of CommaList: what comes first is last.                  *)
CommaListReversed(end, list, i) ==
  IF Peek(i) = end THEN Ok(list, i)
  ELSE Then(Expression(i),
            LAMBDA e, j :
              IF Peek(j) = end THEN Ok(<<e>> \o list, j)
              ELSE Then(Expect("comma", <<e>> \o list, j),
                        LAMBDA more, k : CommaList(end, more, k)))

(* The expressions up to the token end, in front of which a comma may      *)
(* stand.                                                                  *)
CommaList(end, list, i) ==
  IF Peek(i) = end THEN Ok(list, i)
  ELSE Then(Expression(i),
            LAMBDA e, j :
              IF Peek(j) = end THEN Ok(Append(list, e), j)
              ELSE Then(Expect("comma", Append(list, e), j),
                        LAMBDA more, k : CommaList(end, more, k)))

Indexing(p, i) ==
  IF Peek(i) # "left_square_bracket" THEN Ok(p, i)
  ELSE Then(Expression(i + 1),
            LAMBDA e, j :
              Then(Expect("right_square_bracket", Node("[]", <<p, e>>), j),
                   LAMBDA n, k : Indexing(n, k)))

Call(p, i) ==
  IF Peek(i) # "left_paren" THEN Ok(p, i)
  ELSE Then(CommaList("right_paren", <<>>, i + 1),
            LAMBDA args, j :
              Then(Expect("right_paren", Node("(...)", <<p>> \o args), j),
                   LAMBDA n, k : Call(n, k)))

(* What parsePrimary begins with.                                          *)
Atom(i) ==
  CASE Peek(i) = "left_paren" ->
         Then(Expression(i + 1), LAMBDA e, j : Expect("right_paren", e, j))
    [] Peek(i) = "left_square_bracket" ->
         Then(CommaList("right_square_bracket", <<>>, i + 1),
              LAMBDA list, j : Expect("right_square_bracket", Node("array", list), j))
    [] Peek(i) \in DOMAIN Literals ->
         Ok(Tree(Literals[Peek(i)], i + 1, <<>>), i + 1)
    [] OTHER -> Error(i)

Primary(i) ==
  Then(Atom(i), LAMBDA a, j : Then(Indexing(a, j), LAMBDA p, k : Call(p, k)))

(***************************************************************************)
(* Statements.                                                             *)
(***************************************************************************)
RECURSIVE Statement(_), Statements(_, _), If(_)

(* The statements up to a closing brace, and the brace.                    *)
Statements(list, i) ==
  IF Peek(i) = "end_block" THEN Ok(list, i)
  ELSE Then(Statement(i), LAMBDA s, j : Statements(Append(list, s), j))

Braced(kind, i) ==
  Then(Statements(<<>>, i), LAMBDA list, j : Expect("end_block", Node(kind, list), j))

(* An expression in parentheses.                                           *)
Parenthesized(i) ==
  Then(Expect("left_paren", 0, i),
       LAMBDA none, j : Then(Expression(j), LAMBDA e, k : Expect("right_paren", e, k)))

VarDecl(i) ==
  Then(Expect("symbol", 0, i),
       LAMBDA none, name :
         Then(Expect("assign", 0, name),
              LAMBDA no, j :
                Then(Expression(j),
                     LAMBDA e, k : Ok(Node("let", <<e, Tree("var", name, <<>>)>>), k))))

Return(i) ==
  IF Peek(i) = "semicolon" THEN Ok(Node("ret", <<>>), i)
  ELSE Then(Expression(i), LAMBDA e, j : Ok(Node("ret", <<e>>), j))

(* Faulty variant of If: an else if is read as a statement of its own.     *)
IfElseIf(i) ==
  Then(Parenthesized(i),
       LAMBDA cond, j :
         Then(Statement(j),
              LAMBDA then, k :
                IF Peek(k) \in {"else_if_stmt", "else_stmt"}
                THEN Then(Statement(k + 1),
                          LAMBDA els, m : Ok(Node("if", <<cond, then, els>>), m))
                ELSE Ok(Node("if", <<cond, then, NullStatement>>), k)))

If(i) ==
  Then(Parenthesized(i),
       LAMBDA cond, j :
         Then(Statement(j),
              LAMBDA then, k :
                IF Peek(k) \in {"else_if_stmt", "else_stmt"}
                THEN Then(IF Peek(k) = "else_if_stmt" THEN If(k + 1) ELSE Statement(k + 1),
                          LAMBDA els, m : Ok(Node("if", <<cond, then, els>>), m))
                ELSE Ok(Node("if", <<cond, then, NullStatement>>), k)))

While(i) ==
  Then(Parenthesized(i),
       LAMBDA cond, j :
         Then(Statement(j), LAMBDA body, k : Ok(Node("while", <<cond, body>>), k)))

ForInit(i) ==
  IF Peek(i) = "vardecl" THEN VarDecl(i + 1) ELSE Expression(i)

(* e, then the token end, then F.                                          *)
Part(e, end, F(_, _)) == Then(e, LAMBDA n, i : Then(Expect(end, n, i), F))

For(i) ==
  Then(Expect("left_paren", 0, i), LAMBDA none, a :
    Part(ForInit(a), "semicolon", LAMBDA init, b :
      Part(Expression(b), "semicolon", LAMBDA cond, c :
        Part(Expression(c), "right_paren", LAMBDA next, d :
          Then(Statement(d), LAMBDA body, e :
            Ok(Node("for", <<init, cond, next, body>>), e))))))

(* An expression, or an assignment to it.                                  *)
Simple(i) ==
  Then(Expression(i),
       LAMBDA lv, j :
         IF Peek(j) # "assign" THEN Ok(lv, j)
         ELSE Then(Expression(j + 1), LAMBDA rv, k : Ok(Node("assign", <<lv, rv>>), k)))

Terminated(r) == Then(r, LAMBDA n, i : Expect("semicolon", n, i))

Statement(i) ==
  CASE Peek(i) = "vardecl"     -> Terminated(VarDecl(i + 1))
    [] Peek(i) = "constdecl"   -> Terminated(Ok(NullStatement, i + 1))
    [] Peek(i) = "return_stmt" -> Terminated(Return(i + 1))
    [] Peek(i) = "if_stmt"     -> If(i + 1)
    [] Peek(i) = "begin_block" -> Braced("compound", i + 1)
    [] Peek(i) = "for"         -> For(i + 1)
    [] Peek(i) = "while"       -> While(i + 1)
    [] Peek(i) \in {"continue", "break"} -> Terminated(Ok(Node(Peek(i), <<>>), i + 1))
    [] OTHER                   -> Terminated(Simple(i))

(***************************************************************************)
(* Functions.                                                              *)
(***************************************************************************)
RECURSIVE Arguments(_, _)

(* A comma may follow each argument, and need not.                         *)
Arguments(list, i) ==
  IF Peek(i) = "right_paren" THEN Ok(list, i)
  ELSE Then(Expect("symbol", 0, i), LAMBDA none, name :
         Then(Expect("colon", 0, name), LAMBDA no, j :
           Then(Expect("type_specifier", 0, j), LAMBDA not, k :
             Arguments(Append(list, Tree("arg", name, <<>>)),
                       IF Peek(k) = "comma" THEN k + 1 ELSE k))))

ReturnTypeOf(i) ==
  IF Peek(i) = "colon" THEN Expect("type_specifier", 0, i + 1) ELSE Ok(0, i)

Function(i) ==
  Then(Expect("function", 0, i), LAMBDA none, a :
    Then(Expect("symbol", 0, a), LAMBDA no, name :
      Part(Then(Expect("left_paren", 0, name), LAMBDA not, c : Arguments(<<>>, c)),
           "right_paren", LAMBDA args, d :
        Then(ReturnTypeOf(d), LAMBDA nil, e :
          Then(Expect("begin_block", 0, e), LAMBDA nul, f :
            Then(Braced("block", f), LAMBDA body, g :
              Ok(Tree("function", name, args \o <<body>>), g)))))))

(***************************************************************************)
(* parseProgram                                                            *)
(***************************************************************************)
AtBof == tokitr = 1 /\ functions = <<>> /\ phase = "parse"

Init == tokens \in Inputs /\ AtBof

ParseFunction ==
  /\ phase = "parse" /\ Peek(tokitr) # "eof"
  /\ LET r == Function(tokitr)
     IN  /\ tokitr' = r.at
         /\ IF r.ok
            THEN functions' = Append(functions, r.node) /\ UNCHANGED phase
            ELSE phase' = "failed" /\ UNCHANGED functions
  /\ UNCHANGED tokens

Finish ==
  /\ phase = "parse" /\ Peek(tokitr) = "eof"
  /\ phase' = "parsed"
  /\ UNCHANGED <<tokens, tokitr, functions>>

(* On to Root::gen, or to the catch in main.                               *)
Stop == phase # "parse" /\ UNCHANGED vars

Next == ParseFunction \/ Finish \/ Stop

Spec == Init /\ [][Next]_vars

-----------------------------------------------------------------------------
(***************************************************************************)
(* Properties                                                              *)
(***************************************************************************)

(***************************************************************************)
(* The parser never gets past eof: there is always a token to look at.     *)
(***************************************************************************)
TypeOK ==
  /\ tokitr \in 1..(Len(tokens) - 1)
  /\ phase \in {"parse", "parsed", "failed"}
  /\ phase = "parsed" => tokitr = Len(tokens) - 1

(***************************************************************************)
(* Every symbol and literal of a body, every argument and every function   *)
(* is one node, and they stand in the tree as they stand in the text.  (A  *)
(* declaration has its initial value before its variable.)                 *)
(***************************************************************************)
InTextOrder(f) ==
  LET spelled[p \in DOMAIN f] ==
        LET own   == IF f[p].name = 0 THEN <<>> ELSE <<f[p].name>>
            kids  == [i \in 1..f[p].arity |-> spelled[Append(p, i)]]
        IN  own \o FlattenSeq(IF f[p].kind = "let" THEN Reverse(kids) ELSE kids)
  IN  spelled[<<>>]

LeavesInTextOrder ==
  phase = "parsed" =>
    FlattenSeq([i \in DOMAIN functions |-> InTextOrder(functions[i])]) =
      SelectSeq([i \in DOMAIN tokens |-> i], LAMBDA i : tokens[i] \in DOMAIN Literals)

(***************************************************************************)
(* "le: <=" (token.hpp:13) and "relational = add (... | "<=" add ...)"     *)
(* (parser.hpp:86): a token le makes a comparison with <=.                 *)
(***************************************************************************)
LeMakesLe ==
  phase = "parsed" /\ (\E i \in DOMAIN tokens : tokens[i] = "le") =>
    \E i \in DOMAIN functions : \E p \in DOMAIN functions[i] : functions[i][p].kind = "<="

=============================================================================
