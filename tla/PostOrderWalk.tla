--------------------------- MODULE PostOrderWalk ----------------------------
(***************************************************************************)
(* Node::walkAllChildlenDFPO: the stack walk in which Root::gen runs the   *)
(* resolveType and init handlers.  A module that EXTENDS this one conjoins *)
(* the callback to CallBack.                                               *)
(***************************************************************************)
EXTENDS Ast

VARIABLES
  ast,      \* the tree under compilation
  stack,    \* s, its top at the end
  visited,  \* v, the nodes whose children have been pushed
  done      \* the nodes the callback has been called on

walkVars == <<ast, stack, visited, done>>

StartWalk ==
  /\ stack = <<Root>>
  /\ visited = {}
  /\ done = {}

(* Faulty variant of Expand: the children are pushed in their own order.   *)
ExpandForwards(n) ==
  /\ stack # <<>>
  /\ n = Last(stack)
  /\ ast[n].arity > 0 /\ n \notin visited
  /\ visited' = visited \cup {n}
  /\ stack' = stack \o Children(ast, n)
  /\ UNCHANGED <<ast, done>>

(* The top has children that were not pushed yet: the first one goes on    *)
(* top.                                                                    *)
Expand(n) ==
  /\ stack # <<>>
  /\ n = Last(stack)
  /\ ast[n].arity > 0 /\ n \notin visited
  /\ visited' = visited \cup {n}
  /\ stack' = stack \o Reverse(Children(ast, n))
  /\ UNCHANGED <<ast, done>>

(* Faulty variant of CallBack: the top stays.                              *)
CallBackNoPop(n) ==
  /\ stack # <<>>
  /\ n = Last(stack)
  /\ ast[n].arity = 0 \/ n \in visited
  /\ done' = done \cup {n}
  /\ UNCHANGED <<ast, stack, visited>>

(* Otherwise the callback is called on the top, which is then popped.      *)
CallBack(n) ==
  /\ stack # <<>>
  /\ n = Last(stack)
  /\ ast[n].arity = 0 \/ n \in visited
  /\ done' = done \cup {n}
  /\ stack' = Front(stack)
  /\ UNCHANGED <<ast, visited>>

WalkTypeOK ==
  /\ IsTree(ast)
  /\ stack \in Seq(DOMAIN ast)
  /\ visited \subseteq DOMAIN ast
  /\ done \subseteq DOMAIN ast

(***************************************************************************)
(* The callback sees every node after the whole of its subtree, subtrees   *)
(* from left to right: no node it has been called on comes after one it    *)
(* has not.                                                                *)
(***************************************************************************)
CallsInPostOrder ==
  \A p \in done : \A q \in DOMAIN ast \ done : PostBefore(p, q)

(* When the stack runs empty no node has been left out.                    *)
WalkReachesAll == stack = <<>> => done = DOMAIN ast

=============================================================================
