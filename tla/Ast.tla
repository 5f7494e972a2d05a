-------------------------------- MODULE Ast --------------------------------
(***************************************************************************)
(* The syntax tree the passes of the compiler work on (class Node in       *)
(* ast.hpp).  A tree is a function from the positions of its nodes to      *)
(* their labels.  The position of a node is the path of child indices that *)
(* leads to it from the root: <<>> is the root and Append(p, i) is the     *)
(* i-th element of the deque "children" of the node at p.  A label has the *)
(* fields                                                                  *)
(*    kind   the class of the node,                                        *)
(*    arity  the number of its children,                                   *)
(*    name   the identifier it declares or mentions.                       *)
(* A Node pointer of the code is a position of the model, so that two      *)
(* pointers are equal exactly when the positions are.                      *)
(***************************************************************************)
EXTENDS Naturals, SequencesExt

CONSTANTS
  Programs,     \* the trees the parser may hand to Root::gen
  Null          \* the null pointer

Root == <<>>

(* The deque "children" of the node at p, in order.                        *)
Children(t, p) == [i \in 1..t[p].arity |-> Append(p, i)]

(* Every node that walkAllChildlen... called on p reaches, except p.       *)
Below(t, p) == {q \in DOMAIN t : IsStrictPrefix(p, q)}

(* Every constructor appends nodes that were just made and have no other   *)
(* parent, which is what makes the linked nodes a tree.                    *)
IsTree(t) ==
  /\ IsFiniteSet(DOMAIN t)
  /\ DOMAIN t \subseteq Seq(Nat)
  /\ Root \in DOMAIN t
  /\ \A p \in DOMAIN t : t[p].arity \in Nat
  /\ \A p \in DOMAIN t : \A i \in 1..t[p].arity : Append(p, i) \in DOMAIN t
  /\ \A p \in DOMAIN t : \A k \in 1..Len(p) :
        /\ SubSeq(p, 1, k - 1) \in DOMAIN t
        /\ p[k] \in 1..t[SubSeq(p, 1, k - 1)].arity

ASSUME ProgramsAreTrees == \A t \in Programs : IsTree(t)
ASSUME NullIsNoNode == \A t \in Programs : Null \notin DOMAIN t

OfKind(t, K) == {p \in DOMAIN t : t[p].kind \in K}

(***************************************************************************)
(* Three orders on positions.                                              *)
(***************************************************************************)

(* p and q part ways at some common index, p to the left of q.             *)
LeftOf(p, q) ==
  \E k \in DOMAIN p \cap DOMAIN q :
    /\ SubSeq(p, 1, k - 1) = SubSeq(q, 1, k - 1)
    /\ p[k] < q[k]

(* Level by level, each level from left to right.                          *)
LevelBefore(p, q) == Len(p) < Len(q) \/ (Len(p) = Len(q) /\ LeftOf(p, q))

(* A subtree before its root, the subtrees of a node from left to right.   *)
PostBefore(p, q) == IsStrictPrefix(q, p) \/ LeftOf(p, q)

(* The order in which the nodes stand in the source text.                  *)
TextBefore(p, q) == IsStrictPrefix(p, q) \/ LeftOf(p, q)

=============================================================================
