-------------------------- MODULE BreadthFirstWalk --------------------------
(***************************************************************************)
(* Node::walkAllChildlenBF: the queue walk in which Root::gen runs the     *)
(* resolveScope and resolveSymbol handlers.  The module keeps the state of *)
(* the walk; a module that EXTENDS it conjoins the callback to VisitFront. *)
(***************************************************************************)
EXTENDS Ast

VARIABLES
  ast,      \* the tree under compilation
  queue,    \* q
  seen,     \* v
  done      \* the nodes the callback has been called on

(***************************************************************************)
(* The elements of s that are not in v, in order (the test of line 57).    *)
(* The first case is the one a tree produces; keeping it apart leaves the  *)
(* recursive SelectSeq out of the proofs.                                  *)
(***************************************************************************)
Unseen(s, v) ==
  IF Range(s) \cap v = {} THEN s ELSE SelectSeq(s, LAMBDA x : x \notin v)

StartWalk ==
  /\ queue = <<Root>>
  /\ seen = {Root}
  /\ done = {}

(* The same walk, started again with another callback.                     *)
RestartWalk ==
  /\ queue' = <<Root>>
  /\ seen' = {Root}
  /\ done' = {}

(* Faulty variants of VisitFront: the children go to the front, as on a    *)
(* stack; the pop of line 54 is forgotten.                                 *)
VisitFrontLifo(n) ==
  /\ queue # <<>>
  /\ n = Head(queue)
  /\ queue' = Unseen(Children(ast, n), seen) \o Tail(queue)
  /\ seen' = seen \cup Range(Children(ast, n))
  /\ done' = done \cup {n}

VisitFrontNoPop(n) ==
  /\ queue # <<>>
  /\ n = Head(queue)
  /\ queue' = queue \o Unseen(Children(ast, n), seen)
  /\ seen' = seen \cup Range(Children(ast, n))
  /\ done' = done \cup {n}

(* One turn of the while loop, on the node n.                              *)
VisitFront(n) ==
  /\ queue # <<>>
  /\ n = Head(queue)
  /\ queue' = Tail(queue) \o Unseen(Children(ast, n), seen)
  /\ seen' = seen \cup Range(Children(ast, n))
  /\ done' = done \cup {n}

WalkTypeOK ==
  /\ IsTree(ast)
  /\ queue \in Seq(DOMAIN ast)
  /\ seen \subseteq DOMAIN ast
  /\ done \subseteq DOMAIN ast

(***************************************************************************)
(* The callback sees the nodes level by level, and left to right within a  *)
(* level: a node it has been called on never comes after one it has not.   *)
(* What resolveScope needs (an inner scope overwrites what an outer one    *)
(* wrote) and what resolveSymbol suffers from both rest on this.           *)
(***************************************************************************)
CallsInLevelOrder ==
  \A p \in done : \A q \in DOMAIN ast \ done : LevelBefore(p, q)

(* When the queue runs empty no node has been left out.                    *)
WalkReachesAll == queue = <<>> => done = DOMAIN ast

=============================================================================
