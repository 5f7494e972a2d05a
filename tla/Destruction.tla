----------------------------- MODULE Destruction ----------------------------
(***************************************************************************)
(* The end of a compilation.  Root::gen returns or throws, and in either   *)
(* case main leaves the scope of the Root, whose destructor deletes the    *)
(* tree.  It takes no recursion and no list of what it has deleted: it     *)
(* goes down through first children, deletes what has no children and then *)
(* takes the pointer to it out of the parent's deque.                      *)
(***************************************************************************)
EXTENDS CodeGen

VARIABLES
  nodeStack,  \* nodeStack, its top at the end
  unlinked,   \* how many children unlinkFirstChild has taken from each node
  deleted     \* the nodes that have been deleted

heapVars == <<nodeStack, unlinked, deleted>>
lifeVars == <<vars, heapVars>>

LifeInit ==
  /\ Init
  /\ nodeStack = <<>>
  /\ unlinked = [n \in DOMAIN ast |-> 0]
  /\ deleted = {}

Compile == GenStep /\ UNCHANGED heapVars

BeginDestruction ==
  /\ phase \in {"generated", "failed"}
  /\ nodeStack = <<>> /\ deleted = {}
  /\ nodeStack' = <<Root>>
  /\ UNCHANGED <<vars, unlinked, deleted>>

HasChildren(n) == unlinked[n] < ast[n].arity
FirstChild(n)  == Kid(n, unlinked[n] + 1)

(* The top has children: the first of them goes on top.                    *)
Descend ==
  /\ nodeStack # <<>> /\ HasChildren(Last(nodeStack))
  /\ nodeStack' = Append(nodeStack, FirstChild(Last(nodeStack)))
  /\ UNCHANGED <<vars, unlinked, deleted>>

(* Faulty variant of Delete: the pointer to the top stays in its parent.   *)
DeleteLinked ==
  /\ nodeStack # <<>> /\ ~ HasChildren(Last(nodeStack))
  /\ deleted' = deleted \cup {Last(nodeStack)}
  /\ nodeStack' = Front(nodeStack)
  /\ UNCHANGED <<vars, unlinked>>

(* Faulty variant of Delete: a node takes its children with it.            *)
DeleteAtOnce ==
  /\ nodeStack # <<>>
  /\ deleted' = deleted \cup {Last(nodeStack)}
  /\ nodeStack' = Front(nodeStack)
  /\ unlinked' = IF nodeStack' = <<>> THEN unlinked
                 ELSE [unlinked EXCEPT ![Last(nodeStack')] = @ + 1]
  /\ UNCHANGED vars

(* Faulty variant of Delete: the top stays on the stack.                   *)
DeleteNoPop ==
  /\ nodeStack # <<>> /\ ~ HasChildren(Last(nodeStack))
  /\ deleted' = deleted \cup {Last(nodeStack)}
  /\ UNCHANGED <<vars, nodeStack, unlinked>>

(* The top has none: it is deleted and taken off, and its parent, which is *)
(* the top now, loses its first child.                                     *)
Delete ==
  /\ nodeStack # <<>> /\ ~ HasChildren(Last(nodeStack))
  /\ deleted' = deleted \cup {Last(nodeStack)}
  /\ nodeStack' = Front(nodeStack)
  /\ unlinked' = IF nodeStack' = <<>> THEN unlinked
                 ELSE [unlinked EXCEPT ![Last(nodeStack')] = @ + 1]
  /\ UNCHANGED vars

(* main has returned.                                                      *)
Gone == nodeStack = <<>> /\ deleted # {} /\ UNCHANGED lifeVars

LifeStep == Compile \/ BeginDestruction \/ Descend \/ Delete

LifeNext == LifeStep \/ Gone

LifeSpec == LifeInit /\ [][LifeNext]_lifeVars

FairLifeSpec == LifeSpec /\ WF_lifeVars(LifeStep)

-----------------------------------------------------------------------------
(***************************************************************************)
(* Properties                                                              *)
(***************************************************************************)
(***************************************************************************)
(* A node is deleted after everything below it and before everything to    *)
(* the right of it: when it goes, no node is left that only it leads to.   *)
(***************************************************************************)
DeletesInPostOrder ==
  \A p \in deleted : \A q \in DOMAIN ast \ deleted : PostBefore(p, q)

(***************************************************************************)
(* No pointer dangles: what the destructor still has on its stack is       *)
(* alive, and so is exactly what the deques of live nodes still hold.      *)
(* Nothing is therefore deleted twice or looked at after its deletion.     *)
(***************************************************************************)
NoPointerDangles ==
  /\ \A k \in DOMAIN nodeStack : nodeStack[k] \notin deleted
  /\ \A n \in DOMAIN ast \ deleted : \A i \in 1..ast[n].arity :
       Kid(n, i) \in deleted <=> i <= unlinked[n]

(* When the destructor returns it has deleted the whole tree.              *)
NothingLeaks == nodeStack = <<>> /\ deleted # {} => deleted = DOMAIN ast

(* Whether code was generated or an error thrown, the tree is deleted.     *)
TreeIsDeleted == <>(deleted = DOMAIN ast)

=============================================================================
