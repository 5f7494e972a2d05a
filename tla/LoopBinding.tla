---------------------------- MODULE LoopBinding -----------------------------
(***************************************************************************)
(* The init pass of Root::gen, as far as it decides something: which loop  *)
(* a break or a continue belongs to.  The pass is a post order walk of the *)
(* tree; the init of a for or while creates the blocks of the loop and     *)
(* walks its own subtree, giving the blocks to every jump that has none.   *)
(***************************************************************************)
EXTENDS PostOrderWalk

LoopKinds == {"for", "while"}
JumpKinds == {"break", "continue"}

Loops(t) == OfKind(t, LoopKinds)
Jumps(t) == OfKind(t, JumpKinds)

(***************************************************************************)
(* The loop whose merge block a break holds in headerbb, or whose next or  *)
(* condition block a continue holds in nextbb.                             *)
(***************************************************************************)
VARIABLE target

bindingVars == <<ast, stack, visited, done, target>>

BindingInit ==
  /\ ast \in Programs
  /\ StartWalk
  /\ target = [j \in Jumps(ast) |-> Null]

(* Faulty variant of SetTarget: the last loop to come wins.                *)
SetTargetAlways(j, n) == n

(* setEscapebb and setNextbb keep what they have: the first loop to come   *)
(* wins.                                                                   *)
SetTarget(j, n) == IF target[j] = Null THEN n ELSE target[j]

(* Faulty variant: every statement gives its own blocks to the jumps.      *)
InitAny(n) ==
  /\ CallBack(n)
  /\ target' = [j \in Jumps(ast) |->
                  IF j \in Below(ast, n) THEN SetTarget(j, n) ELSE target[j]]

InitLoop(n) ==
  /\ n \in Loops(ast)
  /\ CallBack(n)
  /\ target' = [j \in Jumps(ast) |->
                  IF j \in Below(ast, n) THEN SetTarget(j, n) ELSE target[j]]

(* The init of the other nodes binds nothing.                              *)
InitOther(n) ==
  /\ n \notin Loops(ast)
  /\ CallBack(n)
  /\ UNCHANGED target

BindingNext ==
  \E n \in DOMAIN ast :
    \/ Expand(n) /\ UNCHANGED target
    \/ InitLoop(n)
    \/ InitOther(n)

BindingSpec == BindingInit /\ [][BindingNext]_bindingVars

-----------------------------------------------------------------------------
BindingTypeOK ==
  /\ WalkTypeOK
  /\ target \in [Jumps(ast) -> Loops(ast) \cup {Null}]

LoopsAround(t, j) == {l \in Loops(t) : IsStrictPrefix(l, j)}

(***************************************************************************)
(* A jump leaves or continues the innermost loop around it, and has no     *)
(* target exactly when there is no loop around it.  Each loop claims every *)
(* jump below it, so this rests on inner loops being initialised first and *)
(* on the null tests of the setters.                                       *)
(***************************************************************************)
JumpsBindInnermost ==
  stack = <<>> =>
    \A j \in Jumps(ast) :
      IF LoopsAround(ast, j) = {}
      THEN target[j] = Null
      ELSE /\ target[j] \in LoopsAround(ast, j)
           /\ \A l \in LoopsAround(ast, j) : Len(l) <= Len(target[j])

=============================================================================
