---------------------------- MODULE CodeGen_proof ----------------------------
(***************************************************************************)
(* For every tree: the init pass binds every jump to the innermost loop    *)
(* around it.  The init pass inside code generation is that pass, and what *)
(* it decides still holds while and after code is generated.               *)
(*                                                                         *)
(* The second half is about the gen pass: a branch never leads out of the  *)
(* function, to its entry or to a block left detached, nothing that was    *)
(* generated is lost, and every jump without a loop is reported.  The      *)
(* blocks that it leaves behind have one terminator each, at the end,      *)
(* exactly if every break and continue ends a then branch.                 *)
(***************************************************************************)
EXTENDS CodeGen, PostOrderWalk_proof

(***************************************************************************)
(* The binding.  The loop a jump holds is the innermost one that the walk  *)
(* has called back on.                                                     *)
(***************************************************************************)
DoneLoops(j) == LoopsAround(ast, j) \cap done

BoundSoFar ==
  \A j \in Jumps(ast) :
    IF DoneLoops(j) = {}
    THEN target[j] = Null
    ELSE /\ target[j] \in DoneLoops(j)
         /\ \A l \in DoneLoops(j) : Len(l) <= Len(target[j])

BindingInv ==
  /\ ast \in Programs
  /\ BindingTypeOK
  /\ WalkInv
  /\ BoundSoFar

LEMMA BindingInitInv ==
  ASSUME BindingInit
  PROVE  BindingInv
  <1>1. WalkInv
    BY WalkInit DEF BindingInit
  <1>2. BindingTypeOK
    BY <1>1 DEF BindingInit, BindingTypeOK, WalkInv
  <1>3. BoundSoFar
    BY DEF BindingInit, StartWalk, BoundSoFar, DoneLoops
  <1> QED
    BY <1>1, <1>2, <1>3 DEF BindingInv, BindingInit

(* A loop calls back: the jumps below it that were bound already were      *)
(* bound to a loop inside it.                                              *)
LEMMA InitLoopInv ==
  ASSUME BindingInv, NEW n, InitLoop(n)
  PROVE  BindingInv'
  <1>1. WalkInv'
    BY WalkCallBack DEF BindingInv, InitLoop
  <1>2. ast' = ast /\ done' = done \cup {n} /\ n \in Loops(ast)
    BY DEF InitLoop, CallBack
  <1>3. n \in DOMAIN ast /\ n \notin done
    BY BelowTopIsDone DEF BindingInv, InitLoop, WalkInv, StackIsFresh
  <1>4. IsTree(ast) /\ Null \notin DOMAIN ast
    BY NullIsNoNode, ProgramsAreTrees DEF BindingInv
  <1>5. \A j \in Jumps(ast) :
          target'[j] = IF j \in Below(ast, n) THEN SetTarget(j, n) ELSE target[j]
    BY DEF InitLoop
  <1>6. BindingTypeOK'
    BY <1>1, <1>2, <1>5 DEF BindingInv, BindingTypeOK, WalkInv, InitLoop, SetTarget
  <1>7. ASSUME NEW j \in Jumps(ast)
        PROVE  IF DoneLoops(j)' = {}
               THEN target'[j] = Null
               ELSE /\ target'[j] \in DoneLoops(j)'
                    /\ \A l \in DoneLoops(j)' : Len(l) <= Len(target'[j])
    <2>1. j \in DOMAIN ast /\ \A l \in Loops(ast) : l \in DOMAIN ast
      BY DEF Jumps, Loops, OfKind
    <2>2. DoneLoops(j)' = LoopsAround(ast, j) \cap (done \cup {n})
      BY <1>2 DEF DoneLoops
    <2>3. IF DoneLoops(j) = {}
          THEN target[j] = Null
          ELSE /\ target[j] \in DoneLoops(j)
               /\ \A l \in DoneLoops(j) : Len(l) <= Len(target[j])
      BY DEF BindingInv, BoundSoFar
    <2>4. CASE j \notin Below(ast, n)
      <3>1. n \notin LoopsAround(ast, j)
        BY <2>4, <2>1 DEF LoopsAround, Below
      <3> QED
        BY <3>1, <2>2, <2>3, <2>4, <1>5 DEF DoneLoops
    <2>5. CASE j \in Below(ast, n)
      <3>1. n \in LoopsAround(ast, j)
        BY <2>5, <1>2 DEF LoopsAround, Below
      <3>2. CASE DoneLoops(j) = {}
        <4>1. target'[j] = n /\ DoneLoops(j)' = {n}
          BY <3>1, <3>2, <2>2, <2>3, <2>5, <1>5 DEF DoneLoops, SetTarget
        <4>2. Len(n) <= Len(n)
          BY <1>3, <1>4, TreePositions
        <4> QED
          BY <4>1, <4>2
      <3>3. CASE DoneLoops(j) # {}
        <4> DEFINE b == target[j]
        <4>1. /\ b \in DOMAIN ast /\ b # Null /\ b \in done
              /\ IsStrictPrefix(b, j) /\ IsStrictPrefix(n, j)
          BY <3>1, <3>3, <2>1, <2>3, <1>4 DEF DoneLoops, LoopsAround
        <4>2. target'[j] = b
          BY <4>1, <2>5, <1>5 DEF SetTarget
        <4>3. b \in Seq(Nat) /\ n \in Seq(Nat) /\ j \in Seq(Nat)
          BY <4>1, <2>1, <1>3, <1>4, TreePositions
        <4>4. ~ IsStrictPrefix(b, n)
          BY <4>1, <1>3 DEF BindingInv, WalkInv, DoneIsClosed
        <4>5. Len(n) <= Len(b)
          <5>1. SUFFICES ASSUME Len(b) < Len(n) PROVE FALSE
            BY <4>3
          <5>2. IsPrefix(b, n)
            BY <5>1, <4>1, <4>3, PrefixComparable DEF IsStrictPrefix
          <5> QED
            BY <5>1, <5>2, <4>3, <4>4 DEF IsStrictPrefix
        <4> QED
          BY <4>2, <4>5, <3>3, <2>2, <2>3 DEF DoneLoops
      <3> QED
        BY <3>2, <3>3
    <2> QED
      BY <2>4, <2>5
  <1>8. BoundSoFar'
    BY <1>2, <1>7 DEF BoundSoFar
  <1> QED
    BY <1>1, <1>2, <1>6, <1>8 DEF BindingInv

(* The other steps of the walk bind nothing.                               *)
LEMMA BindingNextInv ==
  ASSUME BindingInv, BindingNext
  PROVE  BindingInv'
  <1>1. PICK n \in DOMAIN ast :
          \/ Expand(n) /\ UNCHANGED target
          \/ InitLoop(n)
          \/ InitOther(n)
    BY DEF BindingNext
  <1>2. CASE Expand(n) /\ UNCHANGED target
    <2>1. WalkInv'
      BY <1>2, WalkExpand DEF BindingInv
    <2>2. ast' = ast /\ done' = done /\ target' = target
      BY <1>2 DEF Expand
    <2> QED
      BY <2>1, <2>2 DEF BindingInv, BindingTypeOK, WalkInv, BoundSoFar, DoneLoops
  <1>3. CASE InitLoop(n)
    BY <1>3, InitLoopInv
  <1>4. CASE InitOther(n)
    <2>1. WalkInv'
      BY <1>4, WalkCallBack DEF BindingInv, InitOther
    <2>2. ast' = ast /\ done' = done \cup {n} /\ target' = target /\ n \notin Loops(ast)
      BY <1>4 DEF InitOther, CallBack
    <2>3. \A j \in Jumps(ast) : DoneLoops(j)' = DoneLoops(j)
      BY <2>2 DEF DoneLoops, LoopsAround
    <2> QED
      BY <2>1, <2>2, <2>3 DEF BindingInv, BindingTypeOK, WalkInv, BoundSoFar
  <1> QED
    BY <1>1, <1>2, <1>3, <1>4

LEMMA BindingInvariance == BindingSpec => []BindingInv
  <1>1. BindingInit => BindingInv
    BY BindingInitInv
  <1>2. BindingInv /\ [BindingNext]_bindingVars => BindingInv'
    <2> SUFFICES ASSUME BindingInv, UNCHANGED bindingVars PROVE BindingInv'
      BY BindingNextInv
    <2>1. UNCHANGED <<ast, done, target>> /\ WalkInv'
      BY WalkStutter DEF bindingVars, walkVars, BindingInv
    <2> QED
      BY <2>1 DEF BindingInv, BindingTypeOK, WalkInv, BoundSoFar, DoneLoops
  <1> QED
    BY <1>1, <1>2, PTL DEF BindingSpec

(***************************************************************************)
(* The init pass keeps its variables well typed.                           *)
(***************************************************************************)
THEOREM BindingTypeCorrect == BindingSpec => []BindingTypeOK
  <1>1. BindingInv => BindingTypeOK
    BY DEF BindingInv
  <1> QED
    BY <1>1, BindingInvariance, PTL

(***************************************************************************)
(* When the stack is empty, the walk of walkAllChildlenDFPO has called     *)
(* back on every node of the tree.                                         *)
(***************************************************************************)
THEOREM PostOrderWalkReachesAll == BindingSpec => []WalkReachesAll
  <1>1. BindingInv => WalkReachesAll
    BY EmptyStackMeansDone DEF BindingInv
  <1> QED
    BY <1>1, BindingInvariance, PTL

(***************************************************************************)
(* walkAllChildlenDFPO calls back in post order: on a node after all that  *)
(* is below it and before all that is to the right of it.                  *)
(***************************************************************************)
THEOREM PostOrderWalkIsPostOrder == BindingSpec => []CallsInPostOrder
  <1>1. BindingInit => OrderInv
    BY OrderInit DEF BindingInit
  <1>2. BindingInv /\ OrderInv /\ [BindingNext]_bindingVars => OrderInv'
    <2> SUFFICES ASSUME BindingInv, OrderInv, [BindingNext]_bindingVars PROVE OrderInv'
      OBVIOUS
    <2>1. CASE BindingNext
      <3>1. PICK n : Expand(n) \/ CallBack(n)
        BY <2>1 DEF BindingNext, InitLoop, InitOther
      <3> QED
        BY <3>1, OrderExpand, OrderCallBack DEF BindingInv
    <2>2. CASE UNCHANGED bindingVars
      BY <2>2, OrderStutter DEF bindingVars, walkVars
    <2> QED
      BY <2>1, <2>2
  <1>3. OrderInv => CallsInPostOrder
    BY DEF OrderInv
  <1> QED
    BY <1>1, <1>2, <1>3, BindingInvariance, PTL DEF BindingSpec

LEMMA InvMeansInnermost == BindingInv => JumpsBindInnermost
  <1> SUFFICES ASSUME BindingInv, stack = <<>>, NEW j \in Jumps(ast)
               PROVE  IF LoopsAround(ast, j) = {}
                      THEN target[j] = Null
                      ELSE /\ target[j] \in LoopsAround(ast, j)
                           /\ \A l \in LoopsAround(ast, j) : Len(l) <= Len(target[j])
    BY DEF JumpsBindInnermost
  <1>1. done = DOMAIN ast
    BY EmptyStackMeansDone DEF BindingInv, WalkReachesAll
  <1>2. DoneLoops(j) = LoopsAround(ast, j)
    BY <1>1 DEF DoneLoops, LoopsAround, Loops, OfKind
  <1> QED
    BY <1>2 DEF BindingInv, BoundSoFar

(***************************************************************************)
(* break and continue belong to the innermost for or while around them,    *)
(* in every program.                                                       *)
(***************************************************************************)
THEOREM InnermostBinding == BindingSpec => []JumpsBindInnermost
  BY BindingInvariance, InvMeansInnermost, PTL

(* No step of gen goes back on the bindings.                               *)
LEMMA GenKeepsBindings ==
  ASSUME [Next]_vars, ~ BindJumps
  PROVE  UNCHANGED bindingVars
  <1>1. CASE BeginGen
    BY <1>1 DEF BeginGen, Keep, bindingVars
  <1>2. CASE GenChildren
    BY <1>2 DEF GenChildren, Keep, bindingVars
  <1>3. CASE GenFunction \/ EndFunction
    BY <1>3 DEF GenFunction, EndFunction, Keep, bindingVars
  <1>4. CASE GenBlock \/ EndBlock
    BY <1>4 DEF GenBlock, EndBlock, Keep, bindingVars
  <1>5. CASE GenExpression \/ GenRet
    BY <1>5 DEF GenExpression, GenRet, Keep, bindingVars
  <1>6. CASE GenJump \/ StrayJump
    BY <1>6 DEF GenJump, StrayJump, Keep, bindingVars
  <1>7. CASE GenThen \/ GenElse \/ EndElse \/ EndThen
    BY <1>7 DEF GenThen, GenElse, EndElse, EndThen, Keep, bindingVars
  <1>8. CASE GenForInit \/ GenForBody \/ GenForNext \/ EndFor
    BY <1>8 DEF GenForInit, GenForBody, GenForNext, EndFor, Keep, bindingVars
  <1>9. CASE GenWhileBody \/ EndWhile \/ EndGen
    BY <1>9 DEF GenWhileBody, EndWhile, EndGen, Keep, bindingVars
  <1>10. CASE Stop \/ UNCHANGED vars
    BY <1>10 DEF Stop, vars, bindingVars
  <1> QED
    BY <1>1, <1>2, <1>3, <1>4, <1>5, <1>6, <1>7, <1>8, <1>9, <1>10 DEF Next, GenStep

(***************************************************************************)
(* Root::gen, seen through the bindings alone, is the init pass and then   *)
(* nothing more.                                                           *)
(***************************************************************************)
THEOREM CodeGenImplementsBinding == Spec => BindingSpec
  <1>1. Init => BindingInit
    BY DEF Init
  <1>2. [Next]_vars => [BindingNext]_bindingVars
    BY GenKeepsBindings DEF BindJumps
  <1> QED
    BY <1>1, <1>2, PTL DEF Spec, BindingSpec

(***************************************************************************)
(* From the end of init to the end of gen, break and continue hold the     *)
(* blocks of the innermost loop around them.                               *)
(***************************************************************************)
THEOREM JumpsStayInnermost == Spec => []JumpsBindInnermost
  BY CodeGenImplementsBinding, InnermostBinding, PTL

(***************************************************************************)
(* What gen knows of the bindings at each phase.                           *)
(***************************************************************************)
PhaseInv ==
  /\ phase \in {"init", "gen", "generated", "failed"}
  /\ phase # "init" => stack = <<>>
  /\ error \in Jumps(ast) \cup {Null}
  /\ phase = "failed" => error \in Jumps(ast) /\ target[error] = Null

LEMMA PhaseInvariance == Spec => []PhaseInv
  <1>1. Init => PhaseInv
    BY DEF Init, PhaseInv
  <1>2. PhaseInv /\ [Next]_vars => PhaseInv'
    <2> SUFFICES ASSUME PhaseInv, [Next]_vars PROVE PhaseInv'
      OBVIOUS
    <2>1. CASE BindJumps
      <3>1. UNCHANGED ast
        BY <2>1 DEF BindJumps, BindingNext, Expand, InitLoop, InitOther, CallBack
      <3> QED
        BY <2>1, <3>1 DEF BindJumps, genVars, PhaseInv
    <2>2. CASE ~ BindJumps
      <3>1. UNCHANGED <<ast, stack, target>>
        BY <2>2, GenKeepsBindings DEF bindingVars
      <3>2. CASE BeginGen
        BY <3>1, <3>2 DEF BeginGen, Keep, PhaseInv
      <3>3. CASE StrayJump
        BY <3>1, <3>3 DEF StrayJump, PhaseInv
      <3>4. CASE EndGen
        BY <3>1, <3>4 DEF EndGen, Keep, PhaseInv
      <3>5. CASE UNCHANGED <<phase, error>>
        BY <3>1, <3>5 DEF PhaseInv
      <3>6. CASE GenChildren \/ GenFunction \/ EndFunction \/ GenBlock \/ EndBlock
        BY <3>5, <3>6 DEF GenChildren, GenFunction, EndFunction, GenBlock, EndBlock, Keep
      <3>7. CASE GenExpression \/ GenRet \/ GenJump
        BY <3>5, <3>7 DEF GenExpression, GenRet, GenJump, Keep
      <3>8. CASE GenThen \/ GenElse \/ EndElse \/ EndThen
        BY <3>5, <3>8 DEF GenThen, GenElse, EndElse, EndThen, Keep
      <3>9. CASE GenForInit \/ GenForBody \/ GenForNext \/ EndFor
        BY <3>5, <3>9 DEF GenForInit, GenForBody, GenForNext, EndFor, Keep
      <3>10. CASE GenWhileBody \/ EndWhile
        BY <3>5, <3>10 DEF GenWhileBody, EndWhile, Keep
      <3>11. CASE Stop \/ UNCHANGED vars
        BY <3>5, <3>11 DEF Stop, vars, genVars
      <3> QED
        BY <2>2, <3>2, <3>3, <3>4, <3>6, <3>7, <3>8, <3>9, <3>10, <3>11 DEF Next, GenStep
    <2> QED
      BY <2>1, <2>2
  <1> QED
    BY <1>1, <1>2, PTL DEF Spec

(***************************************************************************)
(* "break/continue must be inside for/while statement" is never said of a  *)
(* jump inside a loop.                                                     *)
(***************************************************************************)
THEOREM OnlyStrayJumpsFail == Spec => []ReportsAreTrue
  <1>1. BindingInv /\ PhaseInv => ReportsAreTrue
    <2> SUFFICES ASSUME BindingInv, PhaseInv, phase = "failed" PROVE ReportsAreTrue
      BY DEF ReportsAreTrue
    <2>1. error \in Jumps(ast) /\ target[error] = Null /\ stack = <<>>
      BY DEF PhaseInv
    <2>2. JumpsBindInnermost
      BY InvMeansInnermost
    <2>3. Null \notin LoopsAround(ast, error)
      BY NullIsNoNode DEF BindingInv, LoopsAround, Loops, OfKind
    <2>4. LoopsAround(ast, error) = {}
      BY <2>1, <2>2, <2>3 DEF JumpsBindInnermost
    <2> QED
      BY <2>1, <2>4 DEF ReportsAreTrue
  <1> QED
    BY <1>1, CodeGenImplementsBinding, BindingInvariance, PhaseInvariance, PTL

(***************************************************************************)
(* The gen calls in progress.  frames leads from the root down to the node *)
(* that is being generated, every frame waiting for the child it called.   *)
(***************************************************************************)
FrameType ==
  [node : DOMAIN ast, step : Nat \ {0},
   origin : Blocks(ast) \cup {Null}, thenEnd : Blocks(ast) \cup {Null}]

FramesInv ==
  /\ frames \in Seq(FrameType)
  /\ \A k \in DOMAIN frames :
       /\ Len(frames[k].node) = k - 1
       /\ frames[k].step <= Len(Turns(ast, frames[k].node)) + 1
       /\ k = 3 => ast[frames[k].node].kind = "block"
  /\ \A j, k \in DOMAIN frames : j < k => IsStrictPrefix(frames[j].node, frames[k].node)
  /\ \A k \in DOMAIN frames : k < Len(frames) => frames[k].step > 1

(* What the rest of a statement in progress relies on.                     *)
FrameHolds(t, ins, f) ==
  LET n == f.node
      k == t[n].kind
  IN  /\ k = "if" /\ f.step >= 2 =>
           <<"then", n>> \in ins /\ f.origin \in ins /\ f.origin[2][1] = n[1]
      /\ k = "if" /\ f.step = 3 =>
           <<"else", n>> \in ins /\ f.thenEnd \in ins /\ f.thenEnd[2][1] = n[1]
      /\ k = "for" /\ f.step >= 2 =>
           <<"for-header", n>> \in ins /\ <<"for-body", n>> \in ins
      /\ k = "for" /\ f.step = 4 => <<"next-for", n>> \in ins
      /\ k = "while" /\ f.step = 2 =>
           {<<"while-cond", n>>, <<"while-body", n>>, <<"while-merge", n>>} \subseteq ins

(* Blocks that a statement in progress has inserted and will fill yet ...  *)
Fills(t, f, b) ==
  LET n == f.node
      k == t[n].kind
  IN  \/ k = "if" /\ f.step = 3 /\ b = f.thenEnd
      \/ k = "for" /\ f.step = 2 /\ b \in {<<"for-header", n>>, <<"for-body", n>>}
      \/ k = "while" /\ f.step = 2 /\ b = <<"while-merge", n>>

(* ... and those that it will insert.                                      *)
Inserts(t, f, b) ==
  /\ t[f.node].kind = "for"
  /\ b = <<"merge-for", f.node>> \/ (b = <<"next-for", f.node>> /\ f.step <= 3)

(* j is below a child of the statement in progress that is still to come.  *)
Awaits(t, f, j) ==
  \E i \in DOMAIN Turns(t, f.node) :
    i >= f.step /\ IsPrefix(Kid(f.node, Turns(t, f.node)[i]), j)

CurInv ==
  /\ cur \in inserted \cup {Null}
  /\ Len(frames) >= 3 => cur \in inserted /\ cur[2][1] = Top.node[1]
  /\ Len(frames) <= 2 /\ cur \in inserted => code[cur] # <<>>

ParentsInv ==
  /\ parentbb \in [Rets(ast) -> inserted \cup {Null}]
  /\ \A r \in Rets(ast) : parentbb[r] = Null \/ parentbb[r][2][1] = r[1]

Instr ==
  {Eval(e) : e \in Seq(Nat)} \cup {Store(e) : e \in Seq(Nat)} \cup {RetInstr}
  \cup {Br(b) : b \in Blocks(ast)} \cup {CondBr(b, c) : b, c \in Blocks(ast)}

FilledAreInserted == \A b \in Blocks(ast) : code[b] # <<>> => b \in inserted

EmptyAreAwaited ==
  \A b \in inserted : code[b] = <<>> =>
    b = cur \/ \E k \in DOMAIN frames : Fills(ast, frames[k], b)

MayBranch(t, ins, fs, b, c) ==
  /\ c \in Blocks(t) /\ c[1] # "entry" /\ c[2][1] = b[2][1]
  /\ c \in ins \/ \E k \in DOMAIN fs : Inserts(t, fs[k], c)

TargetsInv ==
  \A b \in Blocks(ast) : \A c \in Targets(code[b]) : MayBranch(ast, inserted, frames, b, c)

UnboundAreAhead ==
  phase \in {"gen", "generated"} =>
    \A j \in Jumps(ast) : target[j] = Null =>
      \E k \in DOMAIN frames :
        Awaits(ast, frames[k], j) \/ (k = Len(frames) /\ frames[k].node = j)

GenInv ==
  /\ FramesInv
  /\ \A k \in DOMAIN frames : FrameHolds(ast, inserted, frames[k])
  /\ inserted \subseteq Blocks(ast)
  /\ CurInv
  /\ ParentsInv
  /\ code \in [Blocks(ast) -> Seq(Instr)]
  /\ FilledAreInserted
  /\ EmptyAreAwaited
  /\ TargetsInv
  /\ UnboundAreAhead
  /\ phase \in {"init", "generated"} => frames = <<>>

(* A prefix has the entries of the whole.                                  *)
LEMMA PrefixEntry ==
  ASSUME NEW p \in Seq(Nat), NEW q \in Seq(Nat), IsPrefix(p, q)
  PROVE  Len(p) <= Len(q) /\ \A k \in 1..Len(p) : p[k] = q[k]
  BY DEF IsPrefix

(***************************************************************************)
(* Facts about trees.                                                      *)
(***************************************************************************)
LEMMA TurnsAreChildren ==
  ASSUME ast \in Programs, NEW n \in DOMAIN ast
  PROVE  /\ Turns(ast, n) \in Seq(1..ast[n].arity)
         /\ ast[n].kind \in {"program", "compound", "block"} =>
              /\ Len(Turns(ast, n)) = ast[n].arity
              /\ \A i \in 1..ast[n].arity : Turns(ast, n)[i] = i
         /\ ast[n].kind = "function" => Turns(ast, n) = <<ast[n].arity>>
         /\ ast[n].kind = "if" /\ ast[n].arity = 2 => Len(Turns(ast, n)) = 1 /\ Turns(ast, n)[1] = 2
         /\ ast[n].kind = "if" /\ ast[n].arity = 3 =>
              Len(Turns(ast, n)) = 2 /\ Turns(ast, n)[1] = 2 /\ Turns(ast, n)[2] = 3
         /\ ast[n].kind = "for" => Turns(ast, n) = <<1, 4, 3>>
         /\ ast[n].kind = "while" => Turns(ast, n) = <<2>>
         /\ ast[n].kind \in ExpressionKinds \cup JumpKinds \cup {"ret"} => Turns(ast, n) = <<>>
  <1> DEFINE a == ast[n].arity
             k == ast[n].kind
  <1>1. a \in Nat
    BY ProgramsAreTrees, TreePositions
  <1>2. CASE k \in {"program", "compound", "block"}
    <2>1. Turns(ast, n) = [i \in 1..a |-> i]
      BY <1>2 DEF Turns
    <2>2. Turns(ast, n) \in Seq(1..a) /\ Len(Turns(ast, n)) = a
      BY <1>1, <2>1, FunctionIsSeq
    <2> QED
      BY <1>2, <2>1, <2>2 DEF ExpressionKinds, JumpKinds
  <1>3. CASE k = "function"
    <2>1. Turns(ast, n) = <<a>> /\ a >= 1
      BY <1>3, StatementsAreWhole DEF Turns, Functions, OfKind
    <2> QED
      BY <1>1, <1>3, <2>1 DEF ExpressionKinds, JumpKinds
  <1>4. CASE k = "if"
    <2>1. Turns(ast, n) = [i \in 1..(a - 1) |-> i + 1] /\ a \in {2, 3}
      BY <1>4, StatementsAreWhole DEF Turns, OfKind
    <2>2. Turns(ast, n) \in [1..(a - 1) -> 1..a] /\ a - 1 \in Nat
      BY <2>1
    <2>3. Turns(ast, n) \in Seq(1..a) /\ Len(Turns(ast, n)) = a - 1
      BY <2>2, FunctionIsSeq
    <2> QED
      BY <1>4, <2>1, <2>3 DEF ExpressionKinds, JumpKinds
  <1>5. CASE k = "for"
    <2>1. Turns(ast, n) = <<1, 4, 3>> /\ a = 4
      BY <1>5, StatementsAreWhole DEF Turns, OfKind
    <2>2. <<1, 4, 3>> \in Seq(1..4)
      OBVIOUS
    <2> QED
      BY <1>5, <2>1, <2>2 DEF ExpressionKinds, JumpKinds
  <1>7. CASE k = "while"
    <2>1. Turns(ast, n) = <<2>> /\ a = 2
      BY <1>7, StatementsAreWhole DEF Turns, OfKind
    <2>2. <<2>> \in Seq(1..2)
      OBVIOUS
    <2> QED
      BY <1>7, <2>1, <2>2 DEF ExpressionKinds, JumpKinds
  <1>6. CASE k \notin {"program", "compound", "block", "function", "if", "for", "while"}
    <2>1. Turns(ast, n) = <<>>
      BY <1>6 DEF Turns
    <2> QED
      BY <1>6, <2>1
  <1> QED
    BY <1>2, <1>3, <1>4, <1>5, <1>6, <1>7

(* A jump below a node is below a child that the node generates.           *)
LEMMA JumpBelowTurn ==
  ASSUME ast \in Programs, NEW n \in DOMAIN ast, NEW j \in Jumps(ast), IsStrictPrefix(n, j)
  PROVE  \E i \in DOMAIN Turns(ast, n) : IsPrefix(Kid(n, Turns(ast, n)[i]), j)
  <1>1. IsTree(ast) /\ j \in DOMAIN ast
    BY ProgramsAreTrees DEF Jumps, OfKind
  <1>2. n \in Seq(Nat) /\ j \in Seq(Nat)
    BY <1>1, TreePositions
  <1>3. PICK i \in DOMAIN Turns(ast, n) : Turns(ast, n)[i] = j[Len(n) + 1]
    BY JumpsAreStatements DEF Range
  <1>4. PICK c \in 1..ast[n].arity : Append(n, c) \in DOMAIN ast /\ IsPrefix(Append(n, c), j)
    BY <1>1, TreeStep
  <1>5. Append(n, c)[Len(n) + 1] = c /\ c \in Nat
    BY <1>1, <1>2, ChildParts, TreePositions
  <1>6. Append(n, c)[Len(n) + 1] = j[Len(n) + 1]
    <2>1. /\ Append(n, c) \in Seq(Nat) /\ Len(Append(n, c)) = Len(n) + 1
          /\ Len(n) + 1 \in 1..Len(Append(n, c))
      BY <1>2, <1>5, ChildBelow
    <2> QED
      BY <1>2, <1>4, <2>1, PrefixEntry
  <1> QED
    BY <1>3, <1>4, <1>5, <1>6 DEF Kid

(***************************************************************************)
(* What a step may do to the frames: the top frame, from now on f, calls   *)
(* gen on the next child, or it returns.                                   *)
(***************************************************************************)
NextKid == Kid(Top.node, Turns(ast, Top.node)[Top.step])

Calls(f) ==
  /\ frames # <<>> /\ Top.step \in DOMAIN Turns(ast, Top.node)
  /\ f \in FrameType /\ f.node = Top.node /\ f.step = Top.step + 1
  /\ frames' = Front(frames) \o <<f, Frame(NextKid)>>

Returns ==
  /\ frames # <<>> /\ Top.step = Len(Turns(ast, Top.node)) + 1
  /\ frames' = Front(frames)

LEMMA TopFrame ==
  ASSUME FramesInv, frames # <<>>
  PROVE  /\ Len(frames) \in Nat \ {0} /\ Top = frames[Len(frames)]
         /\ Top \in FrameType /\ Top.node \in DOMAIN ast
         /\ Len(Top.node) = Len(frames) - 1
         /\ Top.step \in 1..(Len(Turns(ast, Top.node)) + 1)
         /\ DOMAIN frames = 1..Len(frames)
  <1>1. /\ frames \in Seq(FrameType) /\ Len(frames) \in Nat \ {0}
        /\ Top = frames[Len(frames)] /\ DOMAIN frames = 1..Len(frames)
    BY DEF FramesInv, Top, Last
  <1>2. Len(frames) \in DOMAIN frames
    BY <1>1
  <1>3. Top \in FrameType
    BY <1>1, <1>2
  <1>4. Len(Top.node) = Len(frames) - 1 /\ Top.step <= Len(Turns(ast, Top.node)) + 1
    BY <1>1, <1>2 DEF FramesInv
  <1>5. Top.node \in DOMAIN ast /\ Top.step \in Nat \ {0}
    BY <1>3 DEF FrameType
  <1>6. Top.step \in 1..(Len(Turns(ast, Top.node)) + 1)
    BY <1>4, <1>5
  <1> QED
    BY <1>1, <1>3, <1>4, <1>5, <1>6

LEMMA NextKidIsNode ==
  ASSUME ast \in Programs, FramesInv, frames # <<>>, Top.step \in DOMAIN Turns(ast, Top.node)
  PROVE  /\ NextKid \in DOMAIN ast
         /\ IsStrictPrefix(Top.node, NextKid) /\ Len(NextKid) = Len(frames)
         /\ Top.node # Root => NextKid[1] = Top.node[1]
  <1>1. Top.node \in DOMAIN ast /\ Len(Top.node) = Len(frames) - 1 /\ Len(frames) \in Nat
    BY TopFrame
  <1>2. Turns(ast, Top.node)[Top.step] \in 1..ast[Top.node].arity
    <2>1. Turns(ast, Top.node) \in Seq(1..ast[Top.node].arity)
      BY <1>1, TurnsAreChildren
    <2>2. Top.step \in 1..Len(Turns(ast, Top.node))
      BY <2>1
    <2> QED
      BY <2>1, <2>2, ElementOfSeq
  <1>3. IsTree(ast) /\ Top.node \in Seq(Nat) /\ ast[Top.node].arity \in Nat
    BY <1>1, ProgramsAreTrees, TreePositions
  <1>4. NextKid \in DOMAIN ast
    BY <1>1, <1>2, <1>3 DEF IsTree, NextKid, Kid
  <1>5. IsStrictPrefix(Top.node, NextKid) /\ Len(NextKid) = Len(Top.node) + 1
    BY <1>2, <1>3, ChildBelow DEF NextKid, Kid
  <1>6. Top.node # Root => NextKid[1] = Top.node[1]
    BY <1>2, <1>3 DEF NextKid, Kid, Root
  <1> QED
    BY <1>1, <1>4, <1>5, <1>6

LEMMA CallShape ==
  ASSUME ast \in Programs, FramesInv, NEW f, Calls(f)
  PROVE  /\ frames' \in Seq(FrameType) /\ Len(frames') = Len(frames) + 1
         /\ Len(frames) \in Nat \ {0}
         /\ \A k \in 1..(Len(frames) - 1) : frames'[k] = frames[k]
         /\ frames'[Len(frames)] = f
         /\ frames'[Len(frames) + 1] = Frame(NextKid)
  <1>1. Len(frames) \in Nat \ {0} /\ frames \in Seq(FrameType)
    BY TopFrame DEF Calls, FramesInv
  <1>2. /\ Front(frames) \in Seq(FrameType) /\ Len(Front(frames)) = Len(frames) - 1
        /\ \A k \in 1..(Len(frames) - 1) : Front(frames)[k] = frames[k]
    BY <1>1, FrontOfSeq
  <1>3. Frame(NextKid) \in FrameType
    BY NextKidIsNode DEF Calls, Frame, FrameType
  <1> DEFINE z == <<f, Frame(NextKid)>>
  <1>4. z \in Seq(FrameType) /\ Len(z) = 2 /\ z[1] = f /\ z[2] = Frame(NextKid)
    BY <1>3 DEF Calls
  <1> HIDE DEF z
  <1>5. frames' = Front(frames) \o z
    BY DEF Calls, z
  <1>6. /\ frames' \in Seq(FrameType) /\ Len(frames') = Len(frames) - 1 + 2
        /\ \A k \in 1..(Len(frames) - 1 + 2) :
             frames'[k] = IF k <= Len(frames) - 1 THEN Front(frames)[k]
                          ELSE z[k - (Len(frames) - 1)]
    <2>1. /\ Front(frames) \o z \in Seq(FrameType)
          /\ Len(Front(frames) \o z) = Len(Front(frames)) + Len(z)
          /\ \A k \in 1..(Len(Front(frames)) + Len(z)) :
               (Front(frames) \o z)[k] = IF k <= Len(Front(frames)) THEN Front(frames)[k]
                                          ELSE z[k - Len(Front(frames))]
      BY <1>2, <1>4, ConcatProperties
    <2> QED
      BY <1>2, <1>4, <1>5, <2>1
  <1>7. \A k \in 1..(Len(frames) - 1) : frames'[k] = frames[k]
    BY <1>1, <1>2, <1>6
  <1>8. frames'[Len(frames)] = z[Len(frames) - (Len(frames) - 1)]
    BY <1>1, <1>6
  <1>9. frames'[Len(frames) + 1] = z[Len(frames) + 1 - (Len(frames) - 1)]
    BY <1>1, <1>6
  <1>10. Len(frames) - (Len(frames) - 1) = 1 /\ Len(frames) + 1 - (Len(frames) - 1) = 2
         /\ Len(frames) - 1 + 2 = Len(frames) + 1
    BY <1>1
  <1> QED
    BY <1>1, <1>4, <1>6, <1>7, <1>8, <1>9, <1>10

LEMMA ReturnShape ==
  ASSUME FramesInv, Returns
  PROVE  /\ frames' \in Seq(FrameType) /\ Len(frames') = Len(frames) - 1
         /\ Len(frames) \in Nat \ {0}
         /\ \A k \in 1..(Len(frames) - 1) : frames'[k] = frames[k]
  BY TopFrame, FrontOfSeq DEF Returns, FramesInv

LEMMA FramesCall ==
  ASSUME ast \in Programs, FramesInv, NEW f, Calls(f), ast' = ast
  PROVE  FramesInv'
  <1> DEFINE K == Len(frames)
             c == NextKid
  <1>1. /\ frames' \in Seq(FrameType) /\ Len(frames') = K + 1 /\ K \in Nat \ {0}
        /\ \A k \in 1..(K - 1) : frames'[k] = frames[k]
        /\ frames'[K] = f /\ frames'[K + 1] = Frame(c)
    BY CallShape
  <1>2. f.node = frames[K].node /\ f.step = frames[K].step + 1
        /\ f.step <= Len(Turns(ast, f.node)) + 1 /\ f.step > 1
        /\ Len(f.node) = K - 1
    <2>1. /\ Top = frames[K] /\ Top.step \in 1..(Len(Turns(ast, Top.node)) + 1)
          /\ Len(Top.node) = K - 1
      BY TopFrame DEF Calls
    <2>2. Top.node \in DOMAIN ast
      BY TopFrame DEF Calls
    <2>3. Len(Turns(ast, Top.node)) \in Nat /\ Top.step \in 1..Len(Turns(ast, Top.node))
      <3>1. Turns(ast, Top.node) \in Seq(1..ast[Top.node].arity)
        BY <2>2, TurnsAreChildren
      <3> QED
        BY <3>1 DEF Calls
    <2> QED
      BY <2>1, <2>3 DEF Calls
  <1>3. c \in DOMAIN ast /\ IsStrictPrefix(Top.node, c) /\ Len(c) = K
    BY NextKidIsNode DEF Calls
  <1>4. /\ frames'[K + 1].node = c /\ frames'[K + 1].step = 1
    BY <1>1 DEF Frame
  <1>5. Turns(ast, c) \in Seq(1..ast[c].arity)
    BY <1>3, TurnsAreChildren
  <1>6. \A n : Turns(ast, n)' = Turns(ast, n)
    OBVIOUS
  <1>7. FrameType' = FrameType
    BY DEF FrameType, Blocks
  <1>8. DOMAIN frames' = 1..(K + 1) /\ DOMAIN frames = 1..K
    BY <1>1 DEF FramesInv
  <1>9. ASSUME NEW k \in 1..(K + 1)
        PROVE  /\ Len(frames'[k].node) = k - 1
               /\ frames'[k].step <= Len(Turns(ast, frames'[k].node)) + 1
               /\ k = 3 => ast[frames'[k].node].kind = "block"
    <2>1. CASE k \in 1..K
      <3>1. /\ Len(frames[k].node) = k - 1
            /\ frames[k].step <= Len(Turns(ast, frames[k].node)) + 1
            /\ k = 3 => ast[frames[k].node].kind = "block"
        BY <1>8, <2>1 DEF FramesInv
      <3>2. k \in 1..(K - 1) \/ k = K
        BY <1>1, <2>1
      <3> QED
        BY <1>1, <1>2, <3>1, <3>2
    <2>3. CASE k = K + 1
      <3>1. Len(Turns(ast, c)) \in Nat
        BY <1>5
      <3>2. 1 <= Len(Turns(ast, c)) + 1 /\ K = K + 1 - 1
        BY <1>1, <3>1
      <3>3. CASE K = 2
        <4>1. Top.node \in DOMAIN ast /\ Len(Top.node) = 1
          BY <3>3, TopFrame DEF Calls
        <4>2. Top.node \in Functions(ast)
          BY <4>1, FunctionsMakeTheProgram DEF Functions, OfKind
        <4>3. Turns(ast, Top.node) = <<ast[Top.node].arity>>
          BY <4>1, <4>2, TurnsAreChildren DEF Functions, OfKind
        <4>4. c = Append(Top.node, ast[Top.node].arity)
          BY <4>3 DEF NextKid, Kid, Calls
        <4>5. ast[c].kind = "block"
          BY <1>3, <4>2, <4>4, FunctionsMakeTheProgram
        <4> QED
          BY <1>3, <1>4, <2>3, <3>2, <4>5
      <3>4. CASE K # 2
        BY <1>1, <1>3, <1>4, <2>3, <3>2, <3>4
      <3> QED
        BY <3>3, <3>4
    <2> QED
      BY <1>1, <2>1, <2>3
  <1>10. ASSUME NEW i \in 1..(K + 1), NEW k \in 1..(K + 1), i < k
         PROVE  IsStrictPrefix(frames'[i].node, frames'[k].node)
    <2>1. \A m \in 1..K : frames'[m].node = frames[m].node
      BY <1>1, <1>2
    <2>2. CASE k \in 1..K
      <3>1. i \in 1..K
        BY <1>1, <2>2, <1>10
      <3> QED
        BY <2>1, <2>2, <3>1, <1>8, <1>10 DEF FramesInv
    <2>3. CASE k = K + 1
      <3>1. i \in 1..K
        BY <1>1, <2>3, <1>10
      <3>2. Top = frames[K] /\ IsTree(ast)
        BY TopFrame, ProgramsAreTrees DEF Calls
      <3>3. i = K \/ IsStrictPrefix(frames[i].node, frames[K].node)
        <4>1. i \in DOMAIN frames /\ K \in DOMAIN frames
          BY <1>1, <1>8, <3>1
        <4>2. i = K \/ i < K
          BY <1>1, <3>1
        <4> QED
          BY <4>1, <4>2 DEF FramesInv
      <3>4. frames[i].node \in Seq(Nat) /\ frames[K].node \in Seq(Nat) /\ c \in Seq(Nat)
        <4>1. frames[i] \in FrameType /\ frames[K] \in FrameType
          BY <1>1, <3>1 DEF FramesInv
        <4> QED
          BY <4>1, <1>3, <3>2, TreePositions DEF FrameType
      <3>5. IsStrictPrefix(frames[i].node, c)
        BY <1>3, <3>2, <3>3, <3>4, StrictPrefixTransitive DEF IsStrictPrefix
      <3> QED
        BY <1>4, <2>1, <2>3, <3>1, <3>5
    <2> QED
      BY <1>1, <2>2, <2>3
  <1>11. ASSUME NEW k \in 1..(K + 1), k < K + 1
         PROVE  frames'[k].step > 1
    <2>1. CASE k \in 1..(K - 1)
      BY <1>1, <1>8, <2>1 DEF FramesInv
    <2>2. CASE k = K
      BY <1>1, <1>2, <2>2
    <2> QED
      BY <1>1, <1>11, <2>1, <2>2
  <1> HIDE DEF c
  <1> QED
    BY <1>1, <1>6, <1>7, <1>8, <1>9, <1>10, <1>11 DEF FramesInv

LEMMA FramesReturn ==
  ASSUME FramesInv, Returns, ast' = ast
  PROVE  FramesInv'
  <1> DEFINE K == Len(frames)
  <1>1. /\ frames' \in Seq(FrameType) /\ Len(frames') = K - 1 /\ K \in Nat \ {0}
        /\ \A k \in 1..(K - 1) : frames'[k] = frames[k]
    BY ReturnShape
  <1>2. \A n : Turns(ast, n)' = Turns(ast, n)
    OBVIOUS
  <1>3. FrameType' = FrameType
    BY DEF FrameType, Blocks
  <1>4. DOMAIN frames' = 1..(K - 1) /\ DOMAIN frames = 1..K
    BY <1>1 DEF FramesInv
  <1>5. \A k \in 1..(K - 1) : k \in 1..K /\ k < K
    BY <1>1
  <1>6. ASSUME NEW k \in 1..(K - 1)
        PROVE  /\ Len(frames'[k].node) = k - 1
               /\ frames'[k].step <= Len(Turns(ast, frames'[k].node)) + 1
               /\ frames'[k].step > 1
               /\ k = 3 => ast[frames'[k].node].kind = "block"
    BY <1>1, <1>4, <1>5 DEF FramesInv
  <1>7. ASSUME NEW i \in 1..(K - 1), NEW k \in 1..(K - 1), i < k
        PROVE  IsStrictPrefix(frames'[i].node, frames'[k].node)
    BY <1>1, <1>4, <1>5, <1>7 DEF FramesInv
  <1> QED
    BY <1>1, <1>2, <1>3, <1>4, <1>6, <1>7 DEF FramesInv

(***************************************************************************)
(* Writing to blocks.                                                      *)
(***************************************************************************)
To(i) == IF i.op = "br" THEN {i.to} ELSE IF i.op = "condbr" THEN {i.then, i.else} ELSE {}

Codes == [Blocks(ast) -> Seq(Instr)]

(* From c to d something was added to the block b, with targets in T.      *)
Grows(c, d, b, T) ==
  /\ d \in Codes
  /\ \A x \in Blocks(ast) \ {b} : d[x] = c[x]
  /\ d[b] # <<>>
  /\ Targets(d[b]) \subseteq Targets(c[b]) \cup T

LEMMA TargetsOf ==
  ASSUME NEW is \in Seq(Instr), NEW x
  PROVE  x \in Targets(is) <=> \E k \in 1..Len(is) : x \in To(is[k])
  BY DEF Targets, To, Range

LEMMA TargetsAdd ==
  ASSUME NEW is \in Seq(Instr), NEW i \in Instr
  PROVE  Append(is, i) \in Seq(Instr) /\ Append(is, i) # <<>>
         /\ Targets(Append(is, i)) \subseteq Targets(is) \cup To(i)
  <1>1. /\ Append(is, i) \in Seq(Instr) /\ Append(is, i) # <<>>
        /\ Len(Append(is, i)) = Len(is) + 1 /\ Append(is, i)[Len(is) + 1] = i
        /\ \A k \in 1..Len(is) : Append(is, i)[k] = is[k]
    BY AppendProperties
  <1>2. ASSUME NEW x \in Targets(Append(is, i))
        PROVE  x \in Targets(is) \cup To(i)
    <2>1. PICK k \in 1..Len(Append(is, i)) : x \in To(Append(is, i)[k])
      BY <1>1, <1>2, TargetsOf
    <2>2. CASE k = Len(is) + 1
      BY <1>1, <2>1, <2>2
    <2>3. CASE k \in 1..Len(is)
      BY <1>1, <2>1, <2>3, TargetsOf
    <2>4. Len(is) \in Nat
      OBVIOUS
    <2> QED
      BY <1>1, <2>1, <2>2, <2>3, <2>4
  <1> QED
    BY <1>1, <1>2

LEMMA TargetsFront ==
  ASSUME NEW is \in Seq(Instr), is # <<>>
  PROVE  Front(is) \in Seq(Instr) /\ Targets(Front(is)) \subseteq Targets(is)
  <1>1. /\ Front(is) \in Seq(Instr) /\ Len(Front(is)) = Len(is) - 1
        /\ \A i \in 1..(Len(is) - 1) : Front(is)[i] = is[i]
    BY FrontOfSeq
  <1>2. ASSUME NEW x \in Targets(Front(is))
        PROVE  x \in Targets(is)
    <2>1. PICK k \in 1..Len(Front(is)) : x \in To(Front(is)[k])
      BY <1>1, <1>2, TargetsOf
    <2>2. k \in 1..Len(is) /\ Front(is)[k] = is[k]
      BY <1>1, <2>1
    <2> QED
      BY <2>1, <2>2, TargetsOf
  <1> QED
    BY <1>1, <1>2

(* The ways to write to a block.                                           *)
LEMMA Appends ==
  ASSUME NEW c \in Codes, NEW b \in Blocks(ast), NEW i \in Instr,
         NEW d, d = Emit(c, b, i)
  PROVE  Grows(c, d, b, To(i))
  <1>1. c[b] \in Seq(Instr) /\ d[b] = Append(c[b], i)
    BY DEF Codes, Emit
  <1>2. d[b] \in Seq(Instr) /\ d[b] # <<>> /\ Targets(d[b]) \subseteq Targets(c[b]) \cup To(i)
    BY <1>1, TargetsAdd
  <1>3. d \in Codes /\ \A x \in Blocks(ast) \ {b} : d[x] = c[x]
    BY <1>1, <1>2 DEF Codes, Emit
  <1> QED
    BY <1>2, <1>3 DEF Grows

LEMMA Closes ==
  ASSUME NEW c \in Codes, NEW b \in Blocks(ast), NEW m \in Blocks(ast),
         NEW d, d = [c EXCEPT ![b] = Close(@, m)]
  PROVE  Grows(c, d, b, {m})
  <1>1. c[b] \in Seq(Instr) /\ d[b] = Close(c[b], m)
    BY DEF Codes
  <1>2. Br(m) \in Instr /\ To(Br(m)) = {m}
    BY DEF Instr, To, Br
  <1>3. d[b] \in Seq(Instr) /\ d[b] # <<>> /\ Targets(d[b]) \subseteq Targets(c[b]) \cup {m}
    BY <1>1, <1>2, TargetsAdd DEF Close, Terminated
  <1>4. d \in Codes /\ \A x \in Blocks(ast) \ {b} : d[x] = c[x]
    BY <1>1, <1>3 DEF Codes
  <1> QED
    BY <1>3, <1>4 DEF Grows

(* A chain of two or three writes.                                         *)
CodeStep ==
  /\ code' \in Codes
  /\ \A b \in Blocks(ast) : code[b] # <<>> => code'[b] # <<>>
  /\ \A b \in Blocks(ast) : code'[b] # code[b] => b \in inserted'
  /\ \A b \in Blocks(ast) : \A x \in Targets(code'[b]) :
       x \in Targets(code[b]) \/ MayBranch(ast', inserted', frames', b, x)

(* Where the frames are.                                                   *)
LEMMA InnerFrame ==
  ASSUME ast \in Programs, FramesInv, frames # <<>>
  PROVE  /\ Top.node \in Seq(Nat)
         /\ ast[Top.node].kind = "program" <=> Len(Top.node) = 0
         /\ ast[Top.node].kind = "function" <=> Len(Top.node) = 1
         /\ ast[Top.node].kind = "block" <=> Len(Top.node) = 2
  <1>1. /\ Top.node \in DOMAIN ast /\ Len(Top.node) = Len(frames) - 1
        /\ Len(frames) \in Nat \ {0} /\ Top = frames[Len(frames)]
        /\ DOMAIN frames = 1..Len(frames)
    BY TopFrame
  <1>2. Top.node \in Seq(Nat)
    BY <1>1, ProgramsAreTrees, TreePositions
  <1>3. ast[Top.node].kind = "program" <=> Len(Top.node) = 0
    <2>1. Top.node = <<>> <=> Len(Top.node) = 0
      BY <1>2
    <2> QED
      BY <1>1, <2>1, FunctionsMakeTheProgram DEF Root
  <1>4. ast[Top.node].kind = "function" <=> Len(Top.node) = 1
    BY <1>1, FunctionsMakeTheProgram
  <1>5. Len(Top.node) = 2 => ast[Top.node].kind = "block"
    <2> SUFFICES ASSUME Len(Top.node) = 2 PROVE ast[Top.node].kind = "block"
      OBVIOUS
    <2>0. Len(frames) - 1 = 2 /\ Len(frames) \in Nat
      BY <1>1
    <2>1. Len(frames) = 3
      BY <2>0
    <2>2. 3 \in DOMAIN frames
      BY <1>1, <2>1
    <2> QED
      BY <1>1, <2>1, <2>2 DEF FramesInv
  <1>6. ast[Top.node].kind = "block" => Len(Top.node) = 2
    <2> SUFFICES ASSUME ast[Top.node].kind = "block" PROVE Len(Top.node) = 2
      OBVIOUS
    <2>1. PICK f \in Functions(ast) : Top.node = Append(f, ast[f].arity)
      BY <1>1, FunctionsMakeTheProgram
    <2>2. f \in DOMAIN ast /\ Len(f) = 1
      BY <2>1, FunctionsMakeTheProgram DEF Functions, OfKind
    <2>3. f \in Seq(Nat) /\ ast[f].arity \in Nat
      BY <2>2, ProgramsAreTrees, TreePositions
    <2>4. Len(Append(f, ast[f].arity)) = Len(f) + 1
      BY <2>3, ChildBelow
    <2> QED
      BY <2>1, <2>2, <2>4
  <1> QED
    BY <1>2, <1>3, <1>4, <1>5, <1>6

(* What is written goes to blocks that are inserted.                       *)
LEMMA CodeKept ==
  ASSUME GenInv, CodeStep, ast' = ast, inserted \subseteq inserted',
         \A b, x : MayBranch(ast, inserted, frames, b, x)
                     => MayBranch(ast', inserted', frames', b, x)
  PROVE  /\ code' \in [Blocks(ast)' -> Seq(Instr)']
         /\ FilledAreInserted' /\ TargetsInv'
  <1>1. code' \in [Blocks(ast)' -> Seq(Instr)']
    BY DEF CodeStep, Codes, Instr, Blocks
  <1>2. FilledAreInserted'
    BY DEF CodeStep, FilledAreInserted, GenInv, Blocks
  <1>3. TargetsInv'
    <2> SUFFICES ASSUME NEW b \in Blocks(ast), NEW x \in Targets(code[b])'
                 PROVE  MayBranch(ast', inserted', frames', b, x)
      BY DEF TargetsInv, Blocks
    <2>1. x \in Targets(code[b]) \/ MayBranch(ast', inserted', frames', b, x)
      BY DEF CodeStep, Targets
    <2> QED
      BY <2>1 DEF GenInv, TargetsInv
  <1> QED
    BY <1>1, <1>2, <1>3

(* What every step of gen leaves alone, and what it makes sure of for the  *)
(* blocks it goes on to.                                                   *)
StepKeeps ==
  /\ UNCHANGED <<ast, target>>
  /\ phase = "gen" /\ phase' = "gen"
  /\ inserted \subseteq inserted' /\ inserted' \subseteq Blocks(ast)
  /\ cur' \in inserted' \cup {Null}
  /\ ParentsInv'
  /\ CodeStep

(* The block left, those that the top frame was to fill and those that are *)
(* new: empty ones are the next current block or the top frame's to fill.  *)
Handled(b) == b \notin inserted \/ b = cur \/ Fills(ast, Top, b)

LEMMA HoldsStays ==
  ASSUME StepKeeps, NEW f, FrameHolds(ast, inserted, f)
  PROVE  FrameHolds(ast, inserted, f)'
  BY DEF StepKeeps, FrameHolds

(* The top frame, from now on f, is ready for the call.                    *)
CallReady(f) ==
  /\ Calls(f)
  /\ FrameHolds(ast', inserted', f)
  /\ IF Top.node = Root THEN cur' = cur
     ELSE cur' \in inserted' /\ cur'[2][1] = Top.node[1]
  /\ \A x : Inserts(ast, Top, x) => x \in inserted' \/ Inserts(ast', f, x)
  /\ \A b \in inserted' :
       code'[b] = <<>> /\ Handled(b) => b = cur' \/ Fills(ast', f, b)

LEMMA CallInv ==
  ASSUME ast \in Programs, GenInv, StepKeeps, NEW f, CallReady(f)
  PROVE  GenInv'
  <1> DEFINE K == Len(frames)
  <1>1. /\ frames' \in Seq(FrameType) /\ Len(frames') = K + 1 /\ K \in Nat \ {0}
        /\ \A k \in 1..(K - 1) : frames'[k] = frames[k]
        /\ frames'[K] = f /\ frames'[K + 1] = Frame(NextKid)
    BY CallShape DEF GenInv, CallReady
  <1>2. FramesInv'
    BY FramesCall DEF GenInv, StepKeeps, CallReady
  <1>3. /\ Top = frames[K] /\ Len(Top.node) = K - 1 /\ Top.node \in DOMAIN ast
        /\ DOMAIN frames = 1..K
    BY TopFrame DEF GenInv, Calls, CallReady
  <1>4. DOMAIN frames' = 1..(K + 1)
    BY <1>1
  <1>5. ast' = ast /\ Blocks(ast)' = Blocks(ast) /\ Rets(ast)' = Rets(ast)
    BY DEF StepKeeps, Blocks, Rets
  <1>6. \A k \in DOMAIN frames' : FrameHolds(ast', inserted', frames'[k])
    <2>1. ASSUME NEW k \in 1..(K - 1) PROVE FrameHolds(ast', inserted', frames'[k])
      <3>1. PICK g : g = frames[k]
        OBVIOUS
      <3>2. FrameHolds(ast, inserted, g)
        <4>0. K \in Nat /\ k \in Nat /\ 1 <= k /\ k <= K - 1
          BY <1>1
        <4>1. k \in 1..K
          BY <4>0
        <4> QED
          BY <1>3, <3>1, <4>1 DEF GenInv
      <3>3. FrameHolds(ast, inserted, g)'
        BY <3>2, HoldsStays
      <3> QED
        BY <1>1, <3>1, <3>3
    <2>2. FrameHolds(ast', inserted', frames'[K])
      BY <1>1 DEF CallReady
    <2>3. PICK g : g = Frame(NextKid)
      OBVIOUS
    <2>4. FrameHolds(ast, inserted, g)'
      BY <2>3 DEF FrameHolds, Frame
    <2>5. FrameHolds(ast', inserted', frames'[K + 1])
      BY <1>1, <2>3, <2>4
    <2> QED
      BY <1>1, <1>4, <2>1, <2>2, <2>5
  <1>7. CurInv'
    <2>1. Top' = Frame(NextKid)
      BY <1>1 DEF Top, Last
    <2>2. Top'.node = NextKid
      BY <2>1 DEF Frame
    <2>3. Top.node # Root => NextKid[1] = Top.node[1]
      BY NextKidIsNode DEF CallReady, Calls, GenInv
    <2>4. Top.node = Root <=> K = 1
      <3>1. Top.node \in Seq(Nat)
        BY <1>3, ProgramsAreTrees, TreePositions
      <3>2. Top.node = <<>> <=> Len(Top.node) = 0
        BY <3>1
      <3> QED
        <4>1. Len(Top.node) = K - 1 /\ K \in Nat
          BY <1>1, <1>3
        <4>2. Len(Top.node) = 0 <=> K = 1
          BY <4>1
        <4> QED
          BY <3>2, <4>2 DEF Root
    <2>5. CASE K = 1
      <3>1. cur' = cur /\ Len(frames') = 2
        BY <1>1, <2>4, <2>5 DEF CallReady
      <3>2. cur \in inserted => code[cur] # <<>>
        BY <2>5 DEF GenInv, CurInv
      <3>3. cur \in Blocks(ast) /\ code[cur] # <<>> => code'[cur] # <<>>
        BY DEF StepKeeps, CodeStep
      <3>4. cur \in inserted' => cur \in inserted
        BY <3>1, NullIsNoBlock DEF GenInv, CurInv, StepKeeps
      <3> QED
        BY <3>1, <3>2, <3>3, <3>4 DEF CurInv, StepKeeps
    <2>6. CASE K >= 2
      <3>1. Len(frames') >= 3 /\ ~ (Len(frames') <= 2)
        BY <1>1, <2>6
      <3>2. Top.node # Root
        BY <2>4, <2>6
      <3>3. cur' \in inserted' /\ cur'[2][1] = Top.node[1]
        BY <3>2 DEF CallReady
      <3> QED
        BY <2>2, <2>3, <3>1, <3>2, <3>3 DEF CurInv
    <2>7. K = 1 \/ K >= 2
      <3>1. K \in Nat /\ K >= 1
        BY <1>1
      <3>2. PICK k \in Nat : k = K
        BY <3>1
      <3>3. k = 1 \/ k >= 2
        BY <3>1, <3>2
      <3> QED
        BY <3>2, <3>3
    <2> QED
      BY <2>5, <2>6, <2>7
  <1>8. ASSUME NEW b, NEW x, MayBranch(ast, inserted, frames, b, x)
        PROVE  MayBranch(ast', inserted', frames', b, x)
    <2>1. x \in Blocks(ast) /\ x[1] # "entry" /\ x[2][1] = b[2][1]
          /\ (x \in inserted \/ \E k \in 1..K : Inserts(ast, frames[k], x))
      BY <1>3, <1>8 DEF MayBranch
    <2>2. CASE x \in inserted
      BY <1>5, <2>1, <2>2 DEF MayBranch, StepKeeps
    <2>3. ASSUME NEW k \in 1..K, Inserts(ast, frames[k], x)
          PROVE  x \in inserted' \/ \E i \in 1..(K + 1) : Inserts(ast', frames'[i], x)
      <3>1. CASE k = K
        <4>1. x \in inserted' \/ Inserts(ast, f, x)'
          BY <1>3, <2>3, <3>1 DEF CallReady
        <4> QED
          BY <1>1, <4>1
      <3>2. CASE k \in 1..(K - 1)
        <4>1. frames'[k] = frames[k] /\ k \in 1..(K + 1)
          BY <1>1, <3>2
        <4>2. Inserts(ast', frames'[k], x)
          BY <1>5, <2>3, <4>1 DEF Inserts
        <4> QED
          BY <4>1, <4>2
      <3> QED
        BY <1>1, <2>3, <3>1, <3>2
    <2> QED
      BY <1>4, <1>5, <2>1, <2>2, <2>3 DEF MayBranch
  <1>9. code' \in [Blocks(ast)' -> Seq(Instr)'] /\ FilledAreInserted' /\ TargetsInv'
    BY <1>5, <1>8, CodeKept DEF StepKeeps
  <1>10. EmptyAreAwaited'
    <2> SUFFICES ASSUME NEW b \in inserted', code'[b] = <<>>
                 PROVE  b = cur' \/ \E k \in 1..(K + 1) : Fills(ast', frames'[k], b)
      BY <1>4 DEF EmptyAreAwaited
    <2>1. CASE Handled(b)
      <3>1. b = cur' \/ Fills(ast', f, b)
        BY <2>1 DEF CallReady
      <3> QED
        BY <1>1, <3>1
    <2>2. CASE ~ Handled(b)
      <3>1. b \in inserted /\ b # cur /\ ~ Fills(ast, Top, b)
        BY <2>2 DEF Handled
      <3>2. code[b] = <<>>
        BY <3>1 DEF GenInv, StepKeeps, CodeStep
      <3>3. PICK k \in 1..K : Fills(ast, frames[k], b)
        BY <1>3, <3>1, <3>2 DEF GenInv, EmptyAreAwaited
      <3>4. k # K
        BY <1>3, <3>1, <3>3
      <3>5. k \in 1..(K - 1) /\ k \in 1..(K + 1)
        BY <1>1, <3>4
      <3>6. Fills(ast', frames'[k], b)
        BY <1>1, <1>5, <3>3, <3>5 DEF Fills
      <3> QED
        BY <3>5, <3>6
    <2> QED
      BY <2>1, <2>2
  <1>11. UnboundAreAhead'
    <2> SUFFICES ASSUME NEW j \in Jumps(ast), target[j] = Null
                 PROVE  \E k \in 1..(K + 1) :
                          Awaits(ast', frames'[k], j) \/ (k = K + 1 /\ frames'[k].node = j)
      BY <1>1, <1>4, <1>5 DEF UnboundAreAhead, StepKeeps, Jumps
    <2>0. \A n : Turns(ast, n)' = Turns(ast, n)
      BY <1>5
    <2>1. PICK k \in 1..K : Awaits(ast, frames[k], j) \/ (k = K /\ frames[k].node = j)
      BY <1>3 DEF GenInv, UnboundAreAhead, StepKeeps
    <2>2. CASE k \in 1..(K - 1)
      <3>1. Awaits(ast, frames[k], j) /\ frames'[k] = frames[k] /\ k \in 1..(K + 1)
        BY <1>1, <2>1, <2>2
      <3>2. Awaits(ast', frames'[k], j)
        BY <2>0, <3>1 DEF Awaits
      <3> QED
        BY <3>1, <3>2
    <2>3. CASE k = K
      <3>1. ast[Top.node].kind \notin JumpKinds
        <4>1. Turns(ast, Top.node) # <<>>
          BY DEF CallReady, Calls
        <4> QED
          BY <1>3, <4>1, TurnsAreChildren
      <3>2. PICK i \in DOMAIN Turns(ast, Top.node) :
              i >= Top.step /\ IsPrefix(Kid(Top.node, Turns(ast, Top.node)[i]), j)
        BY <1>3, <2>1, <2>3, <3>1 DEF Awaits, Jumps, OfKind
      <3>3. CASE i > Top.step
        <4>1. f.node = Top.node /\ i >= f.step
          <5>1. i \in Nat /\ Top.step \in Nat
            <6>1. Turns(ast, Top.node) \in Seq(1..ast[Top.node].arity)
              BY <1>3, TurnsAreChildren
            <6> QED
              BY <3>2, <6>1 DEF CallReady, Calls
          <5> QED
            BY <3>3, <5>1 DEF CallReady, Calls
        <4>2. Awaits(ast, f, j)'
          BY <2>0, <3>2, <4>1 DEF Awaits
        <4> QED
          BY <1>1, <4>2
      <3>4. CASE i = Top.step
        <4>1. IsPrefix(NextKid, j) /\ NextKid \in DOMAIN ast
          BY <3>2, <3>4, NextKidIsNode DEF NextKid, CallReady, Calls, GenInv
        <4>2. CASE NextKid = j
          <5>1. frames'[K + 1].node = j
            BY <1>1, <4>2 DEF Frame
          <5> QED
            BY <1>1, <5>1
        <4>3. CASE NextKid # j
          <5>1. IsStrictPrefix(NextKid, j)
            BY <4>1, <4>3 DEF IsStrictPrefix
          <5>2. PICK m \in DOMAIN Turns(ast, NextKid) :
                  IsPrefix(Kid(NextKid, Turns(ast, NextKid)[m]), j)
            BY <4>1, <5>1, JumpBelowTurn
          <5>3. m >= 1
            <6>1. Turns(ast, NextKid) \in Seq(1..ast[NextKid].arity)
              BY <4>1, TurnsAreChildren
            <6> QED
              BY <5>2, <6>1
          <5>4. frames'[K + 1].node = NextKid /\ frames'[K + 1].step = 1
            BY <1>1 DEF Frame
          <5>5. Awaits(ast', frames'[K + 1], j)
            BY <2>0, <5>2, <5>3, <5>4 DEF Awaits
          <5> QED
            BY <1>1, <5>5
        <4> QED
          BY <4>2, <4>3
      <3>5. i = Top.step \/ i > Top.step
        <4>1. Turns(ast, Top.node) \in Seq(1..ast[Top.node].arity)
          BY <1>3, TurnsAreChildren
        <4> QED
          BY <3>2, <4>1 DEF CallReady, Calls
      <3> QED
        BY <3>3, <3>4, <3>5
    <2> QED
      BY <1>1, <2>1, <2>2, <2>3
  <1>12. phase' \notin {"init", "generated"} /\ inserted' \subseteq Blocks(ast)' /\ ParentsInv'
    BY <1>5 DEF StepKeeps
  <1> QED
    BY <1>2, <1>6, <1>7, <1>9, <1>10, <1>11, <1>12 DEF GenInv

(* The top frame is ready to return.                                       *)
ReturnReady ==
  /\ Returns
  /\ IF Len(Top.node) >= 3 THEN cur' \in inserted' /\ cur'[2][1] = Top.node[1]
     ELSE cur' \in inserted' => code'[cur'] # <<>>
  /\ \A x : Inserts(ast, Top, x) => x \in inserted'
  /\ \A b \in inserted' : code'[b] = <<>> /\ Handled(b) => b = cur'
  /\ Top.node \in Jumps(ast) => target[Top.node] # Null

LEMMA ReturnInv ==
  ASSUME ast \in Programs, GenInv, StepKeeps, ReturnReady
  PROVE  GenInv'
  <1> DEFINE K == Len(frames)
  <1>1. /\ frames' \in Seq(FrameType) /\ Len(frames') = K - 1 /\ K \in Nat \ {0}
        /\ \A k \in 1..(K - 1) : frames'[k] = frames[k]
    BY ReturnShape DEF GenInv, ReturnReady
  <1>2. FramesInv'
    BY FramesReturn DEF GenInv, StepKeeps, ReturnReady
  <1>3. /\ Top = frames[K] /\ Len(Top.node) = K - 1 /\ Top.node \in DOMAIN ast
        /\ DOMAIN frames = 1..K /\ Top.step \in 1..(Len(Turns(ast, Top.node)) + 1)
    BY TopFrame DEF GenInv, Returns, ReturnReady
  <1>4. DOMAIN frames' = 1..(K - 1)
    BY <1>1
  <1>5. ast' = ast /\ Blocks(ast)' = Blocks(ast) /\ Rets(ast)' = Rets(ast)
    BY DEF StepKeeps
  <1>0. ASSUME NEW k \in 1..(K - 1)
        PROVE  k \in 1..K /\ k # K /\ k \in Nat
    BY <1>1
  <1>6. \A k \in DOMAIN frames' : FrameHolds(ast', inserted', frames'[k])
    <2> SUFFICES ASSUME NEW k \in 1..(K - 1) PROVE FrameHolds(ast', inserted', frames'[k])
      BY <1>4
    <2>1. PICK g : g = frames[k]
      OBVIOUS
    <2>2. FrameHolds(ast, inserted, g)
      BY <1>0, <1>3, <2>1 DEF GenInv
    <2>3. FrameHolds(ast, inserted, g)'
      BY <2>2, HoldsStays
    <2> QED
      BY <1>1, <2>1, <2>3
  <1>7. CurInv'
    <2>1. K \in Nat /\ K >= 1
      BY <1>1
    <2>2. CASE K >= 4
      <3>1. Len(Top.node) >= 3 /\ ~ (Len(frames') <= 2)
        BY <1>1, <1>3, <2>2
      <3>2. cur' \in inserted' /\ cur'[2][1] = Top.node[1]
        BY <3>1 DEF ReturnReady
      <3>3. K - 1 \in 1..(K - 1) /\ Top' = frames'[K - 1]
        BY <1>1, <2>1, <2>2 DEF Top, Last
      <3>4. Top' = frames[K - 1] /\ K - 1 \in DOMAIN frames /\ K \in DOMAIN frames
        BY <1>1, <1>3, <2>1, <3>3
      <3>5. IsStrictPrefix(frames[K - 1].node, Top.node) /\ Len(frames[K - 1].node) = K - 1 - 1
        <4>1. K - 1 < K
          BY <2>1
        <4> QED
          BY <1>3, <3>4, <4>1 DEF GenInv, FramesInv
      <3>6. frames[K - 1].node \in Seq(Nat) /\ Top.node \in Seq(Nat)
        <4>1. frames[K - 1] \in FrameType
          BY <3>4 DEF GenInv, FramesInv
        <4> QED
          BY <4>1, <1>3, ProgramsAreTrees, TreePositions DEF FrameType
      <3>7. 1 \in 1..Len(frames[K - 1].node)
        BY <2>1, <2>2, <3>5
      <3>8. frames[K - 1].node[1] = Top.node[1]
        BY <3>5, <3>6, <3>7, PrefixEntry DEF IsStrictPrefix
      <3> QED
        BY <3>1, <3>2, <3>4, <3>8, <2>2 DEF CurInv
    <2>3. CASE K <= 3
      <3>1. ~ (Len(Top.node) >= 3) /\ ~ (Len(frames') >= 3)
        BY <1>1, <1>3, <2>1, <2>3
      <3>2. cur' \in inserted' => code'[cur'] # <<>>
        BY <3>1 DEF ReturnReady
      <3> QED
        BY <3>1, <3>2 DEF CurInv, StepKeeps
    <2> QED
      BY <2>1, <2>2, <2>3
  <1>8. ASSUME NEW b, NEW x, MayBranch(ast, inserted, frames, b, x)
        PROVE  MayBranch(ast', inserted', frames', b, x)
    <2>1. x \in Blocks(ast) /\ x[1] # "entry" /\ x[2][1] = b[2][1]
          /\ (x \in inserted \/ \E k \in 1..K : Inserts(ast, frames[k], x))
      BY <1>3, <1>8 DEF MayBranch
    <2>2. CASE x \in inserted
      BY <1>5, <2>1, <2>2 DEF MayBranch, StepKeeps
    <2>3. ASSUME NEW k \in 1..K, Inserts(ast, frames[k], x)
          PROVE  x \in inserted' \/ \E i \in 1..(K - 1) : Inserts(ast', frames'[i], x)
      <3>1. CASE k = K
        BY <1>3, <2>3, <3>1 DEF ReturnReady
      <3>2. CASE k \in 1..(K - 1)
        BY <1>1, <1>5, <2>3, <3>2
      <3> QED
        BY <1>1, <2>3, <3>1, <3>2
    <2> QED
      BY <1>4, <1>5, <2>1, <2>2, <2>3 DEF MayBranch
  <1>9. code' \in [Blocks(ast)' -> Seq(Instr)'] /\ FilledAreInserted' /\ TargetsInv'
    BY <1>5, <1>8, CodeKept DEF StepKeeps
  <1>10. EmptyAreAwaited'
    <2> SUFFICES ASSUME NEW b \in inserted', code'[b] = <<>>
                 PROVE  b = cur' \/ \E k \in 1..(K - 1) : Fills(ast', frames'[k], b)
      BY <1>4 DEF EmptyAreAwaited
    <2>1. CASE Handled(b)
      BY <2>1 DEF ReturnReady
    <2>2. CASE ~ Handled(b)
      <3>1. b \in inserted /\ b # cur /\ ~ Fills(ast, Top, b)
        BY <2>2 DEF Handled
      <3>2. code[b] = <<>>
        BY <3>1 DEF GenInv, StepKeeps, CodeStep
      <3>3. PICK k \in 1..K : Fills(ast, frames[k], b)
        BY <1>3, <3>1, <3>2 DEF GenInv, EmptyAreAwaited
      <3>4. k # K
        BY <1>3, <3>1, <3>3
      <3>5. k \in 1..(K - 1)
        BY <1>1, <3>4
      <3> QED
        BY <1>1, <1>5, <3>3, <3>5
    <2> QED
      BY <2>1, <2>2
  <1>11. UnboundAreAhead'
    <2> SUFFICES ASSUME NEW j \in Jumps(ast), target[j] = Null
                 PROVE  \E k \in 1..(K - 1) : Awaits(ast', frames'[k], j)
      BY <1>1, <1>4, <1>5 DEF UnboundAreAhead, StepKeeps, Jumps
    <2>1. PICK k \in 1..K : Awaits(ast, frames[k], j) \/ (k = K /\ frames[k].node = j)
      BY <1>3 DEF GenInv, UnboundAreAhead, StepKeeps
    <2>2. CASE k \in 1..(K - 1)
      BY <1>0, <1>1, <1>5, <2>1, <2>2
    <2>3. CASE k = K
      <3>1. Top.node # j
        BY DEF ReturnReady
      <3>2. PICK i \in DOMAIN Turns(ast, Top.node) : i >= Top.step
        BY <1>3, <2>1, <2>3, <3>1 DEF Awaits
      <3>3. Turns(ast, Top.node) \in Seq(1..ast[Top.node].arity)
        BY <1>3, TurnsAreChildren
      <3>4. i <= Len(Turns(ast, Top.node)) /\ Top.step = Len(Turns(ast, Top.node)) + 1
            /\ i \in Nat /\ Len(Turns(ast, Top.node)) \in Nat
        BY <3>2, <3>3 DEF ReturnReady, Returns
      <3> QED
        BY <3>2, <3>4
    <2> QED
      BY <1>1, <2>1, <2>2, <2>3
  <1>12. phase' \notin {"init", "generated"} /\ inserted' \subseteq Blocks(ast)' /\ ParentsInv'
    BY <1>5 DEF StepKeeps
  <1> QED
    BY <1>2, <1>6, <1>7, <1>9, <1>10, <1>11, <1>12 DEF GenInv

(***************************************************************************)
(* The parts of a step.                                                    *)
(***************************************************************************)

(* The blocks of a node.                                                   *)
LEMMA RolesOf ==
  ASSUME NEW n \in DOMAIN ast
  PROVE  /\ ast[n].kind = "function" => <<"entry", n>> \in Blocks(ast)
         /\ ast[n].kind = "block" => <<"return", n>> \in Blocks(ast)
         /\ ast[n].kind = "if" => /\ <<"then", n>> \in Blocks(ast)
                                  /\ <<"else", n>> \in Blocks(ast)
                                  /\ <<"merge-if", n>> \in Blocks(ast)
         /\ ast[n].kind = "for" => /\ <<"for-header", n>> \in Blocks(ast)
                                   /\ <<"for-body", n>> \in Blocks(ast)
                                   /\ <<"next-for", n>> \in Blocks(ast)
                                   /\ <<"merge-for", n>> \in Blocks(ast)
         /\ ast[n].kind = "while" => /\ <<"while-cond", n>> \in Blocks(ast)
                                     /\ <<"while-body", n>> \in Blocks(ast)
                                     /\ <<"while-merge", n>> \in Blocks(ast)
  <1>1. ASSUME NEW k \in {"function", "block", "if", "for", "while"}, ast[n].kind = k,
               NEW r \in Roles[k]
        PROVE  <<r, n>> \in Blocks(ast)
    <2>1. n \in OfKind(ast, DOMAIN Roles)
      BY <1>1 DEF OfKind, Roles
    <2>2. <<r, n>> \in Roles[ast[n].kind] \X {n}
      BY <1>1
    <2> QED
      BY <2>1, <2>2 DEF Blocks
  <1>2. /\ "entry" \in Roles["function"] /\ "return" \in Roles["block"]
        /\ {"then", "else", "merge-if"} \subseteq Roles["if"]
        /\ {"for-header", "for-body", "next-for", "merge-for"} \subseteq Roles["for"]
        /\ {"while-cond", "while-body", "while-merge"} \subseteq Roles["while"]
    BY DEF Roles
  <1> QED
    BY <1>1, <1>2

(* Where a statement is generated there is a block to write to.            *)
LEMMA InnerTop ==
  ASSUME ast \in Programs, GenInv, frames # <<>>,
         ast[Top.node].kind \notin {"program", "function"}
  PROVE  /\ cur \in inserted /\ cur \in Blocks(ast) /\ cur[2][1] = Top.node[1]
         /\ Top.node # Root
         /\ ast[Top.node].kind # "block" => Len(Top.node) >= 3
  <1>1. /\ Top.node \in Seq(Nat) /\ Len(Top.node) # 0 /\ Len(Top.node) # 1
        /\ ast[Top.node].kind # "block" => Len(Top.node) # 2
    BY InnerFrame DEF GenInv
  <1>2. /\ Len(frames) \in Nat \ {0} /\ frames # <<>> /\ Len(Top.node) = Len(frames) - 1
    BY TopFrame DEF GenInv
  <1>3. PICK k \in Nat : k = Len(Top.node)
    BY <1>1
  <1>4. PICK m \in Nat : m = Len(frames)
    BY <1>2
  <1>6. k = m - 1 /\ k # 0 /\ k # 1 /\ (ast[Top.node].kind # "block" => k # 2)
    BY <1>1, <1>2, <1>3, <1>4
  <1>7. k >= 2 /\ m >= 3 /\ (ast[Top.node].kind # "block" => k >= 3)
    BY <1>6
  <1>5. Top.node # Root
    BY <1>1 DEF Root
  <1> QED
    BY <1>3, <1>4, <1>5, <1>7 DEF GenInv, CurInv

LEMMA CallGenCalls ==
  ASSUME ast \in Programs, GenInv, frames # <<>>,
         Top.step \in DOMAIN Turns(ast, Top.node),
         NEW g \in FrameType, g.node = Top.node, g.step = Top.step, CallGen(g, NextKid)
  PROVE  \E f : /\ Calls(f)
                /\ f.node = Top.node /\ f.step = Top.step + 1
                /\ f.origin = g.origin /\ f.thenEnd = g.thenEnd
  <1> DEFINE f == [g EXCEPT !.step = @ + 1]
  <1>1. /\ f \in FrameType /\ f.node = Top.node /\ f.step = Top.step + 1
        /\ f.origin = g.origin /\ f.thenEnd = g.thenEnd
    BY DEF FrameType
  <1>2. frames' = Front(frames) \o <<f, Frame(NextKid)>>
    BY DEF CallGen
  <1> HIDE DEF f
  <1>3. Calls(f)
    BY <1>1, <1>2 DEF Calls
  <1> QED
    BY <1>1, <1>3

(* The code, write by write.                                               *)
Built(d) ==
  /\ d \in Codes
  /\ \A b \in Blocks(ast) : code[b] # <<>> => d[b] # <<>>
  /\ \A b \in Blocks(ast) : d[b] # code[b] => b \in inserted'
  /\ \A b \in Blocks(ast) : \A x \in Targets(d[b]) :
       x \in Targets(code[b]) \/ MayBranch(ast', inserted', frames', b, x)

LEMMA BuildNothing ==
  ASSUME GenInv
  PROVE  Built(code)
  BY DEF GenInv, Built, Codes

LEMMA BuildMore ==
  ASSUME NEW c, Built(c), NEW d, NEW b \in Blocks(ast), NEW T, Grows(c, d, b, T),
         b \in inserted', \A x \in T : MayBranch(ast', inserted', frames', b, x)
  PROVE  /\ Built(d) /\ d \in Codes
         /\ d[b] # <<>> /\ \A x \in Blocks(ast) : c[x] # <<>> => d[x] # <<>>
  <1>1. /\ d \in Codes /\ d[b] # <<>>
        /\ \A x \in Blocks(ast) \ {b} : d[x] = c[x]
        /\ Targets(d[b]) \subseteq Targets(c[b]) \cup T
    BY DEF Grows
  <1>2. \A x \in Blocks(ast) : c[x] # <<>> => d[x] # <<>>
    BY <1>1
  <1>3. ASSUME NEW y \in Blocks(ast), NEW x \in Targets(d[y])
        PROVE  x \in Targets(code[y]) \/ MayBranch(ast', inserted', frames', y, x)
    <2>1. CASE y = b
      BY <1>1, <1>3, <2>1 DEF Built
    <2>2. CASE y # b
      BY <1>1, <1>3, <2>2 DEF Built
    <2> QED
      BY <2>1, <2>2
  <1> QED
    BY <1>1, <1>2, <1>3 DEF Built

(* The last write of a step, and the only one, to the current block.       *)
LEMMA WriteLast ==
  ASSUME NEW c, Built(c), NEW b \in Blocks(ast), NEW T, Grows(c, code', b, T),
         b \in inserted', \A x \in T : MayBranch(ast', inserted', frames', b, x)
  PROVE  /\ Built(code') /\ code'[b] # <<>>
         /\ \A x \in Blocks(ast) : c[x] # <<>> => code'[x] # <<>>
  <1>1. PICK d : d = code'
    OBVIOUS
  <1> QED
    BY <1>1, BuildMore
LEMMA WriteCur ==
  ASSUME GenInv, cur \in Blocks(ast), NEW T, Grows(code, code', cur, T),
         cur \in inserted', \A x \in T : MayBranch(ast', inserted', frames', cur, x)
  PROVE  Built(code') /\ code'[cur] # <<>>
  <1>1. PICK b : b = cur
    OBVIOUS
  <1>2. PICK c : c = code
    OBVIOUS
  <1> QED
    BY <1>1, <1>2, BuildNothing, WriteLast
LEMMA BuiltIsStep ==
  ASSUME Built(code')
  PROVE  CodeStep
  BY DEF Built, CodeStep

LEMMA BranchInserted ==
  ASSUME UNCHANGED ast, inserted' \subseteq Blocks(ast),
         NEW b, NEW x \in inserted', x[1] # "entry", x[2][1] = b[2][1]
  PROVE  MayBranch(ast', inserted', frames', b, x)
  BY DEF MayBranch

LEMMA ParentsStay ==
  ASSUME GenInv, UNCHANGED <<ast, parentbb>>, inserted \subseteq inserted'
  PROVE  ParentsInv'
  BY DEF GenInv, ParentsInv

(* Nodes that are gone through without a word.                             *)
LEMMA QuietStep ==
  ASSUME ast \in Programs, GenInv, phase = "gen",
         UNCHANGED <<ast, target, phase, cur, code, inserted, parentbb>>
  PROVE  StepKeeps /\ \A b \in inserted' : Handled(b) => b = cur' \/ Fills(ast, Top, b)
  <1>1. ParentsInv'
    BY ParentsStay
  <1>2. CodeStep
    BY BuildNothing, BuiltIsStep
  <1> QED
    BY <1>1, <1>2 DEF StepKeeps, GenInv, CurInv, Handled

(***************************************************************************)
(* The actions, one by one.                                                *)
(***************************************************************************)
LEMMA GenExpressionInv ==
  ASSUME ast \in Programs, GenInv, GenExpression
  PROVE  GenInv'
  <1> DEFINE n == Top.node
  <1>1. /\ phase = "gen" /\ frames # <<>> /\ ast[n].kind \in ExpressionKinds
        /\ code' = Emit(code, cur, Eval(n))
        /\ frames' = Front(frames)
        /\ UNCHANGED <<ast, target, phase, cur, inserted, parentbb>>
    BY DEF GenExpression, Return, Keep
  <1>2. n \in DOMAIN ast /\ n \in Seq(Nat) /\ Top.step \in 1..(Len(Turns(ast, n)) + 1)
    BY <1>1, TopFrame, ProgramsAreTrees, TreePositions DEF GenInv
  <1>3. cur \in inserted /\ cur \in Blocks(ast) /\ cur[2][1] = n[1]
    BY <1>1, InnerTop DEF ExpressionKinds
  <1>4. Returns
    BY <1>1, <1>2, TurnsAreChildren DEF Returns
  <1>5. Grows(code, code', cur, {})
    <2>1. Eval(n) \in Instr /\ To(Eval(n)) = {}
      BY <1>2 DEF Instr, To, Eval
    <2> QED
      BY <1>1, <1>3, <2>1, Appends DEF GenInv, Codes
  <1>6. Built(code') /\ code'[cur] # <<>>
    <2>1. cur \in inserted'
      BY <1>1, <1>3
    <2> QED
      BY <1>3, <1>5, <2>1, WriteCur
  <1>7. StepKeeps
    BY <1>1, <1>3, <1>6, ParentsStay, BuiltIsStep DEF StepKeeps, GenInv
  <1>8. ReturnReady
    BY <1>1, <1>3, <1>4, <1>6
    DEF ReturnReady, Handled, Fills, Inserts, ExpressionKinds, Jumps, JumpKinds, OfKind
  <1> QED
    BY <1>7, <1>8, ReturnInv

LEMMA GenRetInv ==
  ASSUME ast \in Programs, GenInv, GenRet
  PROVE  GenInv'
  <1> DEFINE n == Top.node
  <1>1. /\ phase = "gen" /\ frames # <<>> /\ ast[n].kind = "ret"
        /\ parentbb' = [parentbb EXCEPT ![n] = cur]
        /\ code' = IF HasSlot(ast, n)
                   THEN Emit(code, cur, Store(Kid(n, 1)))
                   ELSE code
        /\ frames' = Front(frames)
        /\ UNCHANGED <<ast, target, phase, cur, inserted>>
    BY DEF GenRet, At, Return, Keep
  <1>2. n \in DOMAIN ast /\ n \in Seq(Nat) /\ Top.step \in 1..(Len(Turns(ast, n)) + 1)
    BY <1>1, TopFrame, ProgramsAreTrees, TreePositions DEF GenInv
  <1>3. cur \in inserted /\ cur \in Blocks(ast) /\ cur[2][1] = n[1]
    BY <1>1, InnerTop
  <1>4. Returns
    BY <1>1, <1>2, TurnsAreChildren DEF Returns
  <1>6. Built(code')
    <2>1. CASE HasSlot(ast, n)
      <3>1. Store(Kid(n, 1)) \in Instr /\ To(Store(Kid(n, 1))) = {}
        <4>1. Kid(n, 1) \in Seq(Nat)
          BY <1>2 DEF Kid
        <4> QED
          BY <4>1 DEF Instr, To, Store
      <3>2. Grows(code, code', cur, {})
        BY <1>1, <1>3, <2>1, <3>1, Appends DEF GenInv, Codes
      <3>3. cur \in inserted'
        BY <1>1, <1>3
      <3> QED
        BY <1>3, <3>2, <3>3, WriteCur
    <2>2. CASE ~ HasSlot(ast, n)
      <3>1. code' = code
        BY <1>1, <2>2
      <3> QED
        BY <3>1, BuildNothing
    <2> QED
      BY <2>1, <2>2
  <1>7. ParentsInv'
    BY <1>1, <1>3 DEF GenInv, ParentsInv, Rets
  <1>8. StepKeeps
    BY <1>1, <1>3, <1>6, <1>7, BuiltIsStep DEF StepKeeps, GenInv
  <1>9. ReturnReady
    <2>1. Len(n) >= 3
      BY <1>1, InnerTop
    <2> QED
      BY <1>1, <1>3, <1>4, <2>1
      DEF ReturnReady, Handled, Fills, Inserts, Jumps, JumpKinds, OfKind
  <1> QED
    BY <1>8, <1>9, ReturnInv

(* The loop that a jump is bound to is being generated, and has inserted   *)
(* the block the jump goes to or will do so.                               *)
LEMMA LoopOfJump ==
  ASSUME ast \in Programs, GenInv, frames # <<>>, NEW l,
         l \in Loops(ast), IsStrictPrefix(l, Top.node)
  PROVE  \E k \in 1..(Len(frames) - 1) :
           frames[k].node = l /\ frames[k].step > 1 /\ FrameHolds(ast, inserted, frames[k])
           /\ frames[k].step \in Nat /\ frames[k].step <= Len(Turns(ast, l)) + 1
  <1>1. /\ Len(frames) \in Nat \ {0} /\ Top = frames[Len(frames)]
        /\ Len(Top.node) = Len(frames) - 1 /\ DOMAIN frames = 1..Len(frames)
        /\ Top.node \in Seq(Nat) /\ l \in Seq(Nat)
    BY TopFrame, ProgramsAreTrees, TreePositions DEF GenInv, Loops, OfKind
  <1>2. IsPrefix(l, Top.node) /\ l # Top.node
    BY DEF IsStrictPrefix
  <1>3. PICK m \in Nat : m = Len(frames)
    BY <1>1
  <1>4. PICK p \in Nat : p = Len(l)
    BY <1>1, LenProperties
  <1>5. p <= m - 1
    BY <1>1, <1>2, <1>3, <1>4, PrefixEntry
  <1>6. p # m - 1
    BY <1>1, <1>2, <1>3, <1>4, PrefixSameLength
  <1> DEFINE k == p + 1
  <1>7. k \in 1..(m - 1) /\ k \in 1..m /\ m \in 1..m /\ k < m
    BY <1>5, <1>6
  <1> HIDE DEF k
  <1>8. /\ IsStrictPrefix(frames[k].node, Top.node) /\ Len(frames[k].node) = k - 1
        /\ frames[k].step > 1 /\ frames[k].step <= Len(Turns(ast, frames[k].node)) + 1
    BY <1>1, <1>3, <1>7 DEF GenInv, FramesInv
  <1>9. frames[k] \in FrameType /\ FrameHolds(ast, inserted, frames[k])
    <2>1. k \in DOMAIN frames /\ frames \in Seq(FrameType)
      BY <1>1, <1>3, <1>7 DEF GenInv, FramesInv
    <2>2. frames[k] \in FrameType
      BY <1>3, <1>7, <2>1, ElementOfSeq
    <2> QED
      BY <2>1, <2>2 DEF GenInv
  <1>10. frames[k].node \in Seq(Nat) /\ frames[k].step \in Nat
    BY <1>9, ProgramsAreTrees, TreePositions DEF FrameType
  <1>11. frames[k].node = l
    <2>1. Len(frames[k].node) = p /\ p = Len(l)
      BY <1>4, <1>8 DEF k
    <2>2. IsPrefix(frames[k].node, Top.node)
      BY <1>8 DEF IsStrictPrefix
    <2>3. Len(frames[k].node) <= Len(l) /\ Len(frames[k].node) = Len(l)
      BY <1>4, <2>1
    <2>4. IsPrefix(frames[k].node, l)
      BY <1>1, <1>2, <1>10, <2>2, <2>3, PrefixComparable
    <2> QED
      BY <1>1, <1>10, <2>3, <2>4, PrefixSameLength
  <1> QED
    BY <1>3, <1>7, <1>8, <1>9, <1>10, <1>11

LEMMA GenJumpInv ==
  ASSUME ast \in Programs, GenInv, GenJump, JumpsBindInnermost, stack = <<>>
  PROVE  GenInv'
  <1> DEFINE j == Top.node
             l == target[j]
             x == JumpBlock(j, l)
  <1>1. /\ phase = "gen" /\ frames # <<>> /\ j \in Jumps(ast) /\ l # Null
        /\ code' = Emit(code, cur, Br(x))
        /\ frames' = Front(frames)
        /\ UNCHANGED <<ast, target, phase, cur, inserted, parentbb>>
    BY DEF GenJump, Return, Keep
  <1>2. /\ j \in DOMAIN ast /\ j \in Seq(Nat) /\ Top.step \in 1..(Len(Turns(ast, j)) + 1)
        /\ ast[j].kind \in JumpKinds
    BY <1>1, TopFrame, ProgramsAreTrees, TreePositions DEF GenInv, Jumps, OfKind
  <1>3. cur \in inserted /\ cur \in Blocks(ast) /\ cur[2][1] = j[1]
    BY <1>1, <1>2, InnerTop DEF JumpKinds
  <1>4. Returns
    BY <1>1, <1>2, TurnsAreChildren DEF Returns
  <1>5. l \in Loops(ast) /\ IsStrictPrefix(l, j)
    BY <1>1 DEF JumpsBindInnermost, LoopsAround
  <1>6. PICK k \in 1..(Len(frames) - 1) :
           frames[k].node = l /\ frames[k].step > 1 /\ FrameHolds(ast, inserted, frames[k])
           /\ frames[k].step \in Nat /\ frames[k].step <= Len(Turns(ast, l)) + 1
    BY <1>1, <1>5, LoopOfJump
  <1>7. x \in Blocks(ast) /\ x[1] # "entry" /\ x[2] = l
        /\ (x \in inserted \/ Inserts(ast, frames[k], x))
    <2>1. l \in DOMAIN ast /\ ast[l].kind \in {"for", "while"}
      BY <1>5 DEF Loops, LoopKinds, OfKind
    <2>2. ast[j].kind \in {"break", "continue"}
      BY <1>2 DEF JumpKinds
    <2>3. CASE ast[l].kind = "while"
      <3>1. x \in {<<"while-merge", l>>, <<"while-cond", l>>}
        BY <2>2, <2>3 DEF JumpBlock, ForTargets, WhileTargets
      <3>2. frames[k].step = 2
        <4>1. Len(Turns(ast, l)) = 1
          BY <2>1, <2>3, TurnsAreChildren
        <4> QED
          BY <1>6, <4>1
      <3> QED
        <4>1. x \in Blocks(ast) /\ x \in inserted
          BY <1>6, <2>1, <2>3, <3>1, <3>2, RolesOf DEF FrameHolds
        <4>2. x[1] # "entry" /\ x[2] = l
          BY <3>1
        <4> QED
          BY <4>1, <4>2
    <2>4. CASE ast[l].kind = "for"
      <3>1. x \in {<<"merge-for", l>>, <<"next-for", l>>}
        BY <2>2, <2>4 DEF JumpBlock, ForTargets, WhileTargets
      <3>2. frames[k].step <= 3 \/ frames[k].step = 4
        <4>1. Len(Turns(ast, l)) = 3
          BY <2>1, <2>4, TurnsAreChildren
        <4> QED
          BY <1>6, <4>1
      <3> QED
        <4>1. x \in Blocks(ast)
          BY <2>1, <2>4, <3>1, RolesOf
        <4>2. x[1] # "entry" /\ x[2] = l
          BY <3>1
        <4>3. x = <<"merge-for", l>> => Inserts(ast, frames[k], x)
          BY <1>6, <2>4 DEF Inserts
        <4>4. x = <<"next-for", l>> => x \in inserted \/ Inserts(ast, frames[k], x)
          BY <1>6, <2>4, <3>2 DEF FrameHolds, Inserts
        <4> QED
          BY <3>1, <4>1, <4>2, <4>3, <4>4
    <2> QED
      BY <2>1, <2>3, <2>4
  <1>8. l[1] = j[1]
    <2>1. l \in Seq(Nat) /\ l # Root
      BY <1>1, <1>5, ProgramsAreTrees, TreePositions, FunctionsMakeTheProgram
      DEF Loops, LoopKinds, OfKind
    <2>2. 1 \in 1..Len(l)
      BY <2>1 DEF Root
    <2> QED
      BY <1>2, <1>5, <2>1, <2>2, PrefixEntry DEF IsStrictPrefix
  <1> HIDE DEF x, l, j
  <1>9. MayBranch(ast', inserted', frames', cur, x)
    <2>1. frames'[k] = frames[k] /\ k \in DOMAIN frames'
      BY <1>4, <1>6, ReturnShape DEF GenInv
    <2>2. Blocks(ast)' = Blocks(ast) /\ ast' = ast /\ inserted' = inserted /\ cur' = cur
      BY <1>1
    <2>3. x[2][1] = cur[2][1]
      BY <1>3, <1>7, <1>8
    <2>4. x \in inserted' \/ Inserts(ast', frames'[k], x)
      BY <1>7, <2>1, <2>2
    <2>5. x \in inserted' \/ \E i \in DOMAIN frames' : Inserts(ast', frames'[i], x)
      BY <2>1, <2>4
    <2> QED
      BY <1>7, <2>2, <2>3, <2>5 DEF MayBranch
  <1>10. Grows(code, code', cur, {x})
    <2>1. Br(x) \in Instr /\ To(Br(x)) = {x}
      BY <1>7 DEF Instr, To, Br
    <2> QED
      BY <1>1, <1>3, <2>1, Appends DEF GenInv, Codes
  <1>11. Built(code') /\ code'[cur] # <<>>
    <2>1. cur \in inserted'
      BY <1>1, <1>3
    <2> QED
      BY <1>3, <1>9, <1>10, <2>1, WriteCur
  <1>12. StepKeeps
    BY <1>1, <1>3, <1>11, ParentsStay, BuiltIsStep DEF StepKeeps, GenInv
  <1>13. ReturnReady
    BY <1>1, <1>2, <1>3, <1>4, <1>11
    DEF ReturnReady, Handled, Fills, Inserts, JumpKinds, j, l
  <1> QED
    BY <1>12, <1>13, ReturnInv

(* The top frame calls gen without a word of its own.                      *)
LEMMA QuietCall ==
  ASSUME ast \in Programs, GenInv, phase = "gen", frames # <<>>,
         UNCHANGED <<ast, target, phase, cur, code, inserted, parentbb>>,
         ast[Top.node].kind \in {"program", "compound", "block"},
         Top.step <= ast[Top.node].arity, CallGen(Top, Kid(Top.node, Top.step))
  PROVE  GenInv'
  <1> DEFINE n == Top.node
  <1>1. n \in DOMAIN ast /\ Top \in FrameType /\ Top.step \in Nat /\ Top.step >= 1
    <2>1. n \in DOMAIN ast /\ Top \in FrameType
      BY TopFrame DEF GenInv
    <2>2. Top.step \in Nat \ {0}
      BY <2>1 DEF FrameType
    <2>3. \A m \in Nat \ {0} : m >= 1
      OBVIOUS
    <2> QED
      BY <2>1, <2>2, <2>3
  <1>2. /\ Turns(ast, n) \in Seq(1..ast[n].arity) /\ Len(Turns(ast, n)) = ast[n].arity
        /\ \A i \in 1..ast[n].arity : Turns(ast, n)[i] = i
    BY <1>1, TurnsAreChildren
  <1>3. ast[n].arity \in Nat
    BY <1>1, ProgramsAreTrees, TreePositions
  <1>4. Top.step \in DOMAIN Turns(ast, n) /\ NextKid = Kid(n, Top.step)
    <2>1. Top.step \in 1..ast[n].arity
      BY <1>1, <1>3
    <2> QED
      BY <1>2, <2>1 DEF NextKid
  <1>5. PICK f : Calls(f) /\ f.node = n
    BY <1>1, <1>4, CallGenCalls
  <1>6. StepKeeps /\ \A b \in inserted' : Handled(b) => b = cur' \/ Fills(ast, Top, b)
    BY QuietStep
  <1>7. n # Root => cur \in inserted /\ cur[2][1] = n[1]
    <2>1. n # Root => ast[n].kind \notin {"program", "function"}
      BY <1>1, FunctionsMakeTheProgram
    <2> QED
      BY <2>1, InnerTop
  <1>8. CallReady(f)
    BY <1>5, <1>6, <1>7 DEF CallReady, FrameHolds, Fills, Inserts
  <1> QED
    BY <1>6, <1>8, CallInv

LEMMA QuietReturn ==
  ASSUME ast \in Programs, GenInv, phase = "gen", frames # <<>>,
         UNCHANGED <<ast, target, phase, cur, code, inserted, parentbb>>,
         ast[Top.node].kind \in {"program", "compound", "function"}, Returns
  PROVE  GenInv'
  <1>1. StepKeeps /\ \A b \in inserted' : Handled(b) => b = cur' \/ Fills(ast, Top, b)
    BY QuietStep
  <1>2. Len(Top.node) = Len(frames) - 1 /\ Len(frames) \in Nat \ {0}
    BY TopFrame DEF GenInv
  <1>3. IF Len(Top.node) >= 3 THEN cur \in inserted /\ cur[2][1] = Top.node[1]
        ELSE cur \in inserted => code[cur] # <<>>
    <2>1. PICK m \in Nat : m = Len(frames)
      BY <1>2
    <2>2. CASE m >= 4
      <3>1. Len(frames) >= 3 /\ Len(Top.node) >= 3
        BY <1>2, <2>1, <2>2
      <3> QED
        BY <3>1 DEF GenInv, CurInv
    <2>3. CASE m = 3
      <3>1. Len(Top.node) = 2
        BY <1>2, <2>1, <2>3
      <3>2. ast[Top.node].kind = "block"
        BY <3>1, InnerFrame DEF GenInv
      <3> QED
        BY <3>2
    <2>4. CASE m <= 2
      <3>1. ~ (Len(Top.node) >= 3) /\ Len(frames) <= 2
        BY <1>2, <2>1, <2>4
      <3> QED
        BY <3>1 DEF GenInv, CurInv
    <2> QED
      BY <2>1, <2>2, <2>3, <2>4
  <1>4. ReturnReady
    BY <1>1, <1>3 DEF ReturnReady, Fills, Inserts, Jumps, JumpKinds, OfKind
  <1> QED
    BY <1>1, <1>4, ReturnInv

LEMMA GenChildrenInv ==
  ASSUME ast \in Programs, GenInv, GenChildren
  PROVE  GenInv'
  <1> DEFINE n == Top.node
  <1>1. /\ phase = "gen" /\ frames # <<>> /\ ast[n].kind \in {"program", "compound"}
        /\ UNCHANGED <<ast, target, phase, cur, code, inserted, parentbb>>
        /\ IF Top.step <= ast[n].arity THEN CallGen(Top, Kid(n, Top.step)) ELSE Return
    BY DEF GenChildren, Keep
  <1>2. CASE Top.step <= ast[n].arity
    BY <1>1, <1>2, QuietCall
  <1>3. CASE ~ (Top.step <= ast[n].arity)
    <2>1. n \in DOMAIN ast /\ Top.step \in 1..(Len(Turns(ast, n)) + 1)
      BY <1>1, TopFrame DEF GenInv
    <2>2. Len(Turns(ast, n)) = ast[n].arity /\ ast[n].arity \in Nat
      BY <1>1, <2>1, TurnsAreChildren, ProgramsAreTrees, TreePositions
    <2>3. Top.step = Len(Turns(ast, n)) + 1
      BY <1>3, <2>1, <2>2
    <2>4. Returns
      BY <1>1, <1>3, <2>3 DEF Returns, Return
    <2> QED
      BY <1>1, <2>4, QuietReturn
  <1> QED
    BY <1>2, <1>3

LEMMA GenFunctionInv ==
  ASSUME ast \in Programs, GenInv, GenFunction
  PROVE  GenInv'
  <1> DEFINE n == Top.node
             e == <<"entry", n>>
  <1>1. /\ phase = "gen" /\ frames # <<>> /\ ast[n].kind = "function" /\ Top.step = 1
        /\ cur' = e /\ inserted' = inserted \cup {e}
        /\ CallGen(Top, Kid(n, ast[n].arity))
        /\ UNCHANGED <<ast, target, phase, code, parentbb>>
    BY DEF GenFunction, At, Keep
  <1>2. n \in DOMAIN ast /\ Top \in FrameType /\ Len(n) = Len(frames) - 1 /\ Len(n) = 1
    BY <1>1, TopFrame, InnerFrame DEF GenInv
  <1>3. Turns(ast, n) = <<ast[n].arity>>
    BY <1>1, <1>2, TurnsAreChildren
  <1>4. Top.step \in DOMAIN Turns(ast, n) /\ NextKid = Kid(n, ast[n].arity)
    BY <1>1, <1>3 DEF NextKid
  <1>5. PICK f : Calls(f) /\ f.node = n
    BY <1>1, <1>2, <1>4, CallGenCalls
  <1>6. StepKeeps
    <2>1. e \in Blocks(ast)
      BY <1>1, <1>2, RolesOf
    <2>2. Built(code')
      BY <1>1, BuildNothing
    <2> QED
      BY <1>1, <2>1, <2>2, ParentsStay, BuiltIsStep DEF StepKeeps, GenInv
  <1>7. cur \in inserted => code[cur] # <<>>
    <2>1. Len(frames) <= 2
      <3>1. Len(frames) \in Nat \ {0}
        BY <1>1, TopFrame DEF GenInv
      <3>2. PICK m \in Nat : m = Len(frames)
        BY <3>1
      <3>3. m - 1 = 1
        BY <1>2, <3>2
      <3>4. m <= 2
        BY <3>3
      <3> QED
        BY <3>2, <3>4
    <2> QED
      BY <2>1 DEF GenInv, CurInv
  <1>8. e[2][1] = n[1]
    OBVIOUS
  <1>9. n # Root
    BY <1>1, <1>2, FunctionsMakeTheProgram
  <1>10. \A b \in inserted' : code'[b] = <<>> /\ Handled(b) => b = cur'
    <2> SUFFICES ASSUME NEW b \in inserted', code'[b] = <<>>, Handled(b)
                 PROVE  b = cur'
      OBVIOUS
    <2>1. ~ Fills(ast, Top, b)
      BY <1>1 DEF Fills
    <2> QED
      BY <1>1, <1>7, <2>1 DEF Handled
  <1> HIDE DEF e
  <1>11. CallReady(f)
    BY <1>1, <1>5, <1>8, <1>9, <1>10 DEF CallReady, FrameHolds, Inserts
  <1> QED
    BY <1>6, <1>11, CallInv

LEMMA EndFunctionInv ==
  ASSUME ast \in Programs, GenInv, EndFunction
  PROVE  GenInv'
  <1> DEFINE n == Top.node
  <1>1. /\ phase = "gen" /\ frames # <<>> /\ ast[n].kind = "function" /\ Top.step = 2
        /\ frames' = Front(frames)
        /\ UNCHANGED <<ast, target, phase, cur, code, inserted, parentbb>>
    BY DEF EndFunction, At, Return, Keep
  <1>2. n \in DOMAIN ast
    BY <1>1, TopFrame DEF GenInv
  <1>3. Turns(ast, n) = <<ast[n].arity>>
    BY <1>1, <1>2, TurnsAreChildren
  <1>4. Returns
    BY <1>1, <1>3 DEF Returns
  <1> QED
    BY <1>1, <1>4, QuietReturn

LEMMA GenBlockInv ==
  ASSUME ast \in Programs, GenInv, GenBlock
  PROVE  GenInv'
  BY QuietCall DEF GenBlock, Keep

(* The end of a function's block.                                          *)
LEMMA Retracts ==
  ASSUME NEW is \in Seq(Instr), NEW m \in Blocks(ast)
  PROVE  /\ Ret2Alloca(is, m) \in Seq(Instr) /\ Ret2Alloca(is, m) # <<>>
         /\ Targets(Ret2Alloca(is, m)) \subseteq Targets(is) \cup {m}
  <1>1. Br(m) \in Instr /\ To(Br(m)) = {m}
    BY DEF Instr, To, Br
  <1>2. PICK s : s = IF Terminated(is) THEN Front(is) ELSE is
    OBVIOUS
  <1>3. s \in Seq(Instr) /\ Targets(s) \subseteq Targets(is)
    <2>1. CASE Terminated(is)
      BY <1>2, <2>1, TargetsFront DEF Terminated
    <2>2. CASE ~ Terminated(is)
      BY <1>2, <2>2
    <2> QED
      BY <2>1, <2>2
  <1>4. Ret2Alloca(is, m) = Append(s, Br(m))
    BY <1>1, <1>2, <1>3 DEF Ret2Alloca
  <1> QED
    BY <1>1, <1>3, <1>4, TargetsAdd

LEMMA SetsRet ==
  ASSUME NEW c \in Codes, NEW b \in Blocks(ast), NEW d, d = [c EXCEPT ![b] = <<RetInstr>>]
  PROVE  Grows(c, d, b, {})
  <1>1. RetInstr \in Instr /\ To(RetInstr) = {}
    BY DEF Instr, To, RetInstr
  <1>2. <<RetInstr>> \in Seq(Instr) /\ <<RetInstr>> # <<>>
    BY <1>1
  <1>3. Targets(<<RetInstr>>) = {}
    <2>1. PICK is : is = <<RetInstr>>
      OBVIOUS
    <2>2. is \in Seq(Instr) /\ \A k \in 1..Len(is) : To(is[k]) = {}
      BY <1>1, <1>2, <2>1
    <2>3. \A x : x \notin Targets(is)
      BY <2>2, TargetsOf
    <2> QED
      BY <2>1, <2>3
  <1>4. d \in Codes /\ d[b] = <<RetInstr>> /\ \A x \in Blocks(ast) \ {b} : d[x] = c[x]
    BY <1>2 DEF Codes
  <1> QED
    BY <1>2, <1>3, <1>4 DEF Grows

LEMMA EndBlockInv ==
  ASSUME ast \in Programs, GenInv, EndBlock
  PROVE  GenInv'
  <1>1. PICK n : n = Top.node
    OBVIOUS
  <1>2. PICK ret : ret = <<"return", n>>
    OBVIOUS
  <1> DEFINE left == {parentbb[r] : r \in Rets(ast) \cap Below(ast, n)}
  <1>3. PICK c : c = Emit(code, cur, Br(ret))
    OBVIOUS
  <1>4. PICK full : full = [c EXCEPT ![ret] = <<RetInstr>>]
    OBVIOUS
  <1>5. /\ phase = "gen" /\ frames # <<>> /\ ast[n].kind = "block" /\ Top.step > ast[n].arity
        /\ code' = [b \in DOMAIN code |->
                      IF b \in left THEN Ret2Alloca(full[b], ret) ELSE full[b]]
        /\ inserted' = inserted \cup {ret} /\ cur' = ret
        /\ frames' = Front(frames)
        /\ UNCHANGED <<ast, target, phase, parentbb>>
    BY <1>1, <1>2, <1>3, <1>4 DEF EndBlock, Return, Keep
  <1> HIDE DEF left
  <1>6. n \in DOMAIN ast /\ n \in Seq(Nat) /\ Len(n) = 2
        /\ Top.step \in 1..(Len(Turns(ast, n)) + 1)
    BY <1>1, <1>5, TopFrame, InnerFrame DEF GenInv
  <1>7. cur \in inserted /\ cur \in Blocks(ast) /\ cur[2][1] = n[1]
    BY <1>1, <1>5, InnerTop
  <1>8. ret \in Blocks(ast) /\ ret[1] # "entry" /\ ret[2][1] = n[1] /\ ret \in inserted'
    BY <1>2, <1>5, <1>6, RolesOf
  <1>9. Returns
    <2>1. Len(Turns(ast, n)) = ast[n].arity /\ ast[n].arity \in Nat
      BY <1>5, <1>6, TurnsAreChildren, ProgramsAreTrees, TreePositions
    <2>2. Top.step = Len(Turns(ast, n)) + 1
      BY <1>5, <1>6, <2>1
    <2> QED
      BY <1>1, <1>5, <2>2 DEF Returns
  <1>10. inserted \subseteq inserted' /\ inserted' \subseteq Blocks(ast)
    BY <1>5, <1>8 DEF GenInv
  <1>11. \A b : b[2][1] = n[1] => MayBranch(ast', inserted', frames', b, ret)
    BY <1>5, <1>8 DEF MayBranch
  <1>12. Built(c) /\ c \in Codes /\ c[cur] # <<>>
    <2>1. Br(ret) \in Instr /\ To(Br(ret)) = {ret}
      BY <1>8 DEF Instr, To, Br
    <2>2. PICK b : b = cur
      OBVIOUS
    <2>3. Grows(code, c, b, {ret})
      BY <1>3, <1>7, <2>1, <2>2, Appends DEF GenInv, Codes
    <2>4. PICK d : d = code
      OBVIOUS
    <2>5. Built(d)
      BY <2>4, BuildNothing
    <2>6. b \in Blocks(ast) /\ b \in inserted' /\ MayBranch(ast', inserted', frames', b, ret)
      BY <1>7, <1>10, <1>11, <2>2
    <2> QED
      BY <2>2, <2>3, <2>4, <2>5, <2>6, BuildMore
  <1>13. Built(full) /\ full \in Codes /\ full[ret] # <<>> /\ full[cur] # <<>>
    <2>0. PICK T : T = {}
      OBVIOUS
    <2>1. Grows(c, full, ret, T)
      BY <1>4, <1>8, <1>12, <2>0, SetsRet
    <2>2. /\ Built(full) /\ full \in Codes /\ full[ret] # <<>>
          /\ \A x \in Blocks(ast) : c[x] # <<>> => full[x] # <<>>
      <3>1. Built(c) /\ ret \in Blocks(ast) /\ ret \in inserted'
        BY <1>8, <1>12
      <3>2. \A x \in T : MayBranch(ast', inserted', frames', ret, x)
        BY <2>0
      <3> QED
        BY <2>1, <3>1, <3>2, BuildMore
    <2> QED
      BY <1>7, <1>12, <2>2
  <1>14. ASSUME NEW b \in Blocks(ast), b \in left
         PROVE  b \in inserted /\ b[2][1] = n[1]
    <2>1. PICK r \in Rets(ast) : r \in Below(ast, n) /\ b = parentbb[r]
      BY <1>14 DEF left
    <2>2. b \in inserted /\ b[2][1] = r[1]
      BY <2>1, NullIsNoBlock DEF GenInv, ParentsInv
    <2>3. r \in Seq(Nat) /\ IsPrefix(n, r)
      BY <2>1, ProgramsAreTrees, TreePositions DEF Below, IsStrictPrefix
    <2>4. 1 \in 1..Len(n)
      BY <1>6
    <2> QED
      BY <1>6, <2>2, <2>3, <2>4, PrefixEntry
  <1>15. DOMAIN code = Blocks(ast)
    BY DEF GenInv
  <1>16. ASSUME NEW b \in Blocks(ast)
         PROVE  /\ code'[b] \in Seq(Instr)
                /\ full[b] # <<>> => code'[b] # <<>>
                /\ code'[b] # code[b] => b \in inserted'
                /\ \A x \in Targets(code'[b]) :
                     x \in Targets(code[b]) \/ MayBranch(ast', inserted', frames', b, x)
    <2>1. full[b] \in Seq(Instr)
      BY <1>13 DEF Codes
    <2>2. CASE b \in left
      <3>1. code'[b] = Ret2Alloca(full[b], ret)
        BY <1>5, <1>15, <2>2
      <3>2. /\ code'[b] \in Seq(Instr) /\ code'[b] # <<>>
            /\ Targets(code'[b]) \subseteq Targets(full[b]) \cup {ret}
        BY <1>8, <2>1, <3>1, Retracts
      <3>3. b \in inserted' /\ MayBranch(ast', inserted', frames', b, ret)
        BY <1>10, <1>11, <1>14, <2>2
      <3> QED
        BY <1>13, <3>2, <3>3 DEF Built
    <2>3. CASE b \notin left
      <3>1. code'[b] = full[b]
        BY <1>5, <1>15, <2>3
      <3> QED
        BY <1>13, <2>1, <3>1 DEF Built
    <2> QED
      BY <2>2, <2>3
  <1>17. Built(code') /\ code'[ret] # <<>> /\ code'[cur] # <<>>
    <2>1. code' \in Codes
      BY <1>5, <1>15, <1>16 DEF Codes
    <2>2. \A b \in Blocks(ast) : code[b] # <<>> => code'[b] # <<>>
      BY <1>13, <1>16 DEF Built
    <2> QED
      BY <1>7, <1>8, <1>13, <1>16, <2>1, <2>2 DEF Built
  <1>18. StepKeeps
    BY <1>5, <1>8, <1>10, <1>17, ParentsStay, BuiltIsStep DEF StepKeeps
  <1>19. ReturnReady
    <2>1. \A b \in inserted' : code'[b] = <<>> /\ Handled(b) => b = cur'
      <3> SUFFICES ASSUME NEW b \in inserted', code'[b] = <<>>, Handled(b) PROVE b = cur'
        OBVIOUS
      <3>1. ~ Fills(ast, Top, b)
        BY <1>1, <1>5 DEF Fills
      <3> QED
        BY <1>5, <1>17, <3>1 DEF Handled
    <2>2. ~ (Len(Top.node) >= 3)
      BY <1>1, <1>6
    <2>3. cur' = ret
      BY <1>5
    <2> QED
      BY <1>1, <1>5, <1>9, <1>17, <2>1, <2>2, <2>3
      DEF ReturnReady, Inserts, Jumps, JumpKinds, OfKind
  <1> QED
    BY <1>18, <1>19, ReturnInv

LEMMA TopHolds ==
  ASSUME GenInv, frames # <<>>
  PROVE  FrameHolds(ast, inserted, Top)
  <1>1. Len(frames) \in Nat \ {0} /\ Top = frames[Len(frames)] /\ DOMAIN frames = 1..Len(frames)
    BY TopFrame DEF GenInv
  <1>2. PICK m : m = Len(frames)
    OBVIOUS
  <1>3. m \in 1..m
    BY <1>1, <1>2
  <1> QED
    BY <1>1, <1>2, <1>3 DEF GenInv

(* Control statements call gen for their children in turn.                 *)
LEMMA GenThenInv ==
  ASSUME ast \in Programs, GenInv, GenThen
  PROVE  GenInv'
  <1> DEFINE n == Top.node
             then == <<"then", n>>
             g == [Top EXCEPT !.origin = cur]
  <1>1. /\ phase = "gen" /\ frames # <<>> /\ ast[n].kind = "if" /\ Top.step = 1
        /\ code' = Emit(code, cur, Eval(Kid(n, 1)))
        /\ cur' = then /\ inserted' = inserted \cup {then}
        /\ CallGen(g, Kid(n, 2))
        /\ UNCHANGED <<ast, target, phase, parentbb>>
    BY DEF GenThen, At, Keep
  <1>2. n \in DOMAIN ast /\ n \in Seq(Nat) /\ Top \in FrameType
    BY <1>1, TopFrame, ProgramsAreTrees, TreePositions DEF GenInv
  <1>3. cur \in inserted /\ cur \in Blocks(ast) /\ cur[2][1] = n[1] /\ n # Root
    BY <1>1, InnerTop
  <1>4. Top.step \in DOMAIN Turns(ast, n) /\ NextKid = Kid(n, 2)
    <2>1. Turns(ast, n) \in Seq(1..ast[n].arity) /\ Len(Turns(ast, n)) \in {1, 2}
          /\ Turns(ast, n)[1] = 2
      BY <1>1, <1>2, TurnsAreChildren, StatementsAreWhole DEF OfKind
    <2> QED
      BY <1>1, <2>1 DEF NextKid
  <1>5. g \in FrameType /\ g.node = n /\ g.step = Top.step /\ g.origin = cur
    BY <1>2, <1>3 DEF FrameType
  <1>6. PICK f : Calls(f) /\ f.node = n /\ f.step = 2 /\ f.origin = cur
    <2> HIDE DEF g
    <2> QED
      BY <1>1, <1>2, <1>4, <1>5, CallGenCalls
  <1>7. then \in Blocks(ast)
    BY <1>1, <1>2, RolesOf
  <1>8. inserted \subseteq inserted' /\ inserted' \subseteq Blocks(ast)
    BY <1>1, <1>7 DEF GenInv
  <1>9. Built(code') /\ code'[cur] # <<>>
    <2>1. Eval(Kid(n, 1)) \in Instr /\ To(Eval(Kid(n, 1))) = {}
      <3>1. Kid(n, 1) \in Seq(Nat)
        BY <1>2 DEF Kid
      <3> QED
        BY <3>1 DEF Instr, To, Eval
    <2>2. Grows(code, code', cur, {})
      BY <1>1, <1>3, <2>1, Appends DEF GenInv, Codes
    <2>3. cur \in inserted'
      BY <1>3, <1>8
    <2> QED
      BY <1>3, <2>2, <2>3, WriteCur
  <1>10. StepKeeps
    BY <1>1, <1>8, <1>9, ParentsStay, BuiltIsStep DEF StepKeeps
  <1>11. \A b \in inserted' : code'[b] = <<>> /\ Handled(b) => b = cur'
    <2> SUFFICES ASSUME NEW b \in inserted', code'[b] = <<>>, Handled(b) PROVE b = cur'
      OBVIOUS
    <2>1. ~ Fills(ast, Top, b)
      BY <1>1 DEF Fills
    <2> QED
      BY <1>1, <1>9, <2>1 DEF Handled
  <1>12. FrameHolds(ast', inserted', f)
    BY <1>1, <1>3, <1>6, <1>8 DEF FrameHolds
  <1>13. CallReady(f)
    <2>1. cur' \in inserted' /\ cur'[2][1] = n[1]
      BY <1>1
    <2> QED
      BY <1>1, <1>3, <1>6, <1>11, <1>12, <2>1 DEF CallReady, Inserts
  <1> QED
    BY <1>10, <1>13, CallInv

LEMMA GenElseInv ==
  ASSUME ast \in Programs, GenInv, GenElse
  PROVE  GenInv'
  <1> DEFINE n == Top.node
             else == <<"else", n>>
             g == [Top EXCEPT !.thenEnd = cur]
  <1>1. /\ phase = "gen" /\ frames # <<>> /\ ast[n].kind = "if" /\ Top.step = 2
        /\ ast[n].arity = 3
        /\ cur' = else /\ inserted' = inserted \cup {else}
        /\ CallGen(g, Kid(n, 3))
        /\ UNCHANGED <<ast, target, phase, code, parentbb>>
    BY DEF GenElse, At, Keep
  <1>2. n \in DOMAIN ast /\ Top \in FrameType /\ FrameHolds(ast, inserted, Top)
    BY <1>1, TopFrame, TopHolds DEF GenInv
  <1>3. cur \in inserted /\ cur \in Blocks(ast) /\ cur[2][1] = n[1] /\ n # Root
    BY <1>1, InnerTop
  <1>4. Top.step \in DOMAIN Turns(ast, n) /\ NextKid = Kid(n, 3)
    <2>1. Turns(ast, n) \in Seq(1..ast[n].arity) /\ Len(Turns(ast, n)) = 2
          /\ Turns(ast, n)[2] = 3
      BY <1>1, <1>2, TurnsAreChildren
    <2> QED
      BY <1>1, <2>1 DEF NextKid
  <1>5. /\ g \in FrameType /\ g.node = n /\ g.step = Top.step
        /\ g.origin = Top.origin /\ g.thenEnd = cur
    BY <1>2, <1>3 DEF FrameType
  <1>6. PICK f : /\ Calls(f) /\ f.node = n /\ f.step = 3
                 /\ f.origin = Top.origin /\ f.thenEnd = cur
    <2> HIDE DEF g
    <2> QED
      BY <1>1, <1>2, <1>4, <1>5, CallGenCalls
  <1>7. else \in Blocks(ast)
    BY <1>1, <1>2, RolesOf
  <1>8. inserted \subseteq inserted' /\ inserted' \subseteq Blocks(ast)
    BY <1>1, <1>7 DEF GenInv
  <1>9. Built(code')
    BY <1>1, BuildNothing
  <1>10. StepKeeps
    BY <1>1, <1>8, <1>9, ParentsStay, BuiltIsStep DEF StepKeeps
  <1>11. \A b \in inserted' : Handled(b) => b = cur' \/ Fills(ast', f, b)
    <2> SUFFICES ASSUME NEW b \in inserted', Handled(b) PROVE b = cur' \/ Fills(ast', f, b)
      OBVIOUS
    <2>1. ~ Fills(ast, Top, b)
      BY <1>1 DEF Fills
    <2>2. Fills(ast', f, cur)
      BY <1>1, <1>6 DEF Fills
    <2> QED
      BY <1>1, <2>1, <2>2 DEF Handled
  <1>12. FrameHolds(ast', inserted', f)
    BY <1>1, <1>2, <1>3, <1>6, <1>8 DEF FrameHolds
  <1>13. CallReady(f)
    <2>1. cur' \in inserted' /\ cur'[2][1] = n[1]
      BY <1>1
    <2> QED
      BY <1>1, <1>3, <1>6, <1>11, <1>12, <2>1 DEF CallReady, Inserts
  <1> QED
    BY <1>10, <1>13, CallInv

(* The end of an if.                                                       *)
LEMMA EndElseInv ==
  ASSUME ast \in Programs, GenInv, EndElse
  PROVE  GenInv'
  <1>1. PICK n : n = Top.node
    OBVIOUS
  <1>2. PICK m : m = <<"merge-if", n>>
    OBVIOUS
  <1>3. PICK b : b = cur
    OBVIOUS
  <1>4. PICK o : o = Top.origin
    OBVIOUS
  <1>5. PICK e : e = Top.thenEnd
    OBVIOUS
  <1> DEFINE then == <<"then", n>>
             else == <<"else", n>>
  <1>6. PICK c : c = Emit(code, b, Br(m))
    OBVIOUS
  <1>7. PICK d : d = Emit(c, o, CondBr(then, else))
    OBVIOUS
  <1>8. /\ phase = "gen" /\ frames # <<>> /\ ast[n].kind = "if" /\ Top.step = 3
        /\ inserted' = inserted \cup {m} /\ cur' = m
        /\ code' = [d EXCEPT ![e] = Close(@, m)]
        /\ frames' = Front(frames)
        /\ UNCHANGED <<ast, target, phase, parentbb>>
    BY <1>1, <1>2, <1>3, <1>4, <1>5, <1>6, <1>7 DEF EndElse, At, Return, Keep
  <1>9. /\ n \in DOMAIN ast /\ FrameHolds(ast, inserted, Top)
        /\ Top.step \in 1..(Len(Turns(ast, n)) + 1)
    BY <1>1, <1>8, TopFrame, TopHolds DEF GenInv
  <1>10. Returns
    <2>1. Len(Turns(ast, n)) \in {1, 2}
      BY <1>8, <1>9, TurnsAreChildren, StatementsAreWhole DEF OfKind
    <2>2. PICK k : k = Len(Turns(ast, n))
      OBVIOUS
    <2>3. k \in {1, 2} /\ 3 \in 1..(k + 1)
      BY <1>8, <1>9, <2>1, <2>2
    <2>4. k = 2
      BY <2>3
    <2> QED
      BY <1>1, <1>8, <2>2, <2>4 DEF Returns
  <1>11. b \in inserted /\ b[2][1] = n[1] /\ Len(n) >= 3
    BY <1>1, <1>3, <1>8, InnerTop
  <1>12. /\ o \in inserted /\ o[2][1] = n[1] /\ e \in inserted /\ e[2][1] = n[1]
         /\ then \in inserted /\ else \in inserted
    BY <1>1, <1>4, <1>5, <1>8, <1>9 DEF FrameHolds
  <1>13. m \in Blocks(ast) /\ m \in inserted' /\ m[1] # "entry" /\ m[2][1] = n[1]
    BY <1>2, <1>8, <1>9, RolesOf
  <1>14. inserted \subseteq inserted' /\ inserted' \subseteq Blocks(ast)
    BY <1>8, <1>13 DEF GenInv
  <1>15. ASSUME NEW x, x[2][1] = n[1]
         PROVE  /\ MayBranch(ast', inserted', frames', x, m)
                /\ MayBranch(ast', inserted', frames', x, then)
                /\ MayBranch(ast', inserted', frames', x, else)
    BY <1>8, <1>12, <1>13, <1>14, <1>15 DEF MayBranch
  <1>16. then \in Blocks(ast) /\ else \in Blocks(ast)
    BY <1>12, <1>14
  <1> HIDE DEF then, else
  <1>17. Built(c) /\ c \in Codes /\ c[b] # <<>>
    <2>1. Br(m) \in Instr /\ To(Br(m)) = {m}
      BY <1>13 DEF Instr, To, Br
    <2>2. Grows(code, c, b, {m})
      BY <1>6, <1>11, <1>14, <2>1, Appends DEF GenInv, Codes
    <2>3. PICK k : k = code
      OBVIOUS
    <2>4. Built(k) /\ Grows(k, c, b, {m})
      BY <2>2, <2>3, BuildNothing
    <2>5. b \in Blocks(ast) /\ b \in inserted' /\ MayBranch(ast', inserted', frames', b, m)
      BY <1>11, <1>14, <1>15
    <2> QED
      BY <2>4, <2>5, BuildMore
  <1>18. Built(d) /\ d \in Codes /\ d[b] # <<>>
    <2>1. CondBr(then, else) \in Instr /\ To(CondBr(then, else)) = {then, else}
      BY <1>16 DEF Instr, To, CondBr
    <2>2. Grows(c, d, o, {then, else})
      BY <1>7, <1>12, <1>14, <1>17, <2>1, Appends
    <2>3. /\ o \in Blocks(ast) /\ o \in inserted'
          /\ \A x \in {then, else} : MayBranch(ast', inserted', frames', o, x)
      BY <1>12, <1>14, <1>15
    <2>5. PICK T : T = {then, else}
      OBVIOUS
    <2>6. Grows(c, d, o, T) /\ \A x \in T : MayBranch(ast', inserted', frames', o, x)
      BY <2>2, <2>3, <2>5
    <2>4. Built(d) /\ d \in Codes /\ \A x \in Blocks(ast) : c[x] # <<>> => d[x] # <<>>
      BY <1>17, <2>3, <2>6, BuildMore
    <2> QED
      BY <1>11, <1>14, <1>17, <2>4
  <1>19. Built(code') /\ code'[b] # <<>> /\ code'[e] # <<>>
    <2>1. Grows(d, code', e, {m})
      <3>1. PICK k : k = code'
        OBVIOUS
      <3>2. Grows(d, k, e, {m})
        BY <1>8, <1>12, <1>13, <1>14, <1>18, <3>1, Closes
      <3> QED
        BY <3>1, <3>2
    <2>2. e \in Blocks(ast) /\ e \in inserted' /\ MayBranch(ast', inserted', frames', e, m)
      BY <1>12, <1>14, <1>15
    <2>3. Built(code') /\ code'[e] # <<>> /\ \A x \in Blocks(ast) : d[x] # <<>> => code'[x] # <<>>
      BY <1>18, <2>1, <2>2, WriteLast
    <2> QED
      BY <1>11, <1>14, <1>18, <2>3
  <1>20. StepKeeps
    BY <1>8, <1>13, <1>14, <1>19, ParentsStay, BuiltIsStep DEF StepKeeps
  <1>21. ReturnReady
    <2>1. \A x \in inserted' : code'[x] = <<>> /\ Handled(x) => x = cur'
      <3> SUFFICES ASSUME NEW x \in inserted', code'[x] = <<>>, Handled(x) PROVE x = cur'
        OBVIOUS
      <3>1. Fills(ast, Top, x) => x = e
        BY <1>1, <1>5, <1>8 DEF Fills
      <3> QED
        BY <1>3, <1>8, <1>19, <3>1 DEF Handled
    <2>2. cur' \in inserted' /\ cur'[2][1] = Top.node[1]
      BY <1>1, <1>8, <1>13
    <2> QED
      BY <1>1, <1>8, <1>10, <1>11, <2>1, <2>2
      DEF ReturnReady, Inserts, Jumps, JumpKinds, OfKind
  <1> QED
    BY <1>20, <1>21, ReturnInv

LEMMA EndThenInv ==
  ASSUME ast \in Programs, GenInv, EndThen
  PROVE  GenInv'
  <1>1. PICK n : n = Top.node
    OBVIOUS
  <1>2. PICK m : m = <<"merge-if", n>>
    OBVIOUS
  <1>3. PICK b : b = cur
    OBVIOUS
  <1>4. PICK o : o = Top.origin
    OBVIOUS
  <1> DEFINE then == <<"then", n>>
  <1>5. PICK c : c = [code EXCEPT ![b] = Close(@, m)]
    OBVIOUS
  <1>6. /\ phase = "gen" /\ frames # <<>> /\ ast[n].kind = "if" /\ ast[n].arity = 2
        /\ Top.step = 2
        /\ inserted' = inserted \cup {m} /\ cur' = m
        /\ code' = Emit(c, o, CondBr(then, m))
        /\ frames' = Front(frames)
        /\ UNCHANGED <<ast, target, phase, parentbb>>
    BY <1>1, <1>2, <1>3, <1>4, <1>5 DEF EndThen, At, Return, Keep
  <1>7. n \in DOMAIN ast /\ FrameHolds(ast, inserted, Top)
    BY <1>1, <1>6, TopFrame, TopHolds DEF GenInv
  <1>8. Returns
    <2>1. Len(Turns(ast, n)) = 1
      BY <1>6, <1>7, TurnsAreChildren
    <2> QED
      BY <1>1, <1>6, <2>1 DEF Returns
  <1>9. b \in inserted /\ b[2][1] = n[1] /\ Len(n) >= 3
    BY <1>1, <1>3, <1>6, InnerTop
  <1>10. o \in inserted /\ o[2][1] = n[1] /\ then \in inserted
    BY <1>1, <1>4, <1>6, <1>7 DEF FrameHolds
  <1>11. m \in Blocks(ast) /\ m \in inserted' /\ m[1] # "entry" /\ m[2][1] = n[1]
    BY <1>2, <1>6, <1>7, RolesOf
  <1>12. inserted \subseteq inserted' /\ inserted' \subseteq Blocks(ast)
    BY <1>6, <1>11 DEF GenInv
  <1>13. ASSUME NEW x, x[2][1] = n[1]
         PROVE  /\ MayBranch(ast', inserted', frames', x, m)
                /\ MayBranch(ast', inserted', frames', x, then)
    BY <1>6, <1>10, <1>11, <1>12, <1>13 DEF MayBranch
  <1>14. then \in Blocks(ast)
    BY <1>10, <1>12
  <1> HIDE DEF then
  <1>15. Built(c) /\ c \in Codes /\ c[b] # <<>>
    <2>1. Grows(code, c, b, {m})
      BY <1>5, <1>9, <1>11, <1>12, Closes DEF GenInv, Codes
    <2>2. PICK k : k = code
      OBVIOUS
    <2>3. Built(k) /\ Grows(k, c, b, {m})
      BY <2>1, <2>2, BuildNothing
    <2>4. b \in Blocks(ast) /\ b \in inserted' /\ MayBranch(ast', inserted', frames', b, m)
      BY <1>9, <1>12, <1>13
    <2> QED
      BY <2>3, <2>4, BuildMore
  <1>16. Built(code') /\ code'[b] # <<>>
    <2>1. CondBr(then, m) \in Instr /\ To(CondBr(then, m)) = {then, m}
      BY <1>11, <1>14 DEF Instr, To, CondBr
    <2>2. Grows(c, code', o, {then, m})
      <3>1. PICK k : k = code'
        OBVIOUS
      <3>2. Grows(c, k, o, {then, m})
        BY <1>6, <1>10, <1>12, <1>15, <2>1, <3>1, Appends
      <3> QED
        BY <3>1, <3>2
    <2>3. /\ o \in Blocks(ast) /\ o \in inserted'
          /\ \A x \in {then, m} : MayBranch(ast', inserted', frames', o, x)
      BY <1>10, <1>12, <1>13
    <2>4. Built(code') /\ \A x \in Blocks(ast) : c[x] # <<>> => code'[x] # <<>>
      BY <1>15, <2>2, <2>3, WriteLast
    <2> QED
      BY <1>9, <1>12, <1>15, <2>4
  <1>17. StepKeeps
    BY <1>6, <1>11, <1>12, <1>16, ParentsStay, BuiltIsStep DEF StepKeeps
  <1>18. ReturnReady
    <2>1. \A x \in inserted' : code'[x] = <<>> /\ Handled(x) => x = cur'
      <3> SUFFICES ASSUME NEW x \in inserted', code'[x] = <<>>, Handled(x) PROVE x = cur'
        OBVIOUS
      <3>1. ~ Fills(ast, Top, x)
        BY <1>1, <1>6 DEF Fills
      <3> QED
        BY <1>3, <1>6, <1>16, <3>1 DEF Handled
    <2>2. cur' \in inserted' /\ cur'[2][1] = Top.node[1]
      BY <1>1, <1>6, <1>11
    <2> QED
      BY <1>1, <1>6, <1>8, <1>9, <2>1, <2>2
      DEF ReturnReady, Inserts, Jumps, JumpKinds, OfKind
  <1> QED
    BY <1>17, <1>18, ReturnInv

(* For.                                                                    *)
LEMMA GenForInitInv ==
  ASSUME ast \in Programs, GenInv, GenForInit
  PROVE  GenInv'
  <1> DEFINE n == Top.node
             header == <<"for-header", n>>
             body   == <<"for-body", n>>
  <1>1. /\ phase = "gen" /\ frames # <<>> /\ ast[n].kind = "for" /\ Top.step = 1
        /\ inserted' = inserted \cup {header, body}
        /\ CallGen(Top, Kid(n, 1))
        /\ UNCHANGED <<ast, target, phase, cur, code, parentbb>>
    BY DEF GenForInit, At, Keep
  <1>2. n \in DOMAIN ast /\ Top \in FrameType
    BY <1>1, TopFrame DEF GenInv
  <1>3. cur \in inserted /\ cur[2][1] = n[1] /\ n # Root
    BY <1>1, InnerTop
  <1>4. Top.step \in DOMAIN Turns(ast, n) /\ NextKid = Kid(n, 1)
    <2>1. Turns(ast, n) = <<1, 4, 3>>
      BY <1>1, <1>2, TurnsAreChildren
    <2> QED
      BY <1>1, <2>1 DEF NextKid
  <1>5. PICK f : Calls(f) /\ f.node = n /\ f.step = 2
    BY <1>1, <1>2, <1>4, CallGenCalls
  <1>6. inserted \subseteq inserted' /\ inserted' \subseteq Blocks(ast)
    BY <1>1, <1>2, RolesOf DEF GenInv
  <1>7. Built(code')
    BY <1>1, BuildNothing
  <1>8. StepKeeps
    BY <1>1, <1>3, <1>6, <1>7, ParentsStay, BuiltIsStep DEF StepKeeps
  <1>9. \A b \in inserted' : Handled(b) => b = cur' \/ Fills(ast', f, b)
    <2> SUFFICES ASSUME NEW b \in inserted', Handled(b) PROVE b = cur' \/ Fills(ast', f, b)
      OBVIOUS
    <2>1. ~ Fills(ast, Top, b)
      BY <1>1 DEF Fills
    <2>2. b \in {header, body} => Fills(ast', f, b)
      BY <1>1, <1>5 DEF Fills
    <2> QED
      BY <1>1, <2>1, <2>2 DEF Handled
  <1>10. FrameHolds(ast', inserted', f)
    BY <1>1, <1>5 DEF FrameHolds
  <1>11. \A x : Inserts(ast, Top, x) => Inserts(ast', f, x)
    BY <1>1, <1>5 DEF Inserts
  <1>12. CallReady(f)
    BY <1>1, <1>3, <1>5, <1>9, <1>10, <1>11 DEF CallReady
  <1> QED
    BY <1>8, <1>12, CallInv

LEMMA GenForBodyInv ==
  ASSUME ast \in Programs, GenInv, GenForBody
  PROVE  GenInv'
  <1>1. PICK n : n = Top.node
    OBVIOUS
  <1>2. PICK b : b = cur
    OBVIOUS
  <1>3. PICK header : header = <<"for-header", n>>
    OBVIOUS
  <1>4. PICK body : body = <<"for-body", n>>
    OBVIOUS
  <1>5. PICK merge : merge = <<"merge-for", n>>
    OBVIOUS
  <1>6. PICK c : c = Emit(code, b, Br(header))
    OBVIOUS
  <1>7. PICK d : d = Emit(c, header, Eval(Kid(n, 2)))
    OBVIOUS
  <1>8. /\ phase = "gen" /\ frames # <<>> /\ ast[n].kind = "for" /\ Top.step = 2
        /\ code' = Emit(d, header, CondBr(body, merge))
        /\ cur' = body
        /\ CallGen(Top, Kid(n, 4))
        /\ UNCHANGED <<ast, target, phase, inserted, parentbb>>
    BY <1>1, <1>2, <1>3, <1>4, <1>5, <1>6, <1>7 DEF GenForBody, At, Keep
  <1>9. /\ n \in DOMAIN ast /\ n \in Seq(Nat) /\ Top \in FrameType
        /\ FrameHolds(ast, inserted, Top)
    BY <1>1, <1>8, TopFrame, TopHolds, ProgramsAreTrees, TreePositions DEF GenInv
  <1>10. b \in inserted /\ b[2][1] = n[1] /\ n # Root
    BY <1>1, <1>2, <1>8, InnerTop
  <1>11. Top.step \in DOMAIN Turns(ast, n) /\ NextKid = Kid(n, 4)
    <2>1. Turns(ast, n) = <<1, 4, 3>>
      BY <1>8, <1>9, TurnsAreChildren
    <2> QED
      BY <1>1, <1>8, <2>1 DEF NextKid
  <1>12. PICK f : Calls(f) /\ f.node = n /\ f.step = 3
    BY <1>1, <1>8, <1>9, <1>11, CallGenCalls
  <1>13. header \in inserted /\ body \in inserted /\ inserted \subseteq Blocks(ast)
    BY <1>1, <1>3, <1>4, <1>8, <1>9 DEF FrameHolds, GenInv
  <1>14. merge \in Blocks(ast)
    BY <1>5, <1>8, <1>9, RolesOf
  <1>15. frames' \in Seq(FrameType) /\ \E k \in DOMAIN frames' : frames'[k] = f
    <2>1. /\ frames' \in Seq(FrameType) /\ Len(frames') = Len(frames) + 1
          /\ Len(frames) \in Nat \ {0} /\ frames'[Len(frames)] = f
      BY <1>12, CallShape DEF GenInv
    <2>2. Len(frames) \in DOMAIN frames'
      BY <2>1
    <2> QED
      BY <2>1, <2>2
  <1>16. Inserts(ast', f, merge)
    BY <1>5, <1>8, <1>12 DEF Inserts
  <1>17. ASSUME NEW x, x[2][1] = n[1]
         PROVE  /\ MayBranch(ast', inserted', frames', x, header)
                /\ MayBranch(ast', inserted', frames', x, body)
                /\ MayBranch(ast', inserted', frames', x, merge)
    BY <1>3, <1>4, <1>5, <1>8, <1>13, <1>14, <1>15, <1>16, <1>17 DEF MayBranch
  <1>18. Built(c) /\ c \in Codes /\ c[b] # <<>>
    <2>1. Br(header) \in Instr /\ To(Br(header)) = {header}
      BY <1>13 DEF Instr, To, Br
    <2>2. Grows(code, c, b, {header})
      BY <1>6, <1>10, <1>13, <2>1, Appends DEF GenInv, Codes
    <2>3. PICK k : k = code
      OBVIOUS
    <2>4. Built(k) /\ Grows(k, c, b, {header})
      BY <2>2, <2>3, BuildNothing
    <2>5. b \in Blocks(ast) /\ b \in inserted' /\ MayBranch(ast', inserted', frames', b, header)
      BY <1>8, <1>10, <1>13, <1>17
    <2> QED
      BY <2>4, <2>5, BuildMore
  <1>19. header[2][1] = n[1] /\ header \in Blocks(ast) /\ header \in inserted'
    BY <1>3, <1>8, <1>13
  <1>20. Built(d) /\ d \in Codes /\ d[b] # <<>>
    <2>1. Eval(Kid(n, 2)) \in Instr /\ To(Eval(Kid(n, 2))) = {}
      <3>1. Kid(n, 2) \in Seq(Nat)
        BY <1>9 DEF Kid
      <3> QED
        BY <3>1 DEF Instr, To, Eval
    <2>2. PICK T : T = {}
      OBVIOUS
    <2>3. Grows(c, d, header, T)
      BY <1>7, <1>18, <1>19, <2>1, <2>2, Appends
    <2>4. \A x \in T : MayBranch(ast', inserted', frames', header, x)
      BY <2>2
    <2>5. Built(d) /\ d \in Codes /\ \A x \in Blocks(ast) : c[x] # <<>> => d[x] # <<>>
      BY <1>18, <1>19, <2>3, <2>4, BuildMore
    <2> QED
      BY <1>10, <1>13, <1>18, <2>5
  <1>21. Built(code') /\ code'[b] # <<>> /\ code'[header] # <<>>
    <2>1. CondBr(body, merge) \in Instr /\ To(CondBr(body, merge)) = {body, merge}
      BY <1>13, <1>14 DEF Instr, To, CondBr
    <2>2. PICK T : T = {body, merge}
      OBVIOUS
    <2>3. Grows(d, code', header, T)
      <3>1. PICK k : k = code'
        OBVIOUS
      <3>2. Grows(d, k, header, T)
        BY <1>8, <1>19, <1>20, <2>1, <2>2, <3>1, Appends
      <3> QED
        BY <3>1, <3>2
    <2>4. \A x \in T : MayBranch(ast', inserted', frames', header, x)
      BY <1>17, <1>19, <2>2
    <2>5. /\ Built(code') /\ code'[header] # <<>>
          /\ \A x \in Blocks(ast) : d[x] # <<>> => code'[x] # <<>>
      BY <1>19, <1>20, <2>3, <2>4, WriteLast
    <2> QED
      BY <1>10, <1>13, <1>20, <2>5
  <1>22. StepKeeps
    BY <1>8, <1>13, <1>21, ParentsStay, BuiltIsStep DEF StepKeeps
  <1>23. \A x \in inserted' : code'[x] = <<>> /\ Handled(x) => x = cur'
    <2> SUFFICES ASSUME NEW x \in inserted', code'[x] = <<>>, Handled(x) PROVE x = cur'
      OBVIOUS
    <2>1. Fills(ast, Top, x) => x \in {header, body}
      BY <1>1, <1>3, <1>4, <1>8 DEF Fills
    <2> QED
      BY <1>2, <1>8, <1>21, <2>1 DEF Handled
  <1>24. FrameHolds(ast', inserted', f)
    BY <1>3, <1>4, <1>8, <1>12, <1>13 DEF FrameHolds
  <1>25. \A x : Inserts(ast, Top, x) => Inserts(ast', f, x)
    BY <1>1, <1>8, <1>12 DEF Inserts
  <1>26. cur' \in inserted' /\ cur'[2][1] = n[1]
    BY <1>4, <1>8, <1>13
  <1>27. CallReady(f)
    BY <1>1, <1>10, <1>12, <1>23, <1>24, <1>25, <1>26 DEF CallReady
  <1> QED
    BY <1>22, <1>27, CallInv

LEMMA GenForNextInv ==
  ASSUME ast \in Programs, GenInv, GenForNext
  PROVE  GenInv'
  <1>1. PICK n : n = Top.node
    OBVIOUS
  <1>2. PICK next : next = <<"next-for", n>>
    OBVIOUS
  <1>3. /\ phase = "gen" /\ frames # <<>> /\ ast[n].kind = "for" /\ Top.step = 3
        /\ inserted' = inserted \cup {next}
        /\ code' = Emit(code, cur, Br(next))
        /\ cur' = next
        /\ CallGen(Top, Kid(n, 3))
        /\ UNCHANGED <<ast, target, phase, parentbb>>
    BY <1>1, <1>2 DEF GenForNext, At, Keep
  <1>4. /\ n \in DOMAIN ast /\ Top \in FrameType /\ FrameHolds(ast, inserted, Top)
    BY <1>1, <1>3, TopFrame, TopHolds DEF GenInv
  <1>5. cur \in inserted /\ cur \in Blocks(ast) /\ cur[2][1] = n[1] /\ n # Root
    BY <1>1, <1>3, InnerTop
  <1>6. Top.step \in DOMAIN Turns(ast, n) /\ NextKid = Kid(n, 3)
    <2>1. Turns(ast, n) = <<1, 4, 3>>
      BY <1>3, <1>4, TurnsAreChildren
    <2> QED
      BY <1>1, <1>3, <2>1 DEF NextKid
  <1>7. PICK f : Calls(f) /\ f.node = n /\ f.step = 4
    BY <1>1, <1>3, <1>4, <1>6, CallGenCalls
  <1>8. next \in Blocks(ast) /\ next \in inserted' /\ next[1] # "entry" /\ next[2][1] = n[1]
    BY <1>2, <1>3, <1>4, RolesOf
  <1>9. inserted \subseteq inserted' /\ inserted' \subseteq Blocks(ast)
    BY <1>3, <1>8 DEF GenInv
  <1>10. Built(code') /\ code'[cur] # <<>>
    <2>1. Br(next) \in Instr /\ To(Br(next)) = {next}
      BY <1>8 DEF Instr, To, Br
    <2>2. Grows(code, code', cur, {next})
      BY <1>3, <1>5, <2>1, Appends DEF GenInv, Codes
    <2>3. cur \in inserted' /\ MayBranch(ast', inserted', frames', cur, next)
      BY <1>3, <1>5, <1>8, <1>9 DEF MayBranch
    <2> QED
      BY <1>5, <2>2, <2>3, WriteCur
  <1>11. StepKeeps
    BY <1>3, <1>8, <1>9, <1>10, ParentsStay, BuiltIsStep DEF StepKeeps
  <1>12. \A b \in inserted' : code'[b] = <<>> /\ Handled(b) => b = cur'
    <2> SUFFICES ASSUME NEW b \in inserted', code'[b] = <<>>, Handled(b) PROVE b = cur'
      OBVIOUS
    <2>1. ~ Fills(ast, Top, b)
      BY <1>1, <1>3 DEF Fills
    <2> QED
      BY <1>3, <1>10, <2>1 DEF Handled
  <1>13. FrameHolds(ast', inserted', f)
    BY <1>1, <1>2, <1>3, <1>4, <1>7, <1>9 DEF FrameHolds
  <1>14. \A x : Inserts(ast, Top, x) => x \in inserted' \/ Inserts(ast', f, x)
    BY <1>1, <1>2, <1>3, <1>7, <1>8 DEF Inserts
  <1>15. CallReady(f)
    BY <1>1, <1>3, <1>5, <1>7, <1>8, <1>12, <1>13, <1>14 DEF CallReady
  <1> QED
    BY <1>11, <1>15, CallInv

LEMMA EndForInv ==
  ASSUME ast \in Programs, GenInv, EndFor
  PROVE  GenInv'
  <1>1. PICK n : n = Top.node
    OBVIOUS
  <1>2. PICK header : header = <<"for-header", n>>
    OBVIOUS
  <1>3. PICK merge : merge = <<"merge-for", n>>
    OBVIOUS
  <1>4. /\ phase = "gen" /\ frames # <<>> /\ ast[n].kind = "for" /\ Top.step = 4
        /\ code' = Emit(code, cur, Br(header))
        /\ cur' = merge /\ inserted' = inserted \cup {merge}
        /\ frames' = Front(frames)
        /\ UNCHANGED <<ast, target, phase, parentbb>>
    BY <1>1, <1>2, <1>3 DEF EndFor, At, Return, Keep
  <1>5. n \in DOMAIN ast /\ FrameHolds(ast, inserted, Top)
    BY <1>1, <1>4, TopFrame, TopHolds DEF GenInv
  <1>6. cur \in inserted /\ cur \in Blocks(ast) /\ cur[2][1] = n[1] /\ Len(n) >= 3
    BY <1>1, <1>4, InnerTop
  <1>7. Returns
    <2>1. Turns(ast, n) = <<1, 4, 3>>
      BY <1>4, <1>5, TurnsAreChildren
    <2> QED
      BY <1>1, <1>4, <2>1 DEF Returns
  <1>8. merge \in Blocks(ast) /\ merge \in inserted' /\ merge[2][1] = n[1]
    BY <1>3, <1>4, <1>5, RolesOf
  <1>9. inserted \subseteq inserted' /\ inserted' \subseteq Blocks(ast)
    BY <1>4, <1>8 DEF GenInv
  <1>10. header \in inserted /\ header[1] # "entry" /\ header[2][1] = n[1]
    BY <1>1, <1>2, <1>4, <1>5 DEF FrameHolds
  <1>11. Built(code') /\ code'[cur] # <<>>
    <2>1. Br(header) \in Instr /\ To(Br(header)) = {header}
      BY <1>9, <1>10 DEF Instr, To, Br
    <2>2. Grows(code, code', cur, {header})
      BY <1>4, <1>6, <2>1, Appends DEF GenInv, Codes
    <2>3. cur \in inserted' /\ MayBranch(ast', inserted', frames', cur, header)
      BY <1>4, <1>6, <1>9, <1>10 DEF MayBranch
    <2> QED
      BY <1>6, <2>2, <2>3, WriteCur
  <1>12. StepKeeps
    BY <1>4, <1>8, <1>9, <1>11, ParentsStay, BuiltIsStep DEF StepKeeps
  <1>13. ReturnReady
    <2>1. \A x \in inserted' : code'[x] = <<>> /\ Handled(x) => x = cur'
      <3> SUFFICES ASSUME NEW x \in inserted', code'[x] = <<>>, Handled(x) PROVE x = cur'
        OBVIOUS
      <3>1. ~ Fills(ast, Top, x)
        BY <1>1, <1>4 DEF Fills
      <3> QED
        BY <1>4, <1>11, <3>1 DEF Handled
    <2>2. \A x : Inserts(ast, Top, x) => x \in inserted'
      BY <1>1, <1>3, <1>4, <1>8 DEF Inserts
    <2> QED
      BY <1>1, <1>4, <1>6, <1>7, <1>8, <2>1, <2>2
      DEF ReturnReady, Jumps, JumpKinds, OfKind
  <1> QED
    BY <1>12, <1>13, ReturnInv

(* While.                                                                  *)
LEMMA GenWhileBodyInv ==
  ASSUME ast \in Programs, GenInv, GenWhileBody
  PROVE  GenInv'
  <1>1. PICK n : n = Top.node
    OBVIOUS
  <1>2. PICK b : b = cur
    OBVIOUS
  <1>3. PICK cond : cond = <<"while-cond", n>>
    OBVIOUS
  <1>4. PICK body : body = <<"while-body", n>>
    OBVIOUS
  <1>5. PICK merge : merge = <<"while-merge", n>>
    OBVIOUS
  <1>6. PICK c : c = Emit(code, b, Br(cond))
    OBVIOUS
  <1>7. PICK d : d = Emit(c, cond, Eval(Kid(n, 1)))
    OBVIOUS
  <1>8. /\ phase = "gen" /\ frames # <<>> /\ ast[n].kind = "while" /\ Top.step = 1
        /\ inserted' = inserted \cup {body, cond, merge}
        /\ code' = Emit(d, cond, CondBr(body, merge))
        /\ cur' = body
        /\ CallGen(Top, Kid(n, 2))
        /\ UNCHANGED <<ast, target, phase, parentbb>>
    BY <1>1, <1>2, <1>3, <1>4, <1>5, <1>6, <1>7 DEF GenWhileBody, At, Keep
  <1>9. n \in DOMAIN ast /\ n \in Seq(Nat) /\ Top \in FrameType
    BY <1>1, <1>8, TopFrame, ProgramsAreTrees, TreePositions DEF GenInv
  <1>10. b \in inserted /\ b[2][1] = n[1] /\ n # Root
    BY <1>1, <1>2, <1>8, InnerTop
  <1>11. Top.step \in DOMAIN Turns(ast, n) /\ NextKid = Kid(n, 2)
    <2>1. Turns(ast, n) = <<2>>
      BY <1>8, <1>9, TurnsAreChildren
    <2> QED
      BY <1>1, <1>8, <2>1 DEF NextKid
  <1>12. PICK f : Calls(f) /\ f.node = n /\ f.step = 2
    BY <1>1, <1>8, <1>9, <1>11, CallGenCalls
  <1>13. cond \in Blocks(ast) /\ body \in Blocks(ast) /\ merge \in Blocks(ast)
    BY <1>3, <1>4, <1>5, <1>8, <1>9, RolesOf
  <1>14. inserted \subseteq inserted' /\ inserted' \subseteq Blocks(ast)
    BY <1>8, <1>13 DEF GenInv
  <1>15. ASSUME NEW x, x[2][1] = n[1]
         PROVE  /\ MayBranch(ast', inserted', frames', x, cond)
                /\ MayBranch(ast', inserted', frames', x, body)
                /\ MayBranch(ast', inserted', frames', x, merge)
    BY <1>3, <1>4, <1>5, <1>8, <1>13, <1>15 DEF MayBranch
  <1>16. cond[2][1] = n[1] /\ cond \in inserted'
    BY <1>3, <1>8
  <1>17. Built(c) /\ c \in Codes /\ c[b] # <<>>
    <2>1. Br(cond) \in Instr /\ To(Br(cond)) = {cond}
      BY <1>13 DEF Instr, To, Br
    <2>2. Grows(code, c, b, {cond})
      BY <1>6, <1>10, <1>14, <2>1, Appends DEF GenInv, Codes
    <2>3. PICK k : k = code
      OBVIOUS
    <2>4. Built(k) /\ Grows(k, c, b, {cond})
      BY <2>2, <2>3, BuildNothing
    <2>5. b \in Blocks(ast) /\ b \in inserted' /\ MayBranch(ast', inserted', frames', b, cond)
      BY <1>10, <1>14, <1>15
    <2> QED
      BY <2>4, <2>5, BuildMore
  <1>18. Built(d) /\ d \in Codes /\ d[b] # <<>>
    <2>1. Eval(Kid(n, 1)) \in Instr /\ To(Eval(Kid(n, 1))) = {}
      <3>1. Kid(n, 1) \in Seq(Nat)
        BY <1>9 DEF Kid
      <3> QED
        BY <3>1 DEF Instr, To, Eval
    <2>2. PICK T : T = {}
      OBVIOUS
    <2>3. Grows(c, d, cond, T)
      BY <1>7, <1>13, <1>17, <2>1, <2>2, Appends
    <2>4. \A x \in T : MayBranch(ast', inserted', frames', cond, x)
      BY <2>2
    <2>5. Built(d) /\ d \in Codes /\ \A x \in Blocks(ast) : c[x] # <<>> => d[x] # <<>>
      BY <1>13, <1>16, <1>17, <2>3, <2>4, BuildMore
    <2> QED
      BY <1>10, <1>14, <1>17, <2>5
  <1>19. Built(code') /\ code'[b] # <<>> /\ code'[cond] # <<>>
    <2>1. CondBr(body, merge) \in Instr /\ To(CondBr(body, merge)) = {body, merge}
      BY <1>13 DEF Instr, To, CondBr
    <2>2. PICK T : T = {body, merge}
      OBVIOUS
    <2>3. Grows(d, code', cond, T)
      <3>1. PICK k : k = code'
        OBVIOUS
      <3>2. Grows(d, k, cond, T)
        BY <1>8, <1>13, <1>18, <2>1, <2>2, <3>1, Appends
      <3> QED
        BY <3>1, <3>2
    <2>4. \A x \in T : MayBranch(ast', inserted', frames', cond, x)
      BY <1>15, <1>16, <2>2
    <2>5. /\ Built(code') /\ code'[cond] # <<>>
          /\ \A x \in Blocks(ast) : d[x] # <<>> => code'[x] # <<>>
      BY <1>13, <1>16, <1>18, <2>3, <2>4, WriteLast
    <2> QED
      BY <1>10, <1>14, <1>18, <2>5
  <1>20. StepKeeps
    BY <1>8, <1>13, <1>14, <1>19, ParentsStay, BuiltIsStep DEF StepKeeps
  <1>21. \A x \in inserted' : code'[x] = <<>> /\ Handled(x) => x = cur' \/ Fills(ast', f, x)
    <2> SUFFICES ASSUME NEW x \in inserted', code'[x] = <<>>, Handled(x)
                 PROVE  x = cur' \/ Fills(ast', f, x)
      OBVIOUS
    <2>1. ~ Fills(ast, Top, x)
      BY <1>1, <1>8 DEF Fills
    <2>2. Fills(ast', f, merge)
      BY <1>5, <1>8, <1>12 DEF Fills
    <2> QED
      BY <1>2, <1>8, <1>19, <2>1, <2>2 DEF Handled
  <1>22. FrameHolds(ast', inserted', f)
    BY <1>3, <1>4, <1>5, <1>8, <1>12 DEF FrameHolds
  <1>23. \A x : ~ Inserts(ast, Top, x)
    BY <1>1, <1>8 DEF Inserts
  <1>24. cur' \in inserted' /\ cur'[2][1] = n[1]
    BY <1>4, <1>8
  <1>25. CallReady(f)
    BY <1>1, <1>10, <1>12, <1>21, <1>22, <1>23, <1>24 DEF CallReady
  <1> QED
    BY <1>20, <1>25, CallInv

LEMMA EndWhileInv ==
  ASSUME ast \in Programs, GenInv, EndWhile
  PROVE  GenInv'
  <1>1. PICK n : n = Top.node
    OBVIOUS
  <1>2. PICK cond : cond = <<"while-cond", n>>
    OBVIOUS
  <1>3. PICK merge : merge = <<"while-merge", n>>
    OBVIOUS
  <1>4. /\ phase = "gen" /\ frames # <<>> /\ ast[n].kind = "while" /\ Top.step = 2
        /\ code' = Emit(code, cur, Br(cond))
        /\ cur' = merge
        /\ frames' = Front(frames)
        /\ UNCHANGED <<ast, target, phase, inserted, parentbb>>
    BY <1>1, <1>2, <1>3 DEF EndWhile, At, Return, Keep
  <1>5. n \in DOMAIN ast /\ FrameHolds(ast, inserted, Top) /\ inserted \subseteq Blocks(ast)
    BY <1>1, <1>4, TopFrame, TopHolds DEF GenInv
  <1>6. cur \in inserted /\ cur \in Blocks(ast) /\ cur[2][1] = n[1] /\ Len(n) >= 3
    BY <1>1, <1>4, InnerTop
  <1>7. Returns
    <2>1. Turns(ast, n) = <<2>>
      BY <1>4, <1>5, TurnsAreChildren
    <2> QED
      BY <1>1, <1>4, <2>1 DEF Returns
  <1>8. /\ cond \in inserted /\ cond[1] # "entry" /\ cond[2][1] = n[1]
        /\ merge \in inserted /\ merge[2][1] = n[1]
    BY <1>1, <1>2, <1>3, <1>4, <1>5 DEF FrameHolds
  <1>9. Built(code') /\ code'[cur] # <<>>
    <2>1. Br(cond) \in Instr /\ To(Br(cond)) = {cond}
      BY <1>5, <1>8 DEF Instr, To, Br
    <2>2. Grows(code, code', cur, {cond})
      BY <1>4, <1>6, <2>1, Appends DEF GenInv, Codes
    <2>3. cur \in inserted' /\ MayBranch(ast', inserted', frames', cur, cond)
      BY <1>4, <1>5, <1>6, <1>8 DEF MayBranch
    <2> QED
      BY <1>6, <2>2, <2>3, WriteCur
  <1>10. StepKeeps
    BY <1>4, <1>5, <1>8, <1>9, ParentsStay, BuiltIsStep DEF StepKeeps
  <1>11. ReturnReady
    <2>1. \A x \in inserted' : code'[x] = <<>> /\ Handled(x) => x = cur'
      <3> SUFFICES ASSUME NEW x \in inserted', code'[x] = <<>>, Handled(x) PROVE x = cur'
        OBVIOUS
      <3>1. Fills(ast, Top, x) => x = merge
        BY <1>1, <1>3, <1>4 DEF Fills
      <3> QED
        BY <1>4, <1>9, <3>1 DEF Handled
    <2>2. \A x : ~ Inserts(ast, Top, x)
      BY <1>1, <1>4 DEF Inserts
    <2> QED
      BY <1>1, <1>4, <1>6, <1>7, <1>8, <2>1, <2>2
      DEF ReturnReady, Jumps, JumpKinds, OfKind
  <1> QED
    BY <1>10, <1>11, ReturnInv

(* Before the first call of gen and after the last.                        *)
LEMMA InitGenInv ==
  ASSUME Init
  PROVE  GenInv
  BY DEF Init, GenInv, FramesInv, CurInv, ParentsInv, FilledAreInserted, EmptyAreAwaited,
     TargetsInv, UnboundAreAhead, Targets, Range

LEMMA GenSame ==
  ASSUME GenInv, UNCHANGED <<ast, frames, cur, code, inserted, parentbb>>,
         UnboundAreAhead', phase' \in {"init", "generated"} => frames' = <<>>
  PROVE  GenInv'
  <1>1. FramesInv'
    <2>1. FrameType' = FrameType
      BY DEF FrameType, Blocks
    <2> QED
      BY <2>1 DEF GenInv, FramesInv
  <1>2. \A k \in DOMAIN frames' : FrameHolds(ast', inserted', frames'[k])
    BY DEF GenInv
  <1>3. CurInv'
    BY DEF GenInv, CurInv, Top
  <1>4. ParentsInv' /\ FilledAreInserted' /\ inserted' \subseteq Blocks(ast)'
    BY DEF GenInv, ParentsInv, FilledAreInserted
  <1>5. code' \in [Blocks(ast)' -> Seq(Instr)']
    BY DEF GenInv, Instr, Blocks
  <1>6. EmptyAreAwaited'
    BY DEF GenInv, EmptyAreAwaited
  <1>7. TargetsInv'
    BY DEF GenInv, TargetsInv
  <1> QED
    BY <1>1, <1>2, <1>3, <1>4, <1>5, <1>6, <1>7 DEF GenInv

LEMMA BindJumpsInv ==
  ASSUME GenInv, BindJumps, UNCHANGED ast
  PROVE  GenInv'
  <1>1. /\ phase' = "init" /\ frames' = <<>>
        /\ UNCHANGED <<phase, frames, cur, code, inserted, parentbb>>
    BY DEF BindJumps, genVars, GenInv
  <1>2. UnboundAreAhead'
    BY <1>1 DEF UnboundAreAhead
  <1> QED
    BY <1>1, <1>2, GenSame

LEMMA BeginGenInv ==
  ASSUME ast \in Programs, GenInv, BeginGen
  PROVE  GenInv'
  <1>1. /\ frames = <<>> /\ phase' = "gen" /\ frames' = <<Frame(Root)>>
        /\ UNCHANGED <<ast, target, cur, code, inserted, parentbb>>
    BY DEF BeginGen, Keep, GenInv
  <1>2. Root \in DOMAIN ast /\ Turns(ast, Root) \in Seq(1..ast[Root].arity) /\ Len(Root) = 0
    BY ProgramsAreTrees, TurnsAreChildren DEF IsTree, Root
  <1>3. Frame(Root) \in FrameType /\ Frame(Root).node = Root /\ Frame(Root).step = 1
    BY <1>2 DEF Frame, FrameType
  <1>4. PICK g : g = Frame(Root)
    OBVIOUS
  <1>5. frames' \in Seq(FrameType) /\ DOMAIN frames' = {1} /\ Len(frames') = 1 /\ frames'[1] = g
    BY <1>1, <1>3, <1>4
  <1>6. FramesInv'
    <2>1. FrameType' = FrameType
      BY <1>1 DEF FrameType, Blocks
    <2>2. Turns(ast', g.node) \in Seq(1..ast[Root].arity)
      BY <1>1, <1>2, <1>3, <1>4
    <2>3. g.step <= Len(Turns(ast', g.node)) + 1 /\ Len(g.node) = 1 - 1
      BY <1>2, <1>3, <1>4, <2>2, LenProperties
    <2> QED
      BY <1>5, <2>1, <2>3 DEF FramesInv
  <1>7. \A k \in DOMAIN frames' : FrameHolds(ast', inserted', frames'[k])
    <2>1. FrameHolds(ast', inserted', g)
      BY <1>3, <1>4 DEF FrameHolds
    <2> QED
      BY <1>5, <2>1
  <1>8. CurInv' /\ ParentsInv' /\ FilledAreInserted' /\ inserted' \subseteq Blocks(ast)'
    <2>1. CurInv'
      BY <1>1, <1>5 DEF GenInv, CurInv
    <2> QED
      BY <1>1, <2>1 DEF GenInv, ParentsInv, FilledAreInserted
  <1>9. code' \in [Blocks(ast)' -> Seq(Instr)']
    BY <1>1 DEF GenInv, Instr, Blocks
  <1>10. EmptyAreAwaited' /\ TargetsInv'
    BY <1>1 DEF GenInv, EmptyAreAwaited, TargetsInv, MayBranch
  <1>11. UnboundAreAhead'
    <2> SUFFICES ASSUME NEW j \in Jumps(ast) PROVE Awaits(ast', g, j)
      BY <1>1, <1>5 DEF UnboundAreAhead
    <2>1. IsStrictPrefix(Root, j)
      <3>1. j \in DOMAIN ast /\ j # Root /\ j \in Seq(Nat)
        BY ProgramsAreTrees, TreePositions, FunctionsMakeTheProgram DEF Jumps, JumpKinds, OfKind
      <3>2. IsPrefix(Root, j)
        BY <3>1 DEF IsPrefix, Root
      <3> QED
        BY <3>1, <3>2 DEF IsStrictPrefix
    <2>2. PICK i \in DOMAIN Turns(ast, Root) : IsPrefix(Kid(Root, Turns(ast, Root)[i]), j)
      BY <1>2, <2>1, JumpBelowTurn
    <2>3. i >= 1
      BY <1>2, <2>2
    <2> QED
      BY <1>1, <1>3, <1>4, <2>2, <2>3 DEF Awaits
  <1> QED
    BY <1>1, <1>6, <1>7, <1>8, <1>9, <1>10, <1>11 DEF GenInv

LEMMA EndGenInv ==
  ASSUME GenInv, EndGen
  PROVE  GenInv'
  <1>1. /\ phase = "gen" /\ frames' = <<>>
        /\ UNCHANGED <<ast, target, frames, cur, code, inserted, parentbb>>
    BY DEF EndGen, Keep
  <1>2. UnboundAreAhead'
    BY <1>1 DEF GenInv, UnboundAreAhead
  <1> QED
    BY <1>1, <1>2, GenSame

LEMMA StrayJumpInv ==
  ASSUME GenInv, StrayJump
  PROVE  GenInv'
  <1>1. /\ phase' = "failed"
        /\ UNCHANGED <<ast, target, frames, cur, code, inserted, parentbb>>
    BY DEF StrayJump, Keep
  <1>2. UnboundAreAhead'
    BY <1>1 DEF UnboundAreAhead
  <1> QED
    BY <1>1, <1>2, GenSame

LEMMA GenInvariance == Spec => []GenInv
  <1>1. Init => GenInv
    BY InitGenInv
  <1>2. BindingInv /\ PhaseInv /\ GenInv /\ [Next]_vars => GenInv'
    <2> SUFFICES ASSUME BindingInv, PhaseInv, GenInv, [Next]_vars PROVE GenInv'
      OBVIOUS
    <2>0. ast \in Programs
      BY DEF BindingInv
    <2>1. ASSUME BindJumps PROVE GenInv'
      <3>1. UNCHANGED ast
        BY <2>1 DEF BindJumps, BindingNext, Expand, InitLoop, InitOther, CallBack
      <3> QED
        BY <2>1, <3>1, BindJumpsInv
    <2>2. ASSUME GenJump PROVE GenInv'
      <3>1. stack = <<>>
        BY <2>2 DEF GenJump, PhaseInv
      <3>2. JumpsBindInnermost
        BY InvMeansInnermost
      <3> QED
        BY <2>0, <2>2, <3>1, <3>2, GenJumpInv
    <2>3. BeginGen \/ EndGen \/ StrayJump => GenInv'
      BY <2>0, BeginGenInv, EndGenInv, StrayJumpInv
    <2>4. GenChildren \/ GenFunction \/ EndFunction \/ GenBlock \/ EndBlock => GenInv'
      BY <2>0, GenChildrenInv, GenFunctionInv, EndFunctionInv, GenBlockInv, EndBlockInv
    <2>5. GenExpression \/ GenRet \/ GenThen \/ GenElse \/ EndElse \/ EndThen => GenInv'
      BY <2>0, GenExpressionInv, GenRetInv, GenThenInv, GenElseInv, EndElseInv, EndThenInv
    <2>6. GenForInit \/ GenForBody \/ GenForNext \/ EndFor => GenInv'
      BY <2>0, GenForInitInv, GenForBodyInv, GenForNextInv, EndForInv
    <2>7. GenWhileBody \/ EndWhile => GenInv'
      BY <2>0, GenWhileBodyInv, EndWhileInv
    <2>8. Stop \/ UNCHANGED vars => GenInv'
      <3> SUFFICES ASSUME UNCHANGED vars PROVE GenInv'
        BY DEF Stop
      <3>1. UNCHANGED <<ast, target, phase, frames, cur, code, inserted, parentbb>>
        BY DEF vars, genVars
      <3>2. UnboundAreAhead' /\ (phase' \in {"init", "generated"} => frames' = <<>>)
        BY <3>1 DEF GenInv, UnboundAreAhead
      <3> QED
        BY <3>1, <3>2, GenSame
    <2> QED
      BY <2>1, <2>2, <2>3, <2>4, <2>5, <2>6, <2>7, <2>8 DEF Next, GenStep
  <1> QED
    BY <1>1, <1>2, CodeGenImplementsBinding, BindingInvariance, PhaseInvariance, PTL DEF Spec

LEMMA FirstPrefix ==
  ASSUME NEW p \in Seq(Nat), NEW q \in Seq(Nat), Len(p) = 1, q # <<>>
  PROVE  IsPrefix(p, q) <=> p[1] = q[1]
  <1>1. Len(q) >= 1
    OBVIOUS
  <1>2. ASSUME NEW s \in Seq(Nat), Len(s) >= 1
        PROVE  SubSeq(s, 1, 1) \in Seq(Nat) /\ Len(SubSeq(s, 1, 1)) = 1 /\ SubSeq(s, 1, 1)[1] = s[1]
    <2>1. \A i \in 1..1 : s[i] \in Nat
      BY <1>2
    <2>2. /\ SubSeq(s, 1, 1) \in Seq(Nat)
          /\ Len(SubSeq(s, 1, 1)) = IF 1 <= 1 THEN 1 - 1 + 1 ELSE 0
          /\ \A i \in 1..(1 - 1 + 1) : SubSeq(s, 1, 1)[i] = s[1 + i - 1]
      BY <2>1, SubSeqProperties
    <2>3. 1 \in 1..(1 - 1 + 1) /\ 1 + 1 - 1 = 1
      OBVIOUS
    <2> QED
      BY <2>2, <2>3
  <1>3. SubSeq(p, 1, 1) = SubSeq(q, 1, 1) <=> p[1] = q[1]
    <2>1. \A s, t \in Seq(Nat) : Len(s) = 1 /\ Len(t) = 1 /\ s[1] = t[1] => s = t
      OBVIOUS
    <2> QED
      BY <1>1, <1>2, <2>1
  <1> QED
    BY <1>1, <1>3 DEF IsPrefix

(***************************************************************************)
(* The types of the program's state.                                       *)
(***************************************************************************)
THEOREM GenTypeCorrect == Spec => []TypeOK
  <1>1. BindingInv /\ PhaseInv /\ GenInv => TypeOK
    <2> SUFFICES ASSUME BindingInv, PhaseInv, GenInv PROVE TypeOK
      OBVIOUS
    <2>1. parentbb \in [Rets(ast) -> Blocks(ast) \cup {Null}]
      BY DEF GenInv, ParentsInv
    <2>2. cur \in Blocks(ast) \cup {Null} /\ inserted \subseteq Blocks(ast)
      BY DEF GenInv, CurInv
    <2>3. \A k \in DOMAIN frames : frames[k].node \in DOMAIN ast
      <3>1. \A k \in DOMAIN frames : frames[k] \in FrameType
        BY DEF GenInv, FramesInv
      <3> QED
        BY <3>1 DEF FrameType
    <2>4. DOMAIN code = Blocks(ast)
      BY DEF GenInv
    <2> QED
      BY <2>1, <2>2, <2>3, <2>4 DEF TypeOK, BindingInv, PhaseInv
  <1> QED
    BY <1>1, CodeGenImplementsBinding, BindingInvariance, PhaseInvariance, GenInvariance, PTL

(***************************************************************************)
(* A jump with no loop around it is always reported: generation does not   *)
(* end without having come to it.                                          *)
(***************************************************************************)
THEOREM StrayJumpsReported == Spec => []StrayJumpsAreReported
  <1>1. BindingInv /\ PhaseInv /\ GenInv /\ ReportsAreTrue => StrayJumpsAreReported
    <2> SUFFICES ASSUME BindingInv, PhaseInv, GenInv, phase = "generated",
                        NEW j \in Jumps(ast)
                 PROVE  LoopsAround(ast, j) # {}
      BY DEF StrayJumpsAreReported
    <2>1. frames = <<>> /\ stack = <<>>
      BY DEF GenInv, PhaseInv
    <2>2. target[j] # Null
      BY <2>1 DEF GenInv, UnboundAreAhead
    <2>3. JumpsBindInnermost
      BY InvMeansInnermost
    <2> QED
      BY <2>1, <2>2, <2>3 DEF JumpsBindInnermost
  <1> QED
    BY <1>1, CodeGenImplementsBinding, BindingInvariance, PhaseInvariance, GenInvariance,
       OnlyStrayJumpsFail, PTL

(***************************************************************************)
(* Every branch of a generated module goes to a block that was inserted    *)
(* into the function it comes from, and not to that function's entry.      *)
(***************************************************************************)
THEOREM BranchesAreInserted == Spec => []TargetsAreInserted
  <1>1. BindingInv /\ GenInv => TargetsAreInserted
    <2> SUFFICES ASSUME BindingInv, GenInv, phase = "generated",
                        NEW b \in inserted, NEW c \in Targets(code[b])
                 PROVE  c \in inserted /\ c[1] # "entry" /\ FunctionOf(b) = FunctionOf(c)
      BY DEF TargetsAreInserted
    <2>1. frames = <<>> /\ ast \in Programs
      BY DEF GenInv, BindingInv
    <2>2. b \in Blocks(ast) /\ c \in Blocks(ast) /\ c \in inserted /\ c[1] # "entry"
          /\ c[2][1] = b[2][1]
      BY <2>1 DEF GenInv, TargetsInv, MayBranch
    <2>3. ASSUME NEW x \in Blocks(ast)
          PROVE  \A f \in Functions(ast) : IsPrefix(f, x[2]) <=> f[1] = x[2][1]
      <3>1. x[2] \in DOMAIN ast /\ ast[x[2]].kind \in DOMAIN Roles
        BY DEF Blocks, OfKind
      <3>2. x[2] # Root /\ x[2] \in Seq(Nat)
        BY <2>1, <3>1, FunctionsMakeTheProgram, ProgramsAreTrees, TreePositions DEF Roles
      <3>3. ASSUME NEW f \in Functions(ast)
            PROVE  f \in Seq(Nat) /\ Len(f) = 1
        BY <2>1, FunctionsMakeTheProgram, ProgramsAreTrees, TreePositions DEF Functions, OfKind
      <3> QED
        BY <3>2, <3>3, FirstPrefix DEF Root
    <2>4. \A f : f \in Functions(ast) /\ IsPrefix(f, b[2])
                  <=> f \in Functions(ast) /\ IsPrefix(f, c[2])
      BY <2>2, <2>3
    <2> QED
      BY <2>2, <2>4 DEF FunctionOf
  <1> QED
    BY <1>1, CodeGenImplementsBinding, BindingInvariance, GenInvariance, PTL

(***************************************************************************)
(* No instruction is lost with a block that stays detached, and no block   *)
(* of a generated module is empty.                                         *)
(***************************************************************************)
THEOREM NothingLost == Spec => []NothingIsLost
  <1>1. GenInv => NothingIsLost
    <2> SUFFICES ASSUME GenInv, phase = "generated", NEW b \in Blocks(ast)
                 PROVE  code[b] # <<>> <=> b \in inserted
      BY DEF NothingIsLost
    <2>1. frames = <<>>
      BY DEF GenInv
    <2>2. cur \in inserted => code[cur] # <<>>
      BY <2>1 DEF GenInv, CurInv
    <2> QED
      BY <2>1, <2>2 DEF GenInv, FilledAreInserted, EmptyAreAwaited
  <1> QED
    BY <1>1, GenInvariance, PTL

-----------------------------------------------------------------------------
(***************************************************************************)
(* The terminators.                                                        *)
(***************************************************************************)

(* The rest of a statement writes to these blocks: those that it fills and *)
(* the block that an if started in.                                        *)
Holds(t, f, b) == Fills(t, f, b) \/ (t[f.node].kind = "if" /\ f.step >= 2 /\ b = f.origin)

(* Every frame but the last waits for the child it called last.            *)
FramesWait(t, fs) ==
  \A k \in DOMAIN fs : k < Len(fs) =>
    /\ fs[k].step - 1 \in DOMAIN Turns(t, fs[k].node)
    /\ fs[k + 1].node = Kid(fs[k].node, Turns(t, fs[k].node)[fs[k].step - 1])

(* The blocks that f has inserted.                                         *)
Reached(f, role) ==
  \/ role \in {"entry", "then", "for-header", "for-body",
               "while-cond", "while-body", "while-merge"} /\ f.step >= 2
  \/ role = "else" /\ f.step >= 3
  \/ role = "next-for" /\ f.step >= 4

(* Blocks of what is still to come are not inserted.                       *)
LaterBlocksWait(t, fs, ins) ==
  \A b \in ins : \A k \in DOMAIN fs :
    /\ ~ Awaits(t, fs[k], b[2])
    /\ fs[k].node = b[2] => Reached(fs[k], b[1])

(* No block is held twice, and none is the current one.                    *)
HoldsOf(t, f, c) ==
  /\ \A b \in Blocks(t) : Holds(t, f, b) => b # c
  /\ t[f.node].kind = "if" /\ f.step = 3 => f.origin # f.thenEnd

HeldApart(t, fs, c) ==
  \A k \in DOMAIN fs :
    /\ HoldsOf(t, fs[k], c)
    /\ \A l \in DOMAIN fs : \A b \in Blocks(t) :
         Holds(t, fs[k], b) /\ Holds(t, fs[l], b) => k = l

(* What is held can take an instruction; blocks of loops are empty.        *)
HeldIsOpen(t, co, f) ==
  LET n == f.node
      k == t[n].kind
  IN  /\ k = "if" /\ f.step >= 2 => ~ Terminated(co[f.origin])
      /\ k = "for" /\ f.step = 2 => co[<<"for-header", n>>] = <<>> /\ co[<<"for-body", n>>] = <<>>
      /\ k = "while" /\ f.step = 2 => co[<<"while-merge", n>>] = <<>>

(* Every other block inserted, the one being filled apart, is terminated.  *)
RestIsClosed(t, fs, ins, co, c) ==
  \A b \in ins :
    \/ Terminated(co[b])
    \/ b = c /\ Len(fs) >= 3
    \/ \E k \in DOMAIN fs : Holds(t, fs[k], b)

(* A terminator that something was added to.                               *)
Early(is) == \E k \in 1..(Len(is) - 1) : IsTerminator(is[k])

SomeEarly(t, co) == \E b \in Blocks(t) : Early(co[b])

(* That happens only if some jump does not end a then branch.              *)
EarlyIsBlamed(t, co) == SomeEarly(t, co) => \E j \in Jumps(t) : ~ EndsThenBranch(t, j)

(* The children that the frame at place k has generated.                   *)
DoneKids(fs, k) == IF k < Len(fs) THEN fs[k].step - 2 ELSE fs[k].step - 1

(* All that the frame at place k has generated is nothing.                 *)
SilentFrom(t, fs, k, m) ==
  \A i \in m..DoneKids(fs, k) : GeneratesNothing(t, Kid(fs[k].node, Turns(t, fs[k].node)[i]))

(* The frame at place k has emitted nothing itself, nor have its children. *)
Quiet(t, fs, k) ==
  /\ \/ fs[k].step = 1
     \/ t[fs[k].node].kind = "compound"
     \/ t[fs[k].node].kind = "for" /\ fs[k].step = 2
  /\ SilentFrom(t, fs, k, 1)

(* j is in the m-th child that the frame at place k has generated, at its  *)
(* end, and nothing was generated since.                                   *)
OpenAt(t, fs, j, k, m) ==
  LET q == fs[k].node
      c == Kid(q, Turns(t, q)[m])
  IN  /\ m \in 1..DoneKids(fs, k)
      /\ IsPrefix(c, j) /\ Ends(t, j, c)
      /\ SilentFrom(t, fs, k, m + 1)
      /\ t[q].kind \in {"compound", "block"} \/ (k = Len(fs) /\ m = DoneKids(fs, k))
      /\ \A l \in DOMAIN fs : l > k => Quiet(t, fs, l)

(* j ends what a frame has generated, and nothing was emitted since.       *)
Open(t, fs, j) == \E k \in DOMAIN fs : \E m \in DOMAIN Turns(t, fs[k].node) : OpenAt(t, fs, j, k, m)

(* A block under construction ends in a terminator only after a jump.      *)
CurIsBlamed(t, fs, co, c) ==
  Len(fs) >= 3 /\ Terminated(co[c]) => \E j \in Jumps(t) : Open(t, fs, j)

(* j is neither being generated nor still to come.                         *)
Passed(t, fs, j) == \A k \in DOMAIN fs : fs[k].node # j /\ ~ Awaits(t, fs[k], j)

(* A jump generated so far either spoilt a block, or ends a then branch,   *)
(* or was the last to write to the current block.                          *)
PassedAreTold(t, fs, co, c) ==
  \A j \in Jumps(t) : Passed(t, fs, j) =>
    \/ SomeEarly(t, co)
    \/ EndsThenBranch(t, j)
    \/ Len(fs) >= 3 /\ Terminated(co[c]) /\ Open(t, fs, j)

BlockInv ==
  /\ FramesWait(ast, frames)
  /\ LaterBlocksWait(ast, frames, inserted)
  /\ HeldApart(ast, frames, cur)
  /\ \A k \in DOMAIN frames : HeldIsOpen(ast, code, frames[k])
  /\ RestIsClosed(ast, frames, inserted, code, cur)
  /\ EarlyIsBlamed(ast, code)
  /\ CurIsBlamed(ast, frames, code, cur)
  /\ IF phase = "init" THEN inserted = {} ELSE PassedAreTold(ast, frames, code, cur)

(***************************************************************************)
(* Facts about trees and frames.                                           *)
(***************************************************************************)
LEMMA TurnsDiffer ==
  ASSUME ast \in Programs, NEW n \in DOMAIN ast,
         NEW i \in DOMAIN Turns(ast, n), NEW j \in DOMAIN Turns(ast, n),
         Turns(ast, n)[i] = Turns(ast, n)[j]
  PROVE  i = j
  <1> DEFINE a == ast[n].arity
             k == ast[n].kind
  <1>1. CASE k \in {"program", "compound", "block"}
    BY <1>1 DEF Turns
  <1>2. CASE k = "function" \/ k = "while"
    BY <1>2 DEF Turns
  <1>3. CASE k = "if"
    <2>1. Turns(ast, n) = [x \in 1..(a - 1) |-> x + 1] /\ a \in {2, 3}
      BY <1>3, StatementsAreWhole DEF Turns, OfKind
    <2> QED
      BY <2>1
  <1>4. CASE k = "for"
    BY <1>4 DEF Turns
  <1>5. CASE k \notin {"program", "compound", "block", "function", "if", "for", "while"}
    BY <1>5 DEF Turns
  <1> QED
    BY <1>1, <1>2, <1>3, <1>4, <1>5

LEMMA TurnIsChild ==
  ASSUME ast \in Programs, NEW n \in DOMAIN ast, NEW i \in DOMAIN Turns(ast, n)
  PROVE  /\ Turns(ast, n)[i] \in 1..ast[n].arity /\ ast[n].arity \in Nat
         /\ i \in 1..Len(Turns(ast, n)) /\ Len(Turns(ast, n)) \in Nat
         /\ Kid(n, Turns(ast, n)[i]) \in DOMAIN ast
         /\ IsStrictPrefix(n, Kid(n, Turns(ast, n)[i]))
         /\ Len(Kid(n, Turns(ast, n)[i])) = Len(n) + 1
  <1>1. IsTree(ast) /\ n \in Seq(Nat) /\ ast[n].arity \in Nat
    BY ProgramsAreTrees, TreePositions
  <1>2. Turns(ast, n) \in Seq(1..ast[n].arity)
    BY TurnsAreChildren
  <1>3. i \in 1..Len(Turns(ast, n)) /\ Len(Turns(ast, n)) \in Nat
    BY <1>2
  <1>4. Turns(ast, n)[i] \in 1..ast[n].arity
    BY <1>2, <1>3, ElementOfSeq
  <1>5. PICK x : x = Turns(ast, n)[i]
    OBVIOUS
  <1>6. Kid(n, x) \in DOMAIN ast
    BY <1>1, <1>4, <1>5 DEF IsTree, Kid
  <1>7. IsStrictPrefix(n, Kid(n, x)) /\ Len(Kid(n, x)) = Len(n) + 1
    BY <1>1, <1>4, <1>5, ChildBelow DEF Kid
  <1> QED
    BY <1>1, <1>3, <1>4, <1>5, <1>6, <1>7

(* Two turns above one node are the same.                                  *)
LEMMA SameTurn ==
  ASSUME ast \in Programs, NEW n \in DOMAIN ast, NEW x \in DOMAIN ast,
         NEW i \in DOMAIN Turns(ast, n), NEW j \in DOMAIN Turns(ast, n),
         IsPrefix(Kid(n, Turns(ast, n)[i]), x), IsPrefix(Kid(n, Turns(ast, n)[j]), x)
  PROVE  i = j
  <1>1. IsTree(ast) /\ n \in Seq(Nat) /\ x \in Seq(Nat)
    BY ProgramsAreTrees, TreePositions
  <1>2. PICK a : a = Turns(ast, n)[i]
    OBVIOUS
  <1>3. PICK b : b = Turns(ast, n)[j]
    OBVIOUS
  <1>4. a \in Nat /\ b \in Nat /\ Kid(n, a) \in DOMAIN ast /\ Kid(n, b) \in DOMAIN ast
        /\ Len(Kid(n, a)) = Len(n) + 1 /\ Len(Kid(n, b)) = Len(n) + 1
    BY <1>2, <1>3, TurnIsChild
  <1>5. Kid(n, a) \in Seq(Nat) /\ Kid(n, b) \in Seq(Nat)
    BY <1>1, <1>4, TreePositions
  <1>6. Kid(n, a)[Len(n) + 1] = a /\ Kid(n, b)[Len(n) + 1] = b
    BY <1>1, <1>4, ChildParts DEF Kid
  <1>7. Len(n) + 1 \in 1..(Len(n) + 1)
    BY <1>1, LenProperties
  <1>8. Kid(n, a)[Len(n) + 1] = x[Len(n) + 1]
    BY <1>1, <1>2, <1>4, <1>5, <1>7, PrefixEntry
  <1>9. Kid(n, b)[Len(n) + 1] = x[Len(n) + 1]
    BY <1>1, <1>3, <1>4, <1>5, <1>7, PrefixEntry
  <1> QED
    BY <1>2, <1>3, <1>6, <1>8, <1>9, TurnsDiffer

LEMMA FrameIn ==
  ASSUME ast \in Programs, GenInv, NEW k \in DOMAIN frames
  PROVE  /\ DOMAIN frames = 1..Len(frames) /\ Len(frames) \in Nat \ {0} /\ k \in 1..Len(frames)
         /\ frames[k] \in FrameType /\ frames[k].node \in DOMAIN ast
         /\ frames[k].node \in Seq(Nat) /\ frames[k].step \in Nat \ {0}
         /\ Len(frames[k].node) = k - 1
         /\ frames[k].step <= Len(Turns(ast, frames[k].node)) + 1
         /\ Len(Turns(ast, frames[k].node)) \in Nat
         /\ FrameHolds(ast, inserted, frames[k])
         /\ frames # <<>>
  <1>1. /\ frames \in Seq(FrameType) /\ DOMAIN frames = 1..Len(frames)
        /\ Len(frames) \in Nat
    BY DEF GenInv, FramesInv
  <1>2. frames[k] \in FrameType /\ k \in 1..Len(frames)
    BY <1>1, ElementOfSeq
  <1>3. frames[k].node \in DOMAIN ast /\ frames[k].step \in Nat \ {0}
    BY <1>2 DEF FrameType
  <1>4. frames[k].node \in Seq(Nat)
    BY <1>3, ProgramsAreTrees, TreePositions
  <1>5. Len(Turns(ast, frames[k].node)) \in Nat
    BY <1>3, TurnsAreChildren, LenProperties
  <1>6. /\ Len(frames[k].node) = k - 1 /\ FrameHolds(ast, inserted, frames[k])
        /\ frames[k].step <= Len(Turns(ast, frames[k].node)) + 1
    BY DEF GenInv, FramesInv
  <1>7. Len(frames) # 0 /\ frames # <<>>
    BY <1>1, <1>2
  <1> QED
    BY <1>1, <1>2, <1>3, <1>4, <1>5, <1>6, <1>7

(* The place of the top frame.                                             *)
LEMMA TopIn ==
  ASSUME ast \in Programs, GenInv, frames # <<>>
  PROVE  /\ Len(frames) \in Nat \ {0} /\ Len(frames) \in DOMAIN frames
         /\ DOMAIN frames = 1..Len(frames)
         /\ Top = frames[Len(frames)]
  <1>1. Len(frames) \in Nat \ {0} /\ Top = frames[Len(frames)] /\ DOMAIN frames = 1..Len(frames)
    BY TopFrame DEF GenInv
  <1>2. PICK m \in Nat \ {0} : m = Len(frames)
    BY <1>1
  <1>3. m \in 1..m
    OBVIOUS
  <1> QED
    BY <1>1, <1>2, <1>3

(* A frame below the top one is at a node above the top one's.             *)
LEMMA FrameAbove ==
  ASSUME ast \in Programs, GenInv, NEW k \in DOMAIN frames, k < Len(frames)
  PROVE  /\ IsStrictPrefix(frames[k].node, Top.node) /\ frames[k].step > 1
         /\ k + 1 \in DOMAIN frames /\ IsPrefix(frames[k + 1].node, Top.node)
  <1>1. frames # <<>> /\ DOMAIN frames = 1..Len(frames) /\ Len(frames) \in Nat /\ k \in Nat
    BY FrameIn
  <1>2. Len(frames) \in DOMAIN frames /\ Top = frames[Len(frames)] /\ Top.node \in Seq(Nat)
    BY <1>1, TopIn, FrameIn
  <1>3. IsStrictPrefix(frames[k].node, Top.node) /\ frames[k].step > 1
    BY <1>2 DEF GenInv, FramesInv
  <1>4. PICK m \in Nat : m = Len(frames)
    BY <1>1
  <1>5. k + 1 \in 1..m /\ (k + 1 < m \/ k + 1 = m)
    BY <1>1, <1>4
  <1>6. CASE k + 1 < m
    <2>1. IsStrictPrefix(frames[k + 1].node, Top.node)
      BY <1>1, <1>2, <1>4, <1>5, <1>6 DEF GenInv, FramesInv
    <2> QED
      BY <1>1, <1>3, <1>4, <1>5, <2>1 DEF IsStrictPrefix
  <1>7. CASE k + 1 = m
    BY <1>1, <1>2, <1>3, <1>4, <1>5, <1>7, PrefixReflexive
  <1> QED
    BY <1>5, <1>6, <1>7

(* What is in progress is no longer to come.                               *)
LEMMA TopIsNotAwaited ==
  ASSUME ast \in Programs, GenInv, FramesWait(ast, frames),
         NEW k \in DOMAIN frames, k < Len(frames),
         NEW x \in DOMAIN ast, IsPrefix(Top.node, x)
  PROVE  ~ Awaits(ast, frames[k], x)
  <1> SUFFICES ASSUME Awaits(ast, frames[k], x) PROVE FALSE
    OBVIOUS
  <1>1. PICK n : n = frames[k].node
    OBVIOUS
  <1>2. PICK s \in Nat : s = frames[k].step
    BY FrameIn
  <1>3. n \in DOMAIN ast /\ Top.node \in Seq(Nat) /\ x \in Seq(Nat)
    BY <1>1, FrameIn, TopIn, ProgramsAreTrees, TreePositions
  <1>4. PICK i \in DOMAIN Turns(ast, n) : i >= s /\ IsPrefix(Kid(n, Turns(ast, n)[i]), x)
    BY <1>1, <1>2 DEF Awaits
  <1>5. s - 1 \in DOMAIN Turns(ast, n)
        /\ frames[k + 1].node = Kid(n, Turns(ast, n)[s - 1])
    BY <1>1, <1>2 DEF FramesWait
  <1>6. IsPrefix(frames[k + 1].node, Top.node) /\ frames[k + 1].node \in Seq(Nat)
    BY FrameAbove, FrameIn
  <1>7. IsPrefix(Kid(n, Turns(ast, n)[s - 1]), x)
    BY <1>3, <1>5, <1>6, PrefixTransitive
  <1>8. i = s - 1
    BY <1>3, <1>4, <1>5, <1>7, SameTurn
  <1> QED
    BY <1>2, <1>4, <1>8

(***************************************************************************)
(* What a call and a return do to the frames: fs are the frames after it.  *)
(***************************************************************************)
CalledTo(f, fs) ==
  /\ Top.step \in DOMAIN Turns(ast, Top.node)
  /\ f.node = Top.node /\ f.step = Top.step + 1
  /\ Len(fs) = Len(frames) + 1 /\ DOMAIN fs = 1..(Len(frames) + 1)
  /\ \A k \in 1..(Len(frames) - 1) : fs[k] = frames[k]
  /\ fs[Len(frames)] = f
  /\ fs[Len(frames) + 1].node = NextKid /\ fs[Len(frames) + 1].step = 1

ReturnedTo(fs) ==
  /\ Top.step = Len(Turns(ast, Top.node)) + 1
  /\ Len(fs) = Len(frames) - 1 /\ DOMAIN fs = 1..(Len(frames) - 1)
  /\ \A k \in 1..(Len(frames) - 1) : fs[k] = frames[k]

LEMMA CallsTo ==
  ASSUME ast \in Programs, GenInv, NEW f, Calls(f)
  PROVE  CalledTo(f, frames')
  <1>1. /\ frames' \in Seq(FrameType) /\ Len(frames') = Len(frames) + 1
        /\ \A k \in 1..(Len(frames) - 1) : frames'[k] = frames[k]
        /\ frames'[Len(frames)] = f
        /\ frames'[Len(frames) + 1] = Frame(NextKid)
    BY CallShape DEF GenInv
  <1>2. DOMAIN frames' = 1..(Len(frames) + 1)
    BY <1>1
  <1>3. Frame(NextKid).node = NextKid /\ Frame(NextKid).step = 1
    BY DEF Frame
  <1> QED
    BY <1>1, <1>2, <1>3 DEF Calls, CalledTo

LEMMA ReturnsTo ==
  ASSUME GenInv, Returns
  PROVE  ReturnedTo(frames')
  <1>1. /\ frames' \in Seq(FrameType) /\ Len(frames') = Len(frames) - 1
        /\ \A k \in 1..(Len(frames) - 1) : frames'[k] = frames[k]
    BY ReturnShape DEF GenInv
  <1>2. DOMAIN frames' = 1..(Len(frames) - 1)
    BY <1>1
  <1> QED
    BY <1>1, <1>2 DEF Returns, ReturnedTo

(* The places after a call, and after a return.                            *)
LEMMA Places ==
  ASSUME NEW K \in Nat \ {0}
  PROVE  /\ \A k \in 1..(K + 1) : k \in 1..(K - 1) \/ k = K \/ k = K + 1
         /\ \A k \in 1..(K - 1) : k \in 1..K /\ k < K /\ k # K /\ k + 1 \in 1..K
                                  /\ (k + 1 \in 1..(K - 1) \/ k + 1 = K)
         /\ K \in 1..K /\ K \in 1..(K + 1) /\ K + 1 \in 1..(K + 1)
         /\ \A k \in 1..K : k = K \/ k \in 1..(K - 1)
         /\ \A k \in 1..K : k \in 1..(K + 1) /\ k < K + 1
  OBVIOUS

LEMMA WaitAfterCall ==
  ASSUME ast \in Programs, GenInv, frames # <<>>, FramesWait(ast, frames),
         NEW f, NEW fs, CalledTo(f, fs)
  PROVE  FramesWait(ast, fs)
  <1>1. PICK K \in Nat \ {0} : K = Len(frames)
    BY TopIn
  <1>2. DOMAIN frames = 1..K /\ Top = frames[K] /\ Top.step \in Nat
    BY <1>1, TopIn, FrameIn
  <1>3. /\ DOMAIN fs = 1..(K + 1) /\ Len(fs) = K + 1
        /\ \A k \in 1..(K - 1) : fs[k] = frames[k]
        /\ fs[K] = f /\ fs[K + 1].node = NextKid
        /\ f.node = Top.node /\ f.step = Top.step + 1
        /\ Top.step \in DOMAIN Turns(ast, Top.node)
    BY <1>1 DEF CalledTo
  <1> SUFFICES ASSUME NEW k \in 1..(K + 1), k < K + 1
               PROVE  /\ fs[k].step - 1 \in DOMAIN Turns(ast, fs[k].node)
                      /\ fs[k + 1].node = Kid(fs[k].node, Turns(ast, fs[k].node)[fs[k].step - 1])
    BY <1>3 DEF FramesWait
  <1>4. k = K \/ k \in 1..(K - 1)
    OBVIOUS
  <1>5. CASE k = K
    <2>1. f.step - 1 = Top.step
      BY <1>2, <1>3
    <2> QED
      BY <1>3, <1>5, <2>1 DEF NextKid
  <1>6. CASE k \in 1..(K - 1)
    <2>1. k \in 1..K /\ k < K /\ (k + 1 \in 1..(K - 1) \/ k + 1 = K)
      BY <1>6
    <2>2. fs[k] = frames[k] /\ fs[k + 1].node = frames[k + 1].node
      BY <1>2, <1>3, <1>6, <2>1
    <2> QED
      BY <1>1, <1>2, <2>1, <2>2 DEF FramesWait
  <1> QED
    BY <1>4, <1>5, <1>6

LEMMA WaitAfterReturn ==
  ASSUME ast \in Programs, GenInv, frames # <<>>, FramesWait(ast, frames),
         NEW fs, ReturnedTo(fs)
  PROVE  FramesWait(ast, fs)
  <1>1. PICK K \in Nat \ {0} : K = Len(frames)
    BY TopIn
  <1>2. DOMAIN frames = 1..K
    BY <1>1, TopIn
  <1>3. /\ DOMAIN fs = 1..(K - 1) /\ Len(fs) = K - 1
        /\ \A k \in 1..(K - 1) : fs[k] = frames[k]
    BY <1>1 DEF ReturnedTo
  <1> SUFFICES ASSUME NEW k \in 1..(K - 1), k < K - 1
               PROVE  /\ fs[k].step - 1 \in DOMAIN Turns(ast, fs[k].node)
                      /\ fs[k + 1].node = Kid(fs[k].node, Turns(ast, fs[k].node)[fs[k].step - 1])
    BY <1>3 DEF FramesWait
  <1>4. k \in 1..K /\ k < K /\ k + 1 \in 1..(K - 1)
    OBVIOUS
  <1> QED
    BY <1>1, <1>2, <1>3, <1>4 DEF FramesWait

(* What is awaited lies below.                                             *)
LEMMA AwaitedBelow ==
  ASSUME ast \in Programs, NEW g, g.node \in DOMAIN ast, NEW x \in DOMAIN ast, Awaits(ast, g, x)
  PROVE  IsStrictPrefix(g.node, x) /\ Len(g.node) < Len(x)
  <1>1. PICK i \in DOMAIN Turns(ast, g.node) : IsPrefix(Kid(g.node, Turns(ast, g.node)[i]), x)
    BY DEF Awaits
  <1>2. PICK c : c = Kid(g.node, Turns(ast, g.node)[i])
    OBVIOUS
  <1>3. c \in DOMAIN ast /\ IsStrictPrefix(g.node, c)
    BY <1>2, TurnIsChild
  <1>4. c \in Seq(Nat) /\ x \in Seq(Nat) /\ g.node \in Seq(Nat)
    BY <1>3, ProgramsAreTrees, TreePositions
  <1>5. IsStrictPrefix(g.node, x)
    BY <1>1, <1>2, <1>3, <1>4, StrictPrefixTransitive
  <1> QED
    BY <1>4, <1>5, StrictPrefixShorter

LEMMA NextKidBelow ==
  ASSUME ast \in Programs, GenInv, frames # <<>>, Top.step \in DOMAIN Turns(ast, Top.node)
  PROVE  /\ NextKid \in DOMAIN ast /\ NextKid \in Seq(Nat) /\ Top.node \in DOMAIN ast
         /\ Top.node \in Seq(Nat)
         /\ IsStrictPrefix(Top.node, NextKid) /\ Len(NextKid) > Len(Top.node)
  <1>1. Top.node \in DOMAIN ast /\ Top.node \in Seq(Nat)
    BY TopIn, FrameIn
  <1>2. NextKid \in DOMAIN ast /\ IsStrictPrefix(Top.node, NextKid)
    BY <1>1, TurnIsChild DEF NextKid
  <1>3. NextKid \in Seq(Nat)
    BY <1>2, ProgramsAreTrees, TreePositions
  <1>4. Len(Top.node) < Len(NextKid)
    BY <1>1, <1>2, <1>3, StrictPrefixShorter
  <1> QED
    BY <1>1, <1>2, <1>3, <1>4

(* What the top frame and the child it calls await, it awaited.            *)
LEMMA AwaitedAfterCall ==
  ASSUME ast \in Programs, GenInv, frames # <<>>, NEW f, NEW fs, CalledTo(f, fs),
         NEW x \in DOMAIN ast
  PROVE  /\ Awaits(ast, f, x) => Awaits(ast, Top, x)
         /\ IsPrefix(NextKid, x) => Awaits(ast, Top, x)
         /\ Awaits(ast, fs[Len(frames) + 1], x) => Awaits(ast, Top, x)
  <1>1. Top.step \in Nat /\ f.node = Top.node /\ f.step = Top.step + 1
        /\ Top.step \in DOMAIN Turns(ast, Top.node)
    BY TopIn, FrameIn DEF CalledTo
  <1>2. NextKid \in DOMAIN ast /\ NextKid \in Seq(Nat) /\ x \in Seq(Nat) /\ Top.node \in DOMAIN ast
    BY <1>1, NextKidBelow, ProgramsAreTrees, TreePositions
  <1>3. Awaits(ast, f, x) => Awaits(ast, Top, x)
    <2> SUFFICES ASSUME NEW i \in DOMAIN Turns(ast, Top.node), i >= Top.step + 1,
                        IsPrefix(Kid(Top.node, Turns(ast, Top.node)[i]), x)
                 PROVE  Awaits(ast, Top, x)
      BY <1>1 DEF Awaits
    <2>1. i \in Nat
      BY <1>2, TurnIsChild
    <2>2. i >= Top.step
      BY <1>1, <2>1
    <2> QED
      BY <2>2 DEF Awaits
  <1>4. IsPrefix(NextKid, x) => Awaits(ast, Top, x)
    BY <1>1 DEF Awaits, NextKid
  <1>5. ASSUME Awaits(ast, fs[Len(frames) + 1], x) PROVE Awaits(ast, Top, x)
    <2>1. PICK g : g = fs[Len(frames) + 1]
      OBVIOUS
    <2>2. g.node = NextKid
      BY <2>1 DEF CalledTo
    <2>3. IsPrefix(NextKid, x)
      BY <1>2, <1>5, <2>1, <2>2, AwaitedBelow DEF IsStrictPrefix
    <2> QED
      BY <1>4, <2>3
  <1> QED
    BY <1>3, <1>4, <1>5

LEMMA BlockNodes ==
  ASSUME NEW b \in Blocks(ast)
  PROVE  b[2] \in DOMAIN ast /\ ast[b[2]].kind \in DOMAIN Roles /\ b[1] \in Roles[ast[b[2]].kind]
         /\ b = <<b[1], b[2]>>
  BY DEF Blocks, OfKind

LEMMA LaterAfterCall ==
  ASSUME ast \in Programs, GenInv, frames # <<>>, FramesWait(ast, frames),
         LaterBlocksWait(ast, frames, inserted),
         NEW f, NEW fs, CalledTo(f, fs),
         NEW ins, ins \subseteq Blocks(ast),
         \A b \in ins \ inserted : b[2] = Top.node /\ Reached(f, b[1])
  PROVE  LaterBlocksWait(ast, fs, ins)
  <1>1. PICK K \in Nat \ {0} : K = Len(frames)
    BY TopIn
  <1>2. DOMAIN frames = 1..K /\ Top = frames[K] /\ Top.step \in Nat
    BY <1>1, TopIn, FrameIn
  <1>3. /\ DOMAIN fs = 1..(K + 1)
        /\ \A k \in 1..(K - 1) : fs[k] = frames[k]
        /\ fs[K] = f /\ fs[K + 1].node = NextKid
        /\ f.node = Top.node /\ f.step = Top.step + 1
        /\ Top.step \in DOMAIN Turns(ast, Top.node)
    BY <1>1 DEF CalledTo
  <1>4. /\ NextKid \in DOMAIN ast /\ Top.node \in DOMAIN ast
        /\ NextKid \in Seq(Nat) /\ Top.node \in Seq(Nat) /\ Len(NextKid) > Len(Top.node)
    BY <1>3, NextKidBelow
  <1> SUFFICES ASSUME NEW b \in ins, NEW k \in 1..(K + 1)
               PROVE  ~ Awaits(ast, fs[k], b[2]) /\ (fs[k].node = b[2] => Reached(fs[k], b[1]))
    BY <1>3 DEF LaterBlocksWait
  <1>5. PICK x : x = b[2]
    OBVIOUS
  <1>6. x \in DOMAIN ast /\ x \in Seq(Nat)
    BY <1>5, BlockNodes, ProgramsAreTrees, TreePositions
  <1>7. CASE b \in inserted
    <2>1. \A i \in 1..K : ~ Awaits(ast, frames[i], x) /\ (frames[i].node = x => Reached(frames[i], b[1]))
      BY <1>2, <1>5, <1>7 DEF LaterBlocksWait
    <2>2. CASE k \in 1..(K - 1)
      BY <1>3, <1>5, <2>1, <2>2, Places
    <2>3. CASE k = K
      <3>1. ~ Awaits(ast, Top, x) /\ (Top.node = x => Reached(Top, b[1]))
        BY <1>2, <2>1, Places
      <3>2. ~ Awaits(ast, f, x)
        BY <1>6, <3>1, AwaitedAfterCall
      <3>3. Reached(Top, b[1]) => Reached(f, b[1])
        BY <1>2, <1>3 DEF Reached
      <3> QED
        BY <1>3, <1>5, <2>3, <3>1, <3>2, <3>3
    <2>4. CASE k = K + 1
      <3>1. ~ Awaits(ast, Top, x)
        BY <1>2, <2>1, Places
      <3>2. ~ Awaits(ast, fs[K + 1], x) /\ ~ IsPrefix(NextKid, x)
        BY <1>1, <1>6, <3>1, AwaitedAfterCall
      <3>3. NextKid # x
        BY <1>4, <3>2, PrefixReflexive
      <3> QED
        BY <1>3, <1>5, <2>4, <3>2, <3>3
    <2> QED
      BY <2>2, <2>3, <2>4, Places
  <1>8. CASE b \notin inserted
    <2>1. x = Top.node /\ Reached(f, b[1])
      BY <1>5, <1>8
    <2>2. CASE k \in 1..(K - 1)
      <3>1. k \in DOMAIN frames /\ k < Len(frames)
        BY <1>1, <1>2, <2>2
      <3>2. ~ Awaits(ast, frames[k], x)
        BY <1>4, <2>1, <3>1, PrefixReflexive, TopIsNotAwaited
      <3>3. frames[k].node # x
        BY <2>1, <3>1, FrameAbove DEF IsStrictPrefix
      <3> QED
        BY <1>3, <1>5, <2>2, <3>2, <3>3
    <2>3. CASE k = K
      <3>1. ~ Awaits(ast, f, x)
        BY <1>3, <1>4, <2>1, AwaitedBelow DEF IsStrictPrefix
      <3> QED
        BY <1>3, <1>5, <2>1, <2>3, <3>1
    <2>4. CASE k = K + 1
      <3>1. PICK g : g = fs[K + 1]
        OBVIOUS
      <3>2. Awaits(ast, g, x) => Len(NextKid) < Len(x)
        BY <1>3, <1>4, <1>6, <3>1, AwaitedBelow
      <3>3. Len(NextKid) \in Nat /\ Len(Top.node) \in Nat
        BY <1>4, LenProperties
      <3>4. ~ (Len(NextKid) < Len(x)) /\ NextKid # x
        BY <1>4, <2>1, <3>3
      <3> QED
        BY <1>3, <1>5, <2>4, <3>1, <3>2, <3>4
    <2> QED
      BY <2>2, <2>3, <2>4, Places
  <1> QED
    BY <1>7, <1>8

LEMMA LaterAfterReturn ==
  ASSUME ast \in Programs, GenInv, frames # <<>>, FramesWait(ast, frames),
         LaterBlocksWait(ast, frames, inserted),
         NEW fs, ReturnedTo(fs),
         NEW ins, \A b \in ins \ inserted : b[2] = Top.node
  PROVE  LaterBlocksWait(ast, fs, ins)
  <1>1. PICK K \in Nat \ {0} : K = Len(frames)
    BY TopIn
  <1>2. DOMAIN frames = 1..K /\ Top.node \in DOMAIN ast /\ Top.node \in Seq(Nat)
    BY <1>1, TopIn, FrameIn
  <1>3. DOMAIN fs = 1..(K - 1) /\ \A k \in 1..(K - 1) : fs[k] = frames[k]
    BY <1>1 DEF ReturnedTo
  <1> SUFFICES ASSUME NEW b \in ins, NEW k \in 1..(K - 1)
               PROVE  ~ Awaits(ast, frames[k], b[2]) /\ (frames[k].node = b[2] => Reached(frames[k], b[1]))
    BY <1>3 DEF LaterBlocksWait
  <1>4. k \in DOMAIN frames /\ k < Len(frames)
    BY <1>1, <1>2
  <1>5. CASE b \in inserted
    BY <1>4, <1>5 DEF LaterBlocksWait
  <1>6. CASE b \notin inserted
    <2>1. b[2] = Top.node
      BY <1>6
    <2>2. ~ Awaits(ast, frames[k], Top.node)
      BY <1>2, <1>4, PrefixReflexive, TopIsNotAwaited
    <2>3. frames[k].node # Top.node
      BY <1>4, FrameAbove DEF IsStrictPrefix
    <2> QED
      BY <2>1, <2>2, <2>3
  <1> QED
    BY <1>5, <1>6

(***************************************************************************)
(* What is held.                                                           *)
(***************************************************************************)

(* The blocks that a step may write to and make its own: the current one,  *)
(* those that the top frame holds and new ones.                            *)
Touched(b) == b \notin inserted \/ b = cur \/ Holds(ast, Top, b)

LEMMA HeldByFrame ==
  ASSUME ast \in Programs, GenInv, NEW k \in DOMAIN frames
  PROVE  /\ \A b : Holds(ast, frames[k], b) => b \in inserted /\ b \in Blocks(ast)
         /\ \A b : Holds(ast, frames[k], b) =>
              frames[k].step > 1 /\ ast[frames[k].node].kind \in {"if", "for", "while"} /\ k >= 4
         /\ ast[frames[k].node].kind \in {"if", "for", "while"} => k >= 4
  <1>1. PICK f : f = frames[k]
    OBVIOUS
  <1>2. /\ FrameHolds(ast, inserted, f) /\ f.step \in Nat /\ k \in Nat /\ k >= 1
        /\ f.node \in DOMAIN ast /\ f.node \in Seq(Nat) /\ Len(f.node) = k - 1
    BY <1>1, FrameIn
  <1>3. ASSUME ast[f.node].kind \in {"if", "for", "while"} PROVE k >= 4
    <2>1. k # 1
      <3>1. k = 1 => Len(f.node) = 0
        BY <1>2
      <3>2. Len(f.node) = 0 => f.node = Root
        BY <1>2 DEF Root
      <3> QED
        BY <1>2, <1>3, <3>1, <3>2, FunctionsMakeTheProgram
    <2>2. k # 2
      <3>1. k = 2 => Len(f.node) = 1
        BY <1>2
      <3> QED
        BY <1>2, <1>3, <3>1, FunctionsMakeTheProgram
    <2>3. k # 3
      BY <1>1, <1>3 DEF GenInv, FramesInv
    <2> QED
      BY <1>2, <2>1, <2>2, <2>3
  <1>4. ASSUME NEW b, Holds(ast, f, b)
        PROVE  b \in inserted /\ f.step > 1 /\ ast[f.node].kind \in {"if", "for", "while"}
    <2>1. PICK s \in Nat : s = f.step
      BY <1>2
    <2>2. /\ s >= 2 /\ ast[f.node].kind \in {"if", "for", "while"}
      BY <1>4, <2>1 DEF Holds, Fills
    <2>3. CASE ast[f.node].kind = "if"
      <3>1. b = f.origin \/ (f.step = 3 /\ b = f.thenEnd)
        BY <1>4, <2>3 DEF Holds, Fills
      <3> QED
        BY <1>2, <2>1, <2>2, <2>3, <3>1 DEF FrameHolds
    <2>4. CASE ast[f.node].kind = "for"
      <3>1. b \in {<<"for-header", f.node>>, <<"for-body", f.node>>}
        BY <1>4, <2>4 DEF Holds, Fills
      <3> QED
        BY <1>2, <2>1, <2>2, <2>4, <3>1 DEF FrameHolds
    <2>5. CASE ast[f.node].kind = "while"
      <3>1. b = <<"while-merge", f.node>> /\ f.step = 2
        BY <1>4, <2>5 DEF Holds, Fills
      <3> QED
        BY <1>2, <2>1, <2>2, <2>5, <3>1 DEF FrameHolds
    <2> QED
      BY <2>1, <2>2, <2>3, <2>4, <2>5
  <1> QED
    BY <1>1, <1>3, <1>4 DEF GenInv

(* A step has no business with what the frames below the top one hold.     *)
LEMMA HeldIsNotTouched ==
  ASSUME ast \in Programs, GenInv, HeldApart(ast, frames, cur), NEW k \in DOMAIN frames,
         k < Len(frames), NEW b, Holds(ast, frames[k], b)
  PROVE  ~ Touched(b) /\ Len(frames) > 3
  <1>1. b \in inserted /\ b \in Blocks(ast) /\ k >= 4 /\ k \in Nat /\ Len(frames) \in Nat
    BY HeldByFrame, FrameIn
  <1>2. b # cur
    BY <1>1 DEF HeldApart, HoldsOf
  <1>3. Len(frames) \in DOMAIN frames /\ Top = frames[Len(frames)] /\ k # Len(frames)
    BY FrameIn, TopIn
  <1>4. ~ Holds(ast, Top, b)
    BY <1>1, <1>3 DEF HeldApart
  <1> QED
    BY <1>1, <1>2, <1>4 DEF Touched

(* A frame that has done nothing holds nothing.                            *)
LEMMA NewHoldsNothing ==
  ASSUME NEW g, g.step = 1
  PROVE  /\ \A b : ~ Holds(ast, g, b)
         /\ \A c : HoldsOf(ast, g, c)
         /\ \A co : HeldIsOpen(ast, co, g)
  BY DEF Holds, Fills, HoldsOf, HeldIsOpen

LEMMA ApartBelow ==
  ASSUME ast \in Programs, GenInv, HeldApart(ast, frames, cur), NEW k \in DOMAIN frames,
         k < Len(frames), NEW c, Touched(c)
  PROVE  HoldsOf(ast, frames[k], c)
  BY HeldIsNotTouched DEF HeldApart, HoldsOf

LEMMA ApartAfterCall ==
  ASSUME ast \in Programs, GenInv, frames # <<>>, HeldApart(ast, frames, cur),
         NEW f, NEW fs, CalledTo(f, fs), NEW c, Touched(c),
         HoldsOf(ast, f, c), \A b \in Blocks(ast) : Holds(ast, f, b) => Touched(b)
  PROVE  HeldApart(ast, fs, c)
  <1>1. PICK K \in Nat \ {0} : K = Len(frames)
    BY TopIn
  <1>2. DOMAIN frames = 1..K /\ Top = frames[K]
    BY <1>1, TopIn
  <1>3. /\ DOMAIN fs = 1..(K + 1) /\ \A k \in 1..(K - 1) : fs[k] = frames[k]
        /\ fs[K] = f /\ fs[K + 1].step = 1
    BY <1>1 DEF CalledTo
  <1>4. ASSUME NEW k \in 1..(K - 1)
        PROVE  k \in DOMAIN frames /\ k < Len(frames) /\ k # K + 1 /\ k # K
    BY <1>1, <1>2
  <1>5. ASSUME NEW k \in 1..(K + 1)
        PROVE  HoldsOf(ast, fs[k], c)
    <2>1. CASE k \in 1..(K - 1)
      BY <1>3, <1>4, <2>1, ApartBelow
    <2>2. CASE k = K
      BY <1>3, <2>2
    <2>3. CASE k = K + 1
      BY <1>3, <2>3, NewHoldsNothing
    <2> QED
      BY <2>1, <2>2, <2>3, Places
  <1>6. ASSUME NEW k \in 1..(K - 1), NEW b, Holds(ast, fs[k], b)
        PROVE  ~ Touched(b) /\ Holds(ast, frames[k], b)
    BY <1>3, <1>4, <1>6, HeldIsNotTouched
  <1>7. ASSUME NEW k \in 1..(K + 1), NEW l \in 1..(K + 1), NEW b \in Blocks(ast),
               Holds(ast, fs[k], b), Holds(ast, fs[l], b)
        PROVE  k = l
    <2>1. k # K + 1 /\ l # K + 1
      BY <1>3, <1>7, NewHoldsNothing
    <2>2. CASE k = K
      BY <1>3, <1>6, <1>7, <2>1, <2>2, Places
    <2>3. CASE l = K
      BY <1>3, <1>6, <1>7, <2>1, <2>3, Places
    <2>4. CASE k \in 1..(K - 1) /\ l \in 1..(K - 1)
      BY <1>4, <1>6, <1>7, <2>4 DEF HeldApart
    <2> QED
      BY <2>1, <2>2, <2>3, <2>4, Places
  <1> QED
    BY <1>3, <1>5, <1>7 DEF HeldApart

LEMMA ApartAfterReturn ==
  ASSUME ast \in Programs, GenInv, frames # <<>>, HeldApart(ast, frames, cur),
         NEW fs, ReturnedTo(fs), NEW c, Touched(c)
  PROVE  HeldApart(ast, fs, c)
  <1>1. PICK K \in Nat \ {0} : K = Len(frames)
    BY TopIn
  <1>2. DOMAIN frames = 1..K
    BY <1>1, TopIn
  <1>3. /\ DOMAIN fs = 1..(K - 1) /\ \A k \in 1..(K - 1) : fs[k] = frames[k]
    BY <1>1 DEF ReturnedTo
  <1>4. ASSUME NEW k \in 1..(K - 1)
        PROVE  k \in DOMAIN frames /\ k < Len(frames)
    BY <1>1, <1>2
  <1>5. \A k \in 1..(K - 1) : HoldsOf(ast, fs[k], c)
    BY <1>3, <1>4, ApartBelow
  <1>6. ASSUME NEW k \in 1..(K - 1), NEW l \in 1..(K - 1), NEW b \in Blocks(ast),
               Holds(ast, fs[k], b), Holds(ast, fs[l], b)
        PROVE  k = l
    BY <1>3, <1>4, <1>6 DEF HeldApart
  <1> QED
    BY <1>3, <1>5, <1>6 DEF HeldApart

(* co is the code after a step that writes to touched blocks only, or ends *)
(* a function.                                                             *)
WritesTouched(co) ==
  \A b \in Blocks(ast) : ~ Touched(b) =>
    co[b] = code[b] \/ (Len(frames) = 3 /\ Terminated(co[b]))

LEMMA OpenBelow ==
  ASSUME ast \in Programs, GenInv, HeldApart(ast, frames, cur), NEW k \in DOMAIN frames,
         k < Len(frames), HeldIsOpen(ast, code, frames[k]), NEW co, WritesTouched(co)
  PROVE  HeldIsOpen(ast, co, frames[k])
  <1>1. PICK f : f = frames[k]
    OBVIOUS
  <1>2. ASSUME NEW b, Holds(ast, f, b) PROVE co[b] = code[b]
    <2>1. ~ Touched(b) /\ Len(frames) > 3 /\ b \in Blocks(ast) /\ Len(frames) \in Nat
      BY <1>1, <1>2, HeldIsNotTouched, HeldByFrame, FrameIn
    <2>2. ~ (Len(frames) = 3)
      <3>1. PICK m \in Nat : m = Len(frames)
        BY <2>1
      <3>2. m > 3 => ~ (m = 3)
        OBVIOUS
      <3> QED
        BY <2>1, <3>1, <3>2
    <2> QED
      BY <2>1, <2>2 DEF WritesTouched
  <1>3. ast[f.node].kind = "if" /\ f.step >= 2 => co[f.origin] = code[f.origin]
    BY <1>2 DEF Holds
  <1>4. ast[f.node].kind = "for" /\ f.step = 2 =>
          /\ co[<<"for-header", f.node>>] = code[<<"for-header", f.node>>]
          /\ co[<<"for-body", f.node>>] = code[<<"for-body", f.node>>]
    BY <1>2 DEF Holds, Fills
  <1>5. ast[f.node].kind = "while" /\ f.step = 2 =>
          co[<<"while-merge", f.node>>] = code[<<"while-merge", f.node>>]
    BY <1>2 DEF Holds, Fills
  <1> QED
    BY <1>1, <1>3, <1>4, <1>5 DEF HeldIsOpen

LEMMA OpenAfterCall ==
  ASSUME ast \in Programs, GenInv, frames # <<>>, HeldApart(ast, frames, cur),
         \A k \in DOMAIN frames : HeldIsOpen(ast, code, frames[k]),
         NEW f, NEW fs, CalledTo(f, fs), NEW co, WritesTouched(co), HeldIsOpen(ast, co, f)
  PROVE  \A k \in DOMAIN fs : HeldIsOpen(ast, co, fs[k])
  <1>1. PICK K \in Nat \ {0} : K = Len(frames)
    BY TopIn
  <1>2. DOMAIN frames = 1..K
    BY <1>1, TopIn
  <1>3. /\ DOMAIN fs = 1..(K + 1) /\ \A k \in 1..(K - 1) : fs[k] = frames[k]
        /\ fs[K] = f /\ fs[K + 1].step = 1
    BY <1>1 DEF CalledTo
  <1>4. ASSUME NEW k \in 1..(K - 1) PROVE k \in DOMAIN frames /\ k < Len(frames)
    BY <1>1, <1>2
  <1>5. \A k \in 1..(K - 1) : HeldIsOpen(ast, co, fs[k])
    BY <1>3, <1>4, OpenBelow
  <1>6. HeldIsOpen(ast, co, fs[K + 1])
    BY <1>3, NewHoldsNothing
  <1> QED
    BY <1>3, <1>5, <1>6, Places

LEMMA OpenAfterReturn ==
  ASSUME ast \in Programs, GenInv, frames # <<>>, HeldApart(ast, frames, cur),
         \A k \in DOMAIN frames : HeldIsOpen(ast, code, frames[k]),
         NEW fs, ReturnedTo(fs), NEW co, WritesTouched(co)
  PROVE  \A k \in DOMAIN fs : HeldIsOpen(ast, co, fs[k])
  <1>1. PICK K \in Nat \ {0} : K = Len(frames)
    BY TopIn
  <1>2. DOMAIN frames = 1..K
    BY <1>1, TopIn
  <1>3. /\ DOMAIN fs = 1..(K - 1) /\ \A k \in 1..(K - 1) : fs[k] = frames[k]
    BY <1>1 DEF ReturnedTo
  <1>4. ASSUME NEW k \in 1..(K - 1) PROVE k \in DOMAIN frames /\ k < Len(frames)
    BY <1>1, <1>2
  <1> QED
    BY <1>3, <1>4, OpenBelow

(* What is not touched stays closed or held.                               *)
LEMMA RestBelow ==
  ASSUME ast \in Programs, GenInv, frames # <<>>,
         RestIsClosed(ast, frames, inserted, code, cur),
         NEW co, WritesTouched(co), NEW b, ~ Touched(b)
  PROVE  Terminated(co[b]) \/ \E k \in 1..(Len(frames) - 1) : Holds(ast, frames[k], b)
  <1>1. b \in inserted /\ b # cur /\ ~ Holds(ast, Top, b) /\ b \in Blocks(ast)
    BY DEF Touched, GenInv
  <1>2. PICK K \in Nat \ {0} : K = Len(frames)
    BY TopIn
  <1>3. DOMAIN frames = 1..K /\ Top = frames[K]
    BY <1>2, TopIn
  <1>4. CASE Terminated(code[b])
    BY <1>1, <1>4 DEF WritesTouched
  <1>5. ASSUME NEW k \in 1..K, Holds(ast, frames[k], b)
        PROVE  k \in 1..(K - 1)
    BY <1>1, <1>3, <1>5, Places
  <1> QED
    BY <1>1, <1>2, <1>3, <1>4, <1>5 DEF RestIsClosed

LEMMA ClosedAfterCall ==
  ASSUME ast \in Programs, GenInv, frames # <<>>,
         RestIsClosed(ast, frames, inserted, code, cur),
         NEW f, NEW fs, CalledTo(f, fs), NEW co, WritesTouched(co), NEW ins, NEW c,
         \A b \in ins : Touched(b) =>
           Terminated(co[b]) \/ (b = c /\ Len(fs) >= 3) \/ Holds(ast, f, b)
  PROVE  RestIsClosed(ast, fs, ins, co, c)
  <1>1. PICK K \in Nat \ {0} : K = Len(frames)
    BY TopIn
  <1>3. /\ DOMAIN fs = 1..(K + 1) /\ \A k \in 1..(K - 1) : fs[k] = frames[k]
        /\ fs[K] = f
    BY <1>1 DEF CalledTo
  <1> SUFFICES ASSUME NEW b \in ins
               PROVE  \/ Terminated(co[b])
                      \/ b = c /\ Len(fs) >= 3
                      \/ \E k \in 1..(K + 1) : Holds(ast, fs[k], b)
    BY <1>3 DEF RestIsClosed
  <1>4. CASE Touched(b)
    BY <1>3, <1>4, Places
  <1>5. CASE ~ Touched(b)
    <2>1. Terminated(co[b]) \/ \E k \in 1..(K - 1) : Holds(ast, frames[k], b)
      BY <1>1, <1>5, RestBelow
    <2>2. \A k \in 1..(K - 1) : k \in 1..(K + 1)
      OBVIOUS
    <2> QED
      BY <1>3, <2>1, <2>2
  <1> QED
    BY <1>4, <1>5

LEMMA ClosedAfterReturn ==
  ASSUME ast \in Programs, GenInv, frames # <<>>,
         RestIsClosed(ast, frames, inserted, code, cur),
         NEW fs, ReturnedTo(fs), NEW co, WritesTouched(co), NEW ins, NEW c,
         \A b \in ins : Touched(b) => Terminated(co[b]) \/ (b = c /\ Len(fs) >= 3)
  PROVE  RestIsClosed(ast, fs, ins, co, c)
  <1>1. PICK K \in Nat \ {0} : K = Len(frames)
    BY TopIn
  <1>3. DOMAIN fs = 1..(K - 1) /\ \A k \in 1..(K - 1) : fs[k] = frames[k]
    BY <1>1 DEF ReturnedTo
  <1> SUFFICES ASSUME NEW b \in ins
               PROVE  \/ Terminated(co[b])
                      \/ b = c /\ Len(fs) >= 3
                      \/ \E k \in 1..(K - 1) : Holds(ast, frames[k], b)
    BY <1>3 DEF RestIsClosed
  <1> QED
    BY <1>1, RestBelow

(***************************************************************************)
(* Jumps at whose end nothing was generated since.                         *)
(***************************************************************************)
LEMMA CompoundOfNothing ==
  ASSUME ast \in Programs, NEW n \in DOMAIN ast, ast[n].kind = "compound",
         \A i \in 1..ast[n].arity : GeneratesNothing(ast, Kid(n, i))
  PROVE  GeneratesNothing(ast, n)
  <1> SUFFICES ASSUME NEW q \in Below(ast, n)
               PROVE  Silent(ast, q) \/ \E r \in Rets(ast) : IsStrictPrefix(r, q)
    BY DEF GeneratesNothing, Silent
  <1>1. q \in DOMAIN ast /\ IsStrictPrefix(n, q) /\ IsTree(ast)
    BY ProgramsAreTrees DEF Below
  <1>2. PICK c \in 1..ast[n].arity : Append(n, c) \in DOMAIN ast /\ IsPrefix(Append(n, c), q)
    BY <1>1, TreeStep
  <1>3. q \in Below(ast, Kid(n, c)) \cup {Kid(n, c)}
    BY <1>1, <1>2 DEF Below, Kid, IsStrictPrefix
  <1> QED
    BY <1>2, <1>3 DEF GeneratesNothing

LEMMA ReturnOfNothing ==
  ASSUME NEW n \in Rets(ast), ~ HasSlot(ast, n)
  PROVE  GeneratesNothing(ast, n)
  BY DEF GeneratesNothing, Silent, Rets, OfKind, Below

(* The last child of the frame below the top.                              *)
LEMMA TopIsLastTurn ==
  ASSUME ast \in Programs, GenInv, FramesWait(ast, frames),
         NEW K \in Nat, K = Len(frames), K >= 2, NEW s, s = frames[K - 1].step - 1,
         NEW q, q = frames[K - 1].node
  PROVE  /\ K - 1 \in DOMAIN frames /\ K - 1 < K /\ q \in DOMAIN ast
         /\ s \in DOMAIN Turns(ast, q) /\ s \in Nat \ {0} /\ Top.node = Kid(q, Turns(ast, q)[s])
  <1>1. frames # <<>> /\ K - 1 \in 1..K /\ K - 1 < K /\ K - 1 + 1 = K
    <2>1. frames = <<>> => Len(frames) = 0
      OBVIOUS
    <2> QED
      BY <2>1
  <1>2. K - 1 \in DOMAIN frames /\ Top = frames[K]
    BY <1>1, TopIn
  <1>3. q \in DOMAIN ast
    BY <1>2, FrameIn
  <1>4. s \in DOMAIN Turns(ast, q) /\ Top.node = Kid(q, Turns(ast, q)[s])
    BY <1>1, <1>2 DEF FramesWait
  <1>5. s \in Nat \ {0}
    BY <1>3, <1>4, TurnIsChild
  <1> QED
    BY <1>1, <1>2, <1>3, <1>4, <1>5

(* When gen returns from a statement that j ends, j is open.               *)
LEMMA OpenChild ==
  ASSUME ast \in Programs, GenInv, FramesWait(ast, frames),
         NEW K \in Nat, K = Len(frames), K >= 2,
         NEW fs, ReturnedTo(fs),
         NEW j, IsPrefix(Top.node, j), Ends(ast, j, Top.node)
  PROVE  Open(ast, fs, j)
  <1>1. PICK q : q = frames[K - 1].node
    OBVIOUS
  <1>2. PICK s : s = frames[K - 1].step - 1
    OBVIOUS
  <1>3. /\ q \in DOMAIN ast
        /\ s \in DOMAIN Turns(ast, q) /\ s \in Nat \ {0} /\ Top.node = Kid(q, Turns(ast, q)[s])
    BY <1>1, <1>2, TopIsLastTurn
  <1>4. K - 1 \in 1..(K - 1)
    OBVIOUS
  <1>5. Len(fs) = K - 1 /\ DOMAIN fs = 1..(K - 1) /\ fs[K - 1] = frames[K - 1]
    BY <1>4 DEF ReturnedTo
  <1>6. DoneKids(fs, K - 1) = s
    BY <1>2, <1>5 DEF DoneKids
  <1>7. SilentFrom(ast, fs, K - 1, s + 1)
    BY <1>3, <1>6 DEF SilentFrom
  <1>8. s \in 1..s
    BY <1>3
  <1>9. OpenAt(ast, fs, j, K - 1, s)
    BY <1>1, <1>3, <1>5, <1>6, <1>7, <1>8 DEF OpenAt
  <1> QED
    BY <1>1, <1>3, <1>4, <1>5, <1>9 DEF Open

(* An open jump is in the top frame or below a list of statements.         *)
LEMMA OpenPlace ==
  ASSUME ast \in Programs, GenInv, frames # <<>>,
         NEW j, NEW k \in DOMAIN frames, NEW m, OpenAt(ast, frames, j, k, m), k # Len(frames)
  PROVE  /\ ast[frames[k].node].kind \in {"compound", "block"} /\ k < Len(frames)
         /\ ast[Top.node].kind # "block" /\ Quiet(ast, frames, Len(frames))
  <1>1. PICK K \in Nat \ {0} : K = Len(frames)
    BY TopIn
  <1>2. /\ DOMAIN frames = 1..K /\ Top = frames[K] /\ K \in 1..K
        /\ k \in 1..K /\ k < K
    BY <1>1, TopIn
  <1>3. ast[frames[k].node].kind \in {"compound", "block"}
    BY <1>1 DEF OpenAt
  <1>4. k >= 3
    <2>1. frames[k].node \in DOMAIN ast /\ Len(frames[k].node) = k - 1
          /\ frames[k].node \in Seq(Nat)
      BY FrameIn
    <2>2. k = 1 => frames[k].node = Root
      BY <2>1 DEF Root
    <2>3. k = 2 => ast[frames[k].node].kind = "function"
      <3>1. k = 2 => Len(frames[k].node) = 1
        BY <2>1
      <3> QED
        BY <2>1, <3>1, FunctionsMakeTheProgram
    <2> QED
      BY <1>2, <1>3, <2>1, <2>2, <2>3, FunctionsMakeTheProgram
  <1>5. ast[Top.node].kind # "block"
    <2>1. Len(Top.node) = K - 1
      BY <1>2, FrameIn
    <2>2. Len(Top.node) # 2
      BY <1>2, <1>4, <2>1
    <2> QED
      BY <2>2, InnerFrame DEF GenInv
  <1>6. Quiet(ast, frames, K)
    BY <1>2 DEF OpenAt
  <1> QED
    BY <1>1, <1>2, <1>3, <1>5, <1>6

(* A statement that generates nothing before its first child.              *)
LEMMA OpenAfterQuietCall ==
  ASSUME ast \in Programs, GenInv, frames # <<>>,
         NEW f, NEW fs, CalledTo(f, fs), NEW j, Open(ast, frames, j),
         ast[Top.node].kind \in {"compound", "block"} \/ (ast[Top.node].kind = "for" /\ Top.step = 1)
  PROVE  Open(ast, fs, j)
  <1>1. PICK K \in Nat \ {0} : K = Len(frames)
    BY TopIn
  <1>2. DOMAIN frames = 1..K /\ Top = frames[K] /\ Top.step \in Nat
    BY <1>1, TopIn, FrameIn
  <1>3. /\ DOMAIN fs = 1..(K + 1) /\ Len(fs) = K + 1
        /\ \A k \in 1..(K - 1) : fs[k] = frames[k]
        /\ fs[K] = f /\ fs[K + 1].step = 1
        /\ f.node = Top.node /\ f.step = Top.step + 1
    BY <1>1 DEF CalledTo
  <1>0. PICK k \in 1..K :
          \E m \in DOMAIN Turns(ast, frames[k].node) : OpenAt(ast, frames, j, k, m)
    BY <1>2 DEF Open
  <1>4. PICK m \in DOMAIN Turns(ast, frames[k].node) : OpenAt(ast, frames, j, k, m)
    BY <1>0
  <1>5. ASSUME NEW l \in 1..K
        PROVE  fs[l].node = frames[l].node /\ DoneKids(fs, l) = DoneKids(frames, l)
    <2>1. CASE l = K
      BY <1>1, <1>2, <1>3, <2>1 DEF DoneKids
    <2>2. CASE l \in 1..(K - 1)
      <3>1. l < K /\ l < K + 1
        BY <2>2
      <3> QED
        BY <1>1, <1>3, <2>2, <3>1 DEF DoneKids
    <2> QED
      BY <2>1, <2>2, Places
  <1>6. \A l \in 1..K : \A x : SilentFrom(ast, fs, l, x) <=> SilentFrom(ast, frames, l, x)
    BY <1>5 DEF SilentFrom
  <1>7. ast[frames[k].node].kind \in {"compound", "block"}
    <2>1. CASE k = K
      <3>1. ast[Top.node].kind = "for" /\ Top.step = 1 => DoneKids(frames, K) = 0
        BY <1>1, <1>2 DEF DoneKids
      <3>2. m \in 1..DoneKids(frames, K)
        BY <1>4, <2>1 DEF OpenAt
      <3> QED
        BY <1>2, <2>1, <3>1, <3>2
    <2>2. CASE k # K
      BY <1>1, <1>2, <1>4, <2>2, OpenPlace
    <2> QED
      BY <2>1, <2>2
  <1>8. ASSUME NEW l \in 1..(K + 1), l > k PROVE Quiet(ast, fs, l)
    <2>1. CASE l \in 1..(K - 1)
      <3>1. Quiet(ast, frames, l)
        BY <1>2, <1>4, <1>8, <2>1, Places DEF OpenAt
      <3> QED
        BY <1>3, <1>6, <2>1, <3>1, Places DEF Quiet
    <2>2. CASE l = K
      <3>1. k # K
        BY <1>8, <2>2
      <3>2. ast[Top.node].kind # "block" /\ Quiet(ast, frames, K)
        BY <1>1, <1>2, <1>4, <3>1, OpenPlace
      <3>3. SilentFrom(ast, fs, K, 1)
        BY <1>6, <3>2, Places DEF Quiet
      <3> QED
        BY <1>3, <2>2, <3>2, <3>3 DEF Quiet
    <2>3. CASE l = K + 1
      <3>1. DoneKids(fs, K + 1) = 0
        BY <1>3 DEF DoneKids
      <3>2. SilentFrom(ast, fs, K + 1, 1)
        BY <3>1 DEF SilentFrom
      <3> QED
        BY <1>3, <2>3, <3>2 DEF Quiet
    <2> QED
      BY <2>1, <2>2, <2>3, Places
  <1>9. OpenAt(ast, fs, j, k, m)
    <2>1. fs[k].node = frames[k].node /\ DoneKids(fs, k) = DoneKids(frames, k)
      BY <1>5
    <2>2. SilentFrom(ast, fs, k, m + 1)
      BY <1>4, <1>6 DEF OpenAt
    <2> QED
      BY <1>3, <1>4, <1>7, <1>8, <2>1, <2>2 DEF OpenAt
  <1>10. m \in DOMAIN Turns(ast, fs[k].node) /\ k \in 1..(K + 1)
    BY <1>5, Places
  <1> QED
    BY <1>3, <1>9, <1>10 DEF Open

(* The child of a node that leads to a node below it.                      *)
LEMMA TurnTowards ==
  ASSUME ast \in Programs, NEW n \in DOMAIN ast, NEW m \in DOMAIN Turns(ast, n),
         NEW j \in DOMAIN ast, IsPrefix(Kid(n, Turns(ast, n)[m]), j)
  PROVE  /\ IsStrictPrefix(n, j) /\ j[Len(n) + 1] = Turns(ast, n)[m]
         /\ \A q \in DOMAIN ast : IsStrictPrefix(n, q) /\ IsPrefix(q, j)
                                    => IsPrefix(Kid(n, Turns(ast, n)[m]), q)
  <1>1. PICK a : a = Turns(ast, n)[m]
    OBVIOUS
  <1>2. PICK c : c = Kid(n, a)
    OBVIOUS
  <1>3. a \in Nat /\ c \in DOMAIN ast /\ IsStrictPrefix(n, c) /\ Len(c) = Len(n) + 1
    BY <1>1, <1>2, TurnIsChild
  <1>4. n \in Seq(Nat) /\ j \in Seq(Nat) /\ c \in Seq(Nat) /\ IsTree(ast)
    BY <1>3, ProgramsAreTrees, TreePositions
  <1>5. IsStrictPrefix(n, j)
    BY <1>1, <1>2, <1>3, <1>4, StrictPrefixTransitive
  <1>6. c[Len(n) + 1] = a /\ Len(n) + 1 \in 1..Len(c)
    BY <1>2, <1>3, <1>4, ChildParts, LenProperties DEF Kid
  <1>7. j[Len(n) + 1] = a
    BY <1>1, <1>2, <1>4, <1>6, PrefixEntry
  <1>8. ASSUME NEW q \in DOMAIN ast, IsStrictPrefix(n, q), IsPrefix(q, j)
        PROVE  IsPrefix(c, q)
    <2>1. q \in Seq(Nat)
      BY <1>4, TreePositions
    <2>2. Len(n) < Len(q) /\ Len(n) \in Nat /\ Len(q) \in Nat
      BY <1>4, <1>8, <2>1, StrictPrefixShorter, LenProperties
    <2>3. Len(c) <= Len(q)
      BY <1>3, <2>2
    <2> QED
      BY <1>1, <1>2, <1>4, <1>8, <2>1, <2>3, PrefixComparable
  <1> QED
    BY <1>1, <1>2, <1>5, <1>7, <1>8

(* The end of a child with nothing behind it is the end of the compound.   *)
LEMMA EndsCompound ==
  ASSUME ast \in Programs, NEW n \in DOMAIN ast, ast[n].kind = "compound",
         NEW m \in 1..ast[n].arity, NEW j \in DOMAIN ast,
         IsPrefix(Kid(n, m), j), Ends(ast, j, Kid(n, m)),
         \A i \in (m + 1)..ast[n].arity : GeneratesNothing(ast, Kid(n, i))
  PROVE  IsPrefix(n, j) /\ Ends(ast, j, n)
  <1>1. Turns(ast, n)[m] = m /\ m \in DOMAIN Turns(ast, n)
    BY TurnsAreChildren
  <1>2. /\ IsStrictPrefix(n, j) /\ j[Len(n) + 1] = m
        /\ \A q \in DOMAIN ast : IsStrictPrefix(n, q) /\ IsPrefix(q, j) => IsPrefix(Kid(n, m), q)
    BY <1>1, TurnTowards
  <1>3. ASSUME NEW q \in DOMAIN ast, IsPrefix(n, q), IsStrictPrefix(q, j)
        PROVE  /\ ast[q].kind = "compound"
               /\ \A i \in (j[Len(q) + 1] + 1)..ast[q].arity : GeneratesNothing(ast, Kid(q, i))
    <2>1. CASE q = n
      BY <1>2, <2>1
    <2>2. CASE q # n
      <3>1. IsPrefix(Kid(n, m), q)
        BY <1>2, <1>3, <2>2 DEF IsStrictPrefix
      <3> QED
        BY <1>3, <3>1 DEF Ends
    <2> QED
      BY <2>1, <2>2
  <1> QED
    BY <1>2, <1>3 DEF Ends, IsStrictPrefix

(* gen returns from a statement that generated nothing.                    *)
SilentReturn ==
  \/ ast[Top.node].kind = "compound"
  \/ ast[Top.node].kind = "ret" /\ ~ HasSlot(ast, Top.node)

LEMMA SilentTop ==
  ASSUME ast \in Programs, GenInv, frames # <<>>, Quiet(ast, frames, Len(frames)),
         Top.step = Len(Turns(ast, Top.node)) + 1, SilentReturn
  PROVE  GeneratesNothing(ast, Top.node)
  <1>1. PICK K \in Nat \ {0} : K = Len(frames)
    BY TopIn
  <1>2. /\ K \in DOMAIN frames /\ Top = frames[K] /\ Top.step \in Nat
        /\ Top.node \in DOMAIN ast /\ Len(Turns(ast, Top.node)) \in Nat
    BY <1>1, TopIn, FrameIn
  <1>3. CASE ast[Top.node].kind = "compound"
    <2>1. /\ Len(Turns(ast, Top.node)) = ast[Top.node].arity
          /\ \A i \in 1..ast[Top.node].arity : Turns(ast, Top.node)[i] = i
      BY <1>2, <1>3, TurnsAreChildren
    <2>2. DoneKids(frames, K) = ast[Top.node].arity
      BY <1>1, <1>2, <2>1 DEF DoneKids
    <2>3. \A i \in 1..ast[Top.node].arity : GeneratesNothing(ast, Kid(Top.node, i))
      BY <1>1, <1>2, <2>1, <2>2 DEF Quiet, SilentFrom
    <2> QED
      BY <1>2, <1>3, <2>3, CompoundOfNothing
  <1>4. CASE ast[Top.node].kind = "ret" /\ ~ HasSlot(ast, Top.node)
    BY <1>2, <1>4, ReturnOfNothing DEF Rets, OfKind
  <1> QED
    BY <1>3, <1>4 DEF SilentReturn

LEMMA OpenAfterQuietReturn ==
  ASSUME ast \in Programs, GenInv, FramesWait(ast, frames),
         NEW K \in Nat, K = Len(frames), K >= 2,
         NEW fs, ReturnedTo(fs), NEW j \in DOMAIN ast, Open(ast, frames, j), SilentReturn
  PROVE  Open(ast, fs, j)
  <1>1. frames # <<>> /\ K \in Nat \ {0}
    <2>1. frames = <<>> => Len(frames) = 0
      OBVIOUS
    <2> QED
      BY <2>1
  <1>2. /\ DOMAIN frames = 1..K /\ Top = frames[K] /\ Top.step \in Nat /\ K \in DOMAIN frames
        /\ Top.node \in DOMAIN ast /\ Len(Turns(ast, Top.node)) \in Nat
    BY <1>1, TopIn, FrameIn
  <1>3. /\ DOMAIN fs = 1..(K - 1) /\ Len(fs) = K - 1
        /\ \A k \in 1..(K - 1) : fs[k] = frames[k]
        /\ Top.step = Len(Turns(ast, Top.node)) + 1
    BY DEF ReturnedTo
  <1>0. PICK k \in 1..K :
          \E m \in DOMAIN Turns(ast, frames[k].node) : OpenAt(ast, frames, j, k, m)
    BY <1>2 DEF Open
  <1>4. PICK m \in DOMAIN Turns(ast, frames[k].node) : OpenAt(ast, frames, j, k, m)
    BY <1>0
  <1>5. CASE k = K
    <2>1. ast[Top.node].kind = "compound"
      <3>1. Turns(ast, Top.node) # <<>>
        BY <1>2, <1>4, <1>5
      <3> QED
        BY <1>2, <3>1, TurnsAreChildren DEF SilentReturn
    <2>2. /\ Len(Turns(ast, Top.node)) = ast[Top.node].arity
          /\ \A i \in 1..ast[Top.node].arity : Turns(ast, Top.node)[i] = i
      BY <1>2, <2>1, TurnsAreChildren
    <2>3. DoneKids(frames, K) = ast[Top.node].arity /\ ast[Top.node].arity \in Nat
      BY <1>2, <1>3, <2>2 DEF DoneKids
    <2>4. m \in 1..ast[Top.node].arity
      BY <1>4, <1>5, <2>3 DEF OpenAt
    <2>5. IsPrefix(Kid(Top.node, m), j) /\ Ends(ast, j, Kid(Top.node, m))
      BY <1>2, <1>4, <1>5, <2>2, <2>4 DEF OpenAt
    <2>6. \A i \in (m + 1)..ast[Top.node].arity : GeneratesNothing(ast, Kid(Top.node, i))
      <3>1. SilentFrom(ast, frames, K, m + 1)
        BY <1>4, <1>5 DEF OpenAt
      <3>2. \A i \in (m + 1)..ast[Top.node].arity : i \in 1..ast[Top.node].arity
        BY <2>3, <2>4
      <3> QED
        BY <1>2, <2>2, <2>3, <3>1, <3>2 DEF SilentFrom
    <2>7. IsPrefix(Top.node, j) /\ Ends(ast, j, Top.node)
      BY <1>2, <2>1, <2>4, <2>5, <2>6, EndsCompound
    <2> QED
      BY <2>7, OpenChild
  <1>6. CASE k # K
    <2>1. k \in 1..(K - 1) /\ ast[frames[k].node].kind \in {"compound", "block"}
          /\ Quiet(ast, frames, K)
      BY <1>1, <1>2, <1>4, <1>6, OpenPlace, Places
    <2>2. GeneratesNothing(ast, Top.node)
      BY <1>1, <1>3, <2>1, SilentTop
    <2>3. PICK q : q = frames[K - 1].node
      OBVIOUS
    <2>4. PICK s : s = frames[K - 1].step - 1
      OBVIOUS
    <2>5. s \in DOMAIN Turns(ast, q) /\ s \in Nat \ {0} /\ Top.node = Kid(q, Turns(ast, q)[s])
      BY <2>3, <2>4, TopIsLastTurn
    <2>6. K - 1 \in 1..(K - 1) /\ fs[K - 1] = frames[K - 1]
      BY <1>3
    <2>7. DoneKids(fs, K - 1) = s /\ DoneKids(frames, K - 1) = s - 1
      <3>1. frames[K - 1].step \in Nat
        BY <1>2, <2>6, FrameIn, Places
      <3> QED
        BY <1>3, <2>4, <2>6, <3>1 DEF DoneKids
    <2>8. ASSUME NEW l \in 1..(K - 1)
          PROVE  l # K - 1 => DoneKids(fs, l) = DoneKids(frames, l)
      BY <1>3 DEF DoneKids
    <2>9. ASSUME NEW l \in 1..(K - 1), NEW x, SilentFrom(ast, frames, l, x), x \in Nat
          PROVE  SilentFrom(ast, fs, l, x)
      <3>1. CASE l = K - 1
        <4>1. \A i \in x..s : i \in x..(s - 1) \/ i = s
          BY <2>5, <2>9
        <4> QED
          BY <2>2, <2>3, <2>5, <2>6, <2>7, <2>9, <3>1, <4>1 DEF SilentFrom
      <3>2. CASE l # K - 1
        BY <1>3, <2>8, <2>9, <3>2 DEF SilentFrom
      <3> QED
        BY <3>1, <3>2
    <2>10. \A l \in 1..(K - 1) : l > k => Quiet(ast, fs, l)
      <3> SUFFICES ASSUME NEW l \in 1..(K - 1), l > k PROVE Quiet(ast, fs, l)
        OBVIOUS
      <3>1. Quiet(ast, frames, l)
        BY <1>1, <1>2, <1>4, Places DEF OpenAt
      <3> QED
        BY <1>3, <2>9, <3>1 DEF Quiet
    <2>11. m \in 1..DoneKids(fs, k)
      <3>1. m \in 1..DoneKids(frames, k)
        BY <1>4 DEF OpenAt
      <3>2. DoneKids(fs, k) = DoneKids(frames, k)
            \/ (DoneKids(fs, k) = s /\ DoneKids(frames, k) = s - 1)
        BY <2>1, <2>7, <2>8
      <3> QED
        BY <2>5, <3>1, <3>2
    <2>12. SilentFrom(ast, fs, k, m + 1)
      <3>1. SilentFrom(ast, frames, k, m + 1)
        BY <1>4 DEF OpenAt
      <3> QED
        BY <2>1, <2>9, <2>11, <3>1
    <2>13. OpenAt(ast, fs, j, k, m)
      BY <1>3, <1>4, <2>1, <2>10, <2>11, <2>12 DEF OpenAt
    <2> QED
      BY <1>3, <1>4, <2>1, <2>13 DEF Open
  <1> QED
    BY <1>5, <1>6

(* A return has nothing in progress below it.                              *)
LEMMA NoReturnAbove ==
  ASSUME ast \in Programs, GenInv, FramesWait(ast, frames), frames # <<>>, NEW r \in Rets(ast)
  PROVE  ~ IsStrictPrefix(r, Top.node)
  <1> SUFFICES ASSUME IsStrictPrefix(r, Top.node) PROVE FALSE
    OBVIOUS
  <1>1. PICK K \in Nat \ {0} : K = Len(frames)
    BY TopIn
  <1>2. DOMAIN frames = 1..K /\ Top.node \in Seq(Nat) /\ Len(Top.node) = K - 1
    BY <1>1, TopIn, FrameIn
  <1>3. r \in DOMAIN ast /\ ast[r].kind = "ret" /\ r \in Seq(Nat)
    BY ProgramsAreTrees, TreePositions DEF Rets, OfKind
  <1>4. PICK p \in Nat : p = Len(r)
    BY <1>3, LenProperties
  <1>5. p < K - 1
    BY <1>2, <1>3, <1>4, StrictPrefixShorter
  <1>6. p + 1 \in 1..K /\ p + 1 < K
    BY <1>5
  <1>7. IsStrictPrefix(frames[p + 1].node, Top.node) /\ frames[p + 1].node \in Seq(Nat)
        /\ frames[p + 1].node \in DOMAIN ast /\ Len(frames[p + 1].node) = p + 1 - 1
    BY <1>1, <1>2, <1>6, FrameAbove, FrameIn
  <1>8. IsPrefix(frames[p + 1].node, r)
    BY <1>2, <1>3, <1>4, <1>7, PrefixComparable DEF IsStrictPrefix
  <1>9. frames[p + 1].node = r
    BY <1>3, <1>4, <1>7, <1>8, PrefixSameLength
  <1>10. frames[p + 1].step - 1 \in DOMAIN Turns(ast, r)
    BY <1>1, <1>2, <1>6, <1>9 DEF FramesWait
  <1>11. Turns(ast, r) = <<>>
    BY <1>3, TurnsAreChildren
  <1> QED
    BY <1>10, <1>11

(* The top frame generates something, and not the end of a then branch.    *)
LoudTop == ~ Silent(ast, Top.node) /\ ~ (ast[Top.node].kind = "if" /\ Top.step = 2)

LEMMA OpenAndLoud ==
  ASSUME ast \in Programs, GenInv, FramesWait(ast, frames), frames # <<>>,
         NEW j \in DOMAIN ast, Open(ast, frames, j), LoudTop
  PROVE  ~ EndsThenBranch(ast, j)
  <1> SUFFICES ASSUME EndsThenBranch(ast, j) PROVE FALSE
    OBVIOUS
  <1>1. PICK K \in Nat \ {0} : K = Len(frames)
    BY TopIn
  <1>2. /\ DOMAIN frames = 1..K /\ Top = frames[K] /\ Top.step \in Nat /\ Top.node \in DOMAIN ast
    BY <1>1, TopIn, FrameIn
  <1>0. PICK k \in 1..K :
          \E m \in DOMAIN Turns(ast, frames[k].node) : OpenAt(ast, frames, j, k, m)
    BY <1>2 DEF Open
  <1>3. PICK q : q = frames[k].node
    OBVIOUS
  <1>4. PICK m \in DOMAIN Turns(ast, q) : OpenAt(ast, frames, j, k, m)
    BY <1>0, <1>3
  <1>5. q \in DOMAIN ast /\ q \in Seq(Nat) /\ j \in Seq(Nat)
    BY <1>2, <1>3, FrameIn, ProgramsAreTrees, TreePositions
  <1>6. IsPrefix(Kid(q, Turns(ast, q)[m]), j) /\ Ends(ast, j, Kid(q, Turns(ast, q)[m]))
        /\ m \in 1..DoneKids(frames, k)
    BY <1>3, <1>4 DEF OpenAt
  <1>7. /\ IsStrictPrefix(q, j) /\ j[Len(q) + 1] = Turns(ast, q)[m]
        /\ \A x \in DOMAIN ast : IsStrictPrefix(q, x) /\ IsPrefix(x, j)
                                   => IsPrefix(Kid(q, Turns(ast, q)[m]), x)
    BY <1>5, <1>6, TurnTowards
  <1>8. PICK i \in OfKind(ast, {"if"}) : IsPrefix(Kid(i, 2), j) /\ Ends(ast, j, Kid(i, 2))
    BY DEF EndsThenBranch
  <1>9. i \in DOMAIN ast /\ ast[i].kind = "if" /\ i \in Seq(Nat) /\ Turns(ast, i)[1] = 2
        /\ 1 \in DOMAIN Turns(ast, i)
    <2>1. i \in DOMAIN ast /\ ast[i].kind = "if" /\ i \in Seq(Nat)
      BY ProgramsAreTrees, TreePositions DEF OfKind
    <2>2. ast[i].arity \in {2, 3}
      BY StatementsAreWhole
    <2>3. Turns(ast, i) \in Seq(1..ast[i].arity) /\ Len(Turns(ast, i)) >= 1 /\ Turns(ast, i)[1] = 2
      BY <2>1, <2>2, TurnsAreChildren
    <2>4. 1 \in DOMAIN Turns(ast, i)
      BY <2>3
    <2> QED
      BY <2>1, <2>3, <2>4
  <1>10. /\ IsStrictPrefix(i, j)
         /\ \A x \in DOMAIN ast : IsStrictPrefix(i, x) /\ IsPrefix(x, j) => IsPrefix(Kid(i, 2), x)
    BY <1>8, <1>9, TurnTowards
  <1>11. CASE i = q
    <2>1. k = K /\ m = DoneKids(frames, K)
      BY <1>1, <1>3, <1>4, <1>9, <1>11 DEF OpenAt
    <2>2. Turns(ast, q)[m] = Turns(ast, q)[1]
      <3>1. IsPrefix(Kid(q, Turns(ast, q)[1]), j)
        BY <1>8, <1>9, <1>11
      <3> QED
        BY <1>5, <1>6, <1>9, <1>11, <3>1, SameTurn
    <2>3. m = 1
      BY <1>5, <1>9, <1>11, <2>2, TurnsDiffer
    <2>4. Top.step = 2
      BY <1>1, <1>2, <2>1, <2>3 DEF DoneKids
    <2> QED
      BY <1>2, <1>3, <1>9, <1>11, <2>1, <2>4 DEF LoudTop
  <1>12. CASE IsStrictPrefix(q, i)
    <2>1. IsPrefix(Kid(q, Turns(ast, q)[m]), i)
      BY <1>7, <1>9, <1>10, <1>12 DEF IsStrictPrefix
    <2>2. ast[i].kind = "compound"
      BY <1>6, <1>9, <1>10, <2>1 DEF Ends
    <2> QED
      BY <1>9, <2>2
  <1>13. CASE IsStrictPrefix(i, q)
    <2>1. IsPrefix(Kid(i, 2), q)
      BY <1>5, <1>7, <1>10, <1>13 DEF IsStrictPrefix
    <2>2. /\ ast[q].kind = "compound"
          /\ \A x \in (Turns(ast, q)[m] + 1)..ast[q].arity : GeneratesNothing(ast, Kid(q, x))
      BY <1>5, <1>7, <1>8, <2>1 DEF Ends
    <2>3. /\ Len(Turns(ast, q)) = ast[q].arity /\ ast[q].arity \in Nat
          /\ \A x \in 1..ast[q].arity : Turns(ast, q)[x] = x
          /\ DOMAIN Turns(ast, q) = 1..ast[q].arity
      <3>1. Turns(ast, q) \in Seq(1..ast[q].arity)
        BY <1>5, TurnsAreChildren
      <3> QED
        BY <1>5, <2>2, <3>1, TurnsAreChildren, ProgramsAreTrees, TreePositions
    <2>4. k # K
      BY <1>2, <1>3, <2>2 DEF LoudTop, Silent
    <2>5. k < K /\ k \in DOMAIN frames /\ k < Len(frames)
      BY <1>1, <1>2, <2>4
    <2>6. PICK s : s = frames[k].step - 1
      OBVIOUS
    <2>7. s \in 1..ast[q].arity /\ frames[k + 1].node = Kid(q, s)
      BY <1>2, <1>3, <2>3, <2>5, <2>6 DEF FramesWait
    <2>8. s \in (m + 1)..ast[q].arity
      <3>1. frames[k].step \in Nat
        BY <2>5, FrameIn
      <3>2. m \in 1..(frames[k].step - 2)
        BY <1>6, <2>5 DEF DoneKids
      <3> QED
        BY <2>3, <2>6, <2>7, <3>1, <3>2
    <2>9. GeneratesNothing(ast, Kid(q, s))
      BY <1>4, <2>2, <2>3, <2>8
    <2>10. IsPrefix(Kid(q, s), Top.node)
      BY <2>5, <2>7, FrameAbove
    <2>11. Top.node \in Below(ast, Kid(q, s)) \cup {Kid(q, s)}
      BY <1>2, <2>10 DEF Below, IsStrictPrefix
    <2> QED
      BY <2>9, <2>11, NoReturnAbove DEF GeneratesNothing, LoudTop
  <1>14. i = q \/ IsStrictPrefix(i, q) \/ IsStrictPrefix(q, i)
    <2>1. IsPrefix(i, j) /\ IsPrefix(q, j)
      BY <1>7, <1>10 DEF IsStrictPrefix
    <2>2. Len(i) <= Len(q) \/ Len(q) <= Len(i)
      BY <1>5, <1>9, LenProperties
    <2>3. IsPrefix(i, q) \/ IsPrefix(q, i)
      BY <1>5, <1>9, <2>1, <2>2, PrefixComparable
    <2> QED
      BY <2>3 DEF IsStrictPrefix
  <1> QED
    BY <1>11, <1>12, <1>13, <1>14

(* Open at the end of a then branch.                                       *)
LEMMA OpenEndsThen ==
  ASSUME ast \in Programs, GenInv, frames # <<>>,
         NEW j, Open(ast, frames, j), ast[Top.node].kind = "if", Top.step = 2
  PROVE  EndsThenBranch(ast, j)
  <1>1. PICK K \in Nat \ {0} : K = Len(frames)
    BY TopIn
  <1>2. /\ DOMAIN frames = 1..K /\ Top = frames[K] /\ Top.node \in DOMAIN ast
    BY <1>1, TopIn, FrameIn
  <1>0. PICK k \in 1..K :
          \E m \in DOMAIN Turns(ast, frames[k].node) : OpenAt(ast, frames, j, k, m)
    BY <1>2 DEF Open
  <1>3. PICK m \in DOMAIN Turns(ast, frames[k].node) : OpenAt(ast, frames, j, k, m)
    BY <1>0
  <1>4. k = K
    <2>1. ~ Quiet(ast, frames, K)
      BY <1>2 DEF Quiet
    <2> QED
      BY <1>1, <1>2, <1>3, <2>1, OpenPlace
  <1>5. DoneKids(frames, K) = 1
    BY <1>1, <1>2 DEF DoneKids
  <1>6. m = 1
    BY <1>3, <1>4, <1>5 DEF OpenAt
  <1>7. Turns(ast, Top.node)[1] = 2 /\ Top.node \in OfKind(ast, {"if"})
    <2>1. Top.node \in OfKind(ast, {"if"})
      BY <1>2 DEF OfKind
    <2>2. ast[Top.node].arity \in {2, 3}
      BY <2>1, StatementsAreWhole
    <2> QED
      BY <1>2, <2>1, <2>2, TurnsAreChildren
  <1>8. IsPrefix(Kid(Top.node, 2), j) /\ Ends(ast, j, Kid(Top.node, 2))
    BY <1>2, <1>3, <1>4, <1>6, <1>7 DEF OpenAt
  <1> QED
    BY <1>7, <1>8 DEF EndsThenBranch

(***************************************************************************)
(* Instructions at the end of a block.                                     *)
(***************************************************************************)
LEMMA AppendEnds ==
  ASSUME NEW is \in Seq(Instr), NEW i \in Instr, NEW js, js = Append(is, i)
  PROVE  /\ js \in Seq(Instr) /\ js # <<>>
         /\ Terminated(js) <=> IsTerminator(i)
         /\ Early(js) <=> Early(is) \/ Terminated(is)
  <1>1. PICK n \in Nat : n = Len(is)
    BY LenProperties
  <1>2. /\ js \in Seq(Instr) /\ js # <<>> /\ Len(js) = n + 1 /\ js[n + 1] = i
        /\ \A k \in 1..n : js[k] = is[k]
    BY <1>1, AppendProperties
  <1>3. Last(js) = i
    BY <1>2 DEF Last
  <1>4. Terminated(is) <=> n >= 1 /\ IsTerminator(is[n])
    BY <1>1 DEF Terminated, Last
  <1>5. Early(js) <=> \E k \in 1..n : IsTerminator(is[k])
    BY <1>2 DEF Early
  <1>6. Early(is) <=> \E k \in 1..(n - 1) : IsTerminator(is[k])
    BY <1>1 DEF Early
  <1>7. \A k : k \in 1..n <=> (k \in 1..(n - 1) \/ (n >= 1 /\ k = n))
    OBVIOUS
  <1> QED
    BY <1>2, <1>3, <1>4, <1>5, <1>6, <1>7 DEF Terminated

LEMMA EmptyEnds == ~ Terminated(<<>>) /\ ~ Early(<<>>)
  BY DEF Terminated, Early

LEMMA SingleEnds ==
  ASSUME NEW i \in Instr
  PROVE  (Terminated(<<i>>) <=> IsTerminator(i)) /\ ~ Early(<<i>>)
  BY DEF Terminated, Early, Last

LEMMA CloseEnds ==
  ASSUME NEW is \in Seq(Instr), NEW m \in Blocks(ast)
  PROVE  Terminated(Close(is, m)) /\ (Early(Close(is, m)) <=> Early(is))
  <1>1. Br(m) \in Instr /\ IsTerminator(Br(m))
    BY DEF Instr, Br, IsTerminator
  <1> QED
    BY <1>1, AppendEnds DEF Close

LEMMA RetractEnds ==
  ASSUME NEW is \in Seq(Instr), NEW m \in Blocks(ast)
  PROVE  Terminated(Ret2Alloca(is, m)) /\ (Early(Ret2Alloca(is, m)) <=> Early(is))
  <1>1. Br(m) \in Instr /\ IsTerminator(Br(m))
    BY DEF Instr, Br, IsTerminator
  <1>2. PICK s : s = IF Terminated(is) THEN Front(is) ELSE is
    OBVIOUS
  <1>3. s \in Seq(Instr) /\ (Early(s) \/ Terminated(s) <=> Early(is))
    <2>1. CASE ~ Terminated(is)
      BY <1>2, <2>1
    <2>2. CASE Terminated(is)
      <3>1. PICK n \in Nat : n = Len(is)
        BY LenProperties
      <3>2. is # <<>> /\ n >= 1
        BY <2>2, <3>1 DEF Terminated
      <3>3. s \in Seq(Instr) /\ Len(s) = n - 1 /\ \A k \in 1..(n - 1) : s[k] = is[k]
        BY <1>2, <2>2, <3>1, <3>2, FrontOfSeq
      <3>4. Early(is) <=> \E k \in 1..(n - 1) : IsTerminator(is[k])
        BY <3>1 DEF Early
      <3>5. Early(s) <=> \E k \in 1..(n - 1 - 1) : IsTerminator(is[k])
        BY <3>3 DEF Early
      <3>6. Terminated(s) <=> n - 1 >= 1 /\ IsTerminator(is[n - 1])
        BY <3>2, <3>3 DEF Terminated, Last
      <3>7. \A k : k \in 1..(n - 1) <=> (k \in 1..(n - 1 - 1) \/ (n - 1 >= 1 /\ k = n - 1))
        BY <3>2
      <3> QED
        BY <3>3, <3>4, <3>5, <3>6, <3>7
    <2> QED
      BY <2>1, <2>2
  <1>4. Ret2Alloca(is, m) = Append(s, Br(m))
    BY <1>1, <1>2, <1>3 DEF Ret2Alloca
  <1> QED
    BY <1>1, <1>3, <1>4, AppendEnds

(* The instructions that gen appends.                                      *)
LEMMA Kinds ==
  /\ \A e \in Seq(Nat) : Eval(e) \in Instr /\ Store(e) \in Instr
                         /\ ~ IsTerminator(Eval(e)) /\ ~ IsTerminator(Store(e))
  /\ \A b \in Blocks(ast) : Br(b) \in Instr /\ IsTerminator(Br(b))
  /\ \A b, c \in Blocks(ast) : CondBr(b, c) \in Instr /\ IsTerminator(CondBr(b, c))
  /\ RetInstr \in Instr /\ IsTerminator(RetInstr)
  <1>1. \A e \in Seq(Nat) : Eval(e) \in Instr /\ ~ IsTerminator(Eval(e))
    BY DEF Instr, Eval, IsTerminator
  <1>2. \A e \in Seq(Nat) : Store(e) \in Instr /\ ~ IsTerminator(Store(e))
    BY DEF Instr, Store, IsTerminator
  <1>3. \A b \in Blocks(ast) : Br(b) \in Instr /\ IsTerminator(Br(b))
    BY DEF Instr, Br, IsTerminator
  <1>4. \A b, c \in Blocks(ast) : CondBr(b, c) \in Instr /\ IsTerminator(CondBr(b, c))
    BY DEF Instr, CondBr, IsTerminator
  <1>5. RetInstr \in Instr /\ IsTerminator(RetInstr)
    BY DEF Instr, RetInstr, IsTerminator
  <1> QED
    BY <1>1, <1>2, <1>3, <1>4, <1>5

(* What Emit does to the block and to the others.                          *)
LEMMA EmitEnds ==
  ASSUME NEW co \in Codes, NEW b \in Blocks(ast), NEW i \in Instr, NEW d, d = Emit(co, b, i)
  PROVE  /\ d \in Codes /\ d[b] # <<>>
         /\ \A x \in Blocks(ast) : x # b => d[x] = co[x]
         /\ Terminated(d[b]) <=> IsTerminator(i)
         /\ Early(d[b]) <=> Early(co[b]) \/ Terminated(co[b])
  <1>1. co[b] \in Seq(Instr) /\ d[b] = Append(co[b], i)
    BY DEF Codes, Emit
  <1>2. d[b] \in Seq(Instr) /\ d[b] # <<>> /\ (Terminated(d[b]) <=> IsTerminator(i))
        /\ (Early(d[b]) <=> Early(co[b]) \/ Terminated(co[b]))
    BY <1>1, AppendEnds
  <1>3. d \in Codes /\ \A x \in Blocks(ast) : x # b => d[x] = co[x]
    BY <1>1, <1>2 DEF Codes, Emit
  <1> QED
    BY <1>2, <1>3

LEMMA CloseBlock ==
  ASSUME NEW co \in Codes, NEW b \in Blocks(ast), NEW m \in Blocks(ast),
         NEW d, d = [co EXCEPT ![b] = Close(@, m)]
  PROVE  /\ d \in Codes
         /\ \A x \in Blocks(ast) : x # b => d[x] = co[x]
         /\ Terminated(d[b]) /\ (Early(d[b]) <=> Early(co[b]))
  <1>1. co[b] \in Seq(Instr) /\ d[b] = Close(co[b], m)
    BY DEF Codes
  <1>2. d \in Codes
    BY Closes DEF Grows
  <1>3. \A x \in Blocks(ast) : x # b => d[x] = co[x]
    BY DEF Codes
  <1> QED
    BY <1>1, <1>2, <1>3, CloseEnds

(***************************************************************************)
(* What has been gone past.                                                *)
(***************************************************************************)
LEMMA PassedAfterCall ==
  ASSUME ast \in Programs, GenInv, frames # <<>>, NEW f, NEW fs, CalledTo(f, fs),
         NEW j \in Jumps(ast), Passed(ast, fs, j)
  PROVE  Passed(ast, frames, j)
  <1>1. PICK K \in Nat \ {0} : K = Len(frames)
    BY TopIn
  <1>2. DOMAIN frames = 1..K /\ Top = frames[K] /\ Top.step \in Nat
    BY <1>1, TopIn, FrameIn
  <1>3. /\ DOMAIN fs = 1..(K + 1)
        /\ \A k \in 1..(K - 1) : fs[k] = frames[k]
        /\ fs[K] = f /\ fs[K + 1].node = NextKid /\ fs[K + 1].step = 1
        /\ f.node = Top.node /\ f.step = Top.step + 1
        /\ Top.step \in DOMAIN Turns(ast, Top.node)
    BY <1>1 DEF CalledTo
  <1>4. NextKid \in DOMAIN ast /\ Top.node \in DOMAIN ast
    BY <1>3, NextKidBelow
  <1>5. \A k \in 1..(K + 1) : fs[k].node # j /\ ~ Awaits(ast, fs[k], j)
    BY <1>3 DEF Passed
  <1>6. ~ Awaits(ast, Top, j)
    <2> SUFFICES ASSUME Awaits(ast, Top, j) PROVE FALSE
      OBVIOUS
    <2>1. PICK i \in DOMAIN Turns(ast, Top.node) :
            i >= Top.step /\ IsPrefix(Kid(Top.node, Turns(ast, Top.node)[i]), j)
      BY DEF Awaits
    <2>2. i \in Nat
      BY <1>4, TurnIsChild
    <2>3. CASE i = Top.step
      <3>1. IsPrefix(NextKid, j) /\ NextKid # j
        BY <1>3, <1>5, <2>1, <2>3, Places DEF NextKid
      <3>2. PICK m \in DOMAIN Turns(ast, NextKid) :
              IsPrefix(Kid(NextKid, Turns(ast, NextKid)[m]), j)
        BY <1>4, <3>1, JumpBelowTurn DEF IsStrictPrefix
      <3>3. m >= 1
        BY <1>4, <3>2, TurnIsChild
      <3>4. PICK g : g = fs[K + 1]
        OBVIOUS
      <3>5. Awaits(ast, g, j)
        BY <1>3, <3>2, <3>3, <3>4 DEF Awaits
      <3> QED
        BY <1>5, <3>4, <3>5, Places
    <2>4. CASE i # Top.step
      <3>1. i >= f.step
        BY <1>2, <1>3, <2>1, <2>2, <2>4
      <3>2. Awaits(ast, f, j)
        BY <1>3, <2>1, <3>1 DEF Awaits
      <3> QED
        BY <1>3, <1>5, <3>2, Places
    <2> QED
      BY <2>3, <2>4
  <1>7. ASSUME NEW k \in 1..K PROVE frames[k].node # j /\ ~ Awaits(ast, frames[k], j)
    <2>1. CASE k = K
      BY <1>2, <1>3, <1>5, <1>6, <2>1, Places
    <2>2. CASE k \in 1..(K - 1)
      BY <1>3, <1>5, <2>2, Places
    <2> QED
      BY <2>1, <2>2, Places
  <1> QED
    BY <1>2, <1>7 DEF Passed

LEMMA PassedAfterReturn ==
  ASSUME ast \in Programs, GenInv, frames # <<>>, NEW fs, ReturnedTo(fs),
         NEW j, Passed(ast, fs, j)
  PROVE  Passed(ast, frames, j) \/ j = Top.node
  <1>1. PICK K \in Nat \ {0} : K = Len(frames)
    BY TopIn
  <1>2. DOMAIN frames = 1..K /\ Top = frames[K] /\ Top.node \in DOMAIN ast
    BY <1>1, TopIn, FrameIn
  <1>3. /\ DOMAIN fs = 1..(K - 1)
        /\ \A k \in 1..(K - 1) : fs[k] = frames[k]
        /\ Top.step = Len(Turns(ast, Top.node)) + 1
    BY <1>1 DEF ReturnedTo
  <1>4. ~ Awaits(ast, Top, j)
    <2>1. \A i \in DOMAIN Turns(ast, Top.node) : ~ (i >= Top.step)
      <3> SUFFICES ASSUME NEW i \in DOMAIN Turns(ast, Top.node) PROVE ~ (i >= Top.step)
        OBVIOUS
      <3>1. i \in 1..Len(Turns(ast, Top.node)) /\ Len(Turns(ast, Top.node)) \in Nat
        BY <1>2, TurnIsChild
      <3>2. PICK n \in Nat : n = Len(Turns(ast, Top.node))
        BY <3>1
      <3> QED
        BY <1>3, <3>1, <3>2
    <2> QED
      BY <2>1 DEF Awaits
  <1>5. \A k \in 1..(K - 1) : frames[k].node # j /\ ~ Awaits(ast, frames[k], j)
    BY <1>3 DEF Passed
  <1> QED
    BY <1>2, <1>4, <1>5, Places DEF Passed

(***************************************************************************)
(* Who is to blame.  A step goes on from what was generated last without a *)
(* word, it settles the matter, or it adds to it.                          *)
(***************************************************************************)
Verdict(fs, co, c) ==
  EarlyIsBlamed(ast, co) /\ CurIsBlamed(ast, fs, co, c) /\ PassedAreTold(ast, fs, co, c)

LEMMA VerdictQuiet ==
  ASSUME Verdict(frames, code, cur), Len(frames) >= 3, NEW fs, Len(fs) >= 3,
         \A j \in Jumps(ast) : Open(ast, frames, j) => Open(ast, fs, j),
         \A j \in Jumps(ast) : Passed(ast, fs, j) => Passed(ast, frames, j)
  PROVE  Verdict(fs, code, cur)
  <1>1. EarlyIsBlamed(ast, code) /\ CurIsBlamed(ast, fs, code, cur)
    BY DEF Verdict, CurIsBlamed
  <1>2. PassedAreTold(ast, fs, code, cur)
    BY DEF Verdict, PassedAreTold
  <1> QED
    BY <1>1, <1>2 DEF Verdict

LEMMA VerdictSettled ==
  ASSUME ast \in Programs, GenInv, frames # <<>>, Verdict(frames, code, cur),
         NEW fs, NEW co, NEW c,
         SomeEarly(ast, co) <=> SomeEarly(ast, code),
         Len(fs) >= 3 => ~ Terminated(co[c]),
         ~ (Len(frames) >= 3) \/ (ast[Top.node].kind = "if" /\ Top.step = 2),
         \A j \in Jumps(ast) : Passed(ast, fs, j) => Passed(ast, frames, j)
  PROVE  Verdict(fs, co, c)
  <1>1. EarlyIsBlamed(ast, co) /\ CurIsBlamed(ast, fs, co, c)
    BY DEF Verdict, CurIsBlamed, EarlyIsBlamed
  <1>2. ASSUME NEW j \in Jumps(ast), Passed(ast, fs, j)
        PROVE  SomeEarly(ast, co) \/ EndsThenBranch(ast, j)
    <2>1. \/ SomeEarly(ast, code) \/ EndsThenBranch(ast, j)
          \/ Len(frames) >= 3 /\ Open(ast, frames, j)
      BY <1>2 DEF Verdict, PassedAreTold
    <2> QED
      BY <2>1, OpenEndsThen
  <1> QED
    BY <1>1, <1>2 DEF Verdict, PassedAreTold

LEMMA VerdictLoud ==
  ASSUME ast \in Programs, GenInv, FramesWait(ast, frames), frames # <<>>,
         Verdict(frames, code, cur), Len(frames) >= 3, LoudTop,
         NEW fs, NEW co, NEW c,
         SomeEarly(ast, co) <=> SomeEarly(ast, code) \/ Terminated(code[cur]),
         Len(fs) >= 3 /\ Terminated(co[c]) => \E j \in Jumps(ast) : Open(ast, fs, j),
         \A j \in Jumps(ast) : Passed(ast, fs, j) =>
           \/ Passed(ast, frames, j)
           \/ Len(fs) >= 3 /\ Terminated(co[c]) /\ Open(ast, fs, j)
  PROVE  Verdict(fs, co, c)
  <1>1. EarlyIsBlamed(ast, co)
    <2> SUFFICES ASSUME SomeEarly(ast, co) PROVE \E j \in Jumps(ast) : ~ EndsThenBranch(ast, j)
      BY DEF EarlyIsBlamed
    <2>1. CASE SomeEarly(ast, code)
      BY <2>1 DEF Verdict, EarlyIsBlamed
    <2>2. CASE Terminated(code[cur])
      <3>1. PICK j \in Jumps(ast) : Open(ast, frames, j)
        BY <2>2 DEF Verdict, CurIsBlamed
      <3>2. j \in DOMAIN ast
        BY DEF Jumps, OfKind
      <3> QED
        BY <3>1, <3>2, OpenAndLoud
    <2> QED
      BY <2>1, <2>2
  <1>2. CurIsBlamed(ast, fs, co, c)
    BY DEF CurIsBlamed
  <1>3. PassedAreTold(ast, fs, co, c)
    BY DEF Verdict, PassedAreTold
  <1> QED
    BY <1>1, <1>2, <1>3 DEF Verdict

(***************************************************************************)
(* The invariant while code is generated, and what keeps it.               *)
(***************************************************************************)
BlockParts(fs, ins, co, c) ==
  /\ FramesWait(ast, fs)
  /\ LaterBlocksWait(ast, fs, ins)
  /\ HeldApart(ast, fs, c)
  /\ \A k \in DOMAIN fs : HeldIsOpen(ast, co, fs[k])
  /\ RestIsClosed(ast, fs, ins, co, c)
  /\ Verdict(fs, co, c)

BlocksNow == BlockParts(frames, inserted, code, cur)

LEMMA AfterCall ==
  ASSUME ast \in Programs, GenInv, frames # <<>>, BlocksNow,
         NEW f, NEW fs, CalledTo(f, fs),
         NEW ins, ins \subseteq Blocks(ast),
         \A b \in ins \ inserted : b[2] = Top.node /\ Reached(f, b[1]),
         NEW c, Touched(c), HoldsOf(ast, f, c),
         \A b \in Blocks(ast) : Holds(ast, f, b) => Touched(b),
         NEW co, WritesTouched(co), HeldIsOpen(ast, co, f),
         \A b \in ins : Touched(b) =>
           Terminated(co[b]) \/ (b = c /\ Len(fs) >= 3) \/ Holds(ast, f, b),
         Verdict(fs, co, c)
  PROVE  BlockParts(fs, ins, co, c)
  <1>1. FramesWait(ast, fs)
    BY WaitAfterCall DEF BlocksNow, BlockParts
  <1>2. LaterBlocksWait(ast, fs, ins)
    BY LaterAfterCall DEF BlocksNow, BlockParts
  <1>3. HeldApart(ast, fs, c)
    BY ApartAfterCall DEF BlocksNow, BlockParts
  <1>4. \A k \in DOMAIN fs : HeldIsOpen(ast, co, fs[k])
    BY OpenAfterCall DEF BlocksNow, BlockParts
  <1>5. RestIsClosed(ast, fs, ins, co, c)
    BY ClosedAfterCall DEF BlocksNow, BlockParts
  <1> QED
    BY <1>1, <1>2, <1>3, <1>4, <1>5 DEF BlockParts

LEMMA AfterReturn ==
  ASSUME ast \in Programs, GenInv, frames # <<>>, BlocksNow,
         NEW fs, ReturnedTo(fs),
         NEW ins, \A b \in ins \ inserted : b[2] = Top.node,
         NEW c, Touched(c),
         NEW co, WritesTouched(co),
         \A b \in ins : Touched(b) => Terminated(co[b]) \/ (b = c /\ Len(fs) >= 3),
         Verdict(fs, co, c)
  PROVE  BlockParts(fs, ins, co, c)
  <1>1. FramesWait(ast, fs)
    BY WaitAfterReturn DEF BlocksNow, BlockParts
  <1>2. LaterBlocksWait(ast, fs, ins)
    BY LaterAfterReturn DEF BlocksNow, BlockParts
  <1>3. HeldApart(ast, fs, c)
    BY ApartAfterReturn DEF BlocksNow, BlockParts
  <1>4. \A k \in DOMAIN fs : HeldIsOpen(ast, co, fs[k])
    BY OpenAfterReturn DEF BlocksNow, BlockParts
  <1>5. RestIsClosed(ast, fs, ins, co, c)
    BY ClosedAfterReturn DEF BlocksNow, BlockParts
  <1> QED
    BY <1>1, <1>2, <1>3, <1>4, <1>5 DEF BlockParts

(* How deep a statement is.                                                *)
LEMMA TopLevel ==
  ASSUME ast \in Programs, GenInv, frames # <<>>, NEW K \in Nat, K = Len(frames)
  PROVE  /\ K >= 1
         /\ ast[Top.node].kind = "program" <=> K = 1
         /\ ast[Top.node].kind = "function" <=> K = 2
         /\ ast[Top.node].kind = "block" <=> K = 3
         /\ ast[Top.node].kind \notin {"program", "function", "block"} => K >= 4
  <1>1. PICK m : m = Len(Top.node)
    OBVIOUS
  <1>2. m = K - 1 /\ K # 0
    BY <1>1, TopFrame DEF GenInv
  <1>3. /\ ast[Top.node].kind = "program" <=> m = 0
        /\ ast[Top.node].kind = "function" <=> m = 1
        /\ ast[Top.node].kind = "block" <=> m = 2
    BY <1>1, InnerFrame DEF GenInv
  <1> QED
    BY <1>2, <1>3

(* Outside of functions every block is closed.                             *)
LEMMA OutsideClosed ==
  ASSUME ast \in Programs, GenInv, BlocksNow, NEW K \in Nat, K = Len(frames), K <= 2,
         NEW b \in inserted
  PROVE  Terminated(code[b])
  <1>1. ~ (Len(frames) >= 3)
    <2>1. ~ (K >= 3)
      OBVIOUS
    <2> QED
      BY <2>1
  <1>2. ASSUME NEW k \in DOMAIN frames PROVE ~ Holds(ast, frames[k], b)
    <2>1. k \in 1..K
      BY FrameIn
    <2>2. ~ (k >= 4)
      BY <2>1
    <2> QED
      BY <2>2, HeldByFrame
  <1> QED
    BY <1>1, <1>2 DEF BlocksNow, BlockParts, RestIsClosed

(* A block that the statement on top is yet to insert is empty.            *)
LEMMA NewBlock ==
  ASSUME ast \in Programs, GenInv, frames # <<>>, BlocksNow,
         NEW b \in Blocks(ast), b[2] = Top.node, ~ Reached(Top, b[1])
  PROVE  b \notin inserted /\ code[b] = <<>> /\ Touched(b)
  <1>1. Len(frames) \in DOMAIN frames /\ Top = frames[Len(frames)]
    BY TopIn
  <1>2. b \notin inserted
    BY <1>1 DEF BlocksNow, BlockParts, LaterBlocksWait
  <1> QED
    BY <1>2 DEF GenInv, FilledAreInserted, Touched

(* What is early in the code after the step.                               *)
LEMMA EarlyAfter ==
  ASSUME NEW b \in Blocks(ast), NEW co,
         \A x \in Blocks(ast) : x # b => (Early(co[x]) <=> Early(code[x])),
         Early(co[b]) <=> Early(code[b]) \/ Terminated(code[b])
  PROVE  SomeEarly(ast, co) <=> SomeEarly(ast, code) \/ Terminated(code[b])
  BY DEF SomeEarly

LEMMA EarlySame ==
  ASSUME NEW co, \A x \in Blocks(ast) : Early(co[x]) <=> Early(code[x])
  PROVE  SomeEarly(ast, co) <=> SomeEarly(ast, code)
  BY DEF SomeEarly

(* The step goes on in a block that can take an instruction.               *)
LEMMA VerdictLoudCall ==
  ASSUME ast \in Programs, GenInv, frames # <<>>, BlocksNow, Len(frames) >= 3, LoudTop,
         NEW f, NEW fs, CalledTo(f, fs), NEW co, NEW c, ~ Terminated(co[c]),
         SomeEarly(ast, co) <=> SomeEarly(ast, code) \/ Terminated(code[cur])
  PROVE  Verdict(fs, co, c)
  <1>1. \A j \in Jumps(ast) : Passed(ast, fs, j) => Passed(ast, frames, j)
    BY PassedAfterCall
  <1> QED
    BY <1>1, VerdictLoud DEF BlocksNow, BlockParts

LEMMA VerdictLoudReturn ==
  ASSUME ast \in Programs, GenInv, frames # <<>>, BlocksNow, Len(frames) >= 3, LoudTop,
         Top.node \notin Jumps(ast),
         NEW fs, ReturnedTo(fs), NEW co, NEW c, Len(fs) >= 3 => ~ Terminated(co[c]),
         SomeEarly(ast, co) <=> SomeEarly(ast, code) \/ Terminated(code[cur])
  PROVE  Verdict(fs, co, c)
  <1>1. \A j \in Jumps(ast) : Passed(ast, fs, j) => Passed(ast, frames, j)
    BY PassedAfterReturn
  <1> QED
    BY <1>1, VerdictLoud DEF BlocksNow, BlockParts

(***************************************************************************)
(* The actions, one by one.  Statements without statements in them.        *)
(***************************************************************************)
BlocksNext == BlockParts(frames', inserted', code', cur')

LeafKinds == ExpressionKinds \cup JumpKinds \cup {"ret"}

LEMMA LeafReturns ==
  ASSUME ast \in Programs, GenInv, frames # <<>>, ast[Top.node].kind \in LeafKinds, Return
  PROVE  /\ ReturnedTo(frames') /\ \A b : ~ Holds(ast, Top, b)
         /\ cur \in inserted /\ cur \in Blocks(ast)
         /\ \E K \in Nat : K = Len(frames) /\ K >= 4
  <1>1. Top.node \in DOMAIN ast /\ Top.step \in 1..(Len(Turns(ast, Top.node)) + 1)
    BY TopFrame DEF GenInv
  <1>2. Turns(ast, Top.node) = <<>>
    BY <1>1, TurnsAreChildren DEF LeafKinds
  <1>3. Returns
    BY <1>1, <1>2 DEF Returns, Return
  <1>4. ReturnedTo(frames')
    BY <1>3, ReturnsTo
  <1>5. \A b : ~ Holds(ast, Top, b)
    BY DEF Holds, Fills, LeafKinds, ExpressionKinds, JumpKinds
  <1>6. ast[Top.node].kind \notin {"program", "function", "block"}
    BY DEF LeafKinds, ExpressionKinds, JumpKinds
  <1>7. PICK K \in Nat : K = Len(frames)
    BY TopIn
  <1>8. K >= 4
    BY <1>6, <1>7, TopLevel
  <1>9. cur \in inserted /\ cur \in Blocks(ast)
    BY <1>6, InnerTop
  <1> QED
    BY <1>4, <1>5, <1>7, <1>8, <1>9

(* A statement that writes one instruction and returns.                    *)
LEMMA WriteAndReturn ==
  ASSUME ast \in Programs, GenInv, frames # <<>>, BlocksNow,
         ast[Top.node].kind \in LeafKinds, LoudTop, Return,
         NEW i \in Instr, code' = Emit(code, cur, i), UNCHANGED <<cur, inserted>>,
         IsTerminator(i) <=> Top.node \in Jumps(ast)
  PROVE  BlocksNext
  <1>1. /\ ReturnedTo(frames') /\ \A b : ~ Holds(ast, Top, b)
        /\ cur \in inserted /\ cur \in Blocks(ast)
    BY LeafReturns
  <1>2. PICK K \in Nat : K = Len(frames) /\ K >= 4
    BY LeafReturns
  <1>3. PICK fs : fs = frames'
    OBVIOUS
  <1>4. PICK co : co = code'
    OBVIOUS
  <1>5. ReturnedTo(fs) /\ Len(fs) = K - 1
    BY <1>1, <1>2, <1>3 DEF ReturnedTo
  <1>6. Len(fs) >= 3 /\ Len(frames) >= 3 /\ K >= 2
    <2>1. K - 1 >= 3 /\ K >= 3 /\ K >= 2
      BY <1>2
    <2> QED
      BY <1>2, <1>5, <2>1
  <1>7. code \in Codes /\ co = Emit(code, cur, i)
    BY <1>4 DEF GenInv, Codes
  <1>8. /\ \A x \in Blocks(ast) : x # cur => co[x] = code[x]
        /\ Terminated(co[cur]) <=> IsTerminator(i)
        /\ Early(co[cur]) <=> Early(code[cur]) \/ Terminated(code[cur])
    BY <1>1, <1>7, EmitEnds
  <1>9. SomeEarly(ast, co) <=> SomeEarly(ast, code) \/ Terminated(code[cur])
    BY <1>1, <1>8, EarlyAfter
  <1>10. WritesTouched(co)
    BY <1>8 DEF WritesTouched, Touched
  <1>11. Verdict(fs, co, cur)
    <2>1. CASE Top.node \notin Jumps(ast)
      BY <1>5, <1>6, <1>8, <1>9, <2>1, VerdictLoudReturn
    <2>2. CASE Top.node \in Jumps(ast)
      <3>1. PICK j \in Jumps(ast) : j = Top.node
        BY <2>2
      <3>2. j \in Seq(Nat)
        BY <3>1, TopIn, FrameIn
      <3>3. IsPrefix(j, j) /\ Ends(ast, j, j)
        <4>1. IsPrefix(j, j)
          BY <3>2, PrefixReflexive
        <4>2. \A q \in DOMAIN ast : ~ (IsPrefix(j, q) /\ IsStrictPrefix(q, j))
          <5> SUFFICES ASSUME NEW q \in DOMAIN ast, IsPrefix(j, q), IsStrictPrefix(q, j)
                       PROVE  FALSE
            OBVIOUS
          <5>1. q \in Seq(Nat)
            BY ProgramsAreTrees, TreePositions
          <5>2. Len(q) < Len(j) /\ Len(j) <= Len(q) /\ Len(j) \in Nat /\ Len(q) \in Nat
            BY <3>2, <5>1, StrictPrefixShorter, PrefixEntry, LenProperties
          <5> QED
            BY <5>2
        <4> QED
          BY <4>1, <4>2 DEF Ends
      <3>4. Open(ast, fs, j)
        BY <1>2, <1>5, <1>6, <3>1, <3>3, OpenChild DEF BlocksNow, BlockParts
      <3>5. Terminated(co[cur])
        BY <1>8, <2>2
      <3>6. \A x \in Jumps(ast) : Passed(ast, fs, x) => Passed(ast, frames, x) \/ x = j
        BY <1>5, <3>1, PassedAfterReturn
      <3> QED
        BY <1>6, <1>9, <3>4, <3>5, <3>6, VerdictLoud DEF BlocksNow, BlockParts
    <2> QED
      BY <2>1, <2>2
  <1>12. Touched(cur) /\ \A b \in inserted : Touched(b) => b = cur
    BY <1>1 DEF Touched
  <1>13. BlockParts(fs, inserted, co, cur)
    BY <1>5, <1>6, <1>10, <1>11, <1>12, AfterReturn
  <1> QED
    BY <1>3, <1>4, <1>13 DEF BlocksNext

LEMMA GenExpressionBlocks ==
  ASSUME ast \in Programs, GenInv, BlocksNow, GenExpression
  PROVE  BlocksNext
  <1>1. /\ frames # <<>> /\ ast[Top.node].kind \in ExpressionKinds
        /\ code' = Emit(code, cur, Eval(Top.node)) /\ Return
        /\ UNCHANGED <<cur, inserted>>
    BY DEF GenExpression, Keep
  <1>2. Eval(Top.node) \in Instr /\ ~ IsTerminator(Eval(Top.node))
    BY <1>1, TopIn, FrameIn, Kinds
  <1>3. Top.node \notin Jumps(ast) /\ LoudTop /\ ast[Top.node].kind \in LeafKinds
    BY <1>1 DEF Jumps, JumpKinds, OfKind, ExpressionKinds, LoudTop, Silent, LeafKinds
  <1> QED
    BY <1>1, <1>2, <1>3, WriteAndReturn

LEMMA GenJumpBlocks ==
  ASSUME ast \in Programs, GenInv, BlocksNow, GenJump, JumpsBindInnermost, stack = <<>>
  PROVE  BlocksNext
  <1>1. PICK j : j = Top.node
    OBVIOUS
  <1>2. PICK x : x = JumpBlock(j, target[j])
    OBVIOUS
  <1>3. /\ frames # <<>> /\ j \in Jumps(ast) /\ target[j] # Null
        /\ code' = Emit(code, cur, Br(x)) /\ Return
        /\ UNCHANGED <<cur, inserted>>
    BY <1>1, <1>2 DEF GenJump, Keep
  <1>4. ast[j].kind \in {"break", "continue"}
    BY <1>3 DEF Jumps, JumpKinds, OfKind
  <1>5. PICK l : l = target[j]
    OBVIOUS
  <1>6. l \in DOMAIN ast /\ ast[l].kind \in {"for", "while"}
    BY <1>3, <1>5 DEF JumpsBindInnermost, LoopsAround, Loops, LoopKinds, OfKind
  <1>7. x \in Blocks(ast)
    <2>1. (IF ast[l].kind = "for" THEN ForTargets ELSE WhileTargets)[ast[j].kind] \in
            IF ast[l].kind = "for" THEN {"merge-for", "next-for"} ELSE {"while-merge", "while-cond"}
      BY <1>4, <1>6 DEF ForTargets, WhileTargets
    <2> QED
      BY <1>2, <1>5, <1>6, <2>1, RolesOf DEF JumpBlock
  <1>8. Br(x) \in Instr /\ IsTerminator(Br(x))
    BY <1>7, Kinds
  <1>9. LoudTop /\ ast[Top.node].kind \in LeafKinds
    BY <1>1, <1>4 DEF LoudTop, Silent, LeafKinds, JumpKinds
  <1> QED
    BY <1>1, <1>3, <1>8, <1>9, WriteAndReturn

(* A step that says nothing.                                               *)
LEMMA QuietReturnBlocks ==
  ASSUME ast \in Programs, GenInv, frames # <<>>, BlocksNow, SilentReturn,
         NEW K \in Nat, K = Len(frames), K >= 4, ReturnedTo(frames'),
         UNCHANGED <<cur, inserted, code>>
  PROVE  BlocksNext
  <1>1. PICK fs : fs = frames'
    OBVIOUS
  <1>2. ReturnedTo(fs) /\ Len(fs) = K - 1
    BY <1>1 DEF ReturnedTo
  <1>3. Len(fs) >= 3 /\ Len(frames) >= 3 /\ K >= 2
    <2>1. K - 1 >= 3 /\ K >= 3 /\ K >= 2
      OBVIOUS
    <2> QED
      BY <1>2, <2>1
  <1>4. \A j \in Jumps(ast) : Open(ast, frames, j) => Open(ast, fs, j)
    <2>1. \A j \in Jumps(ast) : j \in DOMAIN ast
      BY DEF Jumps, OfKind
    <2> QED
      BY <1>2, <1>3, <2>1, OpenAfterQuietReturn DEF BlocksNow, BlockParts
  <1>5. \A j \in Jumps(ast) : Passed(ast, fs, j) => Passed(ast, frames, j)
    <2>1. Top.node \notin Jumps(ast)
      BY DEF SilentReturn, Jumps, JumpKinds, OfKind
    <2> QED
      BY <1>2, <2>1, PassedAfterReturn
  <1>6. Verdict(fs, code, cur)
    BY <1>3, <1>4, <1>5, VerdictQuiet DEF BlocksNow, BlockParts
  <1>7. WritesTouched(code)
    BY DEF WritesTouched
  <1>8. Touched(cur) /\ \A b \in inserted : Touched(b) => b = cur
    <2>1. \A b : ~ Holds(ast, Top, b)
      BY DEF SilentReturn, Holds, Fills
    <2> QED
      BY <2>1 DEF Touched
  <1>9. BlockParts(fs, inserted, code, cur)
    BY <1>2, <1>3, <1>6, <1>7, <1>8, AfterReturn
  <1> QED
    BY <1>1, <1>9 DEF BlocksNext

LEMMA GenRetBlocks ==
  ASSUME ast \in Programs, GenInv, BlocksNow, GenRet
  PROVE  BlocksNext
  <1>1. PICK n : n = Top.node
    OBVIOUS
  <1>2. /\ frames # <<>> /\ ast[n].kind = "ret" /\ Return
        /\ code' = IF HasSlot(ast, n) THEN Emit(code, cur, Store(Kid(n, 1))) ELSE code
        /\ UNCHANGED <<cur, inserted>>
    BY <1>1 DEF GenRet, At, Keep
  <1>3. ast[Top.node].kind \in LeafKinds /\ n \notin Jumps(ast)
    BY <1>1, <1>2 DEF LeafKinds, Jumps, JumpKinds, OfKind
  <1>4. CASE HasSlot(ast, n)
    <2>1. Kid(n, 1) \in Seq(Nat)
      BY <1>1, <1>2, TopIn, FrameIn DEF Kid
    <2>2. Store(Kid(n, 1)) \in Instr /\ ~ IsTerminator(Store(Kid(n, 1)))
      BY <2>1, Kinds
    <2>3. LoudTop
      BY <1>1, <1>2, <1>4 DEF LoudTop, Silent
    <2> QED
      BY <1>1, <1>2, <1>3, <1>4, <2>2, <2>3, WriteAndReturn
  <1>5. CASE ~ HasSlot(ast, n)
    <2>1. PICK K \in Nat : K = Len(frames) /\ K >= 4
      BY <1>2, <1>3, LeafReturns
    <2>2. ReturnedTo(frames') /\ SilentReturn /\ code' = code
      BY <1>1, <1>2, <1>3, <1>5, LeafReturns DEF SilentReturn
    <2> QED
      BY <1>2, <2>1, <2>2, QuietReturnBlocks
  <1> QED
    BY <1>4, <1>5

(***************************************************************************)
(* The program, functions and lists of statements.                         *)
(***************************************************************************)
LEMMA HoldsNothing ==
  ASSUME NEW f, ast[f.node].kind \notin {"if", "for", "while"}
  PROVE  /\ \A b : ~ Holds(ast, f, b)
         /\ \A c : HoldsOf(ast, f, c)
         /\ \A co : HeldIsOpen(ast, co, f)
  BY DEF Holds, Fills, HoldsOf, HeldIsOpen

(* Outside of functions nothing is open.                                   *)
LEMMA OuterReturnBlocks ==
  ASSUME ast \in Programs, GenInv, frames # <<>>, BlocksNow,
         NEW K \in Nat, K = Len(frames), K <= 2, ReturnedTo(frames'),
         UNCHANGED <<cur, inserted, code>>
  PROVE  BlocksNext
  <1>1. PICK fs : fs = frames'
    OBVIOUS
  <1>2. ReturnedTo(fs) /\ Len(fs) = K - 1
    BY <1>1 DEF ReturnedTo
  <1>3. ~ (Len(fs) >= 3) /\ ~ (Len(frames) >= 3)
    <2>1. ~ (K - 1 >= 3) /\ ~ (K >= 3)
      OBVIOUS
    <2> QED
      BY <1>2, <2>1
  <1>4. Top.node \notin Jumps(ast)
    <2>1. ast[Top.node].kind \in {"program", "function", "block"}
      <3>1. ~ (K >= 4)
        OBVIOUS
      <3> QED
        BY <3>1, TopLevel
    <2> QED
      BY <2>1 DEF Jumps, JumpKinds, OfKind
  <1>5. Verdict(fs, code, cur)
    <2>1. \A j \in Jumps(ast) : Passed(ast, fs, j) => Passed(ast, frames, j)
      BY <1>2, <1>4, PassedAfterReturn
    <2> QED
      BY <1>3, <2>1, VerdictSettled DEF BlocksNow, BlockParts
  <1>6. WritesTouched(code) /\ Touched(cur)
    BY DEF WritesTouched, Touched
  <1>7. \A b \in inserted : Terminated(code[b])
    BY OutsideClosed
  <1>8. BlockParts(fs, inserted, code, cur)
    BY <1>2, <1>5, <1>6, <1>7, AfterReturn
  <1> QED
    BY <1>1, <1>8 DEF BlocksNext

LEMMA ListCalls ==
  ASSUME ast \in Programs, GenInv, frames # <<>>,
         ast[Top.node].kind \in {"program", "compound", "block"},
         Top.step <= ast[Top.node].arity, CallGen(Top, Kid(Top.node, Top.step))
  PROVE  \E f : CalledTo(f, frames')
  <1> DEFINE n == Top.node
  <1>1. n \in DOMAIN ast /\ Top \in FrameType /\ Top.step \in Nat /\ Top.step >= 1
    <2>1. n \in DOMAIN ast /\ Top \in FrameType
      BY TopFrame DEF GenInv
    <2>2. Top.step \in Nat \ {0}
      BY <2>1 DEF FrameType
    <2>3. \A m \in Nat \ {0} : m >= 1
      OBVIOUS
    <2> QED
      BY <2>1, <2>2, <2>3
  <1>2. /\ Turns(ast, n) \in Seq(1..ast[n].arity) /\ Len(Turns(ast, n)) = ast[n].arity
        /\ \A i \in 1..ast[n].arity : Turns(ast, n)[i] = i
    BY <1>1, TurnsAreChildren
  <1>3. ast[n].arity \in Nat
    BY <1>1, ProgramsAreTrees, TreePositions
  <1>4. Top.step \in DOMAIN Turns(ast, n) /\ NextKid = Kid(n, Top.step)
    <2>1. Top.step \in 1..ast[n].arity
      BY <1>1, <1>3
    <2> QED
      BY <1>2, <2>1 DEF NextKid
  <1>5. PICK f : Calls(f)
    BY <1>1, <1>4, CallGenCalls
  <1> QED
    BY <1>5, CallsTo

LEMMA ListCallBlocks ==
  ASSUME ast \in Programs, GenInv, frames # <<>>, BlocksNow,
         ast[Top.node].kind \in {"program", "compound", "block"},
         Top.step <= ast[Top.node].arity, CallGen(Top, Kid(Top.node, Top.step)),
         UNCHANGED <<cur, inserted, code>>
  PROVE  BlocksNext
  <1>1. PICK fs : fs = frames'
    OBVIOUS
  <1>2. PICK f : CalledTo(f, fs)
    BY <1>1, ListCalls
  <1>3. PICK K \in Nat : K = Len(frames)
    BY TopIn
  <1>4. Len(fs) = K + 1 /\ f.node = Top.node
    BY <1>2, <1>3 DEF CalledTo
  <1>5. \A j \in Jumps(ast) : Passed(ast, fs, j) => Passed(ast, frames, j)
    BY <1>2, PassedAfterCall
  <1>6. CASE ast[Top.node].kind = "program"
    <2>1. K = 1
      BY <1>3, <1>6, TopLevel
    <2>2. ~ (Len(fs) >= 3) /\ ~ (Len(frames) >= 3)
      <3>1. ~ (K + 1 >= 3) /\ ~ (K >= 3)
        BY <2>1
      <3> QED
        BY <1>3, <1>4, <3>1
    <2>3. Verdict(fs, code, cur)
      BY <1>5, <2>2, VerdictSettled DEF BlocksNow, BlockParts
    <2>4. \A b \in inserted : Terminated(code[b])
      <3>1. K <= 2
        BY <2>1
      <3> QED
        BY <1>3, <3>1, OutsideClosed
    <2>5. BlockParts(fs, inserted, code, cur)
      BY <1>2, <1>4, <2>3, <2>4, HoldsNothing, AfterCall
      DEF WritesTouched, Touched, GenInv
    <2> QED
      BY <1>1, <2>5 DEF BlocksNext
  <1>7. CASE ast[Top.node].kind \in {"compound", "block"}
    <2>1. Len(fs) >= 3 /\ Len(frames) >= 3
      <3>0. K = 3 \/ K >= 4
        BY <1>3, <1>7, TopLevel
      <3>1. K >= 3
        BY <3>0
      <3>2. K + 1 >= 3
        BY <3>1
      <3> QED
        BY <1>3, <1>4, <3>1, <3>2
    <2>2. \A j \in Jumps(ast) : Open(ast, frames, j) => Open(ast, fs, j)
      BY <1>2, <1>7, OpenAfterQuietCall
    <2>3. Verdict(fs, code, cur)
      BY <1>5, <2>1, <2>2, VerdictQuiet DEF BlocksNow, BlockParts
    <2>4. \A b \in inserted : Touched(b) => b = cur
      BY <1>7, HoldsNothing DEF Touched
    <2>5. BlockParts(fs, inserted, code, cur)
      BY <1>2, <1>4, <1>7, <2>1, <2>3, <2>4, HoldsNothing, AfterCall
      DEF WritesTouched, Touched, GenInv
    <2> QED
      BY <1>1, <2>5 DEF BlocksNext
  <1> QED
    BY <1>6, <1>7

LEMMA GenChildrenBlocks ==
  ASSUME ast \in Programs, GenInv, BlocksNow, GenChildren
  PROVE  BlocksNext
  <1> DEFINE n == Top.node
  <1>1. /\ frames # <<>> /\ ast[n].kind \in {"program", "compound"}
        /\ UNCHANGED <<cur, code, inserted>>
        /\ IF Top.step <= ast[n].arity THEN CallGen(Top, Kid(n, Top.step)) ELSE Return
    BY DEF GenChildren, Keep
  <1>2. CASE Top.step <= ast[n].arity
    BY <1>1, <1>2, ListCallBlocks
  <1>3. CASE ~ (Top.step <= ast[n].arity)
    <2>1. n \in DOMAIN ast /\ Top.step \in 1..(Len(Turns(ast, n)) + 1)
      BY <1>1, TopFrame DEF GenInv
    <2>2. Len(Turns(ast, n)) = ast[n].arity /\ ast[n].arity \in Nat
      BY <1>1, <2>1, TurnsAreChildren, ProgramsAreTrees, TreePositions
    <2>3. Top.step = Len(Turns(ast, n)) + 1
      BY <1>3, <2>1, <2>2
    <2>4. Returns
      BY <1>1, <1>3, <2>3 DEF Returns, Return
    <2>5. ReturnedTo(frames')
      BY <2>4, ReturnsTo
    <2>6. PICK K \in Nat : K = Len(frames)
      BY <1>1, TopIn
    <2>7. CASE ast[n].kind = "program"
      <3>1. K <= 2
        BY <1>1, <2>6, <2>7, TopLevel
      <3> QED
        BY <1>1, <2>5, <2>6, <3>1, OuterReturnBlocks
    <2>8. CASE ast[n].kind = "compound"
      <3>1. K >= 4 /\ SilentReturn
        BY <1>1, <2>6, <2>8, TopLevel DEF SilentReturn
      <3> QED
        BY <1>1, <2>5, <2>6, <3>1, QuietReturnBlocks
    <2> QED
      BY <1>1, <2>7, <2>8
  <1> QED
    BY <1>2, <1>3

LEMMA GenBlockBlocks ==
  ASSUME ast \in Programs, GenInv, BlocksNow, GenBlock
  PROVE  BlocksNext
  BY ListCallBlocks DEF GenBlock, Keep

LEMMA GenFunctionBlocks ==
  ASSUME ast \in Programs, GenInv, BlocksNow, GenFunction
  PROVE  BlocksNext
  <1>0. PICK n : n = Top.node
    OBVIOUS
  <1>e. PICK e : e = <<"entry", n>>
    OBVIOUS
  <1>1. /\ frames # <<>> /\ ast[n].kind = "function" /\ Top.step = 1
        /\ cur' = e /\ inserted' = inserted \cup {e}
        /\ CallGen(Top, Kid(n, ast[n].arity))
        /\ code' = code
    BY <1>0, <1>e DEF GenFunction, At, Keep
  <1>2. n \in DOMAIN ast /\ Top \in FrameType
    BY <1>0, <1>1, TopFrame DEF GenInv
  <1>3. Turns(ast, n) = <<ast[n].arity>>
    BY <1>1, <1>2, TurnsAreChildren
  <1>4. Top.step \in DOMAIN Turns(ast, n) /\ NextKid = Kid(n, ast[n].arity)
    BY <1>0, <1>1, <1>3 DEF NextKid
  <1>5. PICK f : Calls(f) /\ f.node = n /\ f.step = 2
    BY <1>0, <1>1, <1>2, <1>4, CallGenCalls
  <1>6. PICK fs : fs = frames'
    OBVIOUS
  <1>7. CalledTo(f, fs)
    BY <1>5, <1>6, CallsTo
  <1>8. PICK K \in Nat : K = Len(frames)
    BY <1>1, TopIn
  <1>9. K = 2 /\ Len(fs) = K + 1
    BY <1>0, <1>1, <1>7, <1>8, TopLevel DEF CalledTo
  <1>10. Len(fs) >= 3 /\ ~ (Len(frames) >= 3)
    BY <1>8, <1>9
  <1>11. e \in Blocks(ast) /\ e[1] = "entry" /\ e[2] = n
    BY <1>1, <1>2, <1>e, RolesOf
  <1>12. e \notin inserted /\ code[e] = <<>> /\ Touched(e)
    BY <1>0, <1>1, <1>11, NewBlock DEF Reached
  <1>13. PICK ins : ins = inserted \cup {e}
    OBVIOUS
  <1>14. Verdict(fs, code, e)
    <2>1. \A j \in Jumps(ast) : Passed(ast, fs, j) => Passed(ast, frames, j)
      BY <1>1, <1>7, PassedAfterCall
    <2> QED
      BY <1>1, <1>10, <1>12, <2>1, EmptyEnds, VerdictSettled DEF BlocksNow, BlockParts
  <1>15. \A b \in ins : Touched(b) => Terminated(code[b]) \/ (b = e /\ Len(fs) >= 3)
    <2>1. K <= 2
      BY <1>9
    <2>2. \A b \in inserted : Terminated(code[b])
      BY <1>8, <2>1, OutsideClosed
    <2> QED
      BY <1>10, <1>13, <2>2
  <1>16. ins \subseteq Blocks(ast) /\ \A b \in ins \ inserted : b[2] = Top.node /\ Reached(f, b[1])
    <2>1. Reached(f, "entry")
      BY <1>5 DEF Reached
    <2> QED
      BY <1>0, <1>11, <1>13, <2>1 DEF GenInv
  <1>17. WritesTouched(code)
    BY DEF WritesTouched
  <1>18. BlockParts(fs, ins, code, e)
    BY <1>1, <1>5, <1>7, <1>12, <1>14, <1>15, <1>16, <1>17, HoldsNothing, AfterCall
  <1> QED
    BY <1>1, <1>6, <1>13, <1>18 DEF BlocksNext

LEMMA EndFunctionBlocks ==
  ASSUME ast \in Programs, GenInv, BlocksNow, EndFunction
  PROVE  BlocksNext
  <1> DEFINE n == Top.node
  <1>1. /\ frames # <<>> /\ ast[n].kind = "function" /\ Top.step = 2
        /\ frames' = Front(frames)
        /\ UNCHANGED <<cur, code, inserted>>
    BY DEF EndFunction, At, Return, Keep
  <1>2. n \in DOMAIN ast
    BY <1>1, TopFrame DEF GenInv
  <1>3. Turns(ast, n) = <<ast[n].arity>>
    BY <1>1, <1>2, TurnsAreChildren
  <1>4. Returns
    BY <1>1, <1>3 DEF Returns
  <1>5. PICK K \in Nat : K = Len(frames)
    BY <1>1, TopIn
  <1>6. K <= 2
    BY <1>1, <1>5, TopLevel
  <1> QED
    BY <1>1, <1>4, <1>5, <1>6, ReturnsTo, OuterReturnBlocks

(***************************************************************************)
(* If.                                                                     *)
(***************************************************************************)

(* The statement on top stands in a function, in a block to write to.      *)
LEMMA InnerSize ==
  ASSUME ast \in Programs, GenInv, frames # <<>>, ast[Top.node].kind \in {"if", "for", "while"}
  PROVE  /\ cur \in inserted /\ cur \in Blocks(ast)
         /\ Top.node \in DOMAIN ast /\ Top \in FrameType
         /\ Top.node \in Seq(Nat) /\ Top.node \notin Jumps(ast)
         /\ Len(frames) >= 3 /\ code \in Codes
         /\ \A f, fs : CalledTo(f, fs) => Len(fs) >= 3
         /\ \A fs : ReturnedTo(fs) => Len(fs) >= 3
  <1>1. PICK K \in Nat : K = Len(frames)
    BY TopIn
  <1>2. K >= 4
    BY <1>1, TopLevel
  <1>3. K >= 3 /\ K - 1 >= 3 /\ K + 1 >= 3
    BY <1>2
  <1>4. \A f, fs : CalledTo(f, fs) => Len(fs) >= 3
    BY <1>1, <1>3 DEF CalledTo
  <1>5. \A fs : ReturnedTo(fs) => Len(fs) >= 3
    BY <1>1, <1>3 DEF ReturnedTo
  <1>6. cur \in inserted /\ cur \in Blocks(ast)
    BY InnerTop
  <1>7. Top.node \in DOMAIN ast /\ Top \in FrameType /\ Top.node \in Seq(Nat)
    BY TopFrame, ProgramsAreTrees, TreePositions DEF GenInv
  <1>8. Top.node \notin Jumps(ast)
    BY DEF Jumps, JumpKinds, OfKind
  <1>9. code \in Codes
    BY DEF GenInv, Codes
  <1> QED
    BY <1>1, <1>3, <1>4, <1>5, <1>6, <1>7, <1>8, <1>9

(* What the statement on top holds.                                        *)
LEMMA TopApart ==
  ASSUME ast \in Programs, GenInv, frames # <<>>, BlocksNow
  PROVE  HoldsOf(ast, Top, cur) /\ HeldIsOpen(ast, code, Top)
  <1>1. Len(frames) \in DOMAIN frames /\ Top = frames[Len(frames)]
    BY TopIn
  <1> QED
    BY <1>1 DEF BlocksNow, BlockParts, HeldApart

LEMMA GenThenBlocks ==
  ASSUME ast \in Programs, GenInv, BlocksNow, GenThen
  PROVE  BlocksNext
  <1>0. PICK n : n = Top.node
    OBVIOUS
  <1>b. PICK b : b = cur
    OBVIOUS
  <1>t. PICK then : then = <<"then", n>>
    OBVIOUS
  <1> DEFINE g == [Top EXCEPT !.origin = b]
  <1>1. /\ frames # <<>> /\ ast[n].kind = "if" /\ Top.step = 1
        /\ code' = Emit(code, b, Eval(Kid(n, 1)))
        /\ cur' = then /\ inserted' = inserted \cup {then}
        /\ CallGen(g, Kid(n, 2))
    BY <1>0, <1>b, <1>t DEF GenThen, At, Keep
  <1>2. /\ n \in DOMAIN ast /\ n \in Seq(Nat) /\ Top \in FrameType
        /\ b \in inserted /\ b \in Blocks(ast) /\ code \in Codes /\ Len(frames) >= 3
    BY <1>0, <1>1, <1>b, InnerSize
  <1>4. Top.step \in DOMAIN Turns(ast, n) /\ NextKid = Kid(n, 2)
    <2>1. Turns(ast, n) \in Seq(1..ast[n].arity) /\ Len(Turns(ast, n)) \in {1, 2}
          /\ Turns(ast, n)[1] = 2
      BY <1>1, <1>2, TurnsAreChildren, StatementsAreWhole DEF OfKind
    <2> QED
      BY <1>0, <1>1, <2>1 DEF NextKid
  <1>5. g \in FrameType /\ g.node = n /\ g.step = Top.step /\ g.origin = b
    BY <1>0, <1>2 DEF FrameType
  <1> HIDE DEF g
  <1>6. PICK f : Calls(f) /\ f.node = n /\ f.step = 2 /\ f.origin = b
    BY <1>0, <1>1, <1>2, <1>4, <1>5, CallGenCalls
  <1>7. PICK fs : fs = frames'
    OBVIOUS
  <1>8. CalledTo(f, fs) /\ Len(fs) >= 3
    BY <1>0, <1>1, <1>6, <1>7, CallsTo, InnerSize
  <1>9. PICK co : co = Emit(code, b, Eval(Kid(n, 1)))
    OBVIOUS
  <1>10. Eval(Kid(n, 1)) \in Instr /\ ~ IsTerminator(Eval(Kid(n, 1)))
    <2>1. Kid(n, 1) \in Seq(Nat)
      BY <1>2 DEF Kid
    <2> QED
      BY <2>1, Kinds
  <1>11. /\ \A x \in Blocks(ast) : x # b => co[x] = code[x]
         /\ ~ Terminated(co[b])
         /\ Early(co[b]) <=> Early(code[b]) \/ Terminated(code[b])
    BY <1>2, <1>9, <1>10, EmitEnds
  <1>12. then \in Blocks(ast) /\ then \notin inserted /\ code[then] = <<>> /\ Touched(then)
         /\ then # b /\ then[1] = "then" /\ then[2] = n
    <2>1. then \in Blocks(ast) /\ then[1] = "then" /\ then[2] = n
      BY <1>1, <1>2, <1>t, RolesOf
    <2>2. ~ Reached(Top, "then")
      BY <1>1 DEF Reached
    <2> QED
      BY <1>0, <1>1, <1>2, <2>1, <2>2, NewBlock
  <1>13. ~ Terminated(co[then])
    BY <1>11, <1>12, EmptyEnds
  <1>14. Verdict(fs, co, then)
    <2>1. SomeEarly(ast, co) <=> SomeEarly(ast, code) \/ Terminated(code[cur])
      BY <1>2, <1>11, <1>b, EarlyAfter
    <2>2. LoudTop
      BY <1>0, <1>1 DEF LoudTop, Silent
    <2> QED
      BY <1>1, <1>2, <1>8, <1>13, <2>1, <2>2, VerdictLoudCall
  <1>15. PICK ins : ins = inserted \cup {then}
    OBVIOUS
  <1>16. ins \subseteq Blocks(ast) /\ \A x \in ins \ inserted : x[2] = Top.node /\ Reached(f, x[1])
    <2>1. Reached(f, "then")
      BY <1>6 DEF Reached
    <2> QED
      BY <1>0, <1>12, <1>15, <2>1 DEF GenInv
  <1>17. \A x : Holds(ast, f, x) <=> x = b
    BY <1>1, <1>6 DEF Holds, Fills
  <1>18. HoldsOf(ast, f, then) /\ HeldIsOpen(ast, co, f)
    BY <1>1, <1>6, <1>11, <1>12, <1>17 DEF HoldsOf, HeldIsOpen
  <1>19. WritesTouched(co) /\ Touched(b)
    BY <1>11, <1>b DEF WritesTouched, Touched
  <1>20. \A x \in ins : Touched(x) =>
           Terminated(co[x]) \/ (x = then /\ Len(fs) >= 3) \/ Holds(ast, f, x)
    <2>1. \A x : ~ Holds(ast, Top, x)
      BY <1>1 DEF Holds, Fills
    <2> QED
      BY <1>8, <1>15, <1>17, <1>b, <2>1 DEF Touched
  <1>21. BlockParts(fs, ins, co, then)
    BY <1>1, <1>8, <1>12, <1>14, <1>16, <1>17, <1>18, <1>19, <1>20, AfterCall
  <1> QED
    BY <1>1, <1>7, <1>9, <1>15, <1>21 DEF BlocksNext

LEMMA GenElseBlocks ==
  ASSUME ast \in Programs, GenInv, BlocksNow, GenElse
  PROVE  BlocksNext
  <1>0. PICK n : n = Top.node
    OBVIOUS
  <1>b. PICK b : b = cur
    OBVIOUS
  <1>t. PICK else : else = <<"else", n>>
    OBVIOUS
  <1>o. PICK o : o = Top.origin
    OBVIOUS
  <1> DEFINE g == [Top EXCEPT !.thenEnd = b]
  <1>1. /\ frames # <<>> /\ ast[n].kind = "if" /\ Top.step = 2 /\ ast[n].arity = 3
        /\ code' = code
        /\ cur' = else /\ inserted' = inserted \cup {else}
        /\ CallGen(g, Kid(n, 3))
    BY <1>0, <1>b, <1>t DEF GenElse, At, Keep
  <1>2. /\ n \in DOMAIN ast /\ n \in Seq(Nat) /\ Top \in FrameType
        /\ b \in inserted /\ b \in Blocks(ast) /\ code \in Codes /\ Len(frames) >= 3
    BY <1>0, <1>1, <1>b, InnerSize
  <1>3. o \in inserted /\ o \in Blocks(ast) /\ o # b /\ ~ Terminated(code[o])
        /\ \A x : Holds(ast, Top, x) <=> x = o
    <2>1. FrameHolds(ast, inserted, Top) /\ inserted \subseteq Blocks(ast)
      BY <1>1, TopHolds DEF GenInv
    <2>2. o \in inserted /\ o \in Blocks(ast)
      BY <1>0, <1>1, <1>o, <2>1 DEF FrameHolds
    <2>3. \A x : Holds(ast, Top, x) <=> x = o
      BY <1>0, <1>1, <1>o DEF Holds, Fills
    <2>4. HoldsOf(ast, Top, cur) /\ HeldIsOpen(ast, code, Top)
      BY <1>1, TopApart
    <2> QED
      BY <1>0, <1>1, <1>b, <1>o, <2>2, <2>3, <2>4 DEF HoldsOf, HeldIsOpen
  <1>4. Top.step \in DOMAIN Turns(ast, n) /\ NextKid = Kid(n, 3)
    <2>1. Turns(ast, n) \in Seq(1..ast[n].arity) /\ Len(Turns(ast, n)) = 2
          /\ Turns(ast, n)[2] = 3
      BY <1>1, <1>2, TurnsAreChildren
    <2> QED
      BY <1>0, <1>1, <2>1 DEF NextKid
  <1>5. g \in FrameType /\ g.node = n /\ g.step = Top.step /\ g.origin = o /\ g.thenEnd = b
    BY <1>0, <1>2, <1>o DEF FrameType
  <1> HIDE DEF g
  <1>6. PICK f : Calls(f) /\ f.node = n /\ f.step = 3 /\ f.origin = o /\ f.thenEnd = b
    BY <1>0, <1>1, <1>2, <1>4, <1>5, CallGenCalls
  <1>7. PICK fs : fs = frames'
    OBVIOUS
  <1>8. CalledTo(f, fs) /\ Len(fs) >= 3
    BY <1>0, <1>1, <1>6, <1>7, CallsTo, InnerSize
  <1>12. else \in Blocks(ast) /\ else \notin inserted /\ code[else] = <<>> /\ Touched(else)
         /\ else # b /\ else # o /\ else[1] = "else" /\ else[2] = n
    <2>1. else \in Blocks(ast) /\ else[1] = "else" /\ else[2] = n
      BY <1>1, <1>2, <1>t, RolesOf
    <2>2. ~ Reached(Top, "else")
      BY <1>1 DEF Reached
    <2> QED
      BY <1>0, <1>1, <1>2, <1>3, <2>1, <2>2, NewBlock
  <1>14. Verdict(fs, code, else)
    <2>1. \A j \in Jumps(ast) : Passed(ast, fs, j) => Passed(ast, frames, j)
      BY <1>1, <1>8, PassedAfterCall
    <2>2. ~ Terminated(code[else])
      BY <1>12, EmptyEnds
    <2> QED
      BY <1>0, <1>1, <2>1, <2>2, VerdictSettled DEF BlocksNow, BlockParts
  <1>15. PICK ins : ins = inserted \cup {else}
    OBVIOUS
  <1>16. ins \subseteq Blocks(ast) /\ \A x \in ins \ inserted : x[2] = Top.node /\ Reached(f, x[1])
    <2>1. Reached(f, "else")
      BY <1>6 DEF Reached
    <2> QED
      BY <1>0, <1>12, <1>15, <2>1 DEF GenInv
  <1>17. \A x : Holds(ast, f, x) <=> x \in {b, o}
    BY <1>1, <1>6 DEF Holds, Fills
  <1>18. HoldsOf(ast, f, else) /\ HeldIsOpen(ast, code, f)
    BY <1>1, <1>3, <1>6, <1>12, <1>17 DEF HoldsOf, HeldIsOpen
  <1>19. WritesTouched(code) /\ Touched(b) /\ Touched(o)
    BY <1>3, <1>b DEF WritesTouched, Touched
  <1>20. \A x \in ins : Touched(x) =>
           Terminated(code[x]) \/ (x = else /\ Len(fs) >= 3) \/ Holds(ast, f, x)
    BY <1>3, <1>8, <1>15, <1>17, <1>b DEF Touched
  <1>21. BlockParts(fs, ins, code, else)
    BY <1>1, <1>8, <1>12, <1>14, <1>16, <1>17, <1>18, <1>19, <1>20, AfterCall
  <1> QED
    BY <1>1, <1>7, <1>15, <1>21 DEF BlocksNext

LEMMA EndElseBlocks ==
  ASSUME ast \in Programs, GenInv, BlocksNow, EndElse
  PROVE  BlocksNext
  <1>0. PICK n : n = Top.node
    OBVIOUS
  <1>m. PICK m : m = <<"merge-if", n>>
    OBVIOUS
  <1>b. PICK b : b = cur
    OBVIOUS
  <1>o. PICK o : o = Top.origin
    OBVIOUS
  <1>e. PICK e : e = Top.thenEnd
    OBVIOUS
  <1>t. PICK i : i = CondBr(<<"then", n>>, <<"else", n>>)
    OBVIOUS
  <1>c. PICK c : c = Emit(code, b, Br(m))
    OBVIOUS
  <1>d. PICK d : d = Emit(c, o, i)
    OBVIOUS
  <1>f. PICK co : co = [d EXCEPT ![e] = Close(@, m)]
    OBVIOUS
  <1>1. /\ frames # <<>> /\ ast[n].kind = "if" /\ Top.step = 3
        /\ inserted' = inserted \cup {m} /\ cur' = m /\ code' = co
        /\ frames' = Front(frames)
    BY <1>0, <1>m, <1>b, <1>o, <1>e, <1>t, <1>c, <1>d, <1>f DEF EndElse, At, Return, Keep
  <1>2. /\ n \in DOMAIN ast /\ b \in inserted /\ b \in Blocks(ast) /\ code \in Codes
        /\ Len(frames) >= 3 /\ n \notin Jumps(ast)
    BY <1>0, <1>1, <1>b, InnerSize
  <1>3. Returns
    <2>1. Len(Turns(ast, n)) \in {1, 2}
      BY <1>1, <1>2, TurnsAreChildren, StatementsAreWhole DEF OfKind
    <2>2. PICK k : k = Len(Turns(ast, n))
      OBVIOUS
    <2>3. k \in {1, 2} /\ 3 \in 1..(k + 1)
      BY <1>0, <1>1, <2>1, <2>2, TopFrame DEF GenInv
    <2>4. k = 2
      BY <2>3
    <2> QED
      BY <1>0, <1>1, <2>2, <2>4 DEF Returns
  <1>4. PICK fs : fs = frames'
    OBVIOUS
  <1>5. ReturnedTo(fs) /\ Len(fs) >= 3
    BY <1>0, <1>1, <1>3, <1>4, ReturnsTo, InnerSize
  <1>6. /\ o \in Blocks(ast) /\ e \in Blocks(ast) /\ o \in inserted /\ e \in inserted
        /\ o # b /\ e # b /\ o # e /\ ~ Terminated(code[o]) /\ i \in Instr /\ IsTerminator(i)
        /\ \A x : Holds(ast, Top, x) <=> x \in {o, e}
    <2>1. FrameHolds(ast, inserted, Top) /\ inserted \subseteq Blocks(ast)
      BY <1>1, TopHolds DEF GenInv
    <2>2. o \in inserted /\ e \in inserted /\ <<"then", n>> \in inserted /\ <<"else", n>> \in inserted
      BY <1>0, <1>1, <1>o, <1>e, <2>1 DEF FrameHolds
    <2>3. \A x : Holds(ast, Top, x) <=> x \in {o, e}
      BY <1>0, <1>1, <1>o, <1>e DEF Holds, Fills
    <2>4. HoldsOf(ast, Top, cur) /\ HeldIsOpen(ast, code, Top)
      BY <1>1, TopApart
    <2>5. o # b /\ e # b /\ o # e /\ ~ Terminated(code[o])
      BY <1>0, <1>1, <1>b, <1>o, <1>e, <2>1, <2>2, <2>3, <2>4 DEF HoldsOf, HeldIsOpen
    <2>6. i \in Instr /\ IsTerminator(i)
      BY <1>t, <2>1, <2>2, Kinds
    <2> QED
      BY <2>1, <2>2, <2>3, <2>5, <2>6
  <1>7. /\ m \in Blocks(ast) /\ m \notin inserted /\ code[m] = <<>> /\ Touched(m) /\ m[2] = n
    <2>1. m \in Blocks(ast) /\ m[1] = "merge-if" /\ m[2] = n
      BY <1>1, <1>2, <1>m, RolesOf
    <2>2. ~ Reached(Top, "merge-if")
      BY DEF Reached
    <2> QED
      BY <1>0, <1>1, <2>1, <2>2, NewBlock
  <1>8. /\ c \in Codes /\ \A x \in Blocks(ast) : x # b => c[x] = code[x]
        /\ Terminated(c[b])
        /\ Early(c[b]) <=> Early(code[b]) \/ Terminated(code[b])
    <2>1. Br(m) \in Instr /\ IsTerminator(Br(m))
      BY <1>7, Kinds
    <2> QED
      BY <1>2, <1>c, <2>1, EmitEnds
  <1>9. /\ d \in Codes /\ \A x \in Blocks(ast) : x # o => d[x] = c[x]
        /\ Terminated(d[o])
        /\ Early(d[o]) <=> Early(c[o]) \/ Terminated(c[o])
    BY <1>6, <1>8, <1>d, EmitEnds
  <1>10. /\ \A x \in Blocks(ast) : x # e => co[x] = d[x]
         /\ Terminated(co[e]) /\ (Early(co[e]) <=> Early(d[e]))
    <2>1. d \in Codes /\ e \in Blocks(ast) /\ m \in Blocks(ast)
      BY <1>6, <1>7, <1>9
    <2>2. d \in Codes => \A x \in Blocks(ast) : x # e => co[x] = d[x]
      BY <1>f DEF Codes
    <2>3. d[e] \in Seq(Instr) /\ co[e] = Close(d[e], m)
      BY <1>f, <2>1 DEF Codes
    <2> QED
      BY <2>1, <2>2, <2>3, CloseEnds
  <1>11. /\ \A x \in Blocks(ast) : x \notin {b, o, e} => co[x] = code[x]
         /\ Terminated(co[b]) /\ Terminated(co[o]) /\ Terminated(co[e])
         /\ Early(co[b]) <=> Early(code[b]) \/ Terminated(code[b])
         /\ Early(co[o]) <=> Early(code[o])
         /\ Early(co[e]) <=> Early(code[e])
    BY <1>2, <1>6, <1>8, <1>9, <1>10
  <1>12. Verdict(fs, co, m)
    <2>1. SomeEarly(ast, co) <=> SomeEarly(ast, code) \/ Terminated(code[cur])
      BY <1>2, <1>11, <1>b, EarlyAfter
    <2>2. LoudTop
      BY <1>0, <1>1 DEF LoudTop, Silent
    <2>3. ~ Terminated(co[m])
      BY <1>2, <1>6, <1>7, <1>11, EmptyEnds
    <2> QED
      BY <1>0, <1>1, <1>2, <1>5, <2>1, <2>2, <2>3, VerdictLoudReturn
  <1>13. WritesTouched(co)
    BY <1>6, <1>11, <1>b DEF WritesTouched, Touched
  <1>14. PICK ins : ins = inserted \cup {m}
    OBVIOUS
  <1>15. \A x \in ins : Touched(x) => Terminated(co[x]) \/ (x = m /\ Len(fs) >= 3)
    BY <1>5, <1>6, <1>11, <1>14, <1>b DEF Touched
  <1>16. BlockParts(fs, ins, co, m)
    BY <1>0, <1>1, <1>5, <1>7, <1>12, <1>13, <1>14, <1>15, AfterReturn
  <1> QED
    BY <1>1, <1>4, <1>14, <1>16 DEF BlocksNext

LEMMA EndThenBlocks ==
  ASSUME ast \in Programs, GenInv, BlocksNow, EndThen
  PROVE  BlocksNext
  <1>0. PICK n : n = Top.node
    OBVIOUS
  <1>m. PICK m : m = <<"merge-if", n>>
    OBVIOUS
  <1>b. PICK b : b = cur
    OBVIOUS
  <1>o. PICK o : o = Top.origin
    OBVIOUS
  <1>t. PICK i : i = CondBr(<<"then", n>>, m)
    OBVIOUS
  <1>c. PICK c : c = [code EXCEPT ![b] = Close(@, m)]
    OBVIOUS
  <1>f. PICK co : co = Emit(c, o, i)
    OBVIOUS
  <1>1. /\ frames # <<>> /\ ast[n].kind = "if" /\ ast[n].arity = 2 /\ Top.step = 2
        /\ inserted' = inserted \cup {m} /\ cur' = m /\ code' = co
        /\ frames' = Front(frames)
    BY <1>0, <1>m, <1>b, <1>o, <1>t, <1>c, <1>f DEF EndThen, At, Return, Keep
  <1>2. /\ n \in DOMAIN ast /\ b \in inserted /\ b \in Blocks(ast) /\ code \in Codes
        /\ Len(frames) >= 3 /\ n \notin Jumps(ast)
    BY <1>0, <1>1, <1>b, InnerSize
  <1>3. Returns
    <2>1. Len(Turns(ast, n)) = 1
      BY <1>1, <1>2, TurnsAreChildren
    <2> QED
      BY <1>0, <1>1, <2>1 DEF Returns
  <1>4. PICK fs : fs = frames'
    OBVIOUS
  <1>5. ReturnedTo(fs) /\ Len(fs) >= 3
    BY <1>0, <1>1, <1>3, <1>4, ReturnsTo, InnerSize
  <1>7. /\ m \in Blocks(ast) /\ m \notin inserted /\ code[m] = <<>> /\ Touched(m) /\ m[2] = n
    <2>1. m \in Blocks(ast) /\ m[1] = "merge-if" /\ m[2] = n
      BY <1>1, <1>2, <1>m, RolesOf
    <2>2. ~ Reached(Top, "merge-if")
      BY DEF Reached
    <2> QED
      BY <1>0, <1>1, <2>1, <2>2, NewBlock
  <1>6. /\ o \in Blocks(ast) /\ o \in inserted
        /\ o # b /\ ~ Terminated(code[o]) /\ i \in Instr /\ IsTerminator(i)
        /\ \A x : Holds(ast, Top, x) <=> x = o
    <2>1. FrameHolds(ast, inserted, Top) /\ inserted \subseteq Blocks(ast)
      BY <1>1, TopHolds DEF GenInv
    <2>2. o \in inserted /\ <<"then", n>> \in inserted
      BY <1>0, <1>1, <1>o, <2>1 DEF FrameHolds
    <2>3. \A x : Holds(ast, Top, x) <=> x = o
      BY <1>0, <1>1, <1>o DEF Holds, Fills
    <2>4. HoldsOf(ast, Top, cur) /\ HeldIsOpen(ast, code, Top)
      BY <1>1, TopApart
    <2>5. o # b /\ ~ Terminated(code[o])
      BY <1>0, <1>1, <1>b, <1>o, <2>1, <2>2, <2>3, <2>4 DEF HoldsOf, HeldIsOpen
    <2>6. i \in Instr /\ IsTerminator(i)
      BY <1>7, <1>t, <2>1, <2>2, Kinds
    <2> QED
      BY <2>1, <2>2, <2>3, <2>5, <2>6
  <1>8. /\ c \in Codes /\ \A x \in Blocks(ast) : x # b => c[x] = code[x]
        /\ Terminated(c[b]) /\ (Early(c[b]) <=> Early(code[b]))
    <2>1. code \in Codes /\ b \in Blocks(ast) /\ m \in Blocks(ast)
      BY <1>2, <1>7
    <2>2. \A x \in Blocks(ast) : x # b => c[x] = code[x]
      BY <1>c, <2>1 DEF Codes
    <2>3. code[b] \in Seq(Instr) /\ c[b] = Close(code[b], m)
      BY <1>c, <2>1 DEF Codes
    <2>4. c \in Codes
      BY <1>c, <2>1, Closes DEF Grows
    <2> QED
      BY <2>1, <2>2, <2>3, <2>4, CloseEnds
  <1>9. /\ \A x \in Blocks(ast) : x # o => co[x] = c[x]
        /\ Terminated(co[o])
        /\ Early(co[o]) <=> Early(c[o]) \/ Terminated(c[o])
    BY <1>6, <1>8, <1>f, EmitEnds
  <1>11. /\ \A x \in Blocks(ast) : x \notin {b, o} => co[x] = code[x]
         /\ Terminated(co[b]) /\ Terminated(co[o])
         /\ Early(co[b]) <=> Early(code[b])
         /\ Early(co[o]) <=> Early(code[o])
    BY <1>2, <1>6, <1>8, <1>9
  <1>12. Verdict(fs, co, m)
    <2>1. SomeEarly(ast, co) <=> SomeEarly(ast, code)
      BY <1>11, EarlySame
    <2>2. \A j \in Jumps(ast) : Passed(ast, fs, j) => Passed(ast, frames, j)
      BY <1>0, <1>1, <1>2, <1>5, PassedAfterReturn
    <2>3. ~ Terminated(co[m])
      BY <1>2, <1>6, <1>7, <1>11, EmptyEnds
    <2> QED
      BY <1>0, <1>1, <2>1, <2>2, <2>3, VerdictSettled DEF BlocksNow, BlockParts
  <1>13. WritesTouched(co)
    BY <1>6, <1>11, <1>b DEF WritesTouched, Touched
  <1>14. PICK ins : ins = inserted \cup {m}
    OBVIOUS
  <1>15. \A x \in ins : Touched(x) => Terminated(co[x]) \/ (x = m /\ Len(fs) >= 3)
    BY <1>5, <1>6, <1>11, <1>14, <1>b DEF Touched
  <1>16. BlockParts(fs, ins, co, m)
    BY <1>0, <1>1, <1>5, <1>7, <1>12, <1>13, <1>14, <1>15, AfterReturn
  <1> QED
    BY <1>1, <1>4, <1>14, <1>16 DEF BlocksNext

(***************************************************************************)
(* For.                                                                    *)
(***************************************************************************)

(* A for or a while calls gen for its next child.                          *)
LEMMA LoopCalls ==
  ASSUME ast \in Programs, GenInv, frames # <<>>,
         NEW n, n = Top.node, NEW a,
         \/ ast[n].kind = "for" /\ Top.step \in 1..3 /\ a = <<1, 4, 3>>[Top.step]
         \/ ast[n].kind = "while" /\ Top.step = 1 /\ a = 2,
         CallGen(Top, Kid(n, a))
  PROVE  \E f : CalledTo(f, frames')
  <1>1. n \in DOMAIN ast /\ Top \in FrameType
    BY TopFrame DEF GenInv
  <1>2. Turns(ast, n) = IF ast[n].kind = "for" THEN <<1, 4, 3>> ELSE <<2>>
    BY <1>1, TurnsAreChildren
  <1>3. Top.step \in DOMAIN Turns(ast, Top.node) /\ NextKid = Kid(n, a)
    BY <1>2 DEF NextKid
  <1>4. PICK f : Calls(f)
    BY <1>1, <1>3, CallGenCalls
  <1> QED
    BY <1>4, CallsTo

(* A loop holds nothing but at step 2.                                     *)
LEMMA LoopHoldsNothing ==
  ASSUME NEW f, ast[f.node].kind \in {"for", "while"}, f.step # 2
  PROVE  /\ \A b : ~ Holds(ast, f, b)
         /\ \A c : HoldsOf(ast, f, c)
         /\ \A co : HeldIsOpen(ast, co, f)
  BY DEF Holds, Fills, HoldsOf, HeldIsOpen

LEMMA GenForInitBlocks ==
  ASSUME ast \in Programs, GenInv, BlocksNow, GenForInit
  PROVE  BlocksNext
  <1>0. PICK n : n = Top.node
    OBVIOUS
  <1>h. PICK header : header = <<"for-header", n>>
    OBVIOUS
  <1>y. PICK body : body = <<"for-body", n>>
    OBVIOUS
  <1>1. /\ frames # <<>> /\ ast[n].kind = "for" /\ Top.step = 1
        /\ inserted' = inserted \cup {header, body}
        /\ cur' = cur /\ code' = code
        /\ CallGen(Top, Kid(n, 1))
    BY <1>0, <1>h, <1>y DEF GenForInit, At, Keep
  <1>2. /\ n \in DOMAIN ast /\ cur \in inserted /\ cur \in Blocks(ast) /\ code \in Codes
        /\ Len(frames) >= 3
    BY <1>0, <1>1, InnerSize
  <1>3. PICK fs : fs = frames'
    OBVIOUS
  <1>4. PICK f : CalledTo(f, fs)
    BY <1>0, <1>1, <1>3, LoopCalls
  <1>5. f.node = n /\ f.step = 2 /\ Len(fs) >= 3
    BY <1>0, <1>1, <1>4, InnerSize DEF CalledTo
  <1>6. /\ header \in Blocks(ast) /\ header \notin inserted /\ code[header] = <<>>
        /\ Touched(header) /\ header[1] = "for-header" /\ header[2] = n
    <2>1. header \in Blocks(ast) /\ header[1] = "for-header" /\ header[2] = n
      BY <1>1, <1>2, <1>h, RolesOf
    <2>2. ~ Reached(Top, "for-header")
      BY <1>1 DEF Reached
    <2> QED
      BY <1>0, <1>1, <2>1, <2>2, NewBlock
  <1>7. /\ body \in Blocks(ast) /\ body \notin inserted /\ code[body] = <<>>
        /\ Touched(body) /\ body[1] = "for-body" /\ body[2] = n
    <2>1. body \in Blocks(ast) /\ body[1] = "for-body" /\ body[2] = n
      BY <1>1, <1>2, <1>y, RolesOf
    <2>2. ~ Reached(Top, "for-body")
      BY <1>1 DEF Reached
    <2> QED
      BY <1>0, <1>1, <2>1, <2>2, NewBlock
  <1>8. Verdict(fs, code, cur)
    <2>1. \A j \in Jumps(ast) : Passed(ast, fs, j) => Passed(ast, frames, j)
      BY <1>1, <1>4, PassedAfterCall
    <2>2. \A j \in Jumps(ast) : Open(ast, frames, j) => Open(ast, fs, j)
      BY <1>0, <1>1, <1>4, OpenAfterQuietCall
    <2> QED
      BY <1>2, <1>5, <2>1, <2>2, VerdictQuiet DEF BlocksNow, BlockParts
  <1>9. PICK ins : ins = inserted \cup {header, body}
    OBVIOUS
  <1>10. ins \subseteq Blocks(ast) /\ \A x \in ins \ inserted : x[2] = Top.node /\ Reached(f, x[1])
    <2>1. Reached(f, "for-header") /\ Reached(f, "for-body")
      BY <1>5 DEF Reached
    <2> QED
      BY <1>0, <1>6, <1>7, <1>9, <2>1 DEF GenInv
  <1>11. \A x : Holds(ast, f, x) <=> x \in {header, body}
    BY <1>1, <1>5, <1>h, <1>y DEF Holds, Fills
  <1>12. HoldsOf(ast, f, cur) /\ HeldIsOpen(ast, code, f)
    BY <1>1, <1>2, <1>5, <1>6, <1>7, <1>11, <1>h, <1>y DEF HoldsOf, HeldIsOpen
  <1>13. WritesTouched(code) /\ Touched(cur)
    BY DEF WritesTouched, Touched
  <1>14. \A x \in ins : Touched(x) =>
           Terminated(code[x]) \/ (x = cur /\ Len(fs) >= 3) \/ Holds(ast, f, x)
    <2>1. \A x : ~ Holds(ast, Top, x)
      BY <1>1 DEF Holds, Fills
    <2> QED
      BY <1>5, <1>9, <1>11, <2>1 DEF Touched
  <1>15. BlockParts(fs, ins, code, cur)
    BY <1>1, <1>4, <1>6, <1>7, <1>8, <1>10, <1>11, <1>12, <1>13, <1>14, AfterCall
  <1> QED
    BY <1>1, <1>3, <1>9, <1>15 DEF BlocksNext

LEMMA GenForBodyBlocks ==
  ASSUME ast \in Programs, GenInv, BlocksNow, GenForBody
  PROVE  BlocksNext
  <1>0. PICK n : n = Top.node
    OBVIOUS
  <1>h. PICK header : header = <<"for-header", n>>
    OBVIOUS
  <1>y. PICK body : body = <<"for-body", n>>
    OBVIOUS
  <1>b. PICK b : b = cur
    OBVIOUS
  <1>i. PICK i : i = CondBr(body, <<"merge-for", n>>)
    OBVIOUS
  <1>c. PICK c : c = Emit(code, b, Br(header))
    OBVIOUS
  <1>d. PICK d : d = Emit(c, header, Eval(Kid(n, 2)))
    OBVIOUS
  <1>f. PICK co : co = Emit(d, header, i)
    OBVIOUS
  <1>1. /\ frames # <<>> /\ ast[n].kind = "for" /\ Top.step = 2
        /\ inserted' = inserted /\ cur' = body /\ code' = co
        /\ CallGen(Top, Kid(n, 4))
    BY <1>0, <1>h, <1>y, <1>b, <1>i, <1>c, <1>d, <1>f DEF GenForBody, At, Keep
  <1>2. /\ n \in DOMAIN ast /\ n \in Seq(Nat) /\ b \in inserted /\ b \in Blocks(ast)
        /\ code \in Codes /\ Len(frames) >= 3
    BY <1>0, <1>1, <1>b, InnerSize
  <1>3. PICK fs : fs = frames'
    OBVIOUS
  <1>4. PICK f : CalledTo(f, fs)
    BY <1>0, <1>1, <1>3, LoopCalls
  <1>5. f.node = n /\ f.step = 3 /\ Len(fs) >= 3
    BY <1>0, <1>1, <1>4, InnerSize DEF CalledTo
  <1>6. /\ header \in Blocks(ast) /\ body \in Blocks(ast) /\ i \in Instr /\ IsTerminator(i)
        /\ Br(header) \in Instr /\ IsTerminator(Br(header))
        /\ Eval(Kid(n, 2)) \in Instr /\ ~ IsTerminator(Eval(Kid(n, 2)))
    <2>1. header \in Blocks(ast) /\ body \in Blocks(ast) /\ <<"merge-for", n>> \in Blocks(ast)
      BY <1>1, <1>2, <1>h, <1>y, RolesOf
    <2>2. Kid(n, 2) \in Seq(Nat)
      BY <1>2 DEF Kid
    <2> QED
      BY <1>i, <2>1, <2>2, Kinds
  <1>7. /\ header # b /\ body # b /\ header # body /\ Touched(body)
        /\ code[header] = <<>> /\ code[body] = <<>>
        /\ \A x : Holds(ast, Top, x) <=> x \in {header, body}
    <2>1. \A x : Holds(ast, Top, x) <=> x \in {header, body}
      BY <1>0, <1>1, <1>h, <1>y DEF Holds, Fills
    <2>2. HoldsOf(ast, Top, cur) /\ HeldIsOpen(ast, code, Top)
      BY <1>1, TopApart
    <2>3. header # b /\ body # b
      BY <1>6, <1>b, <2>1, <2>2 DEF HoldsOf
    <2>4. code[header] = <<>> /\ code[body] = <<>>
      BY <1>0, <1>1, <1>h, <1>y, <2>2 DEF HeldIsOpen
    <2> QED
      BY <1>h, <1>y, <2>1, <2>3, <2>4 DEF Touched
  <1>8. /\ c \in Codes /\ \A x \in Blocks(ast) : x # b => c[x] = code[x]
        /\ Terminated(c[b])
        /\ Early(c[b]) <=> Early(code[b]) \/ Terminated(code[b])
    <2>1. code \in Codes /\ b \in Blocks(ast) /\ Br(header) \in Instr
      BY <1>2, <1>6
    <2>2. IsTerminator(Br(header))
      BY <1>6
    <2> QED
      BY <1>c, <2>1, <2>2, EmitEnds
  <1>9. /\ d \in Codes /\ \A x \in Blocks(ast) : x # header => d[x] = c[x]
        /\ ~ Terminated(d[header])
        /\ Early(d[header]) <=> Early(c[header]) \/ Terminated(c[header])
    <2>1. c \in Codes /\ header \in Blocks(ast) /\ Eval(Kid(n, 2)) \in Instr
      BY <1>6, <1>8
    <2>2. ~ IsTerminator(Eval(Kid(n, 2)))
      BY <1>6
    <2> QED
      BY <1>d, <2>1, <2>2, EmitEnds
  <1>10. /\ \A x \in Blocks(ast) : x # header => co[x] = d[x]
         /\ Terminated(co[header])
         /\ Early(co[header]) <=> Early(d[header]) \/ Terminated(d[header])
    <2>1. d \in Codes /\ header \in Blocks(ast) /\ i \in Instr
      BY <1>6, <1>9
    <2>2. IsTerminator(i)
      BY <1>6
    <2> QED
      BY <1>f, <2>1, <2>2, EmitEnds
  <1>11. /\ \A x \in Blocks(ast) : x \notin {b, header} => co[x] = code[x]
         /\ Terminated(co[b]) /\ Terminated(co[header])
         /\ Early(co[b]) <=> Early(code[b]) \/ Terminated(code[b])
         /\ Early(co[header]) <=> Early(code[header])
    BY <1>2, <1>6, <1>7, <1>8, <1>9, <1>10, EmptyEnds
  <1>12. Verdict(fs, co, body)
    <2>1. SomeEarly(ast, co) <=> SomeEarly(ast, code) \/ Terminated(code[cur])
      BY <1>2, <1>11, <1>b, EarlyAfter
    <2>2. LoudTop
      BY <1>0, <1>1 DEF LoudTop, Silent
    <2>3. ~ Terminated(co[body])
      BY <1>6, <1>7, <1>11, EmptyEnds
    <2> QED
      BY <1>1, <1>2, <1>4, <2>1, <2>2, <2>3, VerdictLoudCall
  <1>13. WritesTouched(co)
    BY <1>7, <1>11, <1>b DEF WritesTouched, Touched
  <1>14. \A x \in inserted : Touched(x) =>
           Terminated(co[x]) \/ (x = body /\ Len(fs) >= 3) \/ Holds(ast, f, x)
    BY <1>5, <1>7, <1>11, <1>b DEF Touched
  <1>15. BlockParts(fs, inserted, co, body)
    <2>1. ast[f.node].kind \in {"for", "while"} /\ f.step # 2 /\ inserted \subseteq Blocks(ast)
      BY <1>1, <1>5 DEF GenInv
    <2> QED
      BY <1>1, <1>4, <1>7, <1>12, <1>13, <1>14, <2>1, LoopHoldsNothing, AfterCall
  <1> QED
    BY <1>1, <1>3, <1>15 DEF BlocksNext

LEMMA GenForNextBlocks ==
  ASSUME ast \in Programs, GenInv, BlocksNow, GenForNext
  PROVE  BlocksNext
  <1>0. PICK n : n = Top.node
    OBVIOUS
  <1>m. PICK next : next = <<"next-for", n>>
    OBVIOUS
  <1>b. PICK b : b = cur
    OBVIOUS
  <1>f. PICK co : co = Emit(code, b, Br(next))
    OBVIOUS
  <1>1. /\ frames # <<>> /\ ast[n].kind = "for" /\ Top.step = 3
        /\ inserted' = inserted \cup {next} /\ cur' = next /\ code' = co
        /\ CallGen(Top, Kid(n, 3))
    BY <1>0, <1>m, <1>b, <1>f DEF GenForNext, At, Keep
  <1>2. /\ n \in DOMAIN ast /\ n \in Seq(Nat) /\ b \in inserted /\ b \in Blocks(ast)
        /\ code \in Codes /\ Len(frames) >= 3
    BY <1>0, <1>1, <1>b, InnerSize
  <1>3. PICK fs : fs = frames'
    OBVIOUS
  <1>4. PICK f : CalledTo(f, fs)
    BY <1>0, <1>1, <1>3, LoopCalls
  <1>5. f.node = n /\ f.step = 4 /\ Len(fs) >= 3
    BY <1>0, <1>1, <1>4, InnerSize DEF CalledTo
  <1>6. /\ next \in Blocks(ast) /\ next \notin inserted /\ code[next] = <<>> /\ Touched(next)
        /\ next[1] = "next-for" /\ next[2] = n
    <2>1. next \in Blocks(ast) /\ next[1] = "next-for" /\ next[2] = n
      BY <1>1, <1>2, <1>m, RolesOf
    <2>2. ~ Reached(Top, "next-for")
      BY <1>1 DEF Reached
    <2> QED
      BY <1>0, <1>1, <2>1, <2>2, NewBlock
  <1>7. /\ \A x \in Blocks(ast) : x # b => co[x] = code[x]
        /\ Terminated(co[b])
        /\ Early(co[b]) <=> Early(code[b]) \/ Terminated(code[b])
    <2>1. Br(next) \in Instr /\ IsTerminator(Br(next))
      BY <1>6, Kinds
    <2> QED
      BY <1>2, <1>f, <2>1, EmitEnds
  <1>8. Verdict(fs, co, next)
    <2>1. SomeEarly(ast, co) <=> SomeEarly(ast, code) \/ Terminated(code[cur])
      BY <1>2, <1>7, <1>b, EarlyAfter
    <2>2. LoudTop
      BY <1>0, <1>1 DEF LoudTop, Silent
    <2>3. ~ Terminated(co[next])
      BY <1>2, <1>6, <1>7, EmptyEnds
    <2> QED
      BY <1>1, <1>2, <1>4, <2>1, <2>2, <2>3, VerdictLoudCall
  <1>9. WritesTouched(co)
    BY <1>7, <1>b DEF WritesTouched, Touched
  <1>10. PICK ins : ins = inserted \cup {next}
    OBVIOUS
  <1>11. ins \subseteq Blocks(ast) /\ \A x \in ins \ inserted : x[2] = Top.node /\ Reached(f, x[1])
    <2>1. Reached(f, "next-for")
      BY <1>5 DEF Reached
    <2> QED
      BY <1>0, <1>6, <1>10, <2>1 DEF GenInv
  <1>12. \A x \in ins : Touched(x) =>
           Terminated(co[x]) \/ (x = next /\ Len(fs) >= 3) \/ Holds(ast, f, x)
    <2>1. \A x : ~ Holds(ast, Top, x)
      BY <1>0, <1>1, LoopHoldsNothing
    <2> QED
      BY <1>5, <1>7, <1>10, <1>b, <2>1 DEF Touched
  <1>13. BlockParts(fs, ins, co, next)
    <2>1. ast[f.node].kind \in {"for", "while"} /\ f.step # 2
      BY <1>1, <1>5
    <2> QED
      BY <1>1, <1>4, <1>6, <1>8, <1>9, <1>11, <1>12, <2>1, LoopHoldsNothing, AfterCall
  <1> QED
    BY <1>1, <1>3, <1>10, <1>13 DEF BlocksNext

LEMMA EndForBlocks ==
  ASSUME ast \in Programs, GenInv, BlocksNow, EndFor
  PROVE  BlocksNext
  <1>0. PICK n : n = Top.node
    OBVIOUS
  <1>m. PICK m : m = <<"merge-for", n>>
    OBVIOUS
  <1>b. PICK b : b = cur
    OBVIOUS
  <1>h. PICK header : header = <<"for-header", n>>
    OBVIOUS
  <1>f. PICK co : co = Emit(code, b, Br(header))
    OBVIOUS
  <1>1. /\ frames # <<>> /\ ast[n].kind = "for" /\ Top.step = 4
        /\ inserted' = inserted \cup {m} /\ cur' = m /\ code' = co
        /\ frames' = Front(frames)
    BY <1>0, <1>m, <1>b, <1>h, <1>f DEF EndFor, At, Return, Keep
  <1>2. /\ n \in DOMAIN ast /\ b \in inserted /\ b \in Blocks(ast)
        /\ code \in Codes /\ Len(frames) >= 3 /\ n \notin Jumps(ast)
    BY <1>0, <1>1, <1>b, InnerSize
  <1>3. Returns
    <2>1. Turns(ast, n) = <<1, 4, 3>>
      BY <1>1, <1>2, TurnsAreChildren
    <2> QED
      BY <1>0, <1>1, <2>1 DEF Returns
  <1>4. PICK fs : fs = frames'
    OBVIOUS
  <1>5. ReturnedTo(fs) /\ Len(fs) >= 3
    BY <1>0, <1>1, <1>3, <1>4, ReturnsTo, InnerSize
  <1>6. /\ m \in Blocks(ast) /\ m \notin inserted /\ code[m] = <<>> /\ Touched(m) /\ m[2] = n
    <2>1. m \in Blocks(ast) /\ m[1] = "merge-for" /\ m[2] = n
      BY <1>1, <1>2, <1>m, RolesOf
    <2>2. ~ Reached(Top, "merge-for")
      BY DEF Reached
    <2> QED
      BY <1>0, <1>1, <2>1, <2>2, NewBlock
  <1>7. /\ \A x \in Blocks(ast) : x # b => co[x] = code[x]
        /\ Terminated(co[b])
        /\ Early(co[b]) <=> Early(code[b]) \/ Terminated(code[b])
    <2>1. header \in Blocks(ast)
      BY <1>1, <1>2, <1>h, RolesOf
    <2>2. Br(header) \in Instr /\ IsTerminator(Br(header))
      BY <2>1, Kinds
    <2> QED
      BY <1>2, <1>f, <2>2, EmitEnds
  <1>8. Verdict(fs, co, m)
    <2>1. SomeEarly(ast, co) <=> SomeEarly(ast, code) \/ Terminated(code[cur])
      BY <1>2, <1>7, <1>b, EarlyAfter
    <2>2. LoudTop
      BY <1>0, <1>1 DEF LoudTop, Silent
    <2>3. ~ Terminated(co[m])
      BY <1>2, <1>6, <1>7, EmptyEnds
    <2> QED
      BY <1>0, <1>1, <1>2, <1>5, <2>1, <2>2, <2>3, VerdictLoudReturn
  <1>9. WritesTouched(co)
    BY <1>7, <1>b DEF WritesTouched, Touched
  <1>10. PICK ins : ins = inserted \cup {m}
    OBVIOUS
  <1>11. \A x \in ins : Touched(x) => Terminated(co[x]) \/ (x = m /\ Len(fs) >= 3)
    <2>1. \A x : ~ Holds(ast, Top, x)
      BY <1>0, <1>1, LoopHoldsNothing
    <2> QED
      BY <1>5, <1>7, <1>10, <1>b, <2>1 DEF Touched
  <1>12. BlockParts(fs, ins, co, m)
    BY <1>0, <1>1, <1>5, <1>6, <1>8, <1>9, <1>10, <1>11, AfterReturn
  <1> QED
    BY <1>1, <1>4, <1>10, <1>12 DEF BlocksNext

(***************************************************************************)
(* While.                                                                  *)
(***************************************************************************)
LEMMA GenWhileBodyBlocks ==
  ASSUME ast \in Programs, GenInv, BlocksNow, GenWhileBody
  PROVE  BlocksNext
  <1>0. PICK n : n = Top.node
    OBVIOUS
  <1>h. PICK cond : cond = <<"while-cond", n>>
    OBVIOUS
  <1>y. PICK body : body = <<"while-body", n>>
    OBVIOUS
  <1>m. PICK merge : merge = <<"while-merge", n>>
    OBVIOUS
  <1>b. PICK b : b = cur
    OBVIOUS
  <1>i. PICK i : i = CondBr(body, merge)
    OBVIOUS
  <1>c. PICK c : c = Emit(code, b, Br(cond))
    OBVIOUS
  <1>d. PICK d : d = Emit(c, cond, Eval(Kid(n, 1)))
    OBVIOUS
  <1>f. PICK co : co = Emit(d, cond, i)
    OBVIOUS
  <1>1. /\ frames # <<>> /\ ast[n].kind = "while" /\ Top.step = 1
        /\ inserted' = inserted \cup {body, cond, merge} /\ cur' = body /\ code' = co
        /\ CallGen(Top, Kid(n, 2))
    BY <1>0, <1>h, <1>y, <1>m, <1>b, <1>i, <1>c, <1>d, <1>f DEF GenWhileBody, At, Keep
  <1>2. /\ n \in DOMAIN ast /\ n \in Seq(Nat) /\ b \in inserted /\ b \in Blocks(ast)
        /\ code \in Codes /\ Len(frames) >= 3
    BY <1>0, <1>1, <1>b, InnerSize
  <1>3. PICK fs : fs = frames'
    OBVIOUS
  <1>4. PICK f : CalledTo(f, fs)
    BY <1>0, <1>1, <1>3, LoopCalls
  <1>5. f.node = n /\ f.step = 2 /\ Len(fs) >= 3
    BY <1>0, <1>1, <1>4, InnerSize DEF CalledTo
  <1>6. /\ i \in Instr /\ IsTerminator(i)
        /\ Br(cond) \in Instr /\ IsTerminator(Br(cond))
        /\ Eval(Kid(n, 1)) \in Instr /\ ~ IsTerminator(Eval(Kid(n, 1)))
    <2>1. cond \in Blocks(ast) /\ body \in Blocks(ast) /\ merge \in Blocks(ast)
      BY <1>1, <1>2, <1>h, <1>y, <1>m, RolesOf
    <2>2. Kid(n, 1) \in Seq(Nat)
      BY <1>2 DEF Kid
    <2> QED
      BY <1>i, <2>1, <2>2, Kinds
  <1>7. ASSUME NEW r \in {"while-cond", "while-body", "while-merge"}, NEW x, x = <<r, n>>
        PROVE  /\ x \in Blocks(ast) /\ x \notin inserted /\ code[x] = <<>> /\ Touched(x)
               /\ x[2] = Top.node /\ Reached(f, x[1]) /\ x # b
    <2>1. x \in Blocks(ast) /\ x[1] = r /\ x[2] = n
      BY <1>1, <1>2, <1>7, RolesOf
    <2>2. ~ Reached(Top, r) /\ Reached(f, r)
      BY <1>1, <1>5 DEF Reached
    <2> QED
      BY <1>0, <1>1, <1>2, <2>1, <2>2, NewBlock
  <1>k. /\ cond \in Blocks(ast) /\ code[cond] = <<>> /\ cond # b /\ Touched(cond)
        /\ body \in Blocks(ast) /\ code[body] = <<>> /\ body # b /\ Touched(body)
        /\ merge \in Blocks(ast) /\ code[merge] = <<>> /\ merge # b /\ Touched(merge)
        /\ body # cond /\ merge # cond /\ merge # body
    BY <1>7, <1>h, <1>y, <1>m
  <1>8. /\ c \in Codes /\ \A x \in Blocks(ast) : x # b => c[x] = code[x]
        /\ Terminated(c[b])
        /\ Early(c[b]) <=> Early(code[b]) \/ Terminated(code[b])
    <2>1. code \in Codes /\ b \in Blocks(ast) /\ Br(cond) \in Instr
      BY <1>2, <1>6
    <2>2. IsTerminator(Br(cond))
      BY <1>6
    <2> QED
      BY <1>c, <2>1, <2>2, EmitEnds
  <1>9. /\ d \in Codes /\ \A x \in Blocks(ast) : x # cond => d[x] = c[x]
        /\ ~ Terminated(d[cond])
        /\ Early(d[cond]) <=> Early(c[cond]) \/ Terminated(c[cond])
    <2>1. c \in Codes /\ cond \in Blocks(ast) /\ Eval(Kid(n, 1)) \in Instr
      BY <1>6, <1>8, <1>k
    <2>2. ~ IsTerminator(Eval(Kid(n, 1)))
      BY <1>6
    <2> QED
      BY <1>d, <2>1, <2>2, EmitEnds
  <1>10. /\ \A x \in Blocks(ast) : x # cond => co[x] = d[x]
         /\ Terminated(co[cond])
         /\ Early(co[cond]) <=> Early(d[cond]) \/ Terminated(d[cond])
    <2>1. d \in Codes /\ cond \in Blocks(ast) /\ i \in Instr
      BY <1>6, <1>9, <1>k
    <2>2. IsTerminator(i)
      BY <1>6
    <2> QED
      BY <1>f, <2>1, <2>2, EmitEnds
  <1>11. /\ \A x \in Blocks(ast) : x \notin {b, cond} => co[x] = code[x]
         /\ Terminated(co[b]) /\ Terminated(co[cond])
         /\ Early(co[b]) <=> Early(code[b]) \/ Terminated(code[b])
         /\ Early(co[cond]) <=> Early(code[cond])
    BY <1>2, <1>8, <1>9, <1>10, <1>k, EmptyEnds
  <1>12. Verdict(fs, co, body)
    <2>1. SomeEarly(ast, co) <=> SomeEarly(ast, code) \/ Terminated(code[cur])
      BY <1>2, <1>11, <1>b, EarlyAfter
    <2>2. LoudTop
      BY <1>0, <1>1 DEF LoudTop, Silent
    <2>3. ~ Terminated(co[body])
      BY <1>11, <1>k, EmptyEnds
    <2> QED
      BY <1>1, <1>2, <1>4, <2>1, <2>2, <2>3, VerdictLoudCall
  <1>13. WritesTouched(co)
    BY <1>11, <1>b, <1>k DEF WritesTouched, Touched
  <1>14. PICK ins : ins = inserted \cup {body, cond, merge}
    OBVIOUS
  <1>15. ins \subseteq Blocks(ast) /\ \A x \in ins \ inserted : x[2] = Top.node /\ Reached(f, x[1])
    BY <1>7, <1>14, <1>h, <1>y, <1>m DEF GenInv
  <1>16. \A x : Holds(ast, f, x) <=> x = merge
    BY <1>1, <1>5, <1>m DEF Holds, Fills
  <1>17. HoldsOf(ast, f, body) /\ HeldIsOpen(ast, co, f)
    <2>1. co[merge] = <<>>
      BY <1>11, <1>k
    <2> QED
      BY <1>1, <1>5, <1>16, <1>k, <1>m, <2>1 DEF HoldsOf, HeldIsOpen
  <1>18. \A x \in ins : Touched(x) =>
           Terminated(co[x]) \/ (x = body /\ Len(fs) >= 3) \/ Holds(ast, f, x)
    <2>1. \A x : ~ Holds(ast, Top, x)
      BY <1>0, <1>1, LoopHoldsNothing
    <2> QED
      BY <1>5, <1>11, <1>14, <1>16, <1>b, <2>1 DEF Touched
  <1>19. BlockParts(fs, ins, co, body)
    BY <1>1, <1>4, <1>12, <1>13, <1>15, <1>16, <1>17, <1>18, <1>k, AfterCall
  <1> QED
    BY <1>1, <1>3, <1>14, <1>19 DEF BlocksNext

LEMMA EndWhileBlocks ==
  ASSUME ast \in Programs, GenInv, BlocksNow, EndWhile
  PROVE  BlocksNext
  <1>0. PICK n : n = Top.node
    OBVIOUS
  <1>m. PICK m : m = <<"while-merge", n>>
    OBVIOUS
  <1>b. PICK b : b = cur
    OBVIOUS
  <1>h. PICK cond : cond = <<"while-cond", n>>
    OBVIOUS
  <1>f. PICK co : co = Emit(code, b, Br(cond))
    OBVIOUS
  <1>1. /\ frames # <<>> /\ ast[n].kind = "while" /\ Top.step = 2
        /\ inserted' = inserted /\ cur' = m /\ code' = co
        /\ frames' = Front(frames)
    BY <1>0, <1>m, <1>b, <1>h, <1>f DEF EndWhile, At, Return, Keep
  <1>2. /\ n \in DOMAIN ast /\ b \in inserted /\ b \in Blocks(ast)
        /\ code \in Codes /\ Len(frames) >= 3 /\ n \notin Jumps(ast)
    BY <1>0, <1>1, <1>b, InnerSize
  <1>3. Returns
    <2>1. Turns(ast, n) = <<2>>
      BY <1>1, <1>2, TurnsAreChildren
    <2> QED
      BY <1>0, <1>1, <2>1 DEF Returns
  <1>4. PICK fs : fs = frames'
    OBVIOUS
  <1>5. ReturnedTo(fs) /\ Len(fs) >= 3
    BY <1>0, <1>1, <1>3, <1>4, ReturnsTo, InnerSize
  <1>6. /\ m \in Blocks(ast) /\ m # b /\ code[m] = <<>> /\ Touched(m)
        /\ \A x : Holds(ast, Top, x) <=> x = m
    <2>1. \A x : Holds(ast, Top, x) <=> x = m
      BY <1>0, <1>1, <1>m DEF Holds, Fills
    <2>2. HoldsOf(ast, Top, cur) /\ HeldIsOpen(ast, code, Top)
      BY <1>1, TopApart
    <2>3. m \in Blocks(ast)
      BY <1>1, <1>2, <1>m, RolesOf
    <2>4. m # b
      BY <1>b, <2>1, <2>2, <2>3 DEF HoldsOf
    <2>5. code[m] = <<>>
      BY <1>0, <1>1, <1>m, <2>2 DEF HeldIsOpen
    <2> QED
      BY <2>1, <2>3, <2>4, <2>5 DEF Touched
  <1>7. /\ \A x \in Blocks(ast) : x # b => co[x] = code[x]
        /\ Terminated(co[b])
        /\ Early(co[b]) <=> Early(code[b]) \/ Terminated(code[b])
    <2>1. cond \in Blocks(ast)
      BY <1>1, <1>2, <1>h, RolesOf
    <2>2. Br(cond) \in Instr /\ IsTerminator(Br(cond))
      BY <2>1, Kinds
    <2> QED
      BY <1>2, <1>f, <2>2, EmitEnds
  <1>8. Verdict(fs, co, m)
    <2>1. SomeEarly(ast, co) <=> SomeEarly(ast, code) \/ Terminated(code[cur])
      BY <1>2, <1>7, <1>b, EarlyAfter
    <2>2. LoudTop
      BY <1>0, <1>1 DEF LoudTop, Silent
    <2>3. ~ Terminated(co[m])
      BY <1>6, <1>7, EmptyEnds
    <2> QED
      BY <1>0, <1>1, <1>2, <1>5, <2>1, <2>2, <2>3, VerdictLoudReturn
  <1>9. WritesTouched(co)
    BY <1>7, <1>b DEF WritesTouched, Touched
  <1>10. \A x \in inserted : Touched(x) => Terminated(co[x]) \/ (x = m /\ Len(fs) >= 3)
    BY <1>5, <1>6, <1>7, <1>b DEF Touched
  <1>11. BlockParts(fs, inserted, co, m)
    BY <1>0, <1>1, <1>5, <1>6, <1>8, <1>9, <1>10, AfterReturn
  <1> QED
    BY <1>1, <1>4, <1>11 DEF BlocksNext

(***************************************************************************)
(* The end of a function's block.                                          *)
(***************************************************************************)
LEMMA EndBlockBlocks ==
  ASSUME ast \in Programs, GenInv, BlocksNow, EndBlock
  PROVE  BlocksNext
  <1>0. PICK n : n = Top.node
    OBVIOUS
  <1>r. PICK ret : ret = <<"return", n>>
    OBVIOUS
  <1>b. PICK b : b = cur
    OBVIOUS
  <1>l. PICK left : left = {parentbb[r] : r \in Rets(ast) \cap Below(ast, n)}
    OBVIOUS
  <1>c. PICK c : c = Emit(code, b, Br(ret))
    OBVIOUS
  <1>d. PICK full : full = [c EXCEPT ![ret] = <<RetInstr>>]
    OBVIOUS
  <1>f. PICK co : co = [x \in DOMAIN code |->
                          IF x \in left THEN Ret2Alloca(full[x], ret) ELSE full[x]]
    OBVIOUS
  <1>1. /\ frames # <<>> /\ ast[n].kind = "block" /\ Top.step > ast[n].arity
        /\ code' = co
        /\ inserted' = inserted \cup {ret} /\ cur' = ret
        /\ frames' = Front(frames)
    BY <1>0, <1>r, <1>b, <1>l, <1>c, <1>d, <1>f DEF EndBlock, Return, Keep
  <1>2. /\ n \in DOMAIN ast /\ b \in inserted /\ b \in Blocks(ast) /\ code \in Codes
        /\ n \notin Jumps(ast) /\ Top.step \in 1..(Len(Turns(ast, n)) + 1)
        /\ DOMAIN code = Blocks(ast)
    <2>1. n \in DOMAIN ast /\ Top.step \in 1..(Len(Turns(ast, n)) + 1)
      BY <1>0, <1>1, TopFrame DEF GenInv
    <2>2. b \in inserted /\ b \in Blocks(ast)
      BY <1>0, <1>1, <1>b, InnerTop
    <2>3. n \notin Jumps(ast)
      BY <1>1 DEF Jumps, JumpKinds, OfKind
    <2> QED
      BY <2>1, <2>2, <2>3 DEF GenInv, Codes
  <1>3. Returns
    <2>1. Len(Turns(ast, n)) = ast[n].arity /\ ast[n].arity \in Nat
      BY <1>1, <1>2, TurnsAreChildren, ProgramsAreTrees, TreePositions
    <2>2. Top.step = Len(Turns(ast, n)) + 1
      BY <1>1, <1>2, <2>1
    <2> QED
      BY <1>0, <1>1, <2>2 DEF Returns
  <1>4. PICK fs : fs = frames'
    OBVIOUS
  <1>5. ReturnedTo(fs)
    BY <1>3, <1>4, ReturnsTo
  <1>6. Len(frames) = 3 /\ Len(frames) >= 3 /\ ~ (Len(fs) >= 3)
    <2>1. PICK K \in Nat : K = Len(frames)
      BY <1>1, TopIn
    <2>2. K = 3
      BY <1>0, <1>1, <2>1, TopLevel
    <2>3. Len(fs) = 2
      BY <1>5, <2>1, <2>2 DEF ReturnedTo
    <2> QED
      BY <2>1, <2>2, <2>3
  <1>7. /\ ret \in Blocks(ast) /\ ret \notin inserted /\ code[ret] = <<>> /\ Touched(ret)
        /\ ret[2] = n /\ ret # b
    <2>1. ret \in Blocks(ast) /\ ret[1] = "return" /\ ret[2] = n
      BY <1>1, <1>2, <1>r, RolesOf
    <2>2. ~ Reached(Top, "return")
      BY DEF Reached
    <2> QED
      BY <1>0, <1>1, <1>2, <2>1, <2>2, NewBlock
  <1>8. /\ c \in Codes /\ \A x \in Blocks(ast) : x # b => c[x] = code[x]
        /\ Terminated(c[b])
        /\ Early(c[b]) <=> Early(code[b]) \/ Terminated(code[b])
    <2>1. Br(ret) \in Instr /\ IsTerminator(Br(ret))
      BY <1>7, Kinds
    <2> QED
      BY <1>2, <1>c, <2>1, EmitEnds
  <1>9. /\ \A x \in Blocks(ast) : full[x] \in Seq(Instr)
        /\ \A x \in Blocks(ast) : x # ret => full[x] = c[x]
        /\ Terminated(full[ret]) /\ ~ Early(full[ret])
    <2>1. RetInstr \in Instr /\ IsTerminator(RetInstr)
      BY Kinds
    <2>2. \A x \in Blocks(ast) : full[x] = IF x = ret THEN <<RetInstr>> ELSE c[x]
      BY <1>7, <1>8, <1>d DEF Codes
    <2>3. <<RetInstr>> \in Seq(Instr)
      BY <2>1
    <2>4. Terminated(<<RetInstr>>) /\ ~ Early(<<RetInstr>>)
      BY <2>1, SingleEnds
    <2> QED
      BY <1>7, <1>8, <2>2, <2>3, <2>4 DEF Codes
  <1>10. ASSUME NEW x \in Blocks(ast)
         PROVE  /\ x \in left => Terminated(co[x])
                /\ x \notin left => co[x] = full[x]
                /\ Early(co[x]) <=> Early(full[x])
                /\ Terminated(full[x]) => Terminated(co[x])
    <2>1. CASE x \in left
      <3>1. co[x] = Ret2Alloca(full[x], ret)
        BY <1>2, <1>f, <2>1
      <3> QED
        BY <1>7, <1>9, <2>1, <3>1, RetractEnds
    <2>2. CASE x \notin left
      BY <1>2, <1>f, <2>2
    <2> QED
      BY <2>1, <2>2
  <1>11. /\ \A x \in Blocks(ast) : x \notin {b, ret} => full[x] = code[x]
         /\ Terminated(full[b]) /\ Terminated(full[ret])
         /\ Early(full[b]) <=> Early(code[b]) \/ Terminated(code[b])
         /\ Early(full[ret]) <=> Early(code[ret])
    BY <1>2, <1>7, <1>8, <1>9, EmptyEnds
  <1>12. Verdict(fs, co, ret)
    <2>1. Early(co[b]) <=> Early(code[b]) \/ Terminated(code[b])
      BY <1>2, <1>10, <1>11
    <2>2. ASSUME NEW x \in Blocks(ast), x # b PROVE Early(co[x]) <=> Early(code[x])
      BY <1>10, <1>11, <2>2
    <2>3. SomeEarly(ast, co) <=> SomeEarly(ast, code) \/ Terminated(code[b])
      BY <1>2, <2>1, <2>2, EarlyAfter
    <2>4. LoudTop
      BY <1>0, <1>1 DEF LoudTop, Silent
    <2> QED
      BY <1>0, <1>1, <1>2, <1>5, <1>6, <1>b, <2>3, <2>4, VerdictLoudReturn
  <1>13. WritesTouched(co)
    <2> SUFFICES ASSUME NEW x \in Blocks(ast), ~ Touched(x)
                 PROVE  co[x] = code[x] \/ (Len(frames) = 3 /\ Terminated(co[x]))
      BY DEF WritesTouched
    <2>1. x # b /\ x # ret
      BY <1>7, <1>b DEF Touched
    <2> QED
      BY <1>6, <1>10, <1>11, <2>1
  <1>14. PICK ins : ins = inserted \cup {ret}
    OBVIOUS
  <1>15. \A x \in ins : Touched(x) => Terminated(co[x])
    <2> SUFFICES ASSUME NEW x \in ins, Touched(x) PROVE Terminated(co[x])
      OBVIOUS
    <2>1. ~ Holds(ast, Top, x)
      BY <1>0, <1>1, HoldsNothing
    <2>2. x = b \/ x = ret
      BY <1>14, <1>b, <2>1 DEF Touched
    <2> QED
      BY <1>2, <1>7, <1>10, <1>11, <2>2
  <1>16. BlockParts(fs, ins, co, ret)
    BY <1>0, <1>1, <1>5, <1>7, <1>12, <1>13, <1>14, <1>15, AfterReturn
  <1> QED
    BY <1>1, <1>4, <1>14, <1>16 DEF BlocksNext

(***************************************************************************)
(* The rest: before the first call of gen and after the last.              *)
(***************************************************************************)
LEMMA NowOfInv ==
  ASSUME BlockInv, phase = "gen"
  PROVE  BlocksNow
  BY DEF BlockInv, BlocksNow, BlockParts, Verdict

LEMMA InvOfNext ==
  ASSUME BlocksNext, ast' = ast, phase' = "gen"
  PROVE  BlockInv'
  BY DEF BlockInv, BlocksNext, BlockParts, Verdict

LEMMA InitBlocks ==
  ASSUME Init
  PROVE  BlockInv
  <1>1. /\ frames = <<>> /\ inserted = {} /\ phase = "init"
        /\ \A b \in Blocks(ast) : code[b] = <<>>
    BY DEF Init
  <1>2. DOMAIN frames = {} /\ ~ (Len(frames) >= 3)
    BY <1>1
  <1>3. EarlyIsBlamed(ast, code)
    BY <1>1, EmptyEnds DEF EarlyIsBlamed, SomeEarly
  <1> QED
    BY <1>1, <1>2, <1>3
    DEF BlockInv, FramesWait, LaterBlocksWait, HeldApart, RestIsClosed, CurIsBlamed

LEMMA BlocksSame ==
  ASSUME BlockInv, UNCHANGED <<ast, frames, cur, code, inserted>>,
         phase' = "init" <=> phase = "init"
  PROVE  BlockInv'
  BY DEF BlockInv

LEMMA BeginGenBlocks ==
  ASSUME ast \in Programs, GenInv, BlockInv, BeginGen
  PROVE  BlockInv'
  <1>1. /\ inserted = {} /\ phase' = "gen" /\ frames' = <<Frame(Root)>>
        /\ UNCHANGED <<ast, cur, code, inserted>>
    BY DEF BeginGen, Keep, BlockInv
  <1>2. PICK g : g = Frame(Root)
    OBVIOUS
  <1>3. g.node = Root /\ g.step = 1
    BY <1>2 DEF Frame
  <1>4. PICK fs : fs = frames'
    OBVIOUS
  <1>5. DOMAIN fs = {1} /\ Len(fs) = 1 /\ fs[1] = g /\ ~ (Len(fs) >= 3)
    BY <1>1, <1>2, <1>4
  <1>6. FramesWait(ast, fs)
    <2>1. \A k \in DOMAIN fs : ~ (k < Len(fs))
      BY <1>5
    <2> QED
      BY <2>1 DEF FramesWait
  <1>7. HeldApart(ast, fs, cur) /\ \A k \in DOMAIN fs : HeldIsOpen(ast, code, fs[k])
    BY <1>3, <1>5, NewHoldsNothing DEF HeldApart
  <1>8. LaterBlocksWait(ast, fs, inserted) /\ RestIsClosed(ast, fs, inserted, code, cur)
    BY <1>1 DEF LaterBlocksWait, RestIsClosed
  <1>9. EarlyIsBlamed(ast, code) /\ CurIsBlamed(ast, fs, code, cur)
    BY <1>5 DEF BlockInv, CurIsBlamed
  <1>10. PassedAreTold(ast, fs, code, cur)
    <2> SUFFICES ASSUME NEW j \in Jumps(ast) PROVE ~ Passed(ast, fs, j)
      BY DEF PassedAreTold
    <2>0. Root \in DOMAIN ast
      BY ProgramsAreTrees DEF IsTree, Root
    <2>1. IsStrictPrefix(Root, j)
      <3>1. j \in DOMAIN ast /\ j # Root /\ j \in Seq(Nat)
        BY ProgramsAreTrees, TreePositions, FunctionsMakeTheProgram DEF Jumps, JumpKinds, OfKind
      <3>2. IsPrefix(Root, j)
        BY <3>1 DEF IsPrefix, Root
      <3> QED
        BY <3>1, <3>2 DEF IsStrictPrefix
    <2>2. PICK i \in DOMAIN Turns(ast, Root) : IsPrefix(Kid(Root, Turns(ast, Root)[i]), j)
      BY <2>0, <2>1, JumpBelowTurn
    <2>3. i >= 1
      BY <2>0, <2>2, TurnIsChild
    <2>4. Awaits(ast, g, j)
      BY <1>3, <2>2, <2>3 DEF Awaits
    <2> QED
      BY <1>5, <2>4 DEF Passed
  <1>11. BlockParts(fs, inserted, code, cur)
    BY <1>6, <1>7, <1>8, <1>9, <1>10 DEF BlockParts, Verdict
  <1>12. BlocksNext
    BY <1>1, <1>4, <1>11 DEF BlocksNext
  <1> QED
    BY <1>1, <1>12, InvOfNext

LEMMA BlockInvariance == Spec => []BlockInv
  <1>1. Init => BlockInv
    BY InitBlocks
  <1>2. BindingInv /\ PhaseInv /\ GenInv /\ BlockInv /\ [Next]_vars => BlockInv'
    <2> SUFFICES ASSUME BindingInv, PhaseInv, GenInv, BlockInv, [Next]_vars PROVE BlockInv'
      OBVIOUS
    <2>0. ast \in Programs
      BY DEF BindingInv
    <2>1. ASSUME BindJumps PROVE BlockInv'
      <3>1. UNCHANGED ast
        BY <2>1 DEF BindJumps, BindingNext, Expand, InitLoop, InitOther, CallBack
      <3>2. UNCHANGED <<ast, frames, cur, code, inserted>> /\ phase' = phase
        BY <2>1, <3>1 DEF BindJumps, genVars
      <3> QED
        BY <3>2, BlocksSame
    <2>2. BeginGen => BlockInv'
      BY <2>0, BeginGenBlocks
    <2>3. EndGen \/ StrayJump => BlockInv'
      <3>1. ASSUME EndGen \/ StrayJump
            PROVE  /\ UNCHANGED <<ast, frames, cur, code, inserted>>
                   /\ phase # "init" /\ phase' # "init"
        BY <3>1 DEF EndGen, StrayJump, Keep
      <3> QED
        BY <3>1, BlocksSame
    <2>4. Stop \/ UNCHANGED vars => BlockInv'
      <3> SUFFICES ASSUME UNCHANGED vars PROVE BlockInv'
        BY DEF Stop
      <3>1. UNCHANGED <<ast, phase, frames, cur, code, inserted>>
        BY DEF vars, genVars
      <3> QED
        BY <3>1, BlocksSame
    <2>5. ASSUME phase = "gen", phase' = phase, ast' = ast, BlocksNow => BlocksNext
          PROVE  BlockInv'
      BY <2>5, NowOfInv, InvOfNext
    <2>6. ASSUME GenChildren \/ GenFunction \/ EndFunction \/ GenBlock PROVE BlockInv'
      <3>1. phase = "gen" /\ phase' = phase /\ ast' = ast
        BY <2>6 DEF GenChildren, GenFunction, EndFunction, GenBlock, At, Keep
      <3>2. BlocksNow => BlocksNext
        BY <2>0, <2>6, GenChildrenBlocks, GenFunctionBlocks, EndFunctionBlocks, GenBlockBlocks
      <3> QED
        BY <2>5, <3>1, <3>2
    <2>7. ASSUME EndBlock \/ GenExpression \/ GenRet PROVE BlockInv'
      <3>1. phase = "gen" /\ phase' = phase /\ ast' = ast
        BY <2>7 DEF EndBlock, GenExpression, GenRet, At, Keep
      <3>2. BlocksNow => BlocksNext
        BY <2>0, <2>7, EndBlockBlocks, GenExpressionBlocks, GenRetBlocks
      <3> QED
        BY <2>5, <3>1, <3>2
    <2>8. ASSUME GenJump PROVE BlockInv'
      <3>1. phase = "gen" /\ phase' = phase /\ ast' = ast
        BY <2>8 DEF GenJump, Keep
      <3>2. stack = <<>> /\ JumpsBindInnermost
        BY <3>1, InvMeansInnermost DEF PhaseInv
      <3>3. BlocksNow => BlocksNext
        BY <2>0, <2>8, <3>2, GenJumpBlocks
      <3> QED
        BY <2>5, <3>1, <3>3
    <2>9. ASSUME GenThen \/ GenElse \/ EndElse \/ EndThen PROVE BlockInv'
      <3>1. phase = "gen" /\ phase' = phase /\ ast' = ast
        BY <2>9 DEF GenThen, GenElse, EndElse, EndThen, At, Keep
      <3>2. BlocksNow => BlocksNext
        BY <2>0, <2>9, GenThenBlocks, GenElseBlocks, EndElseBlocks, EndThenBlocks
      <3> QED
        BY <2>5, <3>1, <3>2
    <2>10. ASSUME GenForInit \/ GenForBody \/ GenForNext \/ EndFor PROVE BlockInv'
      <3>1. phase = "gen" /\ phase' = phase /\ ast' = ast
        BY <2>10 DEF GenForInit, GenForBody, GenForNext, EndFor, At, Keep
      <3>2. BlocksNow => BlocksNext
        BY <2>0, <2>10, GenForInitBlocks, GenForBodyBlocks, GenForNextBlocks, EndForBlocks
      <3> QED
        BY <2>5, <3>1, <3>2
    <2>11. ASSUME GenWhileBody \/ EndWhile PROVE BlockInv'
      <3>1. phase = "gen" /\ phase' = phase /\ ast' = ast
        BY <2>11 DEF GenWhileBody, EndWhile, At, Keep
      <3>2. BlocksNow => BlocksNext
        BY <2>0, <2>11, GenWhileBodyBlocks, EndWhileBlocks
      <3> QED
        BY <2>5, <3>1, <3>2
    <2> QED
      BY <2>1, <2>2, <2>3, <2>4, <2>6, <2>7, <2>8, <2>9, <2>10, <2>11 DEF Next, GenStep
  <1> QED
    BY <1>1, <1>2, CodeGenImplementsBinding, BindingInvariance, PhaseInvariance,
       GenInvariance, PTL DEF Spec

(***************************************************************************)
(* For every program: gen leaves one terminator in every block, at its     *)
(* end, exactly if every break and continue ends a then branch.            *)
(***************************************************************************)
THEOREM WellFormedIffJumpsEndThen == Spec => []WellFormedExactlyWhen
  <1>1. GenInv /\ BlockInv => WellFormedExactlyWhen
    <2> SUFFICES ASSUME GenInv, BlockInv, phase = "generated"
                 PROVE  (\A b \in inserted : WellFormedBlock(code[b]))
                          <=> (\A j \in Jumps(ast) : EndsThenBranch(ast, j))
      BY DEF WellFormedExactlyWhen
    <2>1. DOMAIN frames = {} /\ ~ (Len(frames) >= 3) /\ inserted \subseteq Blocks(ast)
      <3>1. frames = <<>>
        BY DEF GenInv
      <3> QED
        BY <3>1 DEF GenInv
    <2>2. \A b \in inserted : Terminated(code[b])
      BY <2>1 DEF BlockInv, RestIsClosed
    <2>3. \A b \in inserted : WellFormedBlock(code[b]) <=> ~ Early(code[b])
      BY <2>2 DEF WellFormedBlock, Early
    <2>4. SomeEarly(ast, code) <=> \E b \in inserted : Early(code[b])
      BY <2>1, EmptyEnds DEF SomeEarly, GenInv, FilledAreInserted
    <2>5. EarlyIsBlamed(ast, code) /\ PassedAreTold(ast, frames, code, cur)
      BY DEF BlockInv
    <2>6. \A j \in Jumps(ast) : Passed(ast, frames, j)
      BY <2>1 DEF Passed
    <2>7. \A j \in Jumps(ast) : SomeEarly(ast, code) \/ EndsThenBranch(ast, j)
      BY <2>1, <2>5, <2>6 DEF PassedAreTold
    <2> QED
      BY <2>3, <2>4, <2>5, <2>7 DEF EarlyIsBlamed
  <1> QED
    BY <1>1, GenInvariance, BlockInvariance, PTL

=============================================================================
