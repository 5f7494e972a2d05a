------------------------------ MODULE Execution -----------------------------
(***************************************************************************)
(* Generation, followed by a call of one of the generated functions: the   *)
(* instructions that CodeGen leaves are executed as LLVM executes them.    *)
(* The evaluation of an expression is one step, and the value of a         *)
(* condition is arbitrary.  The programs are the ones for which the        *)
(* generated code means what the source says: see IsClean.                 *)
(***************************************************************************)
EXTENDS CodeGen, SourceOrder

(* Null is no place in a block.                                            *)
ASSUME NullIsNoPlace == \A t \in Programs : Null \notin Blocks(t) \X Nat

VARIABLES
  fun,       \* the function that is called
  pc,        \* the block executed and the index in it, Null before the call
  outcome,   \* the value a conditional branch looks at
  result     \* the return slot: the expression stored last

runVars == <<fun, pc, outcome, result>>
execVars == <<vars, runVars>>

(***************************************************************************)
(* Every break and continue ends a then branch, no jump and no return is   *)
(* followed by another statement of its list, and returned calls have a    *)
(* value.  The third part of a for is an expression, as the parser has it. *)
(***************************************************************************)
NothingFollows(t, n) ==
  \A q \in OfKind(t, {"compound", "block"}) :
    /\ IsStrictPrefix(q, n)
    /\ \A r \in Below(t, q) : IsStrictPrefix(r, n) => t[r].kind = "compound"
    => n[Len(q) + 1] = t[q].arity

IsClean(t) ==
  /\ \A j \in Jumps(t) :
       LoopsAround(t, j) # {} /\ EndsThenBranch(t, j) /\ NothingFollows(t, j)
  /\ \A r \in Rets(t) : NothingFollows(t, r) /\ (t[r].arity = 0 \/ HasSlot(t, r))
  /\ \A n \in OfKind(t, {"for"}) : t[Kid(n, 3)].kind \in ExpressionKinds

ExecInit ==
  /\ Init
  /\ IsClean(ast)
  /\ fun \in Functions(ast)
  /\ pc = Null
  /\ outcome = Null
  /\ result = Null

Generate == GenStep /\ UNCHANGED runVars

Call ==
  /\ phase = "generated" /\ pc = Null
  /\ pc' = <<<<"entry", fun>>, 1>>
  /\ UNCHANGED <<vars, fun, outcome, result>>

Instruction == code[pc[1]][pc[2]]

Running(op) == pc # Null /\ Instruction.op = op

Advance == pc' = <<pc[1], pc[2] + 1>>

RunEval ==
  /\ Running("eval")
  /\ outcome' \in Outcomes(ast, Instruction.at)
  /\ Advance
  /\ UNCHANGED <<vars, fun, result>>

RunStore ==
  /\ Running("store")
  /\ outcome' = Null
  /\ result' = Instruction.at
  /\ Advance
  /\ UNCHANGED <<vars, fun>>

RunBr ==
  /\ Running("br")
  /\ pc' = <<Instruction.to, 1>>
  /\ UNCHANGED <<vars, fun, outcome, result>>

RunCondBr ==
  /\ Running("condbr")
  /\ pc' = <<IF outcome THEN Instruction.then ELSE Instruction.else, 1>>
  /\ UNCHANGED <<vars, fun, outcome, result>>

(* The call has returned.                                                  *)
Returned == Running("ret") /\ UNCHANGED execVars

ExecNext ==
  \/ Generate \/ Call
  \/ RunEval \/ RunStore \/ RunBr \/ RunCondBr
  \/ Returned

ExecSpec == ExecInit /\ [][ExecNext]_execVars

-----------------------------------------------------------------------------
(***************************************************************************)
(* The refinement mapping: the expression that execution comes to next.  A *)
(* block stands for the place of the source that its name tells: the begin *)
(* of a branch or of a body, a condition, what comes after a statement.    *)
(***************************************************************************)
StandsFor(b) ==
  LET n == b[2] IN
  CASE b[1] = "entry"                  -> Begin(ast, Body(ast, n))
    [] b[1] = "return"                 -> Null
    [] b[1] \in {"then", "while-body"} -> Begin(ast, Kid(n, 2))
    [] b[1] = "else"                   -> Begin(ast, Kid(n, 3))
    [] b[1] = "for-body"               -> Begin(ast, Kid(n, 4))
    [] b[1] = "while-cond"             -> Kid(n, 1)
    [] b[1] = "for-header"             -> Kid(n, 2)
    [] b[1] = "next-for"               -> Kid(n, 3)
    [] b[1] \in {"merge-if", "merge-for", "while-merge"} -> After(ast, n)

(* At an instruction of this kind: a branch goes on where the block that   *)
(* it leads to stands.                                                     *)
LeadsTo(i) ==
  CASE i.op \in {"eval", "store"} -> i.at
    [] i.op = "br"                -> StandsFor(i.to)
    [] i.op = "condbr"            -> StandsFor(IF outcome THEN i.then ELSE i.else)
    [] i.op = "ret"               -> Null

comesTo ==
  IF pc = Null THEN Begin(ast, Body(ast, fun)) ELSE LeadsTo(Instruction)

Source == INSTANCE SourceFlow WITH at <- comesTo

(***************************************************************************)
(* The generated code evaluates the expressions of the source in the order *)
(* of the source, takes the branches that the conditions ask for, and      *)
(* returns the value of the return statement it came through.              *)
(***************************************************************************)
ImplementsSource == Source!FlowSpec

=============================================================================
