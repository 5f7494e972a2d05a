------------------------------ MODULE CodeGen -------------------------------
(***************************************************************************)
(* The last two passes of Root::gen: init, which binds the jumps to their  *)
(* loops (LoopBinding), and gen, which appends instructions to LLVM basic  *)
(* blocks through the one insertion point of the shared IRBuilder.         *)
(*                                                                         *)
(* The recursive gen calls are an explicit stack of frames; an action is   *)
(* what the code does between two such calls.  An expression is evaluated  *)
(* by one instruction.  Allocas, and the values that flow between          *)
(* instructions, are left out.                                             *)
(***************************************************************************)
EXTENDS LoopBinding

VARIABLES
  phase,      \* "init", "gen", "generated" or "failed"
  frames,     \* the gen calls in progress, the innermost last
  cur,        \* builder->GetInsertBlock()
  code,       \* the instructions of every block
  inserted,   \* the blocks that belong to an llvm::Function
  parentbb,   \* Ret::parentbb
  error       \* the jump that threw a SyntaxError

genVars == <<phase, frames, cur, code, inserted, parentbb, error>>
vars == <<ast, stack, visited, done, target, genVars>>

Rets(t) == OfKind(t, {"ret"})
Functions(t) == OfKind(t, {"function"})

(* A block is named by its role and by the node that creates it.           *)
Roles ==
  [function |-> {"entry"},
   block    |-> {"return"},
   if       |-> {"then", "else", "merge-if"},
   for      |-> {"for-header", "for-body", "next-for", "merge-for"},
   while    |-> {"while-cond", "while-body", "while-merge"}]

Blocks(t) ==
  UNION {Roles[t[p].kind] \X {p} : p \in OfKind(t, DOMAIN Roles)}

(***************************************************************************)
(* The children that a statement generates, in turn.  What the parser sees *)
(* to: a program consists of functions, which stand nowhere else, a        *)
(* function has one block, its body, the statements have all their parts,  *)
(* and break and continue stand where statements are generated.            *)
(***************************************************************************)
Turns(t, n) ==
  LET a == t[n].arity
      k == t[n].kind
  IN  IF k \in {"program", "compound", "block"} THEN [i \in 1..a |-> i]
      ELSE IF k = "function" THEN <<a>>
      ELSE IF k = "if"       THEN [i \in 1..(a - 1) |-> i + 1]
      ELSE IF k = "for"      THEN <<1, 4, 3>>
      ELSE IF k = "while"    THEN <<2>>
      ELSE <<>>

ASSUME FunctionsMakeTheProgram ==
  \A t \in Programs : \A n \in DOMAIN t :
    /\ t[n].kind = "program" <=> n = Root
    /\ t[n].kind = "function" <=> Len(n) = 1
    /\ t[n].kind = "block" <=> \E f \in Functions(t) : n = Append(f, t[f].arity)

ASSUME StatementsAreWhole ==
  \A t \in Programs :
    /\ \A n \in Functions(t) : t[n].arity >= 1
    /\ \A n \in OfKind(t, {"if"}) : t[n].arity \in {2, 3}
    /\ \A n \in OfKind(t, {"while"}) : t[n].arity = 2
    /\ \A n \in OfKind(t, {"for"}) : t[n].arity = 4

ASSUME JumpsAreStatements ==
  \A t \in Programs : \A j \in Jumps(t) : \A p \in DOMAIN t :
    IsStrictPrefix(p, j) => j[Len(p) + 1] \in Range(Turns(t, p))

ASSUME NullIsNoBlock == \A t \in Programs : Null \notin Blocks(t)

(* Instructions.  store evaluates an expression into the return slot.      *)
Eval(e)         == [op |-> "eval", at |-> e]
Store(e)        == [op |-> "store", at |-> e]
Br(b)           == [op |-> "br", to |-> b]
CondBr(b, c)    == [op |-> "condbr", then |-> b, else |-> c]
RetInstr        == [op |-> "ret"]

IsTerminator(i) == i.op \in {"br", "condbr", "ret"}

(* BasicBlock::getTerminator() # nullptr: it looks at the last instruction *)
Terminated(is) == is # <<>> /\ IsTerminator(Last(is))

(* builder->Create...: the instruction i goes to the end of the block b.   *)
Emit(c, b, i) == [c EXCEPT ![b] = Append(@, i)]

(***************************************************************************)
(* Frames.                                                                 *)
(***************************************************************************)
Frame(n) == [node |-> n, step |-> 1, origin |-> Null, thenEnd |-> Null]

Top == Last(frames)
Kid(n, i) == Append(n, i)

(* The top frame, now f, calls gen on the node c.                          *)
CallGen(f, c) == frames' = Front(frames) \o <<[f EXCEPT !.step = @ + 1], Frame(c)>>
Return == frames' = Front(frames)

(* The frame on top belongs to a node of kind k and is at step s.          *)
At(k, s) == /\ phase = "gen" /\ frames # <<>>
            /\ ast[Top.node].kind = k /\ Top.step = s

Keep(kept) == UNCHANGED <<ast, stack, visited, done, target, kept>>

Init ==
  /\ BindingInit
  /\ phase = "init"
  /\ frames = <<>>
  /\ cur = Null
  /\ code = [b \in Blocks(ast) |-> <<>>]
  /\ inserted = {}
  /\ parentbb = [r \in Rets(ast) |-> Null]
  /\ error = Null

BindJumps ==
  /\ phase = "init" /\ BindingNext
  /\ UNCHANGED genVars

BeginGen ==
  /\ phase = "init" /\ stack = <<>>
  /\ phase' = "gen"
  /\ frames' = <<Frame(Root)>>
  /\ Keep(<<cur, code, inserted, parentbb, error>>)

(***************************************************************************)
(* Program, CompoundStatement: the children in turn.                       *)
(***************************************************************************)
GenChildren ==
  /\ phase = "gen" /\ frames # <<>>
  /\ LET f == Top  n == f.node IN
     /\ ast[n].kind \in {"program", "compound"}
     /\ IF f.step <= ast[n].arity THEN CallGen(f, Kid(n, f.step)) ELSE Return
  /\ Keep(<<phase, cur, code, inserted, parentbb, error>>)

(* Function: an entry block, then its Block, the last child.               *)
GenFunction ==
  /\ At("function", 1)
  /\ LET n == Top.node IN
     /\ cur' = <<"entry", n>>
     /\ inserted' = inserted \cup {cur'}
     /\ CallGen(Top, Kid(n, ast[n].arity))
  /\ Keep(<<phase, code, parentbb, error>>)

EndFunction ==
  /\ At("function", 2)
  /\ Return
  /\ Keep(<<phase, cur, code, inserted, parentbb, error>>)

(* Block: the statements in turn ...                                       *)
GenBlock ==
  /\ phase = "gen" /\ frames # <<>>
  /\ LET f == Top  n == f.node IN
     /\ ast[n].kind = "block" /\ f.step <= ast[n].arity
     /\ CallGen(f, Kid(n, f.step))
  /\ Keep(<<phase, cur, code, inserted, parentbb, error>>)

(* Faulty variant of Ret2Alloca: eraseFromParent is missing.               *)
Ret2AllocaKeeping(is, ret) == is \o <<Br(ret)>>

(***************************************************************************)
(* ... then a branch to the return block, and ret2alloca for every Ret:    *)
(* its block loses the terminator it ends with, if any, and branches to    *)
(* the return block.  Two Rets in one block do this twice, the second time *)
(* with what the first one left, so the set of blocks is enough.           *)
(***************************************************************************)
Ret2Alloca(is, ret) == (IF Terminated(is) THEN Front(is) ELSE is) \o <<Br(ret)>>

EndBlock ==
  /\ phase = "gen" /\ frames # <<>>
  /\ LET n    == Top.node
         ret  == <<"return", n>>
         left == {parentbb[r] : r \in Rets(ast) \cap Below(ast, n)}
         full == [Emit(code, cur, Br(ret)) EXCEPT ![ret] = <<RetInstr>>]
     IN  /\ ast[n].kind = "block" /\ Top.step > ast[n].arity
         /\ code' = [b \in DOMAIN code |->
                       IF b \in left THEN Ret2Alloca(full[b], ret) ELSE full[b]]
         /\ inserted' = inserted \cup {ret}
         /\ cur' = ret
  /\ Return
  /\ Keep(<<phase, parentbb, error>>)

(***************************************************************************)
(* Statements without statements in them.  "let" and assignments are       *)
(* expressions here; "voidcall" is a call of a function that returns void. *)
(***************************************************************************)
ExpressionKinds == {"expr", "voidcall"}

GenExpression ==
  /\ phase = "gen" /\ frames # <<>>
  /\ ast[Top.node].kind \in ExpressionKinds
  /\ code' = Emit(code, cur, Eval(Top.node))
  /\ Return
  /\ Keep(<<phase, cur, inserted, parentbb, error>>)

(***************************************************************************)
(* Ret::gen has a slot to store to (retPtr) unless the function returns    *)
(* void; the returned expression is evaluated for that store only.  The    *)
(* type pass has seen to it that all the Rets of a function agree.         *)
(***************************************************************************)
HasSlot(t, r) == t[r].arity = 1 /\ t[Kid(r, 1)].kind # "voidcall"

ASSUME ReturnTypesAgree ==
  \A t \in Programs : \A f \in Functions(t) :
    \A r, s \in Rets(t) \cap Below(t, f) : HasSlot(t, r) = HasSlot(t, s)

GenRet ==
  /\ At("ret", 1)
  /\ LET n == Top.node IN
     /\ parentbb' = [parentbb EXCEPT ![n] = cur]
     /\ code' = IF HasSlot(ast, n)
                THEN Emit(code, cur, Store(Kid(n, 1)))
                ELSE code
  /\ Return
  /\ Keep(<<phase, cur, inserted, error>>)

(* The blocks that init of a loop gives to the jumps in it.                *)
ForTargets   == [break |-> "merge-for",   continue |-> "next-for"]
WhileTargets == [break |-> "while-merge", continue |-> "while-cond"]

JumpBlock(j, l) ==
  <<(IF ast[l].kind = "for" THEN ForTargets ELSE WhileTargets)[ast[j].kind], l>>

GenJump ==
  /\ phase = "gen" /\ frames # <<>>
  /\ LET j == Top.node IN
     /\ j \in Jumps(ast) /\ target[j] # Null
     /\ code' = Emit(code, cur, Br(JumpBlock(j, target[j])))
  /\ Return
  /\ Keep(<<phase, cur, inserted, parentbb, error>>)

(* Faulty variant of StrayJump: the error is swallowed.                    *)
StrayJumpIgnored ==
  /\ phase = "gen" /\ frames # <<>>
  /\ Top.node \in Jumps(ast) /\ target[Top.node] = Null
  /\ Return
  /\ Keep(<<phase, cur, code, inserted, parentbb, error>>)

StrayJump ==
  /\ phase = "gen" /\ frames # <<>>
  /\ Top.node \in Jumps(ast) /\ target[Top.node] = Null
  /\ error' = Top.node
  /\ phase' = "failed"
  /\ Keep(<<frames, cur, code, inserted, parentbb>>)

(***************************************************************************)
(* If.  The condition goes to the block the statement starts in (origin);  *)
(* its conditional branch is appended after both branches are generated.   *)
(***************************************************************************)
GenThen ==
  /\ At("if", 1)
  /\ LET n == Top.node IN
     /\ code' = Emit(code, cur, Eval(Kid(n, 1)))
     /\ cur' = <<"then", n>>
     /\ inserted' = inserted \cup {cur'}
     /\ CallGen([Top EXCEPT !.origin = cur], Kid(n, 2))
  /\ Keep(<<phase, parentbb, error>>)

GenElse ==
  /\ At("if", 2) /\ ast[Top.node].arity = 3
  /\ LET n == Top.node IN
     /\ cur' = <<"else", n>>
     /\ inserted' = inserted \cup {cur'}
     /\ CallGen([Top EXCEPT !.thenEnd = cur], Kid(n, 3))
  /\ Keep(<<phase, code, parentbb, error>>)

(* Faulty variant of Close: no look at the terminator.                     *)
CloseAlways(is, m) == Append(is, Br(m))

(* The branch out of a branch of the if that may have ended already.       *)
Close(is, m) == IF Terminated(is) THEN is ELSE Append(is, Br(m))

(* With an else: its last block gets a branch whatever it ends with.       *)
EndElse ==
  /\ At("if", 3)
  /\ LET n == Top.node
         m == <<"merge-if", n>>
         c == Emit(code, cur, Br(m))
         d == Emit(c, Top.origin, CondBr(<<"then", n>>, <<"else", n>>))
     IN  /\ inserted' = inserted \cup {m}
         /\ code' = [d EXCEPT ![Top.thenEnd] = Close(@, m)]
         /\ cur' = m
  /\ Return
  /\ Keep(<<phase, parentbb, error>>)

EndThen ==
  /\ At("if", 2) /\ ast[Top.node].arity = 2
  /\ LET n == Top.node
         m == <<"merge-if", n>>
         c == [code EXCEPT ![cur] = Close(@, m)]
     IN  /\ inserted' = inserted \cup {m}
         /\ code' = Emit(c, Top.origin, CondBr(<<"then", n>>, m))
         /\ cur' = m
  /\ Return
  /\ Keep(<<phase, parentbb, error>>)

(***************************************************************************)
(* For: children init, condition, next, body.                              *)
(***************************************************************************)
GenForInit ==
  /\ At("for", 1)
  /\ inserted' = inserted \cup {<<"for-header", Top.node>>, <<"for-body", Top.node>>}
  /\ CallGen(Top, Kid(Top.node, 1))
  /\ Keep(<<phase, cur, code, parentbb, error>>)

GenForBody ==
  /\ At("for", 2)
  /\ LET n == Top.node
         header == <<"for-header", n>>
         body   == <<"for-body", n>>
         c      == Emit(code, cur, Br(header))
         d      == Emit(c, header, Eval(Kid(n, 2)))
     IN  /\ code' = Emit(d, header, CondBr(body, <<"merge-for", n>>))
         /\ cur' = body
         /\ CallGen(Top, Kid(n, 4))
  /\ Keep(<<phase, inserted, parentbb, error>>)

GenForNext ==
  /\ At("for", 3)
  /\ LET n == Top.node
         next == <<"next-for", n>>
     IN  /\ inserted' = inserted \cup {next}
         /\ code' = Emit(code, cur, Br(next))
         /\ cur' = next
         /\ CallGen(Top, Kid(n, 3))
  /\ Keep(<<phase, parentbb, error>>)

(* Faulty variant: mergebb is never inserted.                              *)
EndForDetached ==
  /\ At("for", 4)
  /\ LET n == Top.node IN
     /\ code' = Emit(code, cur, Br(<<"for-header", n>>))
     /\ cur' = <<"merge-for", n>>
  /\ Return
  /\ Keep(<<phase, inserted, parentbb, error>>)

EndFor ==
  /\ At("for", 4)
  /\ LET n == Top.node IN
     /\ code' = Emit(code, cur, Br(<<"for-header", n>>))
     /\ cur' = <<"merge-for", n>>
     /\ inserted' = inserted \cup {cur'}
  /\ Return
  /\ Keep(<<phase, parentbb, error>>)

(***************************************************************************)
(* While: children condition, body.                                        *)
(***************************************************************************)
(* Faulty variant: mergebb is never inserted.                              *)
GenWhileBodyDetached ==
  /\ At("while", 1)
  /\ LET n == Top.node
         cond  == <<"while-cond", n>>
         body  == <<"while-body", n>>
         merge == <<"while-merge", n>>
         d     == Emit(Emit(code, cur, Br(cond)), cond, Eval(Kid(n, 1)))
     IN  /\ inserted' = inserted \cup {body, cond}
         /\ code' = Emit(d, cond, CondBr(body, merge))
         /\ cur' = body
         /\ CallGen(Top, Kid(n, 2))
  /\ Keep(<<phase, parentbb, error>>)

GenWhileBody ==
  /\ At("while", 1)
  /\ LET n == Top.node
         cond  == <<"while-cond", n>>
         body  == <<"while-body", n>>
         merge == <<"while-merge", n>>
         c     == Emit(code, cur, Br(cond))
         d     == Emit(c, cond, Eval(Kid(n, 1)))
     IN  /\ inserted' = inserted \cup {body, cond, merge}
         /\ code' = Emit(d, cond, CondBr(body, merge))
         /\ cur' = body
         /\ CallGen(Top, Kid(n, 2))
  /\ Keep(<<phase, parentbb, error>>)

EndWhile ==
  /\ At("while", 2)
  /\ code' = Emit(code, cur, Br(<<"while-cond", Top.node>>))
  /\ cur' = <<"while-merge", Top.node>>
  /\ Return
  /\ Keep(<<phase, inserted, parentbb, error>>)

EndGen ==
  /\ phase = "gen" /\ frames = <<>>
  /\ phase' = "generated"
  /\ Keep(<<frames, cur, code, inserted, parentbb, error>>)

(* Control has gone on to verifyModule, or to the catch in main.           *)
Stop == phase \in {"generated", "failed"} /\ UNCHANGED vars

GenStep ==
  \/ BindJumps \/ BeginGen
  \/ GenChildren \/ GenFunction \/ EndFunction \/ GenBlock \/ EndBlock
  \/ GenExpression \/ GenRet \/ GenJump \/ StrayJump
  \/ GenThen \/ GenElse \/ EndElse \/ EndThen
  \/ GenForInit \/ GenForBody \/ GenForNext \/ EndFor
  \/ GenWhileBody \/ EndWhile
  \/ EndGen

Next == GenStep \/ Stop

Spec == Init /\ [][Next]_vars

(* The passes run on one thread until they return or throw.                *)
FairSpec == Spec /\ WF_vars(GenStep)

-----------------------------------------------------------------------------
(***************************************************************************)
(* Properties                                                              *)
(***************************************************************************)

TypeOK ==
  /\ BindingTypeOK
  /\ phase \in {"init", "gen", "generated", "failed"}
  /\ cur \in Blocks(ast) \cup {Null}
  /\ DOMAIN code = Blocks(ast)
  /\ inserted \subseteq Blocks(ast)
  /\ parentbb \in [Rets(ast) -> Blocks(ast) \cup {Null}]
  /\ error \in Jumps(ast) \cup {Null}
  /\ \A k \in DOMAIN frames : frames[k].node \in DOMAIN ast

Targets(is) ==
  UNION {IF i.op = "br" THEN {i.to} ELSE IF i.op = "condbr" THEN {i.then, i.else} ELSE {}
         : i \in Range(is)}

(* What verifyModule asks of one block: one terminator, at the end.        *)
WellFormedBlock(is) ==
  Terminated(is) /\ \A k \in 1..(Len(is) - 1) : ~ IsTerminator(is[k])

WellFormed ==
  phase = "generated" => \A b \in inserted : WellFormedBlock(code[b])

(***************************************************************************)
(* Statements that generate nothing: a return without a value to store,    *)
(* and a compound of such.  What a return returns is its own affair.       *)
(***************************************************************************)
Silent(t, n) == t[n].kind = "compound" \/ (t[n].kind = "ret" /\ ~ HasSlot(t, n))

GeneratesNothing(t, n) ==
  \A q \in Below(t, n) \cup {n} :
    Silent(t, q) \/ \E r \in Rets(t) : IsStrictPrefix(r, q)

(* n is, up to such statements, the last thing that the statement p does.  *)
Ends(t, n, p) ==
  \A q \in DOMAIN t :
    IsPrefix(p, q) /\ IsStrictPrefix(q, n) =>
       /\ t[q].kind = "compound"
       /\ \A i \in (n[Len(q) + 1] + 1)..t[q].arity : GeneratesNothing(t, Kid(q, i))

(* The end of a then branch is the one place where gen looks for a         *)
(* terminator before it adds one.                                          *)
EndsThenBranch(t, j) ==
  \E i \in OfKind(t, {"if"}) : IsPrefix(Kid(i, 2), j) /\ Ends(t, j, Kid(i, 2))

(***************************************************************************)
(* Exactly the programs in which every break and continue ends a then      *)
(* branch come out as blocks with one terminator each.  Any other jump -   *)
(* at the end of an else branch or of a loop body, or before another       *)
(* statement - leaves a block with a branch in the middle.                 *)
(***************************************************************************)
WellFormedExactlyWhen ==
  phase = "generated" =>
    ((\A b \in inserted : WellFormedBlock(code[b]))
       <=> (\A j \in Jumps(ast) : EndsThenBranch(ast, j)))

(* The function a block belongs to.                                        *)
FunctionOf(b) == CHOOSE f \in Functions(ast) : IsPrefix(f, b[2])

(***************************************************************************)
(* Every branch goes to a block that was inserted in the same function,    *)
(* and none goes to an entry block.  Blocks of loops are made detached by  *)
(* init and inserted by gen, and jumps hold pointers to them before that.  *)
(***************************************************************************)
TargetsAreInserted ==
  phase = "generated" =>
    \A b \in inserted : \A c \in Targets(code[b]) :
      c \in inserted /\ c[1] # "entry" /\ FunctionOf(b) = FunctionOf(c)

(* Instructions reach the blocks of a function only, and all of those:     *)
(* nothing that was generated is lost with a block left detached.          *)
NothingIsLost ==
  phase = "generated" =>
    /\ \A b \in Blocks(ast) : code[b] # <<>> <=> b \in inserted

(***************************************************************************)
(* The message of control_statements.cpp:184-186 and 202-204 is true: it   *)
(* is given for a jump with no loop around it ...                          *)
(***************************************************************************)
ReportsAreTrue ==
  phase = "failed" => error \in Jumps(ast) /\ LoopsAround(ast, error) = {}

(* ... and it is given whenever the program has one.                       *)
StrayJumpsAreReported ==
  /\ ReportsAreTrue
  /\ phase = "generated" => \A j \in Jumps(ast) : LoopsAround(ast, j) # {}

(* Generation ends with a module or an error.                              *)
GenerationEnds == <>(phase \in {"generated", "failed"})

=============================================================================
