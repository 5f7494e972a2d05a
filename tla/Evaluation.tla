----------------------------- MODULE Evaluation -----------------------------
(***************************************************************************)
(* A call of a function that Expressions has generated, instruction by     *)
(* instruction, and the meaning its source has in TypeScript, which the    *)
(* repository compares itself with (correction.ts).                        *)
(*                                                                         *)
(* A value is a pair of a tag and a datum.  Memory has a slot for every    *)
(* argument, variable and return value, and a cell for every element of    *)
(* the arrays that have been allocated.  Functions share no memory and     *)
(* take no arrays, so that a call inside the function does nothing but     *)
(* yield a value; the array it may return lies in a frame that is gone.    *)
(***************************************************************************)
EXTENDS Expressions, Integers

CONSTANTS
  Width,    \* the bits of an integer, 32 in the code
  Inputs    \* the integers passed to the function

ASSUME WidthAssumption == Width \in Nat \ {0}

VARIABLES
  run,      \* "idle", "running", "returned" or "undefined"
  fun,      \* the function called
  given,    \* the memory at the call
  memory,   \* the memory now
  regs      \* the values of the instructions executed so far

runVars == <<run, fun, given, memory, regs>>
evalVars == <<vars, genVars, runVars>>

(***************************************************************************)
(* Values.  Undef is what uninitialised memory and senseless operations    *)
(* give.                                                                   *)
(***************************************************************************)
Undef == <<"undef", 0>>

Wrap(x) == ((x + 2 ^ (Width - 1)) % (2 ^ Width)) - 2 ^ (Width - 1)

(* Doubles are whole numbers here; division is left out.                   *)
Arith(op, v, w) ==
  LET x == CASE op = "+" -> v[2] + w[2]
             [] op = "-" -> v[2] - w[2]
             [] op = "*" -> v[2] * w[2]
  IN  IF v[1] # w[1] \/ v[1] \notin {"integer", "double"} THEN Undef
      ELSE <<v[1], IF v[1] = "integer" THEN Wrap(x) ELSE x>>

Compare(op, v, w) ==
  IF v[1] # w[1] \/ v[1] \notin {"integer", "double", "boolean"} THEN Undef
  ELSE <<"boolean",
         CASE op = "==" -> v[2] = w[2]
           [] op = "!=" -> v[2] # w[2]
           [] op = "<"  -> v[2] < w[2]
           [] op = ">"  -> v[2] > w[2]
           [] op = ">=" -> v[2] >= w[2]>>

(* LLVM extends an index with its sign, the single bit of TRUE as well.    *)
IndexOf(v) ==
  CASE v[1] = "integer" -> v[2]
    [] v[1] = "boolean" -> IF v[2] THEN -1 ELSE 0

(* What a call of the function value g yields.                             *)
Called(g, args) ==
  LET T == ret[g[2]]
      add(x, v) == x + v[2]
  IN  CASE Is(T, "integer") -> <<"integer", Wrap(FoldLeft(add, 1, args))>>
        [] T.kind = "array" -> <<"dangling", 0>>
        [] Is(T, "void")    -> <<"void", 0>>
        [] OTHER            -> Undef

(* The address of an element.                                              *)
Cell(a, i) == <<"cell", a[2], IndexOf(i)>>

Slots(f) == {Body(f)} \cup (OfKind(ast, {"arg", "var"}) \cap Below(ast, f))

EvalInit ==
  /\ ExprInit
  /\ run = "idle"
  /\ fun = Null
  /\ given = <<>>
  /\ memory = <<>>
  /\ regs = <<>>

GenerateCode == ExprStep /\ UNCHANGED runVars

Call(f) ==
  /\ stage = "generated" /\ run = "idle"
  /\ run' = "running"
  /\ fun' = f
  /\ \E in \in [Range(Arguments(f)) -> Inputs] :
       memory' = [p \in {<<"slot", n>> : n \in Slots(f)} |->
                    IF p[2] \in DOMAIN in THEN <<"integer", in[p[2]]>> ELSE Undef]
  /\ given' = memory'
  /\ UNCHANGED <<vars, genVars, regs>>

(* The instruction executed next, and its operands.                        *)
Instruction == code[fun][Len(regs) + 1]
Operand(j) == regs[Instruction.args[j]]

Running(ops) ==
  /\ run = "running" /\ Len(regs) < Len(code[fun])
  /\ Instruction.op \in ops

InBounds ==
  Operand(1)[1] = "array" /\ Operand(2)[1] \in {"integer", "boolean"}
    /\ Cell(Operand(1), Operand(2)) \in DOMAIN memory

(* A load has the type of the node; other bits mean nothing to it.         *)
LoadAs(T, v) ==
  LET tags == CASE T.kind = "primitive" -> {T.name[1]}
                [] T.kind = "array"     -> {"array", "dangling"}
                [] T.kind = "function"  -> {"function"}
                [] T.kind = "null"      -> {}
  IN  IF v[1] \in tags THEN v ELSE Undef

Result ==
  LET i == Instruction IN
  CASE i.op = "const"   -> i.x
    [] i.op = "load"    -> LoadAs(type[i.at], memory[Operand(1)[2]])
    [] i.op = "arith"   -> Arith(i.x, Operand(1), Operand(2))
    [] i.op = "compare" -> Compare(i.x, Operand(1), Operand(2))
    [] i.op = "minus"   -> Arith("-", <<Operand(1)[1], 0>>, Operand(1))
    [] i.op = "element" -> <<"pointer", <<"cell", Operand(1)[2], i.x>>>>
    [] i.op = "gep"     -> <<"pointer", Cell(Operand(1), Operand(2))>>
    [] i.op = "call"    -> Called(Operand(Len(i.args)),
                                  [j \in 1..(Len(i.args) - 1) |-> Operand(j)])

RunPure ==
  /\ Running({"const", "load", "arith", "compare", "minus", "element", "gep", "call"})
  /\ Instruction.op = "gep" => InBounds
  /\ regs' = Append(regs, Result)
  /\ UNCHANGED <<vars, genVars, run, fun, given, memory>>

RunAlloca ==
  /\ Running({"alloca"})
  /\ LET k == Len(regs) + 1 IN
     /\ regs' = Append(regs, <<"array", k>>)
     /\ memory' = memory @@ [p \in {<<"cell", k, i>> : i \in 0..(Instruction.x - 1)} |-> Undef]
  /\ UNCHANGED <<vars, genVars, run, fun, given>>

RunStore ==
  /\ Running({"store"})
  /\ memory' = [memory EXCEPT ![Operand(2)[2]] = Operand(1)]
  /\ regs' = Append(regs, Undef)
  /\ UNCHANGED <<vars, genVars, run, fun, given>>

(* An address outside of every array in memory: anything may happen.       *)
RunOutOfBounds ==
  /\ Running({"gep"}) /\ ~ InBounds
  /\ run' = "undefined"
  /\ UNCHANGED <<vars, genVars, fun, given, memory, regs>>

Return ==
  /\ run = "running" /\ Len(regs) = Len(code[fun])
  /\ run' = "returned"
  /\ UNCHANGED <<vars, genVars, fun, given, memory, regs>>

EvalStop ==
  /\ phase \in {"failed", "crashed"} \/ stage \in {"failed", "crashed"}
       \/ run \in {"returned", "undefined"}
  /\ UNCHANGED evalVars

EvalNext ==
  \/ GenerateCode
  \/ \E f \in Functions(ast) : Call(f)
  \/ RunPure \/ RunAlloca \/ RunStore \/ RunOutOfBounds
  \/ Return
  \/ EvalStop

EvalSpec == EvalInit /\ [][EvalNext]_evalVars

-----------------------------------------------------------------------------
(***************************************************************************)
(* What the source means: operands from left to right, each of them once.  *)
(* A state m has the values at hand and the memory; the array made by the  *)
(* node n has the cells <<"cell", n, i>>.                                  *)
(***************************************************************************)
Yield(m, k, v) == [m EXCEPT !.vals = Append(SubSeq(@, 1, Len(@) - k), v)]
Arg(m, k) == m.vals[Len(m.vals) + 1 - k]

At(mem, p) == IF p \in DOMAIN mem THEN mem[p] ELSE Undef

RECURSIVE Meaning(_, _), Place(_, _)

(* The arguments of the node n with the indices I, one after the other.    *)
Meanings(m, n, from) ==
  FoldLeft(Meaning, m, [i \in 1..(Arity(n) + 1 - from) |-> Kid(n, i + from - 1)])

Place(m, n) ==
  CASE ast[n].kind \in {"arg", "var"} -> Yield(m, 0, <<"slot", n>>)
    [] ast[n].kind = "ref"            -> Place(m, sym[n])
    [] ast[n].kind = "index"          ->
         LET p == Meanings(m, n, 1) IN Yield(p, 2, Cell(Arg(p, 2), Arg(p, 1)))

Meaning(m, n) ==
  LET operands == Meanings(m, n, 1)
      place    == Place(m, n)
      updated  == Place(m, Kid(n, 1))
      old      == At(updated.mem, Arg(updated, 1))
      one      == <<"integer", IF ast[n].name = "++" THEN 1 ELSE -1>>
      passed   == Meanings(m, n, 2)
  IN
  CASE ast[n].kind = "literal"  -> Yield(m, 0, LiteralValue(n))
    [] ast[n].kind = "function" -> Yield(m, 0, <<"function", n>>)
    [] ast[n].kind = "ref"      -> Meaning(m, sym[n])
    [] ast[n].kind \in {"arg", "var", "index"} ->
         Yield(place, 1, At(place.mem, Arg(place, 1)))
    [] ast[n].kind = "arith" ->
         Yield(operands, 2, Arith(ast[n].name, Arg(operands, 2), Arg(operands, 1)))
    [] ast[n].kind = "compare" ->
         Yield(operands, 2, Compare(ast[n].name, Arg(operands, 2), Arg(operands, 1)))
    [] ast[n].kind = "unary" /\ ~ IsIncrement(n) ->
         Yield(operands, 1, Arith("-", <<Arg(operands, 1)[1], 0>>, Arg(operands, 1)))
    [] IsIncrement(n) ->
         Yield([updated EXCEPT !.mem = (Arg(updated, 1) :> Arith("+", old, one)) @@ @], 1, old)
    [] ast[n].kind = "array" ->
         LET cells == [p \in {<<"cell", n, i>> : i \in 0..(Arity(n) - 1)} |->
                         Arg(operands, Arity(n) - p[3])]
         IN  Yield([operands EXCEPT !.mem = cells @@ @], Arity(n), <<"array", n>>)
    [] ast[n].kind = "call" ->
         LET g == Meaning(passed, Kid(n, 1))
         IN  Yield(g, Arity(n),
                   Called(Arg(g, 1), [i \in 1..(Arity(n) - 1) |-> Arg(g, Arity(n) + 1 - i)]))

(* The value of e goes to the place p.                                     *)
Put(m, v, p) == [m EXCEPT !.mem = (p :> v) @@ @]

StatementMeaning(m, n) ==
  LET l == Kid(n, 1)
      v == Meaning(m, l)
      p == Place(m, l)
      r == Meaning(p, Kid(n, 2))
  IN
  CASE ast[n].kind = "let"    -> Put(v, Arg(v, 1), <<"slot", Kid(n, 2)>>)
    [] ast[n].kind = "assign" -> Put(r, Arg(r, 1), Arg(r, 2))
    [] ast[n].kind = "ret"    ->
         IF Discarded(n) THEN m ELSE Put(v, Arg(v, 1), <<"slot", Body(fun)>>)
    [] IsExpression(n)        -> Meaning(m, n)

SourceMemory ==
  FoldLeft(StatementMeaning, [vals |-> <<>>, mem |-> given],
           InTextOrder({n \in Statements \cap Below(ast, fun) :
                          \A r \in Rets(fun) : ~ TextBefore(r, n)})).mem

(* What a value stands for: an array for its elements.                     *)
CellsOf(mem, v) == {i \in 0..8 : <<"cell", v[2], i>> \in DOMAIN mem}

RECURSIVE Contents(_, _)
Contents(mem, v) ==
  IF v[1] # "array" THEN v
  ELSE <<"array", [i \in CellsOf(mem, v) |-> Contents(mem, mem[<<"cell", v[2], i>>])]>>

(***************************************************************************)
(* Properties                                                              *)
(***************************************************************************)
(* What memory may hold: no addresses but those of arrays.                 *)
Tags == {"undef", "integer", "double", "boolean", "string", "function", "array", "dangling"}

EvalTypeOK ==
  /\ ExprTypeOK
  /\ run \in {"idle", "running", "returned", "undefined"}
  /\ fun \in Functions(ast) \cup {Null}
  /\ run # "idle" => /\ Len(regs) <= Len(code[fun])
                     /\ DOMAIN given \subseteq DOMAIN memory
  /\ \A p \in DOMAIN memory : memory[p][1] \in Tags

(***************************************************************************)
(* Programs that rely on nothing the generated code does in its own way.   *)
(***************************************************************************)
Increments(n) == {m \in DOMAIN ast : IsPrefix(n, m) /\ IsIncrement(m)}
Mentions(n)   == {r \in References(ast) : IsPrefix(n, r)}

(* No operand changes what the other one reads.                            *)
OperandsCommute ==
  \A n \in OfKind(ast, {"arith", "compare"}) : \A i \in {1, 2} :
    Increments(Kid(n, i)) # {} => Mentions(Kid(n, 3 - i)) = {}

(* No increment in the operand of an increment.                            *)
IncrementsAreFlat ==
  \A n \in DOMAIN ast : IsIncrement(n) => Increments(n) = {n}

(* Types that have the same name are the same, wherever two are compared.  *)
NamesDecide ==
  /\ \A n \in OfKind(ast, {"array"}) : \A i, j \in 1..Arity(n) :
       type[Kid(n, i)] = type[Kid(n, j)]
  /\ \A n \in OfKind(ast, {"assign", "compare"}) : type[Kid(n, 1)] = type[Kid(n, 2)]

(* No statement follows a return.                                          *)
ReturnsAreLast ==
  \A r \in OfKind(ast, {"ret"}) : \A s \in Statements :
    TextBefore(r, s) => \E f \in Functions(ast) : IsPrefix(f, r) /\ ~ IsPrefix(f, s)

(***************************************************************************)
(* In such programs the function leaves in every variable, and returns,    *)
(* what the source says.  OperandsCommute is needed only if the build of   *)
(* the compiler evaluates the right operand first.                         *)
(***************************************************************************)
AgreesWithSource ==
  run = "returned" /\ NamesDecide /\ ReturnsAreLast /\ IncrementsAreFlat
    /\ (order.operands = "right" => OperandsCommute)
  => LET source == SourceMemory IN
     \A p \in DOMAIN given : Contents(memory, memory[p]) = Contents(source, source[p])

(***************************************************************************)
(* Type soundness: every value computed, and every value in a slot, has    *)
(* the type that the type pass gave it, arrays down to their sizes and     *)
(* elements.                                                               *)
(***************************************************************************)
RECURSIVE HasType(_, _)
HasType(v, T) ==
  CASE T.kind = "primitive" -> v[1] = T.name[1]
    [] T.kind = "function"  -> v[1] = "function"
    [] T.kind = "array"     ->
         \/ v[1] = "dangling"
         \/ /\ v[1] = "array" /\ CellsOf(memory, v) = 0..(T.name[2] - 1)
            /\ \A i \in CellsOf(memory, v) :
                 HasType(memory[<<"cell", v[2], i>>], T.element)

ValuesHaveTheirTypes ==
  NamesDecide /\ AllPrecede /\ regs # <<>> =>
    /\ LET i == code[fun][Len(regs)] IN
       i.op \in {"load", "arith", "compare", "minus", "call"} =>
         HasType(Last(regs), type[i.at])
    /\ \A p \in DOMAIN given : memory[p] # Undef =>
         HasType(memory[p], IF p[2] = Body(fun) THEN ret[fun] ELSE type[p[2]])

(***************************************************************************)
(* The comparison of literal indices at compile time is enough: execution  *)
(* leaves an array only through an index that is no integer literal, or    *)
(* because the array was returned by a call.                               *)
(***************************************************************************)
LiteralIndicesInRange ==
  run = "undefined" /\ NamesDecide =>
    \/ ast[Kid(Instruction.at, 2)].kind # "literal"
    \/ Is(type[Kid(Instruction.at, 2)], "boolean")
    \/ Operand(1)[1] = "dangling"

=============================================================================
