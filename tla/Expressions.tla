---------------------------- MODULE Expressions ----------------------------
(***************************************************************************)
(* Code generation for the statements that hold values: let, assignments,  *)
(* expressions and returns, in functions without branches and loops (for   *)
(* those see CodeGen).  It follows on the type pass: what a node asks of   *)
(* the trait of its type decides what is generated.                        *)
(*                                                                         *)
(* The gen of a statement is one action; the get, ptr and set that it      *)
(* calls are operators from one state of the generation to the next.  Such *)
(* a state holds the instructions so far, the values that the calls in     *)
(* progress hold, as a stack, and what was thrown.  A value is the number  *)
(* of the instruction that computes it.                                    *)
(*                                                                         *)
(* A literal has its text in the field name of its label, an operator its  *)
(* symbol.                                                                 *)
(***************************************************************************)
EXTENDS TypeResolution

VARIABLES
  stage,    \* "types", "gen", "generated", "failed" or "crashed"
  order,    \* which of two arguments the compiler, as built, evaluates first;
            \* chosen with the first generation, Null before
  todo,     \* the functions and statements still to generate
  code,     \* the instructions of every function
  failure   \* what ended the generation, and the node the message points at

genVars == <<stage, order, todo, code, failure>>

(***************************************************************************)
(* The classes that TypeTrait::expect can cast the trait of a type to.     *)
(***************************************************************************)
PrimitiveTraits ==
  [integer |-> {"Boolean", "Field", "Ordered"},
   double  |-> {"Boolean", "Field", "Ordered"},
   boolean |-> {"Boolean"},
   string  |-> {"Indexable"},
   char    |-> {},
   void    |-> {}]

Traits(T) ==
  CASE T.kind = "primitive" -> PrimitiveTraits[T.name[1]]
    [] T.kind = "array"     -> {"Indexable"}
    [] T.kind = "function"  -> {"Callable"}

(***************************************************************************)
(* States of the generation.  Once something is thrown, nothing changes.   *)
(***************************************************************************)
Resume(is) == [code |-> is, vals |-> <<>>, fault |-> "none", at |-> Null]

Fault(s, what, n) ==
  IF s.fault = "none" THEN [s EXCEPT !.fault = what, !.at = n] ELSE s

Hold(s, vs) == IF s.fault = "none" THEN [s EXCEPT !.vals = vs] ELSE s

Drop(s) == Hold(s, Front(s.vals))
Dup(s)  == Hold(s, Append(s.vals, Last(s.vals)))
Swap(s) == LET m == Len(s.vals)
           IN  Hold(s, SubSeq(s.vals, 1, m - 2) \o <<s.vals[m], s.vals[m - 1]>>)

(* The builder appends an instruction that takes the last k values.        *)
Push(s, k, n, op, x) ==
  LET m == Len(s.vals) - k
      i == [op |-> op, at |-> n, args |-> SubSeq(s.vals, m + 1, m + k), x |-> x]
  IN  IF s.fault # "none" THEN s
      ELSE [s EXCEPT !.code = Append(@, i),
                     !.vals = Append(SubSeq(@, 1, m), Len(s.code) + 1)]

Constant(s, n, v) == Push(s, 0, n, "const", v)
Store(s, n)       == Drop(Push(s, 2, n, "store", ""))

(* A null trait is dereferenced, a trait that does not fit is a            *)
(* std::runtime_error without a position.                                  *)
Expect(s, T, trait, n) ==
  IF T.kind = "null" THEN Fault(s, "null", n)
  ELSE IF trait \notin Traits(T) THEN Fault(s, "trait", n)
  ELSE s

Numeral == ("0" :> 0) @@ ("1" :> 1) @@ ("2" :> 2) @@ ("3" :> 3)

(* Faulty variant of LiteralValue: booleans are made as integers.          *)
LiteralValueWide(n) ==
  LET T == ast[n].ty.name[1]
      x == ast[n].name
  IN  IF T = "boolean" THEN <<"integer", IF x = "true" THEN 1 ELSE 0>>
      ELSE <<T, IF T = "string" THEN x ELSE Numeral[x]>>

LiteralValue(n) ==
  LET T == ast[n].ty.name[1]
      x == ast[n].name
  IN  <<T, CASE T \in {"integer", "double"} -> Numeral[x]
             [] T = "boolean" -> x = "true"
             [] OTHER -> x>>

SlotOf(n) == <<"pointer", <<"slot", n>>>>

(***************************************************************************)
(* Value::get and Substance::ptr.                                          *)
(***************************************************************************)
RECURSIVE Get(_, _), Ptr(_, _)

(* The two operands are arguments of one C++ call, CreateAdd(lv.get(),     *)
(* rv.get()), and evaluated in the order that the build has.               *)
Operands(s, n) ==
  IF order.operands = "left"
  THEN Get(Get(s, Kid(n, 1)), Kid(n, 2))
  ELSE Swap(Get(Get(s, Kid(n, 2)), Kid(n, 1)))

GetArith(s, n) ==
  Push(Operands(Expect(s, type[n], "Field", n), n), 2, n, "arith", ast[n].name)

(* Faulty variant of ComparisonTrait: every comparison asks for Boolean.   *)
ComparisonTraitBoolean(x) == "Boolean"

ComparisonTrait(x) == IF x \in {"==", "!="} THEN "Boolean" ELSE "Ordered"

GetCompare(s, n) ==
  LET t == Expect(s, type[Kid(n, 1)], ComparisonTrait(ast[n].name), n)
  IN  Push(Operands(t, n), 2, n, "compare", ast[n].name)

GetMinus(s, n) ==
  Push(Get(Expect(s, type[n], "Ordered", n), Kid(n, 1)), 1, n, "minus", "")

(* Faulty variant of GetIncrement: the sum is made from the value before.  *)
GetIncrementTwice(s, n) ==
  LET o    == Kid(n, 1)
      prev == Get(Expect(s, type[o], "Field", n), o)
      sum  == Push(Constant(Dup(prev), n, <<"integer", 1>>), 2, n, "arith", "+")
  IN  IF Is(type[o], "double") THEN Fault(s, "null", n)
      ELSE Store(Ptr(sum, o), n)

(* The value of ++ and -- is what the operand held before.  The operand is *)
(* evaluated for that, again for the sum and again for its address, the    *)
(* last two as arguments of one call.  The unit of double is null.         *)
GetIncrement(s, n) ==
  LET o      == Kid(n, 1)
      unit(t) == IF Is(type[o], "double") THEN Fault(t, "null", n) ELSE t
      prev   == Get(unit(Expect(s, type[o], "Field", n)), o)
      sum(t) == Push(Constant(Get(t, o), n, <<"integer", 1>>), 2, n, "arith",
                     IF ast[n].name = "++" THEN "+" ELSE "-")
      both   == IF order.update = "left" THEN Ptr(sum(prev), o)
                ELSE Swap(sum(Ptr(prev, o)))
  IN  Store(both, n)

(* Faulty variant of GetArray: the first element is stored over.           *)
GetArrayOneCell(s, n) ==
  LET element(t, i) ==
        Store(Swap(Get(Push(Dup(t), 1, n, "element", 0), Kid(n, i))), n)
      head == IF Is(type[n].element, "void") THEN Fault(s, "null", n)
              ELSE Push(s, 0, n, "alloca", Arity(n))
  IN  FoldLeft(element, head, [i \in 1..Arity(n) |-> i])

(* The address of an element is taken before the element is evaluated.     *)
GetArray(s, n) ==
  LET element(t, i) ==
        Store(Swap(Get(Push(Dup(t), 1, n, "element", i - 1), Kid(n, i))), n)
      head == IF Is(type[n].element, "void") THEN Fault(s, "null", n)
              ELSE Push(s, 0, n, "alloca", Arity(n))
  IN  FoldLeft(element, head, [i \in 1..Arity(n) |-> i])

(* The arguments are evaluated before the callee.                          *)
GetCall(s, n) ==
  LET arguments == [i \in 1..(Arity(n) - 1) |-> Kid(n, i + 1)]
      t == Expect(s, type[Kid(n, 1)], "Callable", n)
  IN  Push(Get(FoldLeft(Get, t, arguments), Kid(n, 1)), Arity(n), n, "call", "")

(* Faulty variant of OutOfRange: one index too many.                       *)
OutOfRangeOffByOne(n) ==
  LET i == Kid(n, 2)
      T == type[Kid(n, 1)]
  IN  /\ ast[i].kind = "literal" /\ Is(ast[i].ty, "integer") /\ T.kind = "array"
      /\ Numeral[ast[i].name] > T.name[2]

(* The index of an array is compared with its size if it is a literal.     *)
OutOfRange(n) ==
  LET i == Kid(n, 2)
      T == type[Kid(n, 1)]
  IN  /\ ast[i].kind = "literal" /\ Is(ast[i].ty, "integer") /\ T.kind = "array"
      /\ Numeral[ast[i].name] >= T.name[2]

(* Indexing a string reads the size of an array kind that is not there.    *)
(* The type of an index is never asked for; LLVM indexes by integers, a    *)
(* boolean being one of a single bit.                                      *)
PtrIndex(s, n) ==
  LET a == Kid(n, 1)
      i == Kid(n, 2)
      t == Expect(s, type[a], "Indexable", n)
      u == Get(IF OutOfRange(n) THEN Fault(t, "range", n) ELSE t, a)
      v == Get(IF type[a].kind = "array" THEN u ELSE Fault(u, "null", n), i)
  IN  IF Is(type[i], "integer") \/ Is(type[i], "boolean")
      THEN Push(v, 2, n, "gep", "")
      ELSE Fault(v, "null", n)

Ptr(s, n) ==
  CASE s.fault # "none"               -> s
    [] ast[n].kind \in {"arg", "var"} -> Constant(s, n, SlotOf(n))
    [] ast[n].kind = "ref"            -> Ptr(s, sym[n])
    [] ast[n].kind = "index"          -> PtrIndex(s, n)

(* Faulty variant of Load: the address is taken for the value.             *)
LoadNothing(s, n) == Ptr(s, n)

Load(s, n) == Push(Ptr(s, n), 1, n, "load", "")

IsIncrement(n) == ast[n].kind = "unary" /\ ast[n].name \in {"++", "--"}

Get(s, n) ==
  CASE s.fault # "none"         -> s
    [] ast[n].kind = "literal"  -> Constant(s, n, LiteralValue(n))
    [] ast[n].kind = "function" -> Constant(s, n, <<"function", n>>)
    [] ast[n].kind = "ref"      -> Get(s, sym[n])
    [] ast[n].kind \in {"arg", "var", "index"} -> Load(s, n)
    [] ast[n].kind = "arith"    -> GetArith(s, n)
    [] ast[n].kind = "compare"  -> GetCompare(s, n)
    [] ast[n].kind = "unary"    -> IF IsIncrement(n) THEN GetIncrement(s, n) ELSE GetMinus(s, n)
    [] ast[n].kind = "array"    -> GetArray(s, n)
    [] ast[n].kind = "call"     -> GetCall(s, n)

(***************************************************************************)
(* The gen of the statements.  n is the statement, s the state before.     *)
(***************************************************************************)
IsExpression(n) == ast[n].kind \in ValueKinds

GenLet(s, n) == Store(Ptr(Get(s, Kid(n, 1)), Kid(n, 2)), n)

(* To a variable the value is evaluated first, to an element its address.  *)
GenAssign(s, n) ==
  LET l == Kid(n, 1)
      r == Kid(n, 2)
      d == IF ast[l].kind = "ref" THEN sym[l] ELSE l
  IN  CASE ~ Same(type[l], type[r]) -> Fault(s, "type mismatch", n)
        [] ast[d].kind = "function" -> Fault(s, "immutable", l)
        [] ast[d].kind = "index"    -> Store(Swap(Get(Ptr(s, d), r)), n)
        [] OTHER                    -> Store(Ptr(Get(s, r), d), n)

(* A value of type void has no slot and is not evaluated.                  *)
Discarded(r) == Is(ReturnType(r), "void")

GenRet(s, f, n) ==
  IF Discarded(n) THEN s
  ELSE Store(Constant(Get(s, Kid(n, 1)), n, SlotOf(Body(f))), n)

Gen(s, f, n) ==
  CASE ast[n].kind = "let"    -> GenLet(s, n)
    [] ast[n].kind = "assign" -> GenAssign(s, n)
    [] ast[n].kind = "ret"    -> GenRet(s, f, n)
    [] IsExpression(n)        -> Drop(Get(s, n))

(* The functions, each followed by the statements in it.                   *)
Statements ==
  {n \in DOMAIN ast : /\ n # Root
                      /\ ast[Front(n)].kind \in {"block", "compound"}
                      /\ ast[n].kind # "compound"}

InTextOrder(S) ==
  [k \in 1..Cardinality(S) |->
     CHOOSE n \in S : Cardinality({m \in S : TextBefore(m, n)}) = k - 1]

ExprInit ==
  /\ Init
  /\ OfKind(ast, {"if", "while", "for", "break", "continue"}) = {}
  /\ stage = "types"
  /\ order = Null
  /\ todo = InTextOrder(Functions(ast) \cup Statements)
  /\ code = [f \in Functions(ast) |-> <<>>]
  /\ failure = [what |-> "none", at |-> Null]

ResolveTypes == ResolveStep /\ UNCHANGED genVars

Fail(what, n) ==
  /\ stage' = IF what = "null" THEN "crashed" ELSE "failed"
  /\ failure' = [what |-> what, at |-> n]

(* The init pass, as far as it throws: what is assigned to or incremented  *)
(* must be a variable, an element or a reference.                          *)
NotAssignable ==
  {n \in DOMAIN ast : /\ ast[n].kind = "assign" \/ IsIncrement(n)
                      /\ ast[Kid(n, 1)].kind \notin {"ref", "index"}}

InitPass ==
  /\ stage = "types" /\ phase = "typed"
  /\ IF NotAssignable = {}
     THEN /\ stage' = "gen"
          /\ order' \in [{"operands", "update"} -> {"left", "right"}]
          /\ UNCHANGED failure
     ELSE /\ LET n == First(NotAssignable)
             IN  Fail("not assignable", IF IsIncrement(n) THEN Kid(n, 1) ELSE n)
          /\ UNCHANGED order
  /\ UNCHANGED <<vars, todo, code>>

(* Block::gen allocates the variables of the whole body first, in post     *)
(* order: an unknown type throws without a position, LLVM has no variables *)
(* of type void.                                                           *)
GenFunction ==
  /\ stage = "gen" /\ todo # <<>> /\ ast[Head(todo)].kind = "function"
  /\ LET bad == {v \in OfKind(ast, {"var"}) \cap Below(ast, Head(todo)) :
                   type[v].kind = "null" \/ Is(type[v], "void")}
     IN  IF bad = {} THEN UNCHANGED <<stage, failure>>
         ELSE IF Is(type[First(bad)], "void") THEN Fail("null", First(bad))
         ELSE Fail("unresolved", Null)
  /\ todo' = Tail(todo)
  /\ UNCHANGED <<vars, order, code>>

(* Only an expression statement gives a missing trait a position: its own. *)
GenStatement ==
  /\ stage = "gen" /\ todo # <<>> /\ ast[Head(todo)].kind # "function"
  /\ LET n == Head(todo)
         f == CHOOSE g \in Functions(ast) : IsPrefix(g, n)
         s == Gen(Resume(code[f]), f, n)
     IN  /\ code' = [code EXCEPT ![f] = s.code]
         /\ IF s.fault = "none" THEN UNCHANGED <<stage, failure>>
            ELSE Fail(s.fault, IF s.fault # "trait" THEN s.at
                               ELSE IF IsExpression(n) THEN n ELSE Null)
  /\ todo' = Tail(todo)
  /\ UNCHANGED <<vars, order>>

EndGen ==
  /\ stage = "gen" /\ todo = <<>>
  /\ stage' = "generated"
  /\ UNCHANGED <<vars, order, todo, code, failure>>

ExprStep == ResolveTypes \/ InitPass \/ GenFunction \/ GenStatement \/ EndGen

-----------------------------------------------------------------------------
(***************************************************************************)
(* Properties                                                              *)
(***************************************************************************)
ExprTypeOK ==
  /\ TypeOK
  /\ stage \in {"types", "gen", "generated", "failed", "crashed"}
  /\ stage # "types" => phase = "typed"
  /\ Range(todo) \subseteq DOMAIN ast
  /\ failure.at \in DOMAIN ast \cup {Null}
  /\ \A f \in Functions(ast) : \A k \in DOMAIN code[f] :
       /\ code[f][k].at \in DOMAIN ast
       /\ \A j \in Range(code[f][k].args) : j \in 1..(k - 1)

(***************************************************************************)
(* What the type pass lets through and the generator does not, node by     *)
(* node; what is below a return of void is never looked at.                *)
(***************************************************************************)
IsNumeric(T)    == Is(T, "integer") \/ Is(T, "double")
IsComparable(T) == IsNumeric(T) \/ Is(T, "boolean")

Generated == {n \in DOMAIN ast :
                \A r \in OfKind(ast, {"ret"}) : IsStrictPrefix(r, n) => ~ Discarded(r)}

CanGenerate(n) ==
  CASE ast[n].kind = "arith"   -> IsNumeric(type[n])
    [] ast[n].kind = "compare" ->
         IF ast[n].name \in {"==", "!="}
         THEN IsComparable(type[Kid(n, 1)]) ELSE IsNumeric(type[Kid(n, 1)])
    [] ast[n].kind = "unary"   ->
         IF IsIncrement(n) THEN Is(type[n], "integer") ELSE IsNumeric(type[n])
    [] ast[n].kind = "array"   -> ~ Is(type[n].element, "void")
    [] ast[n].kind = "index"   ->
         /\ type[Kid(n, 1)].kind = "array" /\ ~ OutOfRange(n)
         /\ Is(type[Kid(n, 2)], "integer") \/ Is(type[Kid(n, 2)], "boolean")
    [] ast[n].kind = "var"     -> type[n].kind # "null" /\ ~ Is(type[n], "void")
    [] ast[n].kind = "assign"  ->
         /\ Same(type[Kid(n, 1)], type[Kid(n, 2)])
         /\ ast[Kid(n, 1)].kind = "ref" => sym[Kid(n, 1)] \notin Functions(ast)
    [] OTHER -> TRUE

FirstStatementWith(S) ==
  CHOOSE e \in Statements :
    /\ \E n \in S : IsPrefix(e, n)
    /\ \A n \in S : ~ TextBefore(n, e)

(***************************************************************************)
(* A typed tree generates exactly if all its nodes can.  If generation     *)
(* fails short of a crash, the message points into the first statement     *)
(* that has such a node, or it has no position: then it is about a missing *)
(* trait outside an expression statement or a variable of unknown type.    *)
(***************************************************************************)
TypedTreesGenerate ==
  LET bad == {n \in Generated : ~ CanGenerate(n)} IN
  /\ stage = "generated" => bad = {} /\ NotAssignable = {}
  /\ stage \in {"failed", "crashed"} => bad # {} \/ NotAssignable # {}
  /\ stage = "failed" /\ NotAssignable = {} =>
       IF failure.at # Null THEN IsPrefix(FirstStatementWith(bad), failure.at)
       ELSE \E n \in bad :
              \/ failure.what = "unresolved" /\ type[n].kind = "null"
              \/ /\ failure.what = "trait"
                 /\ ~ \E e \in Statements : IsExpression(e) /\ IsPrefix(e, n)

(***************************************************************************)
(* An operator is evaluated once for each time the statement is run, but   *)
(* three times for each increment around it: the operand of an increment   *)
(* grows threefold with every level.                                       *)
(***************************************************************************)
MainOp(n) ==
  CASE IsIncrement(n)        -> "store"
    [] ast[n].kind = "unary" -> "minus"
    [] ast[n].kind = "array" -> "alloca"
    [] OTHER                 -> ast[n].kind

EvaluationCounts ==
  stage = "generated" =>
    \A n \in OfKind(ast, {"arith", "compare", "unary", "array", "call"}) \cap Generated :
      LET f      == CHOOSE g \in Functions(ast) : IsPrefix(g, n)
          times  == {k \in DOMAIN code[f] : code[f][k].at = n /\ code[f][k].op = MainOp(n)}
          around == {m \in DOMAIN ast : IsStrictPrefix(m, n) /\ IsIncrement(m)}
      IN  Cardinality(times) = 3 ^ Cardinality(around)

=============================================================================
