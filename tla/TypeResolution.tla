--------------------------- MODULE TypeResolution ---------------------------
(***************************************************************************)
(* The third pass of Root::gen: a post order walk that calls resolveType.  *)
(* An expression gets its type from its operands, a variable from its      *)
(* initial value, a reference from what it refers to, a function from the  *)
(* returns in its body.  A type starts out as Unknown, and a node that is  *)
(* visited before what it depends on reads Unknown: the pass never comes   *)
(* back to it.                                                             *)
(*                                                                         *)
(* The labels of the tree have one more field here,                        *)
(*    ty     the type of a literal or an argument, the return type of a    *)
(*           function (Null if the source gives none).                     *)
(***************************************************************************)
EXTENDS PostOrderWalk

VARIABLES
  phase,      \* "resolveType", "typed", "failed" or "crashed"
  sym,        \* SymbolReferenceExpr::referValue, as name resolution left it
  type,       \* Value::type
  ret,        \* FunctionSignature::ret, Null for nullopt
  blockType,  \* Block::returnType
  error       \* the error thrown

typeVars == <<phase, sym, type, ret, blockType, error>>
vars == <<walkVars, typeVars>>

ValueKinds == {"literal", "arg", "var", "ref", "arith", "compare", "unary",
               "array", "index", "call", "function"}

Values(t)     == OfKind(t, ValueKinds)
Functions(t)  == OfKind(t, {"function"})
References(t) == OfKind(t, {"ref"})
Bodies(t)     == OfKind(t, {"block"})

(***************************************************************************)
(* Types.  Two types are the same when their names are: operator== compares *)
(* the hashes of the names.  The name of an array type holds its size and  *)
(* not its element type.                                                   *)
(***************************************************************************)
Primitive(x)  == [name |-> <<x>>, kind |-> "primitive"]
Unknown       == [name |-> <<"unknown">>, kind |-> "null"]
ArrayOf(T, n) == [name |-> <<"array", n>>, kind |-> "array", element |-> T]

Same(T, U)  == T.name = U.name
Is(T, x)    == Same(T, Primitive(x))

Arity(n)  == ast[n].arity
Kid(n, i) == Append(n, i)

(* A function and its arguments: all its children but the last, which is   *)
(* its body.                                                               *)
Body(f)         == Kid(f, Arity(f))
Arguments(f)    == [i \in 1..(Arity(f) - 1) |-> Kid(f, i)]

(* Faulty variant of FunctionType: the kind is not passed on.              *)
FunctionTypeNoKind(f, r) ==
  [name |-> <<"function",
              [i \in DOMAIN Arguments(f) |->
                 <<ast[Kid(f, i)].name, ast[Kid(f, i)].ty.name>>],
              r.name>>,
   kind |-> "null", of |-> f]

FunctionType(f, r) ==
  [name |-> <<"function",
              [i \in DOMAIN Arguments(f) |->
                 <<ast[Kid(f, i)].name, ast[Kid(f, i)].ty.name>>],
              r.name>>,
   kind |-> "function", of |-> f]

(***************************************************************************)
(* What the constructors of the nodes see to: operands, elements, callees, *)
(* conditions and initial values are values, an operator has its operands, *)
(* a variable is built with its initial value on its left, a function with *)
(* its arguments and its body.  The types the source can name, and those   *)
(* of literals, are the primitive ones (Type::GetType).                    *)
(***************************************************************************)
OperatorKinds  == {"unary", "arith", "compare", "array", "index", "call"}
ConditionIndex == [if |-> 1, while |-> 1, for |-> 2]

ASSUME OperandsAreValues ==
  \A t \in Programs : \A n \in DOMAIN t : \A i \in 1..t[n].arity :
    \/ t[n].kind \in OperatorKinds \cup {"ret"}
    \/ t[n].kind \in DOMAIN ConditionIndex /\ i = ConditionIndex[t[n].kind]
    => Kid(n, i) \in Values(t)

ASSUME OperandsAreThere ==
  \A t \in Programs :
    /\ \A n \in OfKind(t, {"unary", "index", "call", "if", "while", "function"}) :
         t[n].arity >= 1
    /\ \A n \in OfKind(t, {"arith", "compare", "for"}) : t[n].arity >= 2
    /\ \A n \in OfKind(t, {"ret"}) : t[n].arity <= 1

ASSUME VariablesFollowTheirValues ==
  \A t \in Programs : \A n \in OfKind(t, {"var"}) :
    \E l \in OfKind(t, {"let"}) : n = Kid(l, 2) /\ Kid(l, 1) \in Values(t)

ASSUME FunctionsHaveBodies ==
  \A t \in Programs : \A f \in Functions(t) :
    /\ Kid(f, t[f].arity) \in Bodies(t)
    /\ \A i \in 1..(t[f].arity - 1) : t[Kid(f, i)].kind = "arg"

Written(T) == T.kind = "primitive" /\ ~ Same(T, Unknown)

ASSUME TypesAreWritten ==
  \A t \in Programs :
    /\ \A n \in OfKind(t, {"literal", "arg"}) : Written(t[n].ty)
    /\ \A f \in Functions(t) : t[f].ty # Null => Written(t[f].ty)

(***************************************************************************)
(* What the first two passes leave (see VerdictIsExact of NameResolution): *)
(* no name twice in a scope, every reference bound.                        *)
(***************************************************************************)
Names == INSTANCE NameResolution
           WITH queue <- <<>>, seen <- {}, done <- {}, pass <- "resolved",
                scope <- <<>>, parent <- <<>>, symbolset <- <<>>

Init ==
  /\ ast \in Programs
  /\ StartWalk
  /\ phase = "resolveType"
  /\ \A r \in References(ast) : Names!NearestMet(r) # {}
  /\ \A d, e \in Names!Declarations(ast) : ~ Names!SameScopeTwice(d, e)
  /\ sym = [r \in References(ast) |-> CHOOSE d \in Names!NearestMet(r) : TRUE]
  /\ type = [n \in Values(ast) |-> Unknown]
  /\ ret = [f \in Functions(ast) |-> ast[f].ty]
  /\ blockType = [b \in Bodies(ast) |-> Unknown]
  /\ error = [what |-> "none", at |-> Null]

(***************************************************************************)
(* The outcomes of a resolveType.                                          *)
(***************************************************************************)
Visit(n, K) ==
  /\ phase = "resolveType"
  /\ CallBack(n)
  /\ ast[n].kind \in K
  /\ UNCHANGED sym

Settle(n, T) ==
  /\ type' = [type EXCEPT ![n] = T]
  /\ UNCHANGED <<phase, ret, blockType, error>>

Throw(what, n) ==
  /\ phase' = "failed"
  /\ error' = [what |-> what, at |-> n]
  /\ UNCHANGED <<type, ret, blockType>>

(* kind()->isa<...>() on a null kind, which has no defined meaning: the    *)
(* test may come out false, which ends in the error, or the read may trap. *)
ReadNullKind(what, n) ==
  \/ Throw(what, n)
  \/ /\ phase' = "crashed"
     /\ UNCHANGED <<type, ret, blockType, error>>

(***************************************************************************)
(* Expressions.                                                            *)
(***************************************************************************)
ResolveLiteral(n) ==
  /\ Visit(n, {"literal", "arg"})
  /\ Settle(n, ast[n].ty)

(* Faulty variant of ResolveVar: the type is copied when the tree is built *)
(* and not referred to.                                                    *)
ResolveVarByValue(n) ==
  /\ Visit(n, {"var"})
  /\ Settle(n, Unknown)

(* The initial value is the sibling to the left.                           *)
ResolveVar(n) ==
  /\ Visit(n, {"var"})
  /\ Settle(n, type[Kid(Front(n), 1)])

ResolveReference(n) ==
  /\ Visit(n, {"ref"})
  /\ Settle(n, type[sym[n]])

ResolveUnary(n) ==
  /\ Visit(n, {"unary"})
  /\ Settle(n, type[Kid(n, 1)])

(* MagmaOperator and BinaryOperator.                                       *)
ResolveBinary(n) ==
  /\ Visit(n, {"arith", "compare"})
  /\ LET L == type[Kid(n, 1)]
         R == type[Kid(n, 2)]
     IN  IF ~ Same(L, R) THEN Throw("type mismatch", n)
         ELSE Settle(n, IF ast[n].kind = "arith" THEN L ELSE Primitive("boolean"))

(* Faulty variant of ResolveArray: the last pair is not compared.          *)
ResolveArrayOffByOne(n) ==
  /\ Visit(n, {"array"})
  /\ LET T(i) == type[Kid(n, i)]
     IN  IF Arity(n) = 0 THEN Throw("empty array", n)
         ELSE IF \E i \in 1..(Arity(n) - 2) : ~ Same(T(i), T(i + 1))
         THEN Throw("element type", n)
         ELSE IF Same(T(1), Unknown) THEN Throw("unresolved", n)
         ELSE Settle(n, ArrayOf(T(1), Arity(n)))

(* ArrayKind::Apply asks the element type for its llvm::Type, which        *)
(* Unknown refuses.                                                        *)
ResolveArray(n) ==
  /\ Visit(n, {"array"})
  /\ LET T(i) == type[Kid(n, i)]
     IN  IF Arity(n) = 0 THEN Throw("empty array", n)
         ELSE IF \E i \in 1..(Arity(n) - 1) : ~ Same(T(i), T(i + 1))
         THEN Throw("element type", n)
         ELSE IF Same(T(1), Unknown) THEN Throw("unresolved", n)
         ELSE Settle(n, ArrayOf(T(1), Arity(n)))

ResolveIndexing(n) ==
  /\ Visit(n, {"index"})
  /\ LET T == type[Kid(n, 1)]
     IN  CASE T.kind = "null"    -> ReadNullKind("not indexable", n)
           [] T.kind = "array"   -> Settle(n, T.element)
           [] Is(T, "string")    -> Settle(n, Primitive("char"))
           [] OTHER              -> Throw("not indexable", n)

(* The callee is the first child, the arguments passed are the others.     *)
ResolveCall(n) ==
  /\ Visit(n, {"call"})
  /\ LET T == type[Kid(n, 1)]
     IN  CASE T.kind = "null" -> ReadNullKind("not a function", n)
           [] T.kind \in {"primitive", "array"} -> Throw("not a function", n)
           [] T.kind = "function" ->
                IF Arity(n) # Arity(T.of) THEN Throw("argument count", n)
                ELSE IF \E i \in 1..(Arity(n) - 1) :
                          ~ Same(type[Kid(n, i + 1)], ast[Kid(T.of, i)].ty)
                THEN Throw("argument type", n)
                ELSE Settle(n, ret[T.of])

(***************************************************************************)
(* Statements: if, while and for check their condition, the others have    *)
(* nothing to resolve.                                                     *)
(***************************************************************************)
Condition(n) == Kid(n, ConditionIndex[ast[n].kind])

CheckCondition(n) ==
  /\ Visit(n, DOMAIN ConditionIndex)
  /\ IF Is(type[Condition(n)], "boolean")
     THEN UNCHANGED <<phase, type, ret, blockType, error>>
     ELSE Throw("condition", n)

Skip(n) ==
  /\ Visit(n, {"program", "block", "compound", "let", "assign", "ret",
               "break", "continue"})
  /\ UNCHANGED <<phase, type, ret, blockType, error>>

(***************************************************************************)
(* Functions.                                                              *)
(***************************************************************************)
Rets(f) == OfKind(ast, {"ret"}) \cap Below(ast, Body(f))

(* Ret::returnType                                                         *)
ReturnType(r) == IF Arity(r) = 0 THEN Primitive("void") ELSE type[Kid(r, 1)]

First(S) == CHOOSE p \in S : \A q \in S \ {p} : PostBefore(p, q)
Final(S) == CHOOSE p \in S : \A q \in S \ {p} : PostBefore(q, p)

(* Faulty variant of Clashes: the returns are not compared.                *)
ClashesIgnored(f) == {}

(* The returns that follow one of another type.                            *)
Clashes(f) ==
  {r \in Rets(f) : \E q \in Rets(f) :
     PostBefore(q, r) /\ ~ Same(ReturnType(q), ReturnType(r))}

(* inferReturnType remembers the return it saw last.                       *)
Inferred(f) ==
  IF Rets(f) = {} THEN Primitive("void") ELSE ReturnType(Final(Rets(f)))

(* The signature and the block take the return type before                 *)
(* FunctionKind::Apply asks it for its llvm::Type.                         *)
ResolveFunction(f) ==
  /\ Visit(f, {"function"})
  /\ LET r == IF ret[f] = Null THEN Inferred(f) ELSE ret[f]
     IN  IF Clashes(f) # {} THEN Throw("return type", First(Clashes(f)))
         ELSE IF ~ Same(Inferred(f), r) THEN Throw("return type", f)
         ELSE /\ ret' = [ret EXCEPT ![f] = r]
              /\ blockType' = [blockType EXCEPT ![Body(f)] = r]
              /\ IF Same(r, Unknown)
                 THEN /\ phase' = "failed"
                      /\ error' = [what |-> "unresolved", at |-> f]
                      /\ UNCHANGED type
                 ELSE /\ type' = [type EXCEPT ![f] = FunctionType(f, r)]
                      /\ UNCHANGED <<phase, error>>

Walk(n) == /\ phase = "resolveType"
           /\ Expand(n)
           /\ UNCHANGED typeVars

Finish == /\ phase = "resolveType" /\ stack = <<>>
          /\ phase' = "typed"
          /\ UNCHANGED <<walkVars, sym, type, ret, blockType, error>>

(* On to the init pass, to the catch in main, or gone.                     *)
Stop == phase # "resolveType" /\ UNCHANGED vars

ResolveStep ==
  \/ \E n \in DOMAIN ast :
       \/ Walk(n)
       \/ ResolveLiteral(n)
       \/ ResolveVar(n)
       \/ ResolveReference(n)
       \/ ResolveUnary(n)
       \/ ResolveBinary(n)
       \/ ResolveArray(n)
       \/ ResolveIndexing(n)
       \/ ResolveCall(n)
       \/ CheckCondition(n)
       \/ Skip(n)
       \/ ResolveFunction(n)
  \/ Finish

Next == ResolveStep \/ Stop

Spec == Init /\ [][Next]_vars

-----------------------------------------------------------------------------
(***************************************************************************)
(* Properties                                                              *)
(***************************************************************************)

IsType(T) ==
  /\ T.kind \in {"null", "primitive", "array", "function"}
  /\ T.kind = "null" <=> Same(T, Unknown)
  /\ T.kind = "function" => T.of \in Functions(ast)

TypeOK ==
  /\ WalkTypeOK
  /\ phase \in {"resolveType", "typed", "failed", "crashed"}
  /\ sym \in [References(ast) -> Values(ast)]
  /\ DOMAIN type = Values(ast) /\ \A n \in Values(ast) : IsType(type[n])
  /\ DOMAIN ret = Functions(ast)
  /\ \A f \in Functions(ast) : ret[f] # Null => IsType(ret[f])
  /\ DOMAIN blockType = Bodies(ast)
  /\ \A b \in Bodies(ast) : IsType(blockType[b])
  /\ error.at \in DOMAIN ast \cup {Null}

(***************************************************************************)
(* A reference knows its type exactly when what it refers to comes before  *)
(* it in the post order.  So a variable that is bound although it is       *)
(* declared further down (see NameResolution!BindingFollowsLevels), a      *)
(* function mentioned in its own body and a function defined later are all *)
(* of unknown type, for good.                                              *)
(***************************************************************************)
ReferencesSeeWhatPrecedes ==
  \A r \in References(ast) \cap done :
    phase \in {"resolveType", "typed"} =>
      type[r] = IF PostBefore(sym[r], r) THEN type[sym[r]] ELSE Unknown

(***************************************************************************)
(* The null kind is read, and the unpositioned "cannot resolve type"       *)
(* thrown, only in programs with a reference to something that comes       *)
(* later.  In the others every value of a tree that gets through has a     *)
(* type that code can be generated for.                                    *)
(***************************************************************************)
AllPrecede == \A r \in References(ast) : PostBefore(sym[r], r)

UnknownComesFromForwardReferences ==
  AllPrecede =>
    /\ phase # "crashed"
    /\ error.what # "unresolved"
    /\ phase = "typed" => \A n \in Values(ast) : type[n].kind # "null"

(***************************************************************************)
(* When the pass has ended the types fit together: the judgement below     *)
(* holds of all nodes at once, so that nothing a node took its type from   *)
(* has changed since.                                                      *)
(***************************************************************************)
CallFits(n, f) ==
  /\ type[Kid(n, 1)] = type[f]
  /\ type[n] = ret[f] /\ Arity(n) = Arity(f)
  /\ \A i \in 1..(Arity(f) - 1) : Same(type[Kid(n, i + 1)], type[Kid(f, i)])

Fits(n) ==
  LET k == ast[n].kind
      T(i) == type[Kid(n, i)]
  IN  /\ k \in {"literal", "arg"} => type[n] = ast[n].ty
      /\ k = "var"      => type[n] = type[Kid(Front(n), 1)]
      /\ k = "unary"    => type[n] = T(1)
      /\ k = "arith"    => Same(type[n], T(1)) /\ Same(type[n], T(2))
      /\ k = "compare"  => Is(type[n], "boolean") /\ Same(T(1), T(2))
      /\ k = "array"    => /\ type[n].name = <<"array", Arity(n)>>
                           /\ \A i \in 1..Arity(n) : Same(type[n].element, T(i))
      /\ k = "index"    => \/ T(1).kind = "array" /\ type[n] = T(1).element
                           \/ Is(T(1), "string") /\ Is(type[n], "char")
      /\ k = "call"     => \E f \in Functions(ast) : CallFits(n, f)
      /\ k = "function" => type[n] = FunctionType(n, ret[n])
      /\ k \in DOMAIN ConditionIndex => Is(type[Condition(n)], "boolean")

TypesFitTogether == phase = "typed" => \A n \in DOMAIN ast : Fits(n)

(***************************************************************************)
(* What the code generator takes for granted: all returns of a function    *)
(* have the type of the slot that Block::gen makes for them, so that a     *)
(* return without a value meets no slot and one with a value meets one.    *)
(***************************************************************************)
ReturnsFitTheSlot ==
  phase = "typed" =>
    \A f \in Functions(ast) :
      /\ blockType[Body(f)] = ret[f]
      /\ \A r \in Rets(f) : Same(ReturnType(r), blockType[Body(f)])

(***************************************************************************)
(* "array element must all same type" (expressions.cpp:80): an array that  *)
(* is let through has elements of one type.                                *)
(***************************************************************************)
ElementsAgree ==
  phase = "typed" =>
    \A n \in OfKind(ast, {"array"}) : \A i, j \in 1..Arity(n) :
      type[Kid(n, i)] = type[Kid(n, j)]

(***************************************************************************)
(* "{} is not function" (operators.cpp:203): the callee of a call that is  *)
(* rejected so is not a function.                                          *)
(***************************************************************************)
NotFunctionIsTrue ==
  error.what = "not a function" =>
    LET callee == Kid(error.at, 1)
    IN  ast[callee].kind = "ref" => sym[callee] \notin Functions(ast)

=============================================================================
