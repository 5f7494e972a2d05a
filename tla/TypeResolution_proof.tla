------------------------- MODULE TypeResolution_proof ------------------------
(***************************************************************************)
(* For every tree: what the type pass promises of the types of references, *)
(* of whole trees and of the return slots.                                 *)
(***************************************************************************)
EXTENDS TypeResolution, PostOrderWalk_proof

(***************************************************************************)
(* The invariant.  Of any of the nodes called back one comes first and one *)
(* comes last.                                                             *)
(***************************************************************************)
DoneIsOrdered ==
  \A S \in SUBSET done : S # {} =>
    /\ \E p \in S : \A q \in S \ {p} : PostBefore(p, q)
    /\ \E p \in S : \A q \in S \ {p} : PostBefore(q, p)

SymbolsAreDeclared == \A r \in References(ast) : sym[r] \in Names!Declarations(ast)

BaseInv ==
  /\ ast \in Programs
  /\ WalkInv
  /\ OrderInv
  /\ DoneIsOrdered
  /\ TypeOK
  /\ SymbolsAreDeclared
  /\ AllPrecede => phase # "crashed" /\ error.what # "unresolved"

Going == phase \in {"resolveType", "typed"}

(***************************************************************************)
(* A type with its parts: its element is the type of a node, its function  *)
(* one whose type this is, of nodes called back already.                   *)
(***************************************************************************)
Whole(T) ==
  /\ IsType(T)
  /\ T.kind = "array" => \E m \in Values(ast) \cap done : T.element = type[m]
  /\ T.kind = "function" => T.of \in Functions(ast) \cap done /\ T = type[T.of]
  /\ AllPrecede => T.kind # "null"

UndoneIsUntouched ==
  /\ \A n \in Values(ast) \ done : type[n] = Unknown
  /\ \A f \in Functions(ast) \ done : ret[f] = ast[f].ty

TypesAreWhole ==
  /\ \A n \in Values(ast) \cap done : Whole(type[n])
  /\ \A f \in Functions(ast) \cap done : Whole(ret[f])

FitsSoFar == \A n \in done : Fits(n)

SlotFits(f) ==
  /\ blockType[Body(f)] = ret[f]
  /\ \A r \in Rets(f) : Same(ReturnType(r), ret[f])

SlotsFitSoFar == \A f \in Functions(ast) \cap done : SlotFits(f)

CalleesAreFunctions ==
  \A n \in done : ast[n].kind = "call" => type[Kid(n, 1)].kind = "function"

TypeInv ==
  /\ BaseInv
  /\ Going => /\ UndoneIsUntouched
              /\ TypesAreWhole
              /\ CalleesAreFunctions
              /\ FitsSoFar
              /\ SlotsFitSoFar
              /\ ReferencesSeeWhatPrecedes
              /\ phase = "typed" => stack = <<>>

(***************************************************************************)
(* Facts about the tree.                                                   *)
(***************************************************************************)

(* The names of the types that are written down tell them apart.           *)
LEMMA BasicTypes ==
  /\ IsType(Unknown) /\ Unknown.kind = "null"
  /\ \A T : Written(T) => IsType(T) /\ T.kind = "primitive"
  /\ Written(Primitive("boolean")) /\ Written(Primitive("char"))
  /\ Written(Primitive("void"))
  BY DEF IsType, Unknown, Written, Primitive, Same

(* Positions of nodes are sequences.                                       *)
LEMMA Positions ==
  ASSUME BaseInv
  PROVE  /\ IsTree(ast)
         /\ \A n \in DOMAIN ast : n \in Seq(Nat) /\ Arity(n) \in Nat
         /\ Null \notin DOMAIN ast
  BY TreePositions, NullIsNoNode DEF BaseInv, WalkInv, WalkTypeOK, Arity

(* The children of a node precede it in post order ...                     *)
LEMMA KidPrecedes ==
  ASSUME BaseInv, NEW n \in DOMAIN ast, NEW i \in 1..Arity(n)
  PROVE  Kid(n, i) \in DOMAIN ast /\ PostBefore(Kid(n, i), n)
  <1>1. n \in Seq(Nat) /\ Arity(n) \in Nat /\ i \in Nat /\ IsTree(ast)
    BY Positions
  <1>2. Kid(n, i) \in DOMAIN ast
    BY <1>1, TreePositions DEF Kid, Arity
  <1>3. IsStrictPrefix(n, Kid(n, i))
    BY <1>1, ChildBelow DEF Kid
  <1> QED
    BY <1>2, <1>3 DEF PostBefore

(* ... and so does the initial value of a variable.                        *)
LEMMA InitialPrecedes ==
  ASSUME BaseInv, NEW n \in DOMAIN ast, ast[n].kind = "var"
  PROVE  Kid(Front(n), 1) \in Values(ast) /\ PostBefore(Kid(Front(n), 1), n)
  <1>1. PICK l \in OfKind(ast, {"let"}) : n = Kid(l, 2) /\ Kid(l, 1) \in Values(ast)
    BY VariablesFollowTheirValues DEF BaseInv, OfKind
  <1>2. l \in Seq(Nat)
    BY <1>1, Positions DEF OfKind
  <1>3. Front(n) = l
    <2>1. /\ n \in Seq(Nat) /\ Len(n) = Len(l) + 1 /\ Len(l) \in Nat
          /\ SubSeq(n, 1, Len(l)) = l
      BY <1>1, <1>2, ChildBelow, ChildParts, LenProperties DEF Kid
    <2>2. Len(n) - 1 = Len(l)
      BY <2>1
    <2> QED
      BY <2>1, <2>2 DEF Front
  <1>4. LeftOf(Kid(l, 1), Kid(l, 2))
    BY <1>2, SiblingLeft DEF Kid
  <1> QED
    BY <1>1, <1>3, <1>4 DEF PostBefore

(* Functions do not share their bodies.                                    *)
LEMMA BodiesDiffer ==
  ASSUME BaseInv, NEW f \in Functions(ast), NEW g \in Functions(ast), Body(f) = Body(g)
  PROVE  f = g
  <1>1. f \in DOMAIN ast /\ g \in DOMAIN ast
    BY DEF Functions, OfKind
  <1>2. f \in Seq(Nat) /\ g \in Seq(Nat) /\ Arity(f) \in Nat /\ Arity(g) \in Nat
    BY <1>1, Positions
  <1> QED
    BY <1>2, ChildInjective DEF Body, Kid

(* The node called back comes last.                                        *)
LEMMA OrderedCallBack ==
  ASSUME WalkInv, OrderInv, DoneIsOrdered, NEW n, CallBack(n)
  PROVE  DoneIsOrdered'
  <1>1. n \in DOMAIN ast \ done /\ done \subseteq DOMAIN ast
        /\ \A p \in DOMAIN ast : p \in done <=> PostBefore(p, n)
    BY CallBackSplits DEF WalkInv, WalkTypeOK
  <1>2. done' = done \cup {n}
    BY DEF CallBack
  <1>3. SUFFICES ASSUME NEW S \in SUBSET (done \cup {n}), S # {}
                 PROVE  /\ \E p \in S : \A q \in S \ {p} : PostBefore(p, q)
                        /\ \E p \in S : \A q \in S \ {p} : PostBefore(q, p)
    BY <1>2 DEF DoneIsOrdered
  <1>4. CASE n \in S
    <2>1. \E p \in S : \A q \in S \ {p} : PostBefore(q, p)
      BY <1>1, <1>4
    <2>2. CASE S = {n}
      BY <2>1, <2>2
    <2>3. CASE S # {n}
      <3> DEFINE R == S \ {n}
      <3>1. R \in SUBSET done /\ R # {}
        BY <1>4, <2>3
      <3>2. PICK p \in R : \A q \in R \ {p} : PostBefore(p, q)
        BY <3>1 DEF DoneIsOrdered
      <3>3. PostBefore(p, n)
        BY <1>1, <3>1
      <3> QED
        BY <2>1, <3>2, <3>3
    <2> QED
      BY <2>2, <2>3
  <1>5. CASE n \notin S
    BY <1>3, <1>5 DEF DoneIsOrdered
  <1> QED
    BY <1>4, <1>5

(***************************************************************************)
(* A callback on n sets nothing but what belongs to n, so that all that    *)
(* was found for the nodes before it stays as it was.                      *)
(***************************************************************************)
SetsOnly(n) ==
  /\ CallBack(n)
  /\ sym' = sym
  /\ \A m \in Values(ast) \ {n} : type'[m] = type[m]
  /\ \A f \in Functions(ast) \ {n} :
       ret'[f] = ret[f] /\ blockType'[Body(f)] = blockType[Body(f)]

LEMMA AfterCallBack ==
  ASSUME BaseInv, NEW n, CallBack(n)
  PROVE  /\ ast' = ast /\ done' = done \cup {n}
         /\ n \in DOMAIN ast \ done /\ done \subseteq DOMAIN ast
         /\ \A p \in DOMAIN ast : p \in done <=> PostBefore(p, n)
  BY CallBackSplits DEF BaseInv, WalkInv, WalkTypeOK, CallBack

LEMMA WholeStays ==
  ASSUME BaseInv, NEW n, SetsOnly(n), NEW T, Whole(T)
  PROVE  Whole(T)'
  <1>1. ast' = ast /\ done' = done \cup {n} /\ n \notin done
    BY AfterCallBack DEF SetsOnly
  <1>2. \A m \in Values(ast) \cap done : type'[m] = type[m]
    BY <1>1 DEF SetsOnly
  <1>3. IsType(T)' /\ Values(ast)' = Values(ast) /\ Functions(ast)' = Functions(ast)
        /\ AllPrecede' = AllPrecede
    BY <1>1 DEF IsType, Whole, AllPrecede, SetsOnly
  <1>4. T.kind = "array" => \E m \in Values(ast) \cap (done \cup {n}) : T.element = type'[m]
    BY <1>2 DEF Whole
  <1>5. T.kind = "function" =>
          T.of \in Functions(ast) \cap (done \cup {n}) /\ T = type'[T.of]
    <2> SUFFICES ASSUME T.kind = "function"
                 PROVE  T.of \in Functions(ast) \cap (done \cup {n}) /\ T = type'[T.of]
      OBVIOUS
    <2>1. T.of \in Functions(ast) \cap done /\ T = type[T.of]
      BY DEF Whole
    <2>2. T.of \in Values(ast)
      BY <2>1 DEF Functions, Values, OfKind, ValueKinds
    <2> QED
      BY <2>1, <2>2, <1>2
  <1>6. AllPrecede' => T.kind # "null"
    BY <1>3 DEF Whole
  <1> QED
    BY <1>1, <1>3, <1>4, <1>5, <1>6 DEF Whole

(* What precedes a node called back has been called back.                  *)
LEMMA PrecedingIsDone ==
  ASSUME BaseInv, NEW d \in done, NEW p \in DOMAIN ast, PostBefore(p, d)
  PROVE  p \in done
  <1>1. d \in DOMAIN ast /\ d \in Seq(Nat) /\ p \in Seq(Nat)
    BY Positions DEF BaseInv, WalkInv, WalkTypeOK
  <1>2. ~ PostBefore(d, p)
    BY <1>1, PostBeforeIsOneWay
  <1> QED
    BY <1>2 DEF BaseInv, OrderInv, CallsInPostOrder

(* What a node that looks at its i-th child can rely on.                   *)
LEMMA OperandIsDone ==
  ASSUME BaseInv, NEW d \in done, NEW i \in 1..Arity(d),
         \/ ast[d].kind \in OperatorKinds \cup {"ret"}
         \/ ast[d].kind \in DOMAIN ConditionIndex /\ i = ConditionIndex[ast[d].kind]
  PROVE  Kid(d, i) \in Values(ast) \cap done
  <1>1. d \in DOMAIN ast
    BY DEF BaseInv, WalkInv, WalkTypeOK
  <1>2. Kid(d, i) \in done
    BY <1>1, KidPrecedes, PrecedingIsDone
  <1>3. Kid(d, i) \in Values(ast)
    BY <1>1, OperandsAreValues DEF BaseInv, Arity
  <1> QED
    BY <1>2, <1>3

(* The types of the children of a node before n stay, if it looks at them. *)
LEMMA OperandStays ==
  ASSUME BaseInv, NEW n, SetsOnly(n), NEW d \in done, NEW i \in 1..Arity(d),
         \/ ast[d].kind \in OperatorKinds \cup {"ret"}
         \/ ast[d].kind \in DOMAIN ConditionIndex /\ i = ConditionIndex[ast[d].kind]
  PROVE  type'[Kid(d, i)] = type[Kid(d, i)]
  BY OperandIsDone, AfterCallBack DEF SetsOnly

LEMMA FitStays ==
  ASSUME BaseInv, UndoneIsUntouched, CalleesAreFunctions, FitsSoFar,
         NEW n, SetsOnly(n), NEW d \in done
  PROVE  Fits(d)'
  <1> DEFINE k == ast[d].kind
  <1>1. /\ ast' = ast /\ n \in DOMAIN ast \ done /\ d \in DOMAIN ast /\ d # n
        /\ \A m \in Values(ast) \cap done : type'[m] = type[m]
        /\ \A f \in Functions(ast) \cap done : ret'[f] = ret[f]
    BY AfterCallBack DEF SetsOnly
  <1>2. Fits(d)
    BY DEF FitsSoFar
  <1>3. /\ k \in {"unary", "index", "call", "if", "while"} => 1 \in 1..Arity(d)
        /\ k \in {"arith", "compare", "for"} => 1 \in 1..Arity(d) /\ 2 \in 1..Arity(d)
    <2>1. Arity(d) \in Nat
      BY <1>1, Positions
    <2> QED
      BY <1>1, <2>1, OperandsAreThere DEF BaseInv, OfKind, Arity
  <1>4. k \in ValueKinds => type'[d] = type[d]
    BY <1>1 DEF Values, OfKind
  <1>5. k \in OperatorKinds => \A i \in 1..Arity(d) : type'[Kid(d, i)] = type[Kid(d, i)]
    BY OperandStays
  <1>6. Arity(d)' = Arity(d)
    BY <1>1 DEF Arity
  <1>7. k = "var" => type'[Kid(Front(d), 1)] = type[Kid(Front(d), 1)]
    BY <1>1, InitialPrecedes, PrecedingIsDone DEF Values, OfKind
  <1>8. k = "call" => \E f \in Functions(ast) : CallFits(d, f)'
    <2> SUFFICES ASSUME k = "call" PROVE \E f \in Functions(ast) : CallFits(d, f)'
      OBVIOUS
    <2>1. PICK f \in Functions(ast) : CallFits(d, f)
      BY <1>2 DEF Fits
    <2>2. f \in Values(ast) /\ f \in DOMAIN ast
      BY DEF Functions, Values, OfKind, ValueKinds
    <2>3. f \in done
      <3>1. type[f].kind = "function"
        BY <2>1 DEF CalleesAreFunctions, CallFits
      <3>2. type[f] # Unknown
        BY <3>1, BasicTypes
      <3> QED
        BY <3>2, <2>2 DEF UndoneIsUntouched
    <2>4. type'[Kid(d, 1)] = type[Kid(d, 1)] /\ type'[f] = type[f] /\ ret'[f] = ret[f]
      BY <1>1, <1>3, <1>5, <2>2, <2>3 DEF OperatorKinds
    <2>5. ASSUME NEW i \in 1..(Arity(f) - 1)
          PROVE  /\ type'[Kid(d, i + 1)] = type[Kid(d, i + 1)]
                 /\ type'[Kid(f, i)] = type[Kid(f, i)]
      <3>1. Arity(f) \in Nat /\ Arity(d) = Arity(f)
        BY <2>1, <2>2, Positions DEF CallFits
      <3>2. i + 1 \in 1..Arity(d) /\ i \in 1..Arity(f)
        BY <3>1
      <3>3. Kid(f, i) \in Values(ast)
        BY <2>2, <3>2, KidPrecedes, FunctionsHaveBodies
           DEF BaseInv, Arity, Values, OfKind, ValueKinds
      <3>4. Kid(f, i) \in done
        BY <2>2, <2>3, <3>2, KidPrecedes, PrecedingIsDone
      <3> QED
        BY <1>1, <1>5, <3>2, <3>3, <3>4 DEF OperatorKinds
    <2>6. Arity(f)' = Arity(f)
      BY <1>1 DEF Arity
    <2>7. type'[d] = type[d]
      BY <1>4 DEF ValueKinds
    <2>8. CallFits(d, f)'
      BY <2>1, <2>4, <2>5, <2>6, <2>7, <1>6 DEF CallFits
    <2> QED
      BY <2>8
  <1>9. k \in DOMAIN ConditionIndex =>
          Condition(d)' = Condition(d) /\ type'[Condition(d)] = type[Condition(d)]
    <2> SUFFICES ASSUME k \in DOMAIN ConditionIndex
                 PROVE  Condition(d)' = Condition(d)
                        /\ type'[Condition(d)] = type[Condition(d)]
      OBVIOUS
    <2>1. ConditionIndex[k] \in 1..Arity(d)
      BY <1>3 DEF ConditionIndex
    <2> QED
      BY <1>1, <2>1, OperandStays DEF Condition
  <1>10. k = "function" =>
           ret'[d] = ret[d] /\ FunctionType(d, ret[d])' = FunctionType(d, ret[d])
    BY <1>1 DEF Functions, OfKind, FunctionType, Arguments, Arity
  <1>11. /\ k \in {"literal", "arg"} => type'[d] = ast'[d].ty
         /\ k = "var" => type'[d] = type'[Kid(Front(d), 1)]
         /\ k = "function" => type'[d] = FunctionType(d, ret[d])' /\ ret'[d] = ret[d]
         /\ k \in DOMAIN ConditionIndex => Is(type'[Condition(d)'], "boolean")
    BY <1>1, <1>2, <1>4, <1>7, <1>9, <1>10 DEF Fits, ValueKinds
  <1>12. /\ k = "unary" => type'[d] = type'[Kid(d, 1)]
         /\ k = "arith" => Same(type'[d], type'[Kid(d, 1)]) /\ Same(type'[d], type'[Kid(d, 2)])
         /\ k = "compare" => /\ Is(type'[d], "boolean")
                             /\ Same(type'[Kid(d, 1)], type'[Kid(d, 2)])
         /\ k = "array" => /\ type'[d].name = <<"array", Arity(d)'>>
                           /\ \A i \in 1..Arity(d)' : Same(type'[d].element, type'[Kid(d, i)])
         /\ k = "index" => \/ /\ type'[Kid(d, 1)].kind = "array"
                              /\ type'[d] = type'[Kid(d, 1)].element
                           \/ Is(type'[Kid(d, 1)], "string") /\ Is(type'[d], "char")
    BY <1>2, <1>3, <1>4, <1>5, <1>6 DEF Fits, ValueKinds, OperatorKinds
  <1> QED
    BY <1>1, <1>8, <1>11, <1>12 DEF Fits

(* The returns of a function come before it.                               *)
LEMMA ReturnsPrecede ==
  ASSUME BaseInv, NEW f \in Functions(ast), NEW r \in Rets(f)
  PROVE  r \in DOMAIN ast /\ ast[r].kind = "ret" /\ Arity(r) \in 0..1 /\ PostBefore(r, f)
  <1>1. r \in DOMAIN ast /\ ast[r].kind = "ret" /\ IsStrictPrefix(Body(f), r)
    BY DEF Rets, OfKind, Below
  <1>2. f \in DOMAIN ast /\ Arity(f) >= 1 /\ Arity(r) <= 1
    BY <1>1, OperandsAreThere DEF BaseInv, Functions, OfKind, Arity
  <1>3. Arity(r) \in Nat /\ Arity(f) \in Nat
    BY <1>1, <1>2, Positions
  <1>4. Arity(f) \in 1..Arity(f) /\ Arity(r) \in 0..1
    BY <1>2, <1>3
  <1>5. f \in Seq(Nat) /\ Body(f) \in Seq(Nat) /\ r \in Seq(Nat)
        /\ IsStrictPrefix(f, Body(f))
    BY <1>1, <1>2, <1>3, Positions, ChildBelow DEF Body, Kid
  <1>6. IsStrictPrefix(f, r)
    BY <1>1, <1>5, StrictPrefixTransitive DEF IsStrictPrefix
  <1> QED
    BY <1>1, <1>4, <1>6 DEF PostBefore

(* The type of a return that was called back.                              *)
LEMMA ReturnStays ==
  ASSUME BaseInv, NEW n, SetsOnly(n), NEW r \in done, ast[r].kind = "ret", Arity(r) \in 0..1
  PROVE  ReturnType(r)' = ReturnType(r)
  <1>1. Arity(r)' = Arity(r)
    BY AfterCallBack DEF SetsOnly, Arity
  <1>2. Arity(r) = 0 \/ 1 \in 1..Arity(r)
    OBVIOUS
  <1>3. 1 \in 1..Arity(r) => type'[Kid(r, 1)] = type[Kid(r, 1)]
    BY OperandStays
  <1> QED
    BY <1>1, <1>2, <1>3 DEF ReturnType

LEMMA SlotStays ==
  ASSUME BaseInv, SlotsFitSoFar, NEW n, SetsOnly(n), NEW f \in Functions(ast) \cap done
  PROVE  SlotFits(f)'
  <1>1. ast' = ast /\ n \notin done
    BY AfterCallBack DEF SetsOnly
  <1>2. /\ Body(f)' = Body(f) /\ Rets(f)' = Rets(f)
        /\ ret'[f] = ret[f] /\ blockType'[Body(f)] = blockType[Body(f)]
    BY <1>1 DEF Body, Arity, Rets, SetsOnly
  <1>3. ASSUME NEW r \in Rets(f) PROVE ReturnType(r)' = ReturnType(r)
    BY ReturnsPrecede, PrecedingIsDone, ReturnStays
  <1> QED
    BY <1>2, <1>3 DEF SlotsFitSoFar, SlotFits

(* A declaration is a value, and no reference.                             *)
LEMMA SymbolIsValue ==
  ASSUME BaseInv, NEW r \in References(ast)
  PROVE  sym[r] \in Values(ast) /\ sym[r] \in DOMAIN ast /\ sym[r] # r
  BY DEF BaseInv, SymbolsAreDeclared, Names!Declarations, Names!DeclarationKinds,
         Names!OfKind, Values, ValueKinds, References, OfKind

SeesWhatPrecedes(r) ==
  type[r] = IF PostBefore(sym[r], r) THEN type[sym[r]] ELSE Unknown

LEMMA SightStays ==
  ASSUME BaseInv, NEW n, SetsOnly(n), NEW r \in References(ast) \cap done, SeesWhatPrecedes(r)
  PROVE  SeesWhatPrecedes(r)'
  <1>1. n \notin done /\ sym' = sym /\ \A m \in Values(ast) \ {n} : type'[m] = type[m]
    BY AfterCallBack DEF SetsOnly
  <1>2. r \in Values(ast) /\ sym[r] \in Values(ast) /\ sym[r] \in DOMAIN ast
    BY SymbolIsValue DEF References, Values, OfKind, ValueKinds
  <1>3. PostBefore(sym[r], r) => sym[r] \in done
    BY <1>2, PrecedingIsDone
  <1> QED
    BY <1>1, <1>2, <1>3 DEF SeesWhatPrecedes

(***************************************************************************)
(* The outcomes of a callback.                                             *)
(***************************************************************************)
TablesOK ==
  /\ phase \in {"resolveType", "typed", "failed", "crashed"}
  /\ sym \in [References(ast) -> Values(ast)]
  /\ DOMAIN type = Values(ast) /\ \A n \in Values(ast) : IsType(type[n])
  /\ DOMAIN ret = Functions(ast)
  /\ \A f \in Functions(ast) : ret[f] # Null => IsType(ret[f])
  /\ DOMAIN blockType = Bodies(ast)
  /\ \A b \in Bodies(ast) : IsType(blockType[b])
  /\ error.at \in DOMAIN ast \cup {Null}

LEMMA TablesCallBack ==
  ASSUME BaseInv, NEW n, CallBack(n), sym' = sym, TablesOK',
         AllPrecede' => phase' # "crashed" /\ error'.what # "unresolved"
  PROVE  BaseInv'
  <1>1. ast' = ast /\ WalkInv' /\ OrderInv' /\ DoneIsOrdered'
    BY WalkCallBack, OrderCallBack, OrderedCallBack DEF BaseInv, CallBack
  <1>2. TypeOK'
    BY <1>1 DEF TypeOK, TablesOK, WalkInv
  <1>3. SymbolsAreDeclared'
    BY <1>1 DEF BaseInv, SymbolsAreDeclared, Names!Declarations
  <1> QED
    BY <1>1, <1>2, <1>3 DEF BaseInv

(* n gets its results: what has to be shown is about n alone.              *)
LEMMA CallBackSettles ==
  ASSUME TypeInv, phase = "resolveType", phase' = "resolveType",
         NEW n, SetsOnly(n), TablesOK', error' = error,
         n \in Values(ast) => Whole(type[n])',
         n \in Functions(ast) => Whole(ret[n])' /\ SlotFits(n)',
         ast[n].kind = "call" => type'[Kid(n, 1)].kind = "function",
         Fits(n)',
         n \in References(ast) => SeesWhatPrecedes(n)'
  PROVE  TypeInv'
  <1>1. /\ BaseInv /\ UndoneIsUntouched /\ TypesAreWhole /\ CalleesAreFunctions
        /\ FitsSoFar /\ SlotsFitSoFar /\ ReferencesSeeWhatPrecedes
    BY DEF TypeInv, Going
  <1>2. /\ ast' = ast /\ done' = done \cup {n} /\ n \in DOMAIN ast \ done
        /\ done \subseteq DOMAIN ast /\ sym' = sym /\ CallBack(n)
        /\ \A m \in Values(ast) \ {n} : type'[m] = type[m]
        /\ \A f \in Functions(ast) \ {n} : ret'[f] = ret[f]
    BY <1>1, AfterCallBack DEF SetsOnly
  <1>3. AllPrecede' = AllPrecede
    BY <1>2 DEF AllPrecede
  <1>4. BaseInv'
    BY <1>1, <1>2, <1>3, TablesCallBack DEF BaseInv
  <1>5. UndoneIsUntouched'
    BY <1>1, <1>2 DEF UndoneIsUntouched
  <1>6. TypesAreWhole'
    <2>1. ASSUME NEW m \in Values(ast) \cap (done \cup {n}) PROVE Whole(type[m])'
      <3>1. CASE m = n
        BY <3>1
      <3>2. CASE m # n
        <4>1. PICK T : T = type[m]
          OBVIOUS
        <4>2. Whole(T)'
          BY <1>1, <3>2, <4>1, WholeStays DEF TypesAreWhole
        <4>3. T = type'[m]
          BY <1>2, <3>2, <4>1
        <4> QED
          BY <4>2, <4>3 DEF Whole, IsType, Same
      <3> QED
        BY <3>1, <3>2
    <2>2. ASSUME NEW f \in Functions(ast) \cap (done \cup {n}) PROVE Whole(ret[f])'
      <3>1. CASE f = n
        BY <3>1
      <3>2. CASE f # n
        <4>1. PICK T : T = ret[f]
          OBVIOUS
        <4>2. Whole(T)'
          BY <1>1, <3>2, <4>1, WholeStays DEF TypesAreWhole
        <4>3. T = ret'[f]
          BY <1>2, <3>2, <4>1
        <4> QED
          BY <4>2, <4>3 DEF Whole, IsType, Same
      <3> QED
        BY <3>1, <3>2
    <2> QED
      BY <1>2, <2>1, <2>2 DEF TypesAreWhole
  <1>7. CalleesAreFunctions'
    <2> SUFFICES ASSUME NEW d \in done \cup {n}, ast[d].kind = "call"
                 PROVE  type'[Kid(d, 1)].kind = "function"
      BY <1>2 DEF CalleesAreFunctions
    <2>1. CASE d # n
      <3>1. 1 \in 1..Arity(d)
        BY <1>1, <1>2, Positions, OperandsAreThere DEF BaseInv, OfKind, Arity
      <3>2. type'[Kid(d, 1)] = type[Kid(d, 1)]
        BY <1>1, <2>1, <3>1, OperandStays DEF OperatorKinds
      <3> QED
        BY <1>1, <2>1, <3>2 DEF CalleesAreFunctions
    <2> QED
      BY <2>1
  <1>8. FitsSoFar'
    BY <1>1, <1>2, FitStays DEF FitsSoFar
  <1>9. SlotsFitSoFar'
    BY <1>1, <1>2, SlotStays DEF SlotsFitSoFar
  <1>10. ReferencesSeeWhatPrecedes'
    <2>1. ASSUME NEW r \in References(ast) \cap (done \cup {n}) PROVE SeesWhatPrecedes(r)'
      <3>1. CASE r = n
        BY <3>1
      <3>2. CASE r # n
        BY <1>1, <3>2, SightStays DEF ReferencesSeeWhatPrecedes, SeesWhatPrecedes
      <3> QED
        BY <3>1, <3>2
    <2> QED
      BY <1>2, <2>1 DEF ReferencesSeeWhatPrecedes, SeesWhatPrecedes
  <1> QED
    BY <1>4, <1>5, <1>6, <1>7, <1>8, <1>9, <1>10 DEF TypeInv

LEMMA CallBackFails ==
  ASSUME TypeInv, NEW n, CallBack(n), sym' = sym, TablesOK',
         phase' \in {"failed", "crashed"},
         AllPrecede => phase' # "crashed" /\ error'.what # "unresolved"
  PROVE  TypeInv'
  <1>1. BaseInv /\ ast' = ast
    BY DEF TypeInv, CallBack
  <1>2. AllPrecede' = AllPrecede
    BY <1>1 DEF AllPrecede
  <1>3. BaseInv'
    BY <1>1, <1>2, TablesCallBack
  <1> QED
    BY <1>3 DEF TypeInv, Going

(* A resolveType throws and leaves the tables alone.                       *)
LEMMA Throws ==
  ASSUME TypeInv, NEW K, NEW n, Visit(n, K), NEW what, NEW m, Throw(what, m),
         m = n \/ m \in done,
         AllPrecede => what # "unresolved"
  PROVE  TypeInv'
  <1>1. BaseInv /\ CallBack(n) /\ sym' = sym
    BY DEF TypeInv, Visit
  <1>2. ast' = ast /\ m \in DOMAIN ast
    BY <1>1, AfterCallBack
  <1>3. phase' = "failed" /\ error'.what = what /\ error'.at = m
        /\ type' = type /\ ret' = ret /\ blockType' = blockType
    BY DEF Throw
  <1>4. TablesOK'
    BY <1>1, <1>2, <1>3 DEF BaseInv, TypeOK, TablesOK, IsType, Same
  <1> QED
    BY <1>1, <1>3, <1>4, CallBackFails

LEMMA ReadsNullKind ==
  ASSUME TypeInv, NEW K, NEW n, Visit(n, K), NEW what, ReadNullKind(what, n),
         ~ AllPrecede, what # "unresolved"
  PROVE  TypeInv'
  <1>1. BaseInv /\ CallBack(n) /\ sym' = sym /\ ast' = ast
    BY DEF TypeInv, Visit, CallBack
  <1>2. CASE Throw(what, n)
    BY <1>2, Throws
  <1>3. CASE phase' = "crashed" /\ UNCHANGED <<type, ret, blockType, error>>
    <2>1. TablesOK'
      BY <1>1, <1>3 DEF BaseInv, TypeOK, TablesOK, IsType, Same
    <2> QED
      BY <1>1, <1>3, <2>1, CallBackFails
  <1> QED
    BY <1>2, <1>3 DEF ReadNullKind

(* An expression gets the type T.                                          *)
LEMMA Settles ==
  ASSUME TypeInv, NEW K, NEW n, Visit(n, K), NEW T, Settle(n, T),
         n \in Values(ast), n \notin Functions(ast), Whole(T),
         Fits(n)',
         ast[n].kind = "call" => type[Kid(n, 1)].kind = "function",
         n \in References(ast) => T = IF PostBefore(sym[n], n) THEN type[sym[n]] ELSE Unknown
  PROVE  TypeInv'
  <1>1. BaseInv /\ CallBack(n) /\ sym' = sym /\ phase = "resolveType"
    BY DEF TypeInv, Visit
  <1>2. ast' = ast /\ n \in DOMAIN ast \ done /\ done \subseteq DOMAIN ast
    BY <1>1, AfterCallBack
  <1>3. phase' = phase /\ ret' = ret /\ blockType' = blockType /\ error' = error
        /\ type' = [type EXCEPT ![n] = T]
    BY DEF Settle
  <1>4. DOMAIN type = Values(ast)
    BY <1>1 DEF BaseInv, TypeOK
  <1>5. type'[n] = T /\ \A m \in Values(ast) \ {n} : type'[m] = type[m]
    BY <1>3, <1>4
  <1>6. SetsOnly(n)
    BY <1>1, <1>3, <1>5 DEF SetsOnly
  <1>7. IsType(T)' /\ Whole(T)'
    BY <1>1, <1>6, WholeStays DEF Whole
  <1>8. TablesOK'
    BY <1>1, <1>2, <1>3, <1>4, <1>5, <1>7 DEF BaseInv, TypeOK, TablesOK, IsType, Same
  <1>9. Whole(type[n])'
    BY <1>5, <1>7 DEF Whole, IsType, Same
  <1>10. ast[n].kind = "call" => type'[Kid(n, 1)].kind = "function"
    <2> SUFFICES ASSUME ast[n].kind = "call" PROVE type'[Kid(n, 1)].kind = "function"
      OBVIOUS
    <2>1. 1 \in 1..Arity(n)
      BY <1>1, <1>2, Positions, OperandsAreThere DEF BaseInv, OfKind, Arity
    <2>2. Kid(n, 1) \in Values(ast)
      BY <1>1, <1>2, <2>1, OperandsAreValues DEF BaseInv, Arity, OperatorKinds
    <2>3. Kid(n, 1) # n
      BY <1>1, <1>2, <2>1, KidPrecedes, Positions, PostBeforeIsOneWay
    <2> QED
      BY <1>5, <2>2, <2>3
  <1>11. n \in References(ast) => SeesWhatPrecedes(n)'
    BY <1>1, <1>2, <1>5, SymbolIsValue DEF SeesWhatPrecedes
  <1> QED
    BY <1>1, <1>3, <1>6, <1>8, <1>9, <1>10, <1>11, CallBackSettles

(* A statement has nothing to settle.                                      *)
LEMMA SettlesNothing ==
  ASSUME TypeInv, NEW K, NEW n, Visit(n, K), n \notin Values(ast),
         UNCHANGED <<phase, type, ret, blockType, error>>, Fits(n)'
  PROVE  TypeInv'
  <1>1. BaseInv /\ CallBack(n) /\ sym' = sym /\ phase = "resolveType" /\ ast' = ast
        /\ n \in DOMAIN ast
    BY AfterCallBack DEF TypeInv, Visit
  <1>2. n \notin Functions(ast) /\ n \notin References(ast) /\ ast[n].kind # "call"
    BY <1>1 DEF Values, Functions, References, OfKind, ValueKinds
  <1>3. SetsOnly(n)
    BY <1>1 DEF SetsOnly
  <1>4. TablesOK'
    BY <1>1 DEF BaseInv, TypeOK, TablesOK, IsType, Same
  <1> QED
    BY <1>1, <1>2, <1>3, <1>4, CallBackSettles

(***************************************************************************)
(* The expressions.                                                        *)
(***************************************************************************)
LEMMA AfterVisit ==
  ASSUME TypeInv, NEW K, NEW n, Visit(n, K)
  PROVE  /\ BaseInv /\ CallBack(n) /\ ast' = ast /\ ast[n].kind \in K
         /\ n \in DOMAIN ast \ done
         /\ \A p \in DOMAIN ast : p \in done <=> PostBefore(p, n)
         /\ \A m \in Values(ast) \cap done : Whole(type[m])
         /\ \A m \in Values(ast) \ done : type[m] = Unknown
         /\ \A f \in Functions(ast) \cap done : Whole(ret[f]) /\ Fits(f)
         /\ \A m \in done : Fits(m)
         /\ DOMAIN type = Values(ast)
  <1>1. /\ BaseInv /\ TypesAreWhole /\ FitsSoFar /\ UndoneIsUntouched
        /\ CallBack(n) /\ ast[n].kind \in K
    BY DEF TypeInv, Going, Visit
  <1>2. DOMAIN type = Values(ast)
    BY <1>1 DEF BaseInv, TypeOK
  <1> QED
    BY <1>1, <1>2, AfterCallBack DEF TypesAreWhole, FitsSoFar, UndoneIsUntouched

LEMMA AfterSettle ==
  ASSUME TypeInv, NEW K, NEW n, Visit(n, K), n \in Values(ast), NEW T, Settle(n, T)
  PROVE  /\ ast' = ast /\ ret' = ret /\ type'[n] = T
         /\ \A m \in Values(ast) \ {n} : type'[m] = type[m]
  BY AfterVisit DEF Settle

LEMMA OperandIsKnown ==
  ASSUME TypeInv, NEW K, NEW n, Visit(n, K), NEW i \in 1..Arity(n),
         \/ ast[n].kind \in OperatorKinds \cup {"ret"}
         \/ ast[n].kind \in DOMAIN ConditionIndex /\ i = ConditionIndex[ast[n].kind]
  PROVE  /\ Kid(n, i) \in Values(ast) \cap done /\ Kid(n, i) # n
         /\ Whole(type[Kid(n, i)])
  <1>1. /\ BaseInv /\ n \in DOMAIN ast \ done
        /\ \A p \in DOMAIN ast : p \in done <=> PostBefore(p, n)
        /\ \A m \in Values(ast) \cap done : Whole(type[m])
    BY AfterVisit
  <1>2. Kid(n, i) \in DOMAIN ast /\ PostBefore(Kid(n, i), n)
    BY <1>1, KidPrecedes
  <1>3. Kid(n, i) \in done
    BY <1>1, <1>2, Zenon
  <1>4. Kid(n, i) \in Values(ast)
    BY <1>1, OperandsAreValues DEF BaseInv, Arity
  <1>5. Kid(n, i) # n
    BY <1>1, <1>3
  <1> QED
    BY <1>1, <1>3, <1>4, <1>5, Zenon

LEMMA WrittenIsWhole ==
  ASSUME NEW T, Written(T)
  PROVE  Whole(T)
  BY BasicTypes DEF Whole

LEMMA LiteralInv ==
  ASSUME TypeInv, NEW n, ResolveLiteral(n)
  PROVE  TypeInv'
  <1>1. Visit(n, {"literal", "arg"}) /\ Settle(n, ast[n].ty)
    BY DEF ResolveLiteral
  <1>2. BaseInv /\ ast' = ast /\ n \in DOMAIN ast /\ ast[n].kind \in {"literal", "arg"}
    BY <1>1, AfterVisit
  <1>3. n \in Values(ast) /\ n \notin Functions(ast) /\ n \notin References(ast)
    BY <1>2 DEF Values, Functions, References, OfKind, ValueKinds
  <1>4. Whole(ast[n].ty)
    BY <1>2, TypesAreWritten, WrittenIsWhole DEF BaseInv, OfKind
  <1>5. type'[n] = ast[n].ty
    BY <1>1, <1>3, AfterSettle
  <1>6. Fits(n)'
    BY <1>2, <1>5 DEF Fits, ConditionIndex
  <1> QED
    BY <1>1, <1>2, <1>3, <1>4, <1>6, Settles

LEMMA VarInv ==
  ASSUME TypeInv, NEW n, ResolveVar(n)
  PROVE  TypeInv'
  <1> DEFINE c == Kid(Front(n), 1)
  <1>1. Visit(n, {"var"}) /\ Settle(n, type[c])
    BY DEF ResolveVar
  <1>2. /\ BaseInv /\ ast' = ast /\ n \in DOMAIN ast \ done /\ ast[n].kind = "var"
        /\ \A p \in DOMAIN ast : p \in done <=> PostBefore(p, n)
        /\ \A m \in Values(ast) \cap done : Whole(type[m])
    BY <1>1, AfterVisit
  <1>3. n \in Values(ast) /\ n \notin Functions(ast) /\ n \notin References(ast)
    BY <1>2 DEF Values, Functions, References, OfKind, ValueKinds
  <1>4. c \in Values(ast) \cap done
    BY <1>2, InitialPrecedes DEF Values, OfKind
  <1>5. Whole(type[c]) /\ c # n
    BY <1>2, <1>4
  <1>6. type'[n] = type[c] /\ type'[c] = type[c]
    BY <1>1, <1>3, <1>4, <1>5, AfterSettle
  <1>7. Fits(n)'
    BY <1>2, <1>6 DEF Fits, ConditionIndex
  <1> QED
    BY <1>1, <1>2, <1>3, <1>5, <1>7, Settles

LEMMA ReferenceInv ==
  ASSUME TypeInv, NEW n, ResolveReference(n)
  PROVE  TypeInv'
  <1> DEFINE d == sym[n]
  <1>1. Visit(n, {"ref"}) /\ Settle(n, type[d])
    BY DEF ResolveReference
  <1>2. /\ BaseInv /\ ast' = ast /\ n \in DOMAIN ast \ done /\ ast[n].kind = "ref"
        /\ \A p \in DOMAIN ast : p \in done <=> PostBefore(p, n)
        /\ \A m \in Values(ast) \cap done : Whole(type[m])
        /\ \A m \in Values(ast) \ done : type[m] = Unknown
    BY <1>1, AfterVisit
  <1>3. n \in Values(ast) /\ n \notin Functions(ast) /\ n \in References(ast)
    BY <1>2 DEF Values, Functions, References, OfKind, ValueKinds
  <1>4. d \in Values(ast) /\ d \in DOMAIN ast /\ d # n
    BY <1>2, <1>3, SymbolIsValue
  <1>5. type[d] = IF PostBefore(d, n) THEN type[d] ELSE Unknown
    BY <1>2, <1>4
  <1>6. Whole(type[d])
    <2>1. CASE d \in done
      BY <1>2, <1>4, <2>1
    <2>2. CASE d \notin done
      <3>1. ~ AllPrecede /\ type[d] = Unknown
        BY <1>2, <1>3, <1>4, <2>2 DEF AllPrecede
      <3> QED
        BY <3>1, BasicTypes DEF Whole
    <2> QED
      BY <2>1, <2>2
  <1>7. Fits(n)'
    BY <1>2 DEF Fits, ConditionIndex
  <1> QED
    BY <1>1, <1>2, <1>3, <1>5, <1>6, <1>7, Settles

LEMMA UnaryInv ==
  ASSUME TypeInv, NEW n, ResolveUnary(n)
  PROVE  TypeInv'
  <1> DEFINE c == Kid(n, 1)
  <1>1. Visit(n, {"unary"}) /\ Settle(n, type[c])
    BY DEF ResolveUnary
  <1>2. BaseInv /\ ast' = ast /\ n \in DOMAIN ast /\ ast[n].kind = "unary"
    BY <1>1, AfterVisit
  <1>3. n \in Values(ast) /\ n \notin Functions(ast) /\ n \notin References(ast)
    BY <1>2 DEF Values, Functions, References, OfKind, ValueKinds
  <1>4. 1 \in 1..Arity(n)
    BY <1>2, Positions, OperandsAreThere DEF BaseInv, OfKind, Arity
  <1>5. c \in Values(ast) /\ c # n /\ Whole(type[c])
    BY <1>1, <1>2, <1>4, OperandIsKnown DEF OperatorKinds
  <1>6. type'[n] = type[c] /\ type'[c] = type[c]
    BY <1>1, <1>3, <1>5, AfterSettle
  <1>7. Fits(n)'
    BY <1>2, <1>6 DEF Fits, ConditionIndex
  <1> QED
    BY <1>1, <1>2, <1>3, <1>5, <1>7, Settles

LEMMA BinaryInv ==
  ASSUME TypeInv, NEW n, ResolveBinary(n)
  PROVE  TypeInv'
  <1> DEFINE L == type[Kid(n, 1)]
             R == type[Kid(n, 2)]
             T == IF ast[n].kind = "arith" THEN L ELSE Primitive("boolean")
  <1>1. Visit(n, {"arith", "compare"})
        /\ IF ~ Same(L, R) THEN Throw("type mismatch", n) ELSE Settle(n, T)
    BY DEF ResolveBinary
  <1>2. BaseInv /\ ast' = ast /\ n \in DOMAIN ast /\ ast[n].kind \in {"arith", "compare"}
    BY <1>1, AfterVisit
  <1>3. n \in Values(ast) /\ n \notin Functions(ast) /\ n \notin References(ast)
    BY <1>2 DEF Values, Functions, References, OfKind, ValueKinds
  <1>4. 1 \in 1..Arity(n) /\ 2 \in 1..Arity(n)
    BY <1>2, Positions, OperandsAreThere DEF BaseInv, OfKind, Arity
  <1>5. /\ Kid(n, 1) \in Values(ast) /\ Kid(n, 1) # n /\ Whole(L)
        /\ Kid(n, 2) \in Values(ast) /\ Kid(n, 2) # n
    BY <1>1, <1>2, <1>4, OperandIsKnown DEF OperatorKinds
  <1>6. CASE ~ Same(L, R)
    BY <1>1, <1>6, Throws
  <1>7. CASE Same(L, R)
    <2>1. Settle(n, T) /\ Whole(T)
      BY <1>1, <1>5, <1>7, BasicTypes, WrittenIsWhole
    <2> HIDE DEF T
    <2>2. type'[n] = T /\ type'[Kid(n, 1)] = L /\ type'[Kid(n, 2)] = R
      BY <1>1, <1>3, <1>5, <2>1, AfterSettle
    <2>3. Fits(n)'
      BY <1>2, <1>7, <2>2 DEF Fits, ConditionIndex, Same, Is, T
    <2> QED
      BY <1>1, <1>2, <1>3, <2>1, <2>3, Settles
  <1> QED
    BY <1>6, <1>7

LEMMA ArrayInv ==
  ASSUME TypeInv, NEW n, ResolveArray(n)
  PROVE  TypeInv'
  <1> DEFINE a == Arity(n)
             T(i) == type[Kid(n, i)]
  <1>1. Visit(n, {"array"})
    BY DEF ResolveArray
  <1>2. \/ a = 0 /\ Throw("empty array", n)
        \/ a # 0 /\ Throw("element type", n)
        \/ /\ \A i \in 1..(a - 1) : Same(T(i), T(i + 1))
           /\ a # 0
           /\ \/ Same(T(1), Unknown) /\ Throw("unresolved", n)
              \/ Settle(n, ArrayOf(T(1), a))
    BY DEF ResolveArray
  <1>3. BaseInv /\ ast' = ast /\ n \in DOMAIN ast /\ ast[n].kind = "array"
    BY <1>1, AfterVisit
  <1>4. n \in Values(ast) /\ n \notin Functions(ast) /\ n \notin References(ast)
    BY <1>3 DEF Values, Functions, References, OfKind, ValueKinds
  <1>5. a \in Nat /\ Arity(n)' = a
    BY <1>3, Positions DEF Arity
  <1>6. ASSUME NEW i \in 1..a
        PROVE  Kid(n, i) \in Values(ast) \cap done /\ Kid(n, i) # n /\ Whole(T(i))
    BY <1>1, <1>3, OperandIsKnown DEF OperatorKinds
  <1>7. CASE Throw("empty array", n) \/ Throw("element type", n)
    BY <1>1, <1>7, Throws
  <1>8. CASE a # 0 /\ Same(T(1), Unknown) /\ Throw("unresolved", n)
    <2>1. Whole(T(1))
      BY <1>5, <1>6, <1>8
    <2>2. ~ AllPrecede
      BY <2>1, <1>8 DEF Whole, IsType
    <2> QED
      BY <1>1, <1>8, <2>2, Throws
  <1>9. CASE /\ \A i \in 1..(a - 1) : Same(T(i), T(i + 1))
             /\ a # 0 /\ Settle(n, ArrayOf(T(1), a))
    <2>1. 1 \in 1..a
      BY <1>5, <1>9
    <2>2. \A i \in 1..a : Same(T(1), T(i))
      <3> DEFINE f == [i \in 1..a |-> T(i).name]
      <3>1. \A i \in 1..(a - 1) : f[i] = f[i + 1]
        BY <1>5, <1>9 DEF Same
      <3>2. \A i \in 1..a : f[i] = f[1]
        <4> HIDE DEF f
        <4> QED
          BY <1>5, <3>1, ChainIsEqual
      <3> QED
        BY <2>1, <3>2 DEF Same
    <2> DEFINE A == ArrayOf(T(1), a)
    <2>3. A.kind = "array" /\ A.name = <<"array", a>> /\ A.element = T(1)
      BY DEF ArrayOf
    <2>4. IsType(A)
      BY <2>3 DEF IsType, Same, Unknown
    <2>5. Whole(A)
      BY <1>6, <2>1, <2>3, <2>4 DEF Whole
    <2> HIDE DEF A
    <2>6. type'[n] = A /\ \A i \in 1..a : type'[Kid(n, i)] = T(i)
      BY <1>1, <1>4, <1>6, <1>9, AfterSettle DEF A
    <2>7. Fits(n)'
      BY <1>3, <1>5, <2>2, <2>3, <2>6 DEF Fits, ConditionIndex
    <2> QED
      BY <1>1, <1>3, <1>4, <1>9, <2>5, <2>7, Settles DEF A
  <1> QED
    BY <1>2, <1>7, <1>8, <1>9

LEMMA IndexingInv ==
  ASSUME TypeInv, NEW n, ResolveIndexing(n)
  PROVE  TypeInv'
  <1> DEFINE c == Kid(n, 1)
             T == type[c]
  <1>1. Visit(n, {"index"})
    BY DEF ResolveIndexing
  <1>2. BaseInv /\ ast' = ast /\ n \in DOMAIN ast /\ ast[n].kind = "index"
    BY <1>1, AfterVisit
  <1>3. n \in Values(ast) /\ n \notin Functions(ast) /\ n \notin References(ast)
    BY <1>2 DEF Values, Functions, References, OfKind, ValueKinds
  <1>4. 1 \in 1..Arity(n)
    BY <1>2, Positions, OperandsAreThere DEF BaseInv, OfKind, Arity
  <1>5. c \in Values(ast) \cap done /\ c # n /\ Whole(T)
    BY <1>1, <1>2, <1>4, OperandIsKnown DEF OperatorKinds
  <1>6. \/ T.kind = "null" /\ ReadNullKind("not indexable", n)
        \/ T.kind = "array" /\ Settle(n, T.element)
        \/ Is(T, "string") /\ Settle(n, Primitive("char"))
        \/ Throw("not indexable", n)
    BY DEF ResolveIndexing
  <1>7. CASE T.kind = "null" /\ ReadNullKind("not indexable", n)
    BY <1>1, <1>5, <1>7, ReadsNullKind DEF Whole
  <1>8. CASE Throw("not indexable", n)
    BY <1>1, <1>8, Throws
  <1>9. CASE T.kind = "array" /\ Settle(n, T.element)
    <2>1. PICK m \in Values(ast) \cap done : T.element = type[m]
      BY <1>5, <1>9 DEF Whole
    <2>2. Whole(T.element)
      <3>1. Whole(type[m])
        BY <1>1, AfterVisit
      <3> QED
        BY <2>1, <3>1
    <2>3. type'[n] = T.element /\ type'[c] = T
      BY <1>1, <1>3, <1>5, <1>9, AfterSettle
    <2>4. Fits(n)'
      BY <1>2, <1>9, <2>3 DEF Fits, ConditionIndex
    <2> QED
      BY <1>1, <1>2, <1>3, <1>9, <2>2, <2>4, Settles
  <1>10. CASE Is(T, "string") /\ Settle(n, Primitive("char"))
    <2>1. Whole(Primitive("char"))
      BY BasicTypes, WrittenIsWhole
    <2>2. type'[n] = Primitive("char") /\ type'[c] = T
      BY <1>1, <1>3, <1>5, <1>10, AfterSettle
    <2>3. Fits(n)'
      BY <1>2, <1>10, <2>2 DEF Fits, ConditionIndex, Is, Same
    <2> QED
      BY <1>1, <1>2, <1>3, <1>10, <2>1, <2>3, Settles
  <1> QED
    BY <1>6, <1>7, <1>8, <1>9, <1>10

LEMMA CallInv ==
  ASSUME TypeInv, NEW n, ResolveCall(n)
  PROVE  TypeInv'
  <1> DEFINE c == Kid(n, 1)
             T == type[c]
  <1> PICK f : f = T.of
    OBVIOUS
  <1>1. Visit(n, {"call"})
    BY DEF ResolveCall
  <1>2. BaseInv /\ ast' = ast /\ n \in DOMAIN ast \ done /\ ast[n].kind = "call"
    BY <1>1, AfterVisit
  <1>3. n \in Values(ast) /\ n \notin Functions(ast) /\ n \notin References(ast)
    BY <1>2 DEF Values, Functions, References, OfKind, ValueKinds
  <1>4. 1 \in 1..Arity(n)
    BY <1>2, Positions, OperandsAreThere DEF BaseInv, OfKind, Arity
  <1>5. ASSUME NEW i \in 1..Arity(n)
        PROVE  Kid(n, i) \in Values(ast) \cap done /\ Kid(n, i) # n /\ Whole(type[Kid(n, i)])
    BY <1>1, <1>2, OperandIsKnown DEF OperatorKinds
  <1>6. Whole(T)
    BY <1>4, <1>5
  <1>7. \/ T.kind = "null" /\ ReadNullKind("not a function", n)
        \/ \E what \in {"not a function", "argument count", "argument type"} : Throw(what, n)
        \/ /\ T.kind = "function" /\ Arity(n) = Arity(f)
           /\ \A i \in 1..(Arity(n) - 1) : Same(type[Kid(n, i + 1)], ast[Kid(f, i)].ty)
           /\ Settle(n, ret[f])
    BY <1>6 DEF ResolveCall, Whole, IsType
  <1>8. CASE T.kind = "null" /\ ReadNullKind("not a function", n)
    BY <1>1, <1>6, <1>8, ReadsNullKind DEF Whole
  <1>9. CASE \E what \in {"not a function", "argument count", "argument type"} : Throw(what, n)
    BY <1>1, <1>9, Throws
  <1>10. CASE /\ T.kind = "function" /\ Arity(n) = Arity(f)
              /\ \A i \in 1..(Arity(n) - 1) : Same(type[Kid(n, i + 1)], ast[Kid(f, i)].ty)
              /\ Settle(n, ret[f])
    <2>1. f \in Functions(ast) \cap done /\ T = type[f]
      BY <1>6, <1>10 DEF Whole
    <2>2. Whole(ret[f]) /\ f \in DOMAIN ast /\ f \in Values(ast) /\ f # n
      BY <1>1, <1>2, <2>1, AfterVisit DEF Functions, Values, OfKind, ValueKinds
    <2>3. ASSUME NEW i \in 1..(Arity(f) - 1)
          PROVE  /\ Kid(f, i) \in Values(ast) /\ Kid(f, i) # n
                 /\ type[Kid(f, i)] = ast[Kid(f, i)].ty
                 /\ i + 1 \in 1..Arity(n)
      <3>1. Arity(f) \in Nat /\ i \in 1..Arity(f) /\ i + 1 \in 1..Arity(n)
        BY <1>2, <1>10, <2>2, Positions
      <3>2. ast[Kid(f, i)].kind = "arg"
        BY <1>2, <2>1, FunctionsHaveBodies DEF BaseInv, Arity
      <3>3. Kid(f, i) \in DOMAIN ast /\ Kid(f, i) \in done
        BY <1>2, <2>1, <2>2, <3>1, KidPrecedes, PrecedingIsDone
      <3>4. Fits(Kid(f, i))
        BY <1>1, <3>3, AfterVisit
      <3> QED
        BY <1>2, <3>1, <3>2, <3>3, <3>4 DEF Fits, Values, OfKind, ValueKinds
    <2>4. type'[n] = ret[f] /\ ret'[f] = ret[f] /\ type'[c] = T /\ type'[f] = type[f]
      BY <1>1, <1>3, <1>4, <1>5, <1>10, <2>2, AfterSettle
    <2>5. ASSUME NEW i \in 1..(Arity(f) - 1)
          PROVE  Same(type'[Kid(n, i + 1)], type'[Kid(f, i)])
      <3>1. type'[Kid(n, i + 1)] = type[Kid(n, i + 1)] /\ type'[Kid(f, i)] = type[Kid(f, i)]
        BY <1>1, <1>3, <1>5, <1>10, <2>3, AfterSettle
      <3>2. i \in 1..(Arity(n) - 1)
        BY <1>10
      <3> QED
        BY <1>10, <2>3, <3>1, <3>2
    <2>6. CallFits(n, f)'
      <3>1. Arity(n)' = Arity(n) /\ Arity(f)' = Arity(f)
        BY <1>2 DEF Arity
      <3> QED
        BY <1>10, <2>1, <2>4, <2>5, <3>1 DEF CallFits
    <2>7. Fits(n)'
      BY <1>2, <2>1, <2>6 DEF Fits, ConditionIndex
    <2> QED
      BY <1>1, <1>2, <1>3, <1>10, <2>2, <2>7, Settles
  <1> QED
    BY <1>7, <1>8, <1>9, <1>10

(***************************************************************************)
(* The statements and the functions.                                       *)
(***************************************************************************)
LEMMA ConditionInv ==
  ASSUME TypeInv, NEW n, CheckCondition(n)
  PROVE  TypeInv'
  <1> DEFINE c == Condition(n)
  <1>1. Visit(n, DOMAIN ConditionIndex)
    BY DEF CheckCondition
  <1>2. \/ Throw("condition", n)
        \/ /\ Is(type[c], "boolean")
           /\ UNCHANGED <<phase, type, ret, blockType, error>>
    BY DEF CheckCondition
  <1>3. /\ BaseInv /\ ast' = ast /\ n \in DOMAIN ast
        /\ ast[n].kind \in {"if", "while", "for"}
    BY <1>1, AfterVisit DEF ConditionIndex
  <1>4. n \notin Values(ast)
    BY <1>3 DEF Values, OfKind, ValueKinds
  <1>5. CASE Throw("condition", n)
    BY <1>1, <1>5, Throws
  <1>6. CASE Is(type[c], "boolean") /\ UNCHANGED <<phase, type, ret, blockType, error>>
    <2>1. Fits(n)'
      BY <1>3, <1>6 DEF Fits, Condition
    <2> QED
      BY <1>1, <1>4, <1>6, <2>1, SettlesNothing
  <1> QED
    BY <1>2, <1>5, <1>6

LEMMA SkipInv ==
  ASSUME TypeInv, NEW n, Skip(n)
  PROVE  TypeInv'
  <1> DEFINE K == {"program", "block", "compound", "let", "assign", "ret", "break", "continue"}
  <1>1. Visit(n, K) /\ UNCHANGED <<phase, type, ret, blockType, error>>
    BY DEF Skip
  <1>2. ast' = ast /\ n \in DOMAIN ast /\ ast[n].kind \in K
    BY <1>1, AfterVisit
  <1>3. n \notin Values(ast)
    BY <1>2 DEF Values, OfKind, ValueKinds
  <1>4. Fits(n)'
    BY <1>2 DEF Fits, ConditionIndex
  <1> QED
    BY <1>1, <1>3, <1>4, SettlesNothing

(* The first and the last of some nodes called back.                       *)
LEMMA FirstAndFinal ==
  ASSUME DoneIsOrdered, NEW S, S \subseteq done, S # {}
  PROVE  /\ First(S) \in S
         /\ Final(S) \in S /\ \A q \in S \ {Final(S)} : PostBefore(q, Final(S))
  <1>1. /\ \E p \in S : \A q \in S \ {p} : PostBefore(p, q)
        /\ \E p \in S : \A q \in S \ {p} : PostBefore(q, p)
    BY DEF DoneIsOrdered
  <1>2. First(S) \in S
    BY <1>1 DEF First
  <1>3. Final(S) \in S /\ \A q \in S \ {Final(S)} : PostBefore(q, Final(S))
    BY <1>1 DEF Final
  <1> QED
    BY <1>2, <1>3

(* What inferReturnType finds.                                             *)
LEMMA InferredIsWhole ==
  ASSUME TypeInv, NEW f, Visit(f, {"function"})
  PROVE  /\ \A r \in Rets(f) : r \in done /\ ast[r].kind = "ret" /\ Arity(r) \in 0..1
         /\ Whole(Inferred(f))
         /\ Clashes(f) # {} => First(Clashes(f)) \in done
         /\ Clashes(f) = {} => \A r \in Rets(f) : Same(ReturnType(r), Inferred(f))
  <1>1. /\ BaseInv /\ f \in DOMAIN ast \ done /\ ast[f].kind = "function"
        /\ \A p \in DOMAIN ast : p \in done <=> PostBefore(p, f)
        /\ \A m \in Values(ast) \cap done : Whole(type[m])
    BY AfterVisit
  <1>2. f \in Functions(ast) /\ DoneIsOrdered
    BY <1>1 DEF Functions, OfKind, BaseInv
  <1>3. ASSUME NEW r \in Rets(f)
        PROVE  r \in done /\ ast[r].kind = "ret" /\ Arity(r) \in 0..1
    BY <1>1, <1>2, ReturnsPrecede
  <1>4. ASSUME NEW r \in Rets(f)
        PROVE  Whole(ReturnType(r))
    <2>1. r \in done /\ ast[r].kind = "ret" /\ Arity(r) \in 0..1
      BY <1>3
    <2>2. CASE Arity(r) = 0
      <3>1. ReturnType(r) = Primitive("void")
        BY <2>2 DEF ReturnType
      <3> QED
        BY <3>1, BasicTypes, WrittenIsWhole
    <2>3. CASE Arity(r) = 1
      <3>1. 1 \in 1..Arity(r)
        BY <2>3
      <3>2. Kid(r, 1) \in Values(ast) \cap done
        BY <1>1, <2>1, <3>1, OperandIsDone
      <3>3. ReturnType(r) = type[Kid(r, 1)]
        BY <2>3 DEF ReturnType
      <3> QED
        BY <1>1, <3>2, <3>3
    <2> QED
      BY <2>1, <2>2, <2>3
  <1>5. Rets(f) # {} => /\ Final(Rets(f)) \in Rets(f)
                        /\ \A q \in Rets(f) \ {Final(Rets(f))} : PostBefore(q, Final(Rets(f)))
                        /\ Inferred(f) = ReturnType(Final(Rets(f)))
    BY <1>2, <1>3, FirstAndFinal DEF Inferred
  <1>6. Whole(Inferred(f))
    <2>1. Rets(f) = {} => Inferred(f) = Primitive("void")
      BY DEF Inferred
    <2>2. Whole(Primitive("void"))
      BY BasicTypes, WrittenIsWhole
    <2> QED
      BY <1>4, <1>5, <2>1, <2>2
  <1>7. Clashes(f) # {} => First(Clashes(f)) \in done
    <2>1. Clashes(f) \subseteq done
      BY <1>3 DEF Clashes
    <2> QED
      BY <1>2, <2>1, FirstAndFinal
  <1>8. ASSUME Clashes(f) = {}, NEW r \in Rets(f)
        PROVE  Same(ReturnType(r), Inferred(f))
    <2>1. CASE r = Final(Rets(f))
      BY <1>5, <2>1 DEF Same
    <2>2. CASE r # Final(Rets(f))
      <3>1. PostBefore(r, Final(Rets(f))) /\ Final(Rets(f)) \in Rets(f)
        BY <1>5, <2>2
      <3> QED
        BY <1>5, <1>8, <3>1 DEF Clashes
    <2> QED
      BY <2>1, <2>2
  <1> QED
    BY <1>3, <1>6, <1>7, <1>8

LEMMA FunctionInv ==
  ASSUME TypeInv, NEW f, ResolveFunction(f)
  PROVE  TypeInv'
  <1> PICK r : r = IF ret[f] = Null THEN Inferred(f) ELSE ret[f]
    OBVIOUS
  <1>1. Visit(f, {"function"})
    BY DEF ResolveFunction
  <1>2. \/ Clashes(f) # {} /\ Throw("return type", First(Clashes(f)))
        \/ Throw("return type", f)
        \/ /\ Clashes(f) = {} /\ Same(Inferred(f), r)
           /\ ret' = [ret EXCEPT ![f] = r]
           /\ blockType' = [blockType EXCEPT ![Body(f)] = r]
           /\ \/ /\ Same(r, Unknown)
                 /\ phase' = "failed"
                 /\ error' = [what |-> "unresolved", at |-> f]
                 /\ UNCHANGED type
              \/ /\ type' = [type EXCEPT ![f] = FunctionType(f, r)]
                 /\ UNCHANGED <<phase, error>>
    BY DEF ResolveFunction
  <1>3. /\ BaseInv /\ ast' = ast /\ f \in DOMAIN ast \ done /\ ast[f].kind = "function"
        /\ CallBack(f) /\ sym' = sym /\ phase = "resolveType" /\ done' = done \cup {f}
        /\ UndoneIsUntouched
    BY <1>1, AfterVisit, AfterCallBack DEF Visit, TypeInv, Going
  <1>4. f \in Functions(ast) /\ f \in Values(ast) /\ f \notin References(ast)
    BY <1>3 DEF Values, Functions, References, OfKind, ValueKinds
  <1>5. CASE Clashes(f) # {} /\ Throw("return type", First(Clashes(f)))
    BY <1>1, <1>5, Throws, InferredIsWhole
  <1>6. CASE Throw("return type", f)
    BY <1>1, <1>6, Throws
  <1>7. CASE /\ Clashes(f) = {} /\ Same(Inferred(f), r)
             /\ ret' = [ret EXCEPT ![f] = r]
             /\ blockType' = [blockType EXCEPT ![Body(f)] = r]
             /\ \/ /\ Same(r, Unknown)
                   /\ phase' = "failed"
                   /\ error' = [what |-> "unresolved", at |-> f]
                   /\ UNCHANGED type
                \/ /\ type' = [type EXCEPT ![f] = FunctionType(f, r)]
                   /\ UNCHANGED <<phase, error>>
    <2>1. Whole(r)
      <3>1. CASE ret[f] = Null
        BY <1>1, <3>1, InferredIsWhole
      <3>2. CASE ret[f] # Null
        <4>1. r = ast[f].ty
          BY <1>3, <1>4, <3>2 DEF UndoneIsUntouched
        <4> QED
          BY <1>3, <1>4, <3>2, <4>1, TypesAreWritten, WrittenIsWhole DEF BaseInv
      <3> QED
        BY <3>1, <3>2
    <2>2. Body(f) \in Bodies(ast)
      BY <1>3, <1>4, FunctionsHaveBodies DEF BaseInv, Body, Arity
    <2>3. /\ DOMAIN type = Values(ast) /\ DOMAIN ret = Functions(ast)
          /\ DOMAIN blockType = Bodies(ast)
      BY <1>3 DEF BaseInv, TypeOK
    <2>4. /\ ret'[f] = r /\ blockType'[Body(f)] = r
          /\ \A g \in Functions(ast) \ {f} : ret'[g] = ret[g]
          /\ \A b \in Bodies(ast) : blockType'[b] = IF b = Body(f) THEN r ELSE blockType[b]
          /\ DOMAIN ret' = Functions(ast) /\ DOMAIN blockType' = Bodies(ast)
      BY <1>4, <1>7, <2>2, <2>3
    <2>5. \A g \in Functions(ast) \ {f} : blockType'[Body(g)] = blockType[Body(g)]
      <3> SUFFICES ASSUME NEW g \in Functions(ast) \ {f}
                   PROVE  blockType'[Body(g)] = blockType[Body(g)]
        OBVIOUS
      <3>1. Body(g) \in Bodies(ast)
        BY <1>3, FunctionsHaveBodies DEF BaseInv, Body, Arity
      <3>2. Body(g) # Body(f)
        BY <1>3, <1>4, BodiesDiffer
      <3> QED
        BY <2>4, <3>1, <3>2
    <2>6. DOMAIN type' = Values(ast) /\ \A m \in Values(ast) \ {f} : type'[m] = type[m]
      BY <1>7, <2>3
    <2>7. SetsOnly(f)
      BY <1>3, <2>4, <2>5, <2>6 DEF SetsOnly
    <2>8. Whole(r)' /\ IsType(r)'
      BY <1>3, <2>1, <2>7, WholeStays DEF Whole
    <2>9. IsType(type[f])' /\ phase' \in {"resolveType", "failed"}
          /\ error'.at \in DOMAIN ast \cup {Null}
      <3>1. CASE type' = type /\ phase' = "failed" /\ error' = [what |-> "unresolved", at |-> f]
        BY <1>3, <1>4, <3>1 DEF BaseInv, TypeOK, IsType, Same
      <3>2. CASE type' = [type EXCEPT ![f] = FunctionType(f, r)] /\ UNCHANGED <<phase, error>>
        <4>1. type'[f] = FunctionType(f, r)
          BY <1>4, <2>3, <3>2
        <4>2. IsType(type[f])'
          BY <1>3, <1>4, <4>1 DEF IsType, FunctionType, Same, Unknown
        <4> QED
          BY <1>3, <3>2, <4>2 DEF BaseInv, TypeOK
      <3> QED
        BY <1>7, <3>1, <3>2
    <2>10. TablesOK'
      BY <1>3, <1>4, <2>4, <2>6, <2>8, <2>9 DEF BaseInv, TypeOK, TablesOK, IsType, Same
    <2>11. CASE /\ Same(r, Unknown)
                /\ phase' = "failed"
                /\ error' = [what |-> "unresolved", at |-> f]
      <3>1. ~ AllPrecede
        BY <2>1, <2>11 DEF Whole, IsType
      <3> QED
        BY <1>3, <2>10, <2>11, <3>1, CallBackFails
    <2>12. CASE /\ type' = [type EXCEPT ![f] = FunctionType(f, r)]
                /\ UNCHANGED <<phase, error>>
      <3>1. type'[f] = FunctionType(f, r)
        BY <1>4, <2>3, <2>12
      <3>2. FunctionType(f, r)' = FunctionType(f, r)
        BY <1>3 DEF FunctionType, Arguments, Arity
      <3>3. Whole(type[f])'
        BY <1>3, <1>4, <2>9, <3>1 DEF Whole, FunctionType
      <3>4. Whole(ret[f])'
        BY <2>4, <2>8 DEF Whole, IsType, Same
      <3>5. SlotFits(f)'
        <4>1. Body(f)' = Body(f) /\ Rets(f)' = Rets(f)
          BY <1>3 DEF Body, Arity, Rets
        <4>2. ASSUME NEW q \in Rets(f) PROVE Same(ReturnType(q)', r)
          <5>1. ReturnType(q)' = ReturnType(q)
            BY <1>1, <1>3, <2>7, InferredIsWhole, ReturnStays
          <5>2. Same(ReturnType(q), Inferred(f))
            BY <1>1, <1>7, InferredIsWhole
          <5> QED
            BY <1>7, <5>1, <5>2 DEF Same
        <4> QED
          BY <2>4, <4>1, <4>2 DEF SlotFits
      <3>6. Fits(f)'
        BY <1>3, <2>4, <3>1, <3>2 DEF Fits, ConditionIndex
      <3> QED
        BY <1>3, <1>4, <2>7, <2>10, <2>12, <3>3, <3>4, <3>5, <3>6, CallBackSettles
    <2> QED
      BY <1>7, <2>11, <2>12
  <1> QED
    BY <1>2, <1>5, <1>6, <1>7

(***************************************************************************)
(* The other steps.                                                        *)
(***************************************************************************)
LEMMA ExpandInv ==
  ASSUME TypeInv, NEW n, Walk(n)
  PROVE  TypeInv'
  <1>1. /\ Expand(n) /\ ast' = ast /\ done' = done /\ phase = "resolveType"
        /\ UNCHANGED <<phase, sym, type, ret, blockType, error>>
    BY DEF Walk, Expand, typeVars
  <1>2. BaseInv
    BY DEF TypeInv
  <1>3. WalkInv' /\ OrderInv'
    BY <1>1, <1>2, WalkExpand, OrderExpand DEF BaseInv
  <1>4. TypeOK'
    BY <1>1, <1>2, <1>3 DEF BaseInv, TypeOK, WalkInv, IsType, Same
  <1>5. BaseInv'
    BY <1>1, <1>2, <1>3, <1>4
       DEF BaseInv, DoneIsOrdered, SymbolsAreDeclared, AllPrecede, Names!Declarations
  <1>7. TypesAreWhole /\ FitsSoFar /\ SlotsFitSoFar
    BY <1>1 DEF TypeInv, Going
  <1>8. TypesAreWhole'
    BY <1>1, <1>7 DEF TypesAreWhole, Whole, IsType, Same, AllPrecede
  <1>9. FitsSoFar'
    BY <1>1, <1>7 DEF FitsSoFar, Fits, CallFits, Condition, FunctionType, Arguments, Arity
  <1>10. SlotsFitSoFar'
    BY <1>1, <1>7 DEF SlotsFitSoFar, SlotFits, Rets, ReturnType, Body, Arity
  <1> QED
    BY <1>1, <1>5, <1>8, <1>9, <1>10
       DEF TypeInv, Going, UndoneIsUntouched, CalleesAreFunctions, ReferencesSeeWhatPrecedes

LEMMA FinishInv ==
  ASSUME TypeInv, Finish
  PROVE  TypeInv'
  <1>1. /\ UNCHANGED <<ast, stack, visited, done, sym, type, ret, blockType, error>>
        /\ phase = "resolveType" /\ stack = <<>> /\ phase' = "typed"
    BY DEF Finish, walkVars
  <1>2. BaseInv
    BY DEF TypeInv
  <1>3. WalkInv' /\ OrderInv'
    BY <1>1, <1>2, WalkStutter, OrderStutter DEF BaseInv, walkVars
  <1>4. TypeOK'
    BY <1>1, <1>2, <1>3 DEF BaseInv, TypeOK, WalkInv, IsType, Same
  <1>5. BaseInv'
    BY <1>1, <1>2, <1>3, <1>4
       DEF BaseInv, DoneIsOrdered, SymbolsAreDeclared, AllPrecede, Names!Declarations
  <1>6. TypesAreWhole /\ FitsSoFar /\ SlotsFitSoFar
    BY <1>1 DEF TypeInv, Going
  <1>7. TypesAreWhole'
    BY <1>1, <1>6 DEF TypesAreWhole, Whole, IsType, Same, AllPrecede
  <1>8. FitsSoFar'
    BY <1>1, <1>6 DEF FitsSoFar, Fits, CallFits, Condition, FunctionType, Arguments, Arity
  <1>9. SlotsFitSoFar'
    BY <1>1, <1>6 DEF SlotsFitSoFar, SlotFits, Rets, ReturnType, Body, Arity
  <1> QED
    BY <1>1, <1>5, <1>7, <1>8, <1>9
       DEF TypeInv, Going, UndoneIsUntouched, CalleesAreFunctions, ReferencesSeeWhatPrecedes

LEMMA StutterInv ==
  ASSUME TypeInv, UNCHANGED vars
  PROVE  TypeInv'
  <1>1. /\ UNCHANGED <<ast, stack, visited, done>>
        /\ UNCHANGED <<phase, sym, type, ret, blockType, error>>
    BY DEF vars, walkVars, typeVars
  <1>2. BaseInv
    BY DEF TypeInv
  <1>3. WalkInv' /\ OrderInv'
    BY <1>1, <1>2, WalkStutter, OrderStutter DEF BaseInv, walkVars
  <1>4. TypeOK'
    BY <1>1, <1>2, <1>3 DEF BaseInv, TypeOK, WalkInv, IsType, Same
  <1>5. BaseInv'
    BY <1>1, <1>2, <1>3, <1>4
       DEF BaseInv, DoneIsOrdered, SymbolsAreDeclared, AllPrecede, Names!Declarations
  <1>6. TypesAreWhole' <=> TypesAreWhole
    BY <1>1 DEF TypesAreWhole, Whole, IsType, Same, AllPrecede
  <1>7. FitsSoFar' <=> FitsSoFar
    BY <1>1 DEF FitsSoFar, Fits, CallFits, Condition, FunctionType, Arguments, Arity
  <1>8. SlotsFitSoFar' <=> SlotsFitSoFar
    BY <1>1 DEF SlotsFitSoFar, SlotFits, Rets, ReturnType, Body, Arity
  <1> QED
    BY <1>1, <1>5, <1>6, <1>7, <1>8
       DEF TypeInv, Going, UndoneIsUntouched, CalleesAreFunctions, ReferencesSeeWhatPrecedes

LEMMA TypeInit == Init => TypeInv
  <1> SUFFICES ASSUME Init PROVE TypeInv
    OBVIOUS
  <1>1. ast \in Programs /\ WalkInv /\ OrderInv /\ done = {} /\ stack # <<>>
    BY WalkInit, OrderInit DEF Init, StartWalk
  <1>2. SymbolsAreDeclared
    <2> SUFFICES ASSUME NEW r \in References(ast) PROVE sym[r] \in Names!Declarations(ast)
      BY DEF SymbolsAreDeclared
    <2>1. sym[r] \in Names!NearestMet(r)
      BY DEF Init
    <2> QED
      BY <2>1 DEF Names!NearestMet, Names!Met, Names!Named
  <1>3. sym \in [References(ast) -> Values(ast)]
    <2>1. \A r \in References(ast) : sym[r] \in Values(ast)
      BY <1>2 DEF SymbolsAreDeclared, Names!Declarations, Names!DeclarationKinds,
                  Names!OfKind, Values, ValueKinds, OfKind
    <2>2. sym = [r \in References(ast) |-> CHOOSE d \in Names!NearestMet(r) : TRUE]
      BY DEF Init
    <2> QED
      BY <2>1, <2>2
  <1>4. TypeOK
    <2>1. WalkTypeOK /\ phase = "resolveType" /\ error.at = Null
      BY <1>1 DEF Init, WalkInv
    <2>2. DOMAIN type = Values(ast) /\ \A n \in Values(ast) : IsType(type[n])
      BY BasicTypes DEF Init
    <2>3. DOMAIN ret = Functions(ast) /\ \A f \in Functions(ast) : ret[f] # Null => IsType(ret[f])
      BY <1>1, BasicTypes, TypesAreWritten DEF Init
    <2>4. DOMAIN blockType = Bodies(ast) /\ \A b \in Bodies(ast) : IsType(blockType[b])
      BY BasicTypes DEF Init
    <2> QED
      BY <1>3, <2>1, <2>2, <2>3, <2>4 DEF TypeOK
  <1>5. BaseInv
    BY <1>1, <1>2, <1>4 DEF BaseInv, DoneIsOrdered, Init
  <1>6. UndoneIsUntouched
    BY DEF Init, UndoneIsUntouched
  <1> QED
    BY <1>1, <1>5, <1>6
       DEF TypeInv, TypesAreWhole, CalleesAreFunctions, FitsSoFar, SlotsFitSoFar,
           ReferencesSeeWhatPrecedes, Init

LEMMA TypeInvariance == Spec => []TypeInv
  <1>1. TypeInv /\ [Next]_vars => TypeInv'
    <2> SUFFICES ASSUME TypeInv, [Next]_vars PROVE TypeInv'
      OBVIOUS
    <2>1. ASSUME NEW n \in DOMAIN ast,
                 \/ Walk(n) \/ ResolveLiteral(n) \/ ResolveVar(n) \/ ResolveReference(n)
                 \/ ResolveUnary(n) \/ ResolveBinary(n)
          PROVE  TypeInv'
      BY <2>1, ExpandInv, LiteralInv, VarInv, ReferenceInv, UnaryInv, BinaryInv
    <2>2. ASSUME NEW n \in DOMAIN ast,
                 \/ ResolveArray(n) \/ ResolveIndexing(n) \/ ResolveCall(n)
                 \/ CheckCondition(n) \/ Skip(n) \/ ResolveFunction(n)
          PROVE  TypeInv'
      BY <2>2, ArrayInv, IndexingInv, CallInv, ConditionInv, SkipInv, FunctionInv
    <2>3. CASE Finish
      BY <2>3, FinishInv
    <2>4. CASE UNCHANGED vars
      BY <2>4, StutterInv
    <2> QED
      BY <2>1, <2>2, <2>3, <2>4 DEF Next, ResolveStep, Stop
  <1> QED
    BY <1>1, TypeInit, PTL DEF Spec

(***************************************************************************)
(* What the invariant says of a pass that has ended.                       *)
(***************************************************************************)
LEMMA TypedMeansDone ==
  ASSUME TypeInv, phase = "typed"
  PROVE  done = DOMAIN ast /\ TypesAreWhole /\ FitsSoFar /\ SlotsFitSoFar
  BY EmptyStackMeansDone DEF TypeInv, Going, BaseInv, WalkReachesAll

(***************************************************************************)
(* The tables of the pass hold types: of every value, of the return of     *)
(* every function, of every body.                                          *)
(***************************************************************************)
THEOREM TypeCorrect == Spec => []TypeOK
  <1>1. TypeInv => TypeOK
    BY DEF TypeInv, BaseInv
  <1> QED
    BY <1>1, TypeInvariance, PTL

(***************************************************************************)
(* In every tree a reference has the type of what it refers to if that     *)
(* comes before it in post order, and remains of unknown type if not.      *)
(***************************************************************************)
THEOREM SightOfReferences == Spec => []ReferencesSeeWhatPrecedes
  <1>1. TypeInv => ReferencesSeeWhatPrecedes
    BY DEF TypeInv, Going, ReferencesSeeWhatPrecedes
  <1> QED
    BY <1>1, TypeInvariance, PTL

(***************************************************************************)
(* A null kind is read, a type cannot be resolved or stays unknown only in *)
(* trees with a reference to something that comes later.                   *)
(***************************************************************************)
THEOREM UnknownOnlyFromForward == Spec => []UnknownComesFromForwardReferences
  <1>1. TypeInv => UnknownComesFromForwardReferences
    <2> SUFFICES ASSUME TypeInv, AllPrecede
                 PROVE  /\ phase # "crashed"
                        /\ error.what # "unresolved"
                        /\ phase = "typed" => \A n \in Values(ast) : type[n].kind # "null"
      BY DEF UnknownComesFromForwardReferences
    <2>1. phase # "crashed" /\ error.what # "unresolved"
      BY DEF TypeInv, BaseInv
    <2>2. ASSUME phase = "typed", NEW n \in Values(ast)
          PROVE  type[n].kind # "null"
      <3>1. n \in Values(ast) \cap done
        BY <2>2, TypedMeansDone DEF Values, OfKind
      <3> QED
        BY <2>2, <3>1, TypedMeansDone DEF TypesAreWhole, Whole
    <2> QED
      BY <2>1, <2>2
  <1> QED
    BY <1>1, TypeInvariance, PTL

(***************************************************************************)
(* When the pass has ended, the types of every node and of what it looked  *)
(* at agree, all at once.                                                  *)
(***************************************************************************)
THEOREM TypesFit == Spec => []TypesFitTogether
  <1>1. TypeInv => TypesFitTogether
    BY TypedMeansDone DEF TypesFitTogether, FitsSoFar
  <1> QED
    BY <1>1, TypeInvariance, PTL

(***************************************************************************)
(* When the pass has ended, every return fits the slot its function makes  *)
(* for the value.                                                          *)
(***************************************************************************)
THEOREM ReturnsFit == Spec => []ReturnsFitTheSlot
  <1>1. TypeInv => ReturnsFitTheSlot
    <2> SUFFICES ASSUME TypeInv, phase = "typed", NEW f \in Functions(ast)
                 PROVE  /\ blockType[Body(f)] = ret[f]
                        /\ \A r \in Rets(f) : Same(ReturnType(r), blockType[Body(f)])
      BY DEF ReturnsFitTheSlot
    <2>1. f \in Functions(ast) \cap done
      BY TypedMeansDone DEF Functions, OfKind
    <2> QED
      BY <2>1, TypedMeansDone DEF SlotsFitSoFar, SlotFits
  <1> QED
    BY <1>1, TypeInvariance, PTL

=============================================================================
