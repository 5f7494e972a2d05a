------------------------- MODULE PostOrderWalk_proof -------------------------
(***************************************************************************)
(* For every tree: the walk of walkAllChildlenDFPO calls back on a node    *)
(* after all the nodes below it, in post order, and reaches every node.    *)
(***************************************************************************)
EXTENDS PostOrderWalk, Ast_proof

(***************************************************************************)
(* The walk.  A node on the stack that was not expanded has nothing of its *)
(* subtree called back, expanded or on the stack; of one that was          *)
(* expanded, whatever is not called back yet lies below something higher   *)
(* up on the stack.                                                        *)
(***************************************************************************)
Stacked == 1..Len(stack)

StackIsFresh ==
  /\ \A i, j \in Stacked : stack[i] = stack[j] => i = j
  /\ \A i \in Stacked : stack[i] \notin done

UnexpandedIsUntouched ==
  \A i \in Stacked : stack[i] \notin visited =>
    \A q \in DOMAIN ast : IsStrictPrefix(stack[i], q) =>
      q \notin done /\ q \notin visited /\ \A j \in Stacked : stack[j] # q

ExpandedIsCovered ==
  \A i \in Stacked : stack[i] \in visited =>
    \A q \in DOMAIN ast \ done : IsStrictPrefix(stack[i], q) =>
      \E j \in Stacked : j > i /\ IsPrefix(stack[j], q)

DoneIsClosed ==
  \A d \in done : \A q \in DOMAIN ast : IsStrictPrefix(d, q) => q \in done

RestIsCovered ==
  \A q \in DOMAIN ast \ done : \E j \in Stacked : IsPrefix(stack[j], q)

WalkInv ==
  /\ WalkTypeOK
  /\ StackIsFresh
  /\ UnexpandedIsUntouched
  /\ ExpandedIsCovered
  /\ DoneIsClosed
  /\ RestIsCovered

LEMMA WalkInit ==
  ASSUME ast \in Programs, StartWalk
  PROVE  WalkInv
  <1>1. IsTree(ast) /\ Root \in DOMAIN ast
    BY ProgramsAreTrees DEF IsTree
  <1>2. Len(stack) = 1 /\ stack[1] = Root /\ stack \in Seq(DOMAIN ast)
    BY <1>1 DEF StartWalk
  <1>3. \A q \in DOMAIN ast : IsPrefix(Root, q)
    BY <1>1, TreePositions DEF IsPrefix, Root
  <1>4. \A q \in DOMAIN ast : IsStrictPrefix(Root, q) => q # Root
    BY DEF IsStrictPrefix
  <1> QED
    BY <1>1, <1>2, <1>3, <1>4
       DEF WalkInv, WalkTypeOK, StackIsFresh, UnexpandedIsUntouched, ExpandedIsCovered,
           DoneIsClosed, RestIsCovered, StartWalk, Stacked

(***************************************************************************)
(* The top of the stack, when it is called back, has nothing below it left *)
(* to do.                                                                  *)
(***************************************************************************)
LEMMA BelowTopIsDone ==
  ASSUME WalkInv, NEW n, CallBack(n)
  PROVE  /\ Len(stack) \in Stacked /\ n = stack[Len(stack)]
         /\ n \in DOMAIN ast
         /\ \A q \in DOMAIN ast : IsStrictPrefix(n, q) => q \in done
  <1> DEFINE K == Len(stack)
  <1>1. K \in Stacked /\ n = stack[K] /\ n \in DOMAIN ast
    BY DEF WalkInv, WalkTypeOK, CallBack, Last, Stacked
  <1>2. SUFFICES ASSUME NEW q \in DOMAIN ast \ done, IsStrictPrefix(n, q) PROVE FALSE
    BY <1>1
  <1>3. CASE ast[n].arity = 0
    <2>1. \E i \in 1..0 : IsPrefix(Append(n, i), q)
      BY <1>1, <1>2, <1>3, TreeStep DEF WalkInv, WalkTypeOK
    <2> QED
      BY <2>1
  <1>4. CASE n \in visited
    <2>1. \E j \in Stacked : j > K
      BY <1>1, <1>2, <1>4 DEF WalkInv, ExpandedIsCovered
    <2> QED
      BY <2>1 DEF Stacked, WalkInv, WalkTypeOK
  <1> QED
    BY <1>3, <1>4 DEF CallBack

LEMMA WalkCallBack ==
  ASSUME WalkInv, NEW n, CallBack(n)
  PROVE  WalkInv'
  <1> DEFINE K == Len(stack)
  <1>1. /\ K \in Stacked /\ n = stack[K] /\ n \in DOMAIN ast
        /\ \A q \in DOMAIN ast : IsStrictPrefix(n, q) => q \in done
    BY BelowTopIsDone
  <1>2. /\ stack \in Seq(DOMAIN ast) /\ K \in Nat /\ K > 0
    BY <1>1 DEF WalkInv, WalkTypeOK, Stacked
  <1>3. /\ stack' \in Seq(DOMAIN ast)
        /\ Len(stack') = K - 1
        /\ \A i \in 1..(K - 1) : stack'[i] = stack[i]
    BY <1>2, FrontOfSeq DEF CallBack
  <1>4. ast' = ast /\ visited' = visited /\ done' = done \cup {n}
    BY DEF CallBack
  <1>5. Stacked' = 1..(K - 1) /\ Stacked' \subseteq Stacked /\ Stacked = 1..K
    BY <1>2, <1>3 DEF Stacked
  <1>6. WalkTypeOK'
    BY <1>1, <1>3, <1>4 DEF WalkInv, WalkTypeOK
  <1>7. StackIsFresh'
    <2>1. \A i \in 1..(K - 1) : stack[i] # n
      BY <1>1, <1>2, <1>5 DEF WalkInv, StackIsFresh
    <2> QED
      BY <1>3, <1>4, <1>5, <2>1 DEF WalkInv, StackIsFresh
  <1>8. UnexpandedIsUntouched'
    <2> SUFFICES ASSUME NEW i \in 1..(K - 1), stack[i] \notin visited,
                        NEW q \in DOMAIN ast, IsStrictPrefix(stack[i], q)
                 PROVE  q \notin done \cup {n} /\ q \notin visited
                        /\ \A j \in 1..(K - 1) : stack[j] # q
      BY <1>3, <1>4, <1>5 DEF UnexpandedIsUntouched
    <2>1. q \notin done /\ q \notin visited /\ \A j \in Stacked : stack[j] # q
      BY <1>5 DEF WalkInv, UnexpandedIsUntouched
    <2> QED
      BY <2>1, <1>1, <1>5
  <1>9. ExpandedIsCovered'
    <2> SUFFICES ASSUME NEW i \in 1..(K - 1), stack[i] \in visited,
                        NEW q \in DOMAIN ast, q \notin done, q # n, IsStrictPrefix(stack[i], q)
                 PROVE  \E j \in 1..(K - 1) : j > i /\ IsPrefix(stack[j], q)
      BY <1>3, <1>4, <1>5 DEF ExpandedIsCovered
    <2>1. PICK j \in Stacked : j > i /\ IsPrefix(stack[j], q)
      BY <1>5 DEF WalkInv, ExpandedIsCovered
    <2>2. j # K
      BY <2>1, <1>1 DEF IsStrictPrefix
    <2> QED
      BY <2>1, <2>2, <1>2, <1>5
  <1>10. DoneIsClosed'
    BY <1>1, <1>4 DEF WalkInv, DoneIsClosed
  <1>11. RestIsCovered'
    <2> SUFFICES ASSUME NEW q \in DOMAIN ast, q \notin done, q # n
                 PROVE  \E j \in 1..(K - 1) : IsPrefix(stack[j], q)
      BY <1>3, <1>4, <1>5 DEF RestIsCovered
    <2>1. PICK j \in Stacked : IsPrefix(stack[j], q)
      BY DEF WalkInv, RestIsCovered
    <2>2. j # K
      BY <2>1, <1>1 DEF IsStrictPrefix
    <2> QED
      BY <2>1, <2>2, <1>2, <1>5
  <1> QED
    BY <1>6, <1>7, <1>8, <1>9, <1>10, <1>11 DEF WalkInv

(* Pushing the children: they lie above the old stack, the first on top.   *)
LEMMA PushedChildren ==
  ASSUME WalkInv, NEW n, Expand(n)
  PROVE  LET K == Len(stack)  a == ast[n].arity IN
         /\ K \in Nat \ {0} /\ n = stack[K] /\ n \in DOMAIN ast /\ a \in Nat
         /\ stack' \in Seq(DOMAIN ast)
         /\ Len(stack') = K + a
         /\ \A i \in 1..K : stack'[i] = stack[i]
         /\ \A i \in (K + 1)..(K + a) : stack'[i] = Append(n, a - (i - K) + 1)
  <1> DEFINE K == Len(stack)
             a == ast[n].arity
             C == Children(ast, n)
  <1>1. stack \in Seq(DOMAIN ast) /\ IsTree(ast)
    BY DEF WalkInv, WalkTypeOK
  <1>2. K \in Nat \ {0} /\ n = stack[K] /\ n \in DOMAIN ast
    BY <1>1 DEF Expand, Last
  <1>3. a \in Nat /\ \A i \in 1..a : Append(n, i) \in DOMAIN ast
    BY <1>1, <1>2, TreePositions
  <1>4. /\ C \in Seq(DOMAIN ast) /\ Len(C) = a
        /\ \A i \in 1..a : C[i] = Append(n, i)
    BY <1>1, <1>2, ChildrenSeq
  <1> DEFINE R == Reverse(C)
  <1>5. R \in Seq(DOMAIN ast) /\ Len(R) = a /\ \A i \in 1..a : R[i] = C[a - i + 1]
    BY <1>4, ReverseOfSeq
  <1> HIDE DEF R, C
  <1>6. ASSUME NEW i \in 1..a
        PROVE  R[i] = Append(n, a - i + 1)
    <2>1. a - i + 1 \in 1..a
      BY <1>3
    <2> QED
      BY <2>1, <1>4, <1>5
  <1>7. stack' = stack \o R
    BY DEF Expand, R, C
  <1>8. /\ stack' \in Seq(DOMAIN ast) /\ Len(stack') = K + a
        /\ \A i \in 1..(K + a) : stack'[i] = IF i <= K THEN stack[i] ELSE R[i - K]
    BY <1>1, <1>5, <1>7, ConcatProperties
  <1>9. ASSUME NEW i \in (K + 1)..(K + a)
        PROVE  stack'[i] = Append(n, a - (i - K) + 1)
    <2>1. i \in 1..(K + a) /\ ~ (i <= K) /\ i - K \in 1..a
      BY <1>2, <1>3
    <2> QED
      BY <2>1, <1>6, <1>8
  <1>10. \A i \in 1..K : stack'[i] = stack[i]
    BY <1>2, <1>3, <1>8
  <1> QED
    BY <1>2, <1>3, <1>8, <1>9, <1>10

LEMMA WalkExpand ==
  ASSUME WalkInv, NEW n, Expand(n)
  PROVE  WalkInv'
  <1> DEFINE K == Len(stack)
             a == ast[n].arity
             L == K + a
  <1>1. /\ K \in Nat \ {0} /\ n = stack[K] /\ n \in DOMAIN ast /\ a \in Nat
        /\ stack' \in Seq(DOMAIN ast)
        /\ Len(stack') = L
        /\ \A i \in 1..K : stack'[i] = stack[i]
        /\ \A i \in (K + 1)..L : stack'[i] = Append(n, a - (i - K) + 1)
    BY PushedChildren
  <1>2. ast' = ast /\ done' = done /\ visited' = visited \cup {n} /\ n \notin visited
    BY DEF Expand
  <1>3. Stacked = 1..K /\ Stacked' = 1..L /\ K \in Stacked
    BY <1>1 DEF Stacked
  <1>4. IsTree(ast) /\ \A q \in DOMAIN ast : q \in Seq(Nat)
    BY TreePositions DEF WalkInv, WalkTypeOK
  <1> HIDE DEF K, a, L
  <1>5. ASSUME NEW q \in DOMAIN ast, IsStrictPrefix(n, q)
        PROVE  q \notin done /\ q \notin visited /\ \A j \in 1..K : stack[j] # q
    BY <1>1, <1>2, <1>3, <1>5 DEF WalkInv, UnexpandedIsUntouched
  (* The new elements of the stack are children of n.                      *)
  <1>6. ASSUME NEW i \in (K + 1)..L
        PROVE  /\ stack'[i] \in DOMAIN ast /\ IsStrictPrefix(n, stack'[i])
               /\ Len(stack'[i]) = Len(n) + 1
               /\ \A q \in DOMAIN ast : IsStrictPrefix(q, stack'[i]) => IsPrefix(q, n)
    <2>1. a - (i - K) + 1 \in 1..a /\ a - (i - K) + 1 \in Nat
      BY <1>1 DEF L
    <2>2. stack'[i] = Append(n, a - (i - K) + 1)
      BY <1>1
    <2>3. n \in Seq(Nat)
      BY <1>1, <1>4
    <2>4. stack'[i] \in DOMAIN ast
      BY <1>1, <1>4, <2>1, <2>2, TreePositions DEF a
    <2>5. IsStrictPrefix(n, stack'[i]) /\ Len(stack'[i]) = Len(n) + 1
      BY <2>1, <2>2, <2>3, ChildBelow
    <2>6. \A q \in DOMAIN ast : IsStrictPrefix(q, stack'[i]) => IsPrefix(q, n)
      BY <1>4, <2>1, <2>2, <2>3, AboveChild
    <2> QED
      BY <2>4, <2>5, <2>6
  (* Each child of n is among them, once.                                  *)
  <1>7. ASSUME NEW i \in (K + 1)..L, NEW j \in (K + 1)..L, stack'[i] = stack'[j]
        PROVE  i = j
    <2> DEFINE u == a - (i - K) + 1
               v == a - (j - K) + 1
    <2>1. u \in Nat /\ v \in Nat
      BY <1>1 DEF L
    <2>2. Append(n, u) = Append(n, v) /\ n \in Seq(Nat)
      BY <1>1, <1>4, <1>7
    <2> HIDE DEF u, v
    <2>3. u = v
      BY <2>1, <2>2
    <2> QED
      BY <2>3, <1>1 DEF u, v, L
  <1>8. ASSUME NEW q \in DOMAIN ast, IsStrictPrefix(n, q)
        PROVE  \E j \in (K + 1)..L : IsPrefix(stack'[j], q)
    <2>1. PICK c \in 1..a : IsPrefix(Append(n, c), q)
      BY <1>1, <1>4, <1>8, TreeStep DEF a
    <2> DEFINE j == K + (a - c) + 1
    <2>2. j \in (K + 1)..L /\ a - (j - K) + 1 = c
      BY <1>1 DEF L
    <2>3. stack'[j] = Append(n, c)
      BY <1>1, <2>2
    <2> QED
      BY <2>1, <2>2, <2>3
  <1>9. WalkTypeOK'
    BY <1>1, <1>2 DEF WalkInv, WalkTypeOK
  <1>10. StackIsFresh'
    <2>1. ASSUME NEW i \in 1..L, NEW j \in 1..L, stack'[i] = stack'[j], i <= K, j > K
          PROVE  FALSE
      <3>1. K \in Nat /\ L \in Nat
        BY <1>1 DEF L
      <3>2. i \in 1..K /\ j \in (K + 1)..L
        BY <2>1, <3>1
      <3>3. stack'[j] \in DOMAIN ast /\ IsStrictPrefix(n, stack'[j])
        BY <3>2, <1>6
      <3>4. stack[i] # stack'[j]
        BY <3>2, <3>3, <1>5
      <3> QED
        BY <2>1, <3>2, <3>4, <1>1
    <2>2. ASSUME NEW i \in 1..L, NEW j \in 1..L, stack'[i] = stack'[j], i <= K, j <= K
          PROVE  i = j
      BY <2>2, <1>1, <1>3 DEF WalkInv, StackIsFresh, L
    <2>3. ASSUME NEW i \in 1..L, NEW j \in 1..L, stack'[i] = stack'[j]
          PROVE  i = j
      <3>1. K \in Nat /\ L \in Nat /\ i \in Nat /\ j \in Nat
        BY <1>1 DEF L
      <3>2. CASE i <= K /\ j <= K
        BY <3>2, <2>2, <2>3
      <3>3. CASE i <= K /\ j > K
        BY <3>3, <2>1, <2>3
      <3>4. CASE i > K /\ j <= K
        BY <3>4, <2>1, <2>3
      <3>5. CASE i > K /\ j > K
        <4>1. i \in (K + 1)..L /\ j \in (K + 1)..L
          BY <3>1, <3>5
        <4> QED
          BY <4>1, <1>7, <2>3
      <3> QED
        BY <3>1, <3>2, <3>3, <3>4, <3>5
    <2>4. \A i \in 1..L : stack'[i] \notin done
      BY <1>1, <1>3, <1>5, <1>6 DEF WalkInv, StackIsFresh, L
    <2> QED
      BY <2>3, <2>4, <1>2, <1>3 DEF StackIsFresh
  <1>11. UnexpandedIsUntouched'
    <2> SUFFICES ASSUME NEW i \in 1..L, stack'[i] \notin visited, stack'[i] # n,
                        NEW q \in DOMAIN ast, IsStrictPrefix(stack'[i], q)
                 PROVE  q \notin done /\ q \notin visited /\ q # n
                        /\ \A j \in 1..L : stack'[j] # q
      BY <1>2, <1>3 DEF UnexpandedIsUntouched
    <2>1. CASE i <= K
      <3>1. stack'[i] = stack[i] /\ i \in Stacked /\ stack[i] \in DOMAIN ast
        BY <2>1, <1>1, <1>3 DEF WalkInv, WalkTypeOK
      <3>2. q \notin done /\ q \notin visited /\ \A j \in 1..K : stack[j] # q
        BY <3>1, <1>3 DEF WalkInv, UnexpandedIsUntouched
      <3>3. q # n
        BY <3>2, <1>1, <1>3
      <3>4. ASSUME NEW j \in (K + 1)..L, stack'[j] = q PROVE FALSE
        <4>1. IsPrefix(stack[i], n)
          BY <3>1, <3>4, <1>6
        <4>2. IsStrictPrefix(stack[i], n)
          BY <4>1, <3>1 DEF IsStrictPrefix
        <4> QED
          BY <4>2, <3>1, <1>1, <1>3 DEF WalkInv, UnexpandedIsUntouched
      <3> QED
        BY <3>2, <3>3, <3>4, <1>1
    <2>2. CASE i > K
      <3>1. i \in (K + 1)..L
        BY <2>2, <1>1 DEF L
      <3>2. /\ stack'[i] \in DOMAIN ast /\ IsStrictPrefix(n, stack'[i])
            /\ Len(stack'[i]) = Len(n) + 1
        BY <3>1, <1>6
      <3>3. n \in Seq(Nat) /\ stack'[i] \in Seq(Nat) /\ q \in Seq(Nat)
        BY <3>2, <1>1, <1>4
      <3>4. IsStrictPrefix(n, q)
        BY <3>2, <3>3, StrictPrefixTransitive DEF IsStrictPrefix
      <3>5. q \notin done /\ q \notin visited /\ \A j \in 1..K : stack[j] # q
        BY <3>4, <1>5
      <3>6. Len(q) > Len(n) + 1
        BY <3>2, <3>3, StrictPrefixShorter
      <3>7. \A j \in (K + 1)..L : stack'[j] # q
        BY <3>3, <3>6, <1>6
      <3> QED
        BY <3>4, <3>5, <3>7, <1>1 DEF IsStrictPrefix
    <2> QED
      BY <2>1, <2>2, <1>1 DEF L
  <1>12. ExpandedIsCovered'
    <2> SUFFICES ASSUME NEW i \in 1..L, stack'[i] \in visited \cup {n},
                        NEW q \in DOMAIN ast, q \notin done, IsStrictPrefix(stack'[i], q)
                 PROVE  \E j \in 1..L : j > i /\ IsPrefix(stack'[j], q)
      BY <1>2, <1>3 DEF ExpandedIsCovered
    <2>1. CASE i = K
      <3>1. stack'[i] = n
        BY <2>1, <1>1
      <3>2. PICK j \in (K + 1)..L : IsPrefix(stack'[j], q)
        BY <3>1, <1>8
      <3>3. j \in 1..L /\ j > i
        BY <2>1, <3>2, <1>1 DEF L
      <3> QED
        BY <3>2, <3>3
    <2>2. CASE i < K
      <3>1. i \in Stacked /\ stack'[i] = stack[i] /\ stack[i] # n
        BY <2>2, <1>1, <1>3 DEF WalkInv, StackIsFresh
      <3>2. \E j \in Stacked : j > i /\ IsPrefix(stack[j], q)
        BY <3>1 DEF WalkInv, ExpandedIsCovered
      <3> QED
        BY <3>2, <1>1, <1>3 DEF L
    <2>3. CASE i > K
      <3>1. i \in (K + 1)..L
        BY <2>3, <1>1 DEF L
      <3>2. stack'[i] \in DOMAIN ast /\ IsStrictPrefix(n, stack'[i])
        BY <3>1, <1>6
      <3> QED
        BY <3>2, <1>5 DEF IsStrictPrefix
    <2> QED
      BY <2>1, <2>2, <2>3, <1>1 DEF L
  <1>13. DoneIsClosed'
    BY <1>2 DEF WalkInv, DoneIsClosed
  <1>14. RestIsCovered'
    <2> SUFFICES ASSUME NEW q \in DOMAIN ast, q \notin done
                 PROVE  \E j \in 1..L : IsPrefix(stack'[j], q)
      BY <1>2, <1>3 DEF RestIsCovered
    <2>1. PICK j \in Stacked : IsPrefix(stack[j], q)
      BY DEF WalkInv, RestIsCovered
    <2> QED
      BY <2>1, <1>1, <1>3 DEF L
  <1> QED
    BY <1>9, <1>10, <1>11, <1>12, <1>13, <1>14 DEF WalkInv

(***************************************************************************)
(* The order of the calls.  Of two elements of the stack the lower one     *)
(* comes after the higher one in post order, and what was not called back  *)
(* yet is on the stack or below an element that was not expanded.          *)
(***************************************************************************)
StackOrder ==
  \A i, j \in Stacked : i < j => PostBefore(stack[j], stack[i])

RestIsPending ==
  \A q \in DOMAIN ast \ done : \E j \in Stacked :
    stack[j] = q \/ (IsStrictPrefix(stack[j], q) /\ stack[j] \notin visited)

OrderInv ==
  /\ StackOrder
  /\ RestIsPending
  /\ CallsInPostOrder

LEMMA OrderInit ==
  ASSUME ast \in Programs, StartWalk
  PROVE  OrderInv
  <1>1. IsTree(ast)
    BY ProgramsAreTrees
  <1>2. Len(stack) = 1 /\ stack[1] = Root /\ Stacked = {1}
    BY DEF StartWalk, Stacked
  <1>3. StackOrder /\ CallsInPostOrder
    BY <1>2 DEF StackOrder, CallsInPostOrder, StartWalk
  <1>4. \A q \in DOMAIN ast : IsPrefix(Root, q)
    BY <1>1, TreePositions DEF IsPrefix, Root
  <1>5. RestIsPending
    BY <1>2, <1>4 DEF RestIsPending, IsStrictPrefix, StartWalk
  <1> QED
    BY <1>3, <1>5 DEF OrderInv

LEMMA OrderCallBack ==
  ASSUME WalkInv, OrderInv, NEW n, CallBack(n)
  PROVE  OrderInv'
  <1> DEFINE K == Len(stack)
  <1>1. /\ K \in Stacked /\ n = stack[K] /\ n \in DOMAIN ast
        /\ \A q \in DOMAIN ast : IsStrictPrefix(n, q) => q \in done
    BY BelowTopIsDone
  <1>2. stack \in Seq(DOMAIN ast) /\ K \in Nat /\ K > 0 /\ IsTree(ast)
    BY <1>1 DEF WalkInv, WalkTypeOK, Stacked
  <1>3. Len(stack') = K - 1 /\ \A i \in 1..(K - 1) : stack'[i] = stack[i]
    BY <1>2, FrontOfSeq DEF CallBack
  <1>4. ast' = ast /\ visited' = visited /\ done' = done \cup {n}
    BY DEF CallBack
  <1>5. Stacked' = 1..(K - 1) /\ Stacked = 1..K
    BY <1>3 DEF Stacked
  <1> HIDE DEF K
  <1>6. StackOrder'
    <2> SUFFICES ASSUME NEW i \in 1..(K - 1), NEW j \in 1..(K - 1), i < j
                 PROVE  PostBefore(stack[j], stack[i])
      BY <1>3, <1>5 DEF StackOrder
    <2>1. i \in Stacked /\ j \in Stacked
      BY <1>2, <1>5
    <2> QED
      BY <2>1 DEF OrderInv, StackOrder
  (* What is left is pending in an element under the top.                  *)
  <1>7. ASSUME NEW q \in DOMAIN ast \ (done \cup {n})
        PROVE  \E j \in 1..(K - 1) :
                 stack[j] = q \/ (IsStrictPrefix(stack[j], q) /\ stack[j] \notin visited)
    <2>1. PICK j \in Stacked :
            stack[j] = q \/ (IsStrictPrefix(stack[j], q) /\ stack[j] \notin visited)
      BY DEF OrderInv, RestIsPending
    <2>2. j # K
      BY <1>1, <2>1
    <2>3. j \in 1..(K - 1)
      BY <1>2, <1>5, <2>2
    <2> QED
      BY <2>1, <2>3
  <1>8. RestIsPending'
    BY <1>3, <1>4, <1>5, <1>7 DEF RestIsPending
  <1>9. ASSUME NEW q \in DOMAIN ast \ (done \cup {n})
        PROVE  PostBefore(n, q)
    <2>1. PICK j \in 1..(K - 1) :
            stack[j] = q \/ (IsStrictPrefix(stack[j], q) /\ stack[j] \notin visited)
      BY <1>7
    <2>2. j \in Stacked /\ j < K
      BY <1>2, <1>5
    <2>3. PostBefore(n, stack[j])
      BY <1>1, <2>2 DEF OrderInv, StackOrder
    <2>4. CASE IsStrictPrefix(stack[j], q) /\ stack[j] \notin visited
      <3>1. ~ IsStrictPrefix(stack[j], n)
        BY <1>1, <2>2, <2>4 DEF WalkInv, UnexpandedIsUntouched
      <3>2. LeftOf(n, stack[j])
        BY <2>3, <3>1 DEF PostBefore
      <3>3. n \in Seq(Nat) /\ q \in Seq(Nat) /\ stack[j] \in Seq(Nat)
        <4>1. stack[j] \in DOMAIN ast
          BY <1>2, <2>2, ElementOfSeq DEF Stacked
        <4> QED
          BY <4>1, <1>1, <1>2, TreePositions
      <3>4. LeftOf(n, q)
        BY <2>4, <3>2, <3>3, LeftOfBelow DEF IsStrictPrefix
      <3> QED
        BY <3>4 DEF PostBefore
    <2> QED
      BY <2>1, <2>3, <2>4
  <1>10. CallsInPostOrder'
    BY <1>4, <1>9 DEF OrderInv, CallsInPostOrder
  <1> QED
    BY <1>6, <1>8, <1>10 DEF OrderInv

LEMMA OrderExpand ==
  ASSUME WalkInv, OrderInv, NEW n, Expand(n)
  PROVE  OrderInv'
  <1> DEFINE K == Len(stack)
             a == ast[n].arity
             L == K + a
  <1>1. /\ K \in Nat \ {0} /\ n = stack[K] /\ n \in DOMAIN ast /\ a \in Nat
        /\ Len(stack') = L
        /\ \A i \in 1..K : stack'[i] = stack[i]
        /\ \A i \in (K + 1)..L : stack'[i] = Append(n, a - (i - K) + 1)
    BY PushedChildren
  <1>2. ast' = ast /\ done' = done /\ visited' = visited \cup {n} /\ n \notin visited
    BY DEF Expand
  <1>3. Stacked = 1..K /\ Stacked' = 1..L /\ K \in Stacked
    BY <1>1 DEF Stacked
  <1>4. IsTree(ast) /\ n \in Seq(Nat) /\ \A i \in 1..K : stack[i] \in Seq(Nat)
    BY <1>1, <1>3, TreePositions, ElementOfSeq DEF WalkInv, WalkTypeOK
  <1> HIDE DEF K, a, L
  <1>5. ASSUME NEW i \in (K + 1)..L
        PROVE  a - (i - K) + 1 \in 1..a
    BY <1>1 DEF L
  <1>6. StackOrder'
    <2> SUFFICES ASSUME NEW i \in 1..L, NEW j \in 1..L, i < j
                 PROVE  PostBefore(stack'[j], stack'[i])
      BY <1>3 DEF StackOrder
    <2>1. CASE j <= K
      <3>1. i \in Stacked /\ j \in Stacked
        BY <1>1, <1>3, <2>1
      <3> QED
        BY <3>1, <1>1, <1>3 DEF OrderInv, StackOrder
    <2>2. CASE j > K
      <3> DEFINE c == a - (j - K) + 1
      <3>1. j \in (K + 1)..L /\ c \in Nat /\ stack'[j] = Append(n, c)
        <4>1. j \in (K + 1)..L
          BY <1>1, <2>2
        <4> QED
          BY <4>1, <1>1, <1>5
      <3>2. CASE i = K
        <4>1. stack'[i] = n
          BY <3>2, <1>1
        <4>2. IsStrictPrefix(n, Append(n, c))
          BY <3>1, <1>4, ChildBelow
        <4> QED
          BY <4>1, <4>2, <3>1 DEF PostBefore
      <3>3. CASE i < K
        <4>1. i \in Stacked /\ stack'[i] = stack[i]
          BY <1>1, <1>3, <3>3
        <4>2. PostBefore(n, stack[i]) /\ stack[i] \in Seq(Nat)
          BY <4>1, <3>3, <1>1, <1>3, <1>4 DEF OrderInv, StackOrder
        <4>3. CASE IsStrictPrefix(stack[i], n)
          <5>1. Append(n, c) \in Seq(Nat) /\ IsPrefix(n, Append(n, c))
            BY <3>1, <1>4, ChildBelow DEF IsStrictPrefix
          <5>2. IsStrictPrefix(stack[i], Append(n, c))
            BY <4>2, <4>3, <5>1, <1>4, StrictPrefixTransitive
          <5> QED
            BY <5>2, <3>1, <4>1 DEF PostBefore
        <4>4. CASE LeftOf(n, stack[i])
          <5>1. LeftOf(Append(n, c), stack[i])
            BY <3>1, <4>2, <4>4, <1>4, LeftOfChild
          <5> QED
            BY <5>1, <3>1, <4>1 DEF PostBefore
        <4> QED
          BY <4>2, <4>3, <4>4 DEF PostBefore
      <3>4. CASE i > K
        <4> DEFINE d == a - (i - K) + 1
        <4>1. i \in (K + 1)..L
          BY <1>1, <3>4
        <4>2. stack'[i] = Append(n, d) /\ d \in Nat
          BY <4>1, <1>1, <1>5
        <4>3. c < d
          BY <1>1 DEF L
        <4>4. LeftOf(Append(n, c), Append(n, d))
          BY <3>1, <4>2, <4>3, <1>4, SiblingLeft
        <4> QED
          BY <4>2, <4>4, <3>1 DEF PostBefore
      <3> QED
        BY <3>2, <3>3, <3>4, <1>1
    <2> QED
      BY <2>1, <2>2, <1>1
  <1>7. RestIsPending'
    <2> SUFFICES ASSUME NEW q \in DOMAIN ast \ done
                 PROVE  \E j \in 1..L : \/ stack'[j] = q
                                       \/ /\ IsStrictPrefix(stack'[j], q)
                                          /\ stack'[j] \notin visited \cup {n}
      BY <1>2, <1>3 DEF RestIsPending
    <2>1. PICK j \in Stacked :
            stack[j] = q \/ (IsStrictPrefix(stack[j], q) /\ stack[j] \notin visited)
      BY DEF OrderInv, RestIsPending
    <2>2. j \in 1..L /\ stack'[j] = stack[j]
      BY <1>1, <1>3 DEF L
    <2>3. CASE stack[j] = q \/ stack[j] # n
      BY <2>1, <2>2, <2>3
    <2>4. CASE stack[j] # q /\ stack[j] = n
      <3>1. IsStrictPrefix(n, q)
        BY <2>1, <2>4
      <3>2. PICK i \in 1..a : Append(n, i) \in DOMAIN ast /\ IsPrefix(Append(n, i), q)
        BY <3>1, <1>1, <1>4, TreeStep DEF a
      <3> DEFINE m == K + (a - i) + 1
      <3>3. m \in (K + 1)..L /\ a - (m - K) + 1 = i /\ m \in 1..L
        BY <1>1 DEF L
      <3>4. stack'[m] = Append(n, i)
        BY <1>1, <3>3
      <3>5. IsStrictPrefix(n, Append(n, i)) /\ Append(n, i) # n
        BY <1>1, <1>4, <3>2, ChildBelow DEF IsStrictPrefix
      <3>6. Append(n, i) \notin visited
        BY <1>1, <1>2, <1>3, <3>2, <3>5 DEF WalkInv, UnexpandedIsUntouched
      <3> QED
        BY <3>2, <3>3, <3>4, <3>5, <3>6 DEF IsStrictPrefix
    <2> QED
      BY <2>3, <2>4
  <1>8. CallsInPostOrder'
    BY <1>2 DEF OrderInv, CallsInPostOrder
  <1> QED
    BY <1>6, <1>7, <1>8 DEF OrderInv

(* Steps of others leave the walk where it is.                             *)
LEMMA WalkStutter ==
  ASSUME WalkInv, UNCHANGED walkVars
  PROVE  WalkInv'
  BY DEF walkVars, WalkInv, WalkTypeOK, StackIsFresh, UnexpandedIsUntouched,
         ExpandedIsCovered, DoneIsClosed, RestIsCovered, Stacked

LEMMA OrderStutter ==
  ASSUME OrderInv, UNCHANGED walkVars
  PROVE  OrderInv'
  BY DEF walkVars, OrderInv, StackOrder, RestIsPending, CallsInPostOrder, Stacked

(* When the stack is empty, nothing is left.                               *)
LEMMA EmptyStackMeansDone == WalkInv => WalkReachesAll
  <1> SUFFICES ASSUME WalkInv, stack = <<>> PROVE done = DOMAIN ast
    BY DEF WalkReachesAll
  <1>1. Stacked = {}
    BY DEF Stacked
  <1>2. done \subseteq DOMAIN ast
    BY DEF WalkInv, WalkTypeOK
  <1> QED
    BY <1>1, <1>2 DEF WalkInv, RestIsCovered

(***************************************************************************)
(* What a callback can rely on: it comes between the nodes that precede    *)
(* its node in post order and the others.                                  *)
(***************************************************************************)
LEMMA PostBeforeIsOneWay ==
  ASSUME NEW p \in Seq(Nat), NEW q \in Seq(Nat), PostBefore(p, q)
  PROVE  ~ PostBefore(q, p)
  <1>1. Len(p) \in Nat /\ Len(q) \in Nat
    BY LenProperties
  <1>2. \A x, y \in Seq(Nat) : IsStrictPrefix(x, y) => ~ LeftOf(x, y) /\ ~ LeftOf(y, x)
    BY PrefixIsNotLeft DEF IsStrictPrefix
  <1>3. IsStrictPrefix(p, q) => ~ IsStrictPrefix(q, p)
    <2>1. IsStrictPrefix(p, q) => Len(p) < Len(q)
      BY StrictPrefixShorter
    <2>2. IsStrictPrefix(q, p) => Len(q) < Len(p)
      BY StrictPrefixShorter
    <2> QED
      BY <1>1, <2>1, <2>2
  <1> QED
    BY <1>2, <1>3, LeftOfIsOneWay DEF PostBefore

LEMMA CallBackSplits ==
  ASSUME WalkInv, OrderInv, NEW n, CallBack(n)
  PROVE  /\ n \in DOMAIN ast \ done
         /\ \A p \in DOMAIN ast : p \in done <=> PostBefore(p, n)
  <1>1. n \in DOMAIN ast \ done
    BY BelowTopIsDone DEF WalkInv, StackIsFresh
  <1>2. ASSUME NEW p \in done PROVE PostBefore(p, n)
    BY <1>1 DEF OrderInv, CallsInPostOrder
  <1>3. ASSUME NEW p \in DOMAIN ast, p \notin done, PostBefore(p, n) PROVE FALSE
    <2>1. p \in Seq(Nat) /\ n \in Seq(Nat)
      BY <1>1, TreePositions DEF WalkInv, WalkTypeOK
    <2>2. ~ PostBefore(n, p)
      BY <2>1, <1>3, PostBeforeIsOneWay
    <2>3. OrderInv' /\ ast' = ast /\ done' = done \cup {n}
      BY OrderCallBack DEF CallBack
    <2>4. p = n
      BY <2>2, <2>3, <1>3 DEF OrderInv, CallsInPostOrder
    <2> QED
      BY <2>2, <2>4, <1>3
  <1> QED
    BY <1>1, <1>2, <1>3

=============================================================================
