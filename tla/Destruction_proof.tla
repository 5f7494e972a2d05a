-------------------------- MODULE Destruction_proof --------------------------
(***************************************************************************)
(* For every tree: Root::~Root deletes each node once, after everything    *)
(* below it, and leaves no pointer to a deleted node.                      *)
(***************************************************************************)
EXTENDS Destruction, CodeGen_proof

(***************************************************************************)
(* The invariant.  The stack is the way down from the root through first   *)
(* children; a node that is neither on it nor deleted still has all its    *)
(* children.  Whatever is alive lies at or above the top, or to the right  *)
(* of it, or below it in the part of its children that is left.            *)
(***************************************************************************)
HeapTypeOK ==
  /\ IsTree(ast)
  /\ nodeStack \in Seq(DOMAIN ast)
  /\ unlinked \in [DOMAIN ast -> Nat]
  /\ \A n \in DOMAIN ast : unlinked[n] <= ast[n].arity
  /\ deleted \subseteq DOMAIN ast

StackIsWayDown ==
  /\ nodeStack # <<>> => nodeStack[1] = Root
  /\ \A k \in 1..Len(nodeStack) : Len(nodeStack[k]) = k - 1
  /\ \A k \in 1..(Len(nodeStack) - 1) : nodeStack[k + 1] = FirstChild(nodeStack[k])

OthersAreWhole ==
  \A n \in DOMAIN ast \ deleted :
    (\A k \in 1..Len(nodeStack) : nodeStack[k] # n) => unlinked[n] = 0

Ahead(q, n) ==
  \/ IsPrefix(q, n)
  \/ LeftOf(n, q)
  \/ IsStrictPrefix(n, q) /\ q[Len(n) + 1] > unlinked[n]

RestIsAhead ==
  IF nodeStack = <<>>
  THEN deleted = {} \/ deleted = DOMAIN ast
  ELSE \A q \in DOMAIN ast \ deleted : Ahead(q, nodeStack[Len(nodeStack)])

HeapInv ==
  /\ HeapTypeOK
  /\ StackIsWayDown
  /\ OthersAreWhole
  /\ RestIsAhead
  /\ NoPointerDangles
  /\ DeletesInPostOrder

(***************************************************************************)
(* The steps.                                                              *)
(***************************************************************************)
LEMMA HeapInit == LifeInit => HeapInv
  <1> SUFFICES ASSUME LifeInit PROVE HeapInv
    OBVIOUS
  <1>1. IsTree(ast)
    BY ProgramsAreTrees DEF LifeInit, Init, BindingInit
  <1>2. /\ nodeStack = <<>> /\ deleted = {}
        /\ unlinked = [n \in DOMAIN ast |-> 0]
    BY DEF LifeInit
  <1>3. \A n \in DOMAIN ast : ast[n].arity \in Nat
    BY <1>1, TreePositions
  <1>4. HeapTypeOK /\ StackIsWayDown
    BY <1>1, <1>2, <1>3 DEF HeapTypeOK, StackIsWayDown
  <1>5. OthersAreWhole /\ RestIsAhead /\ DeletesInPostOrder
    BY <1>2 DEF OthersAreWhole, RestIsAhead, DeletesInPostOrder
  <1>6. NoPointerDangles
    BY <1>2, <1>3 DEF NoPointerDangles
  <1> QED
    BY <1>4, <1>5, <1>6 DEF HeapInv

(* The top of the stack.                                                   *)
LEMMA TopOfStack ==
  ASSUME HeapInv, nodeStack # <<>>
  PROVE  LET K == Len(nodeStack)  n == Last(nodeStack) IN
         /\ K \in Nat \ {0} /\ n = nodeStack[K]
         /\ n \in DOMAIN ast /\ n \in Seq(Nat) /\ Len(n) = K - 1
         /\ n \notin deleted
         /\ unlinked[n] \in Nat /\ ast[n].arity \in Nat /\ unlinked[n] <= ast[n].arity
         /\ \A q \in DOMAIN ast \ deleted : Ahead(q, n)
  <1>1. nodeStack \in Seq(DOMAIN ast) /\ IsTree(ast)
    BY DEF HeapInv, HeapTypeOK
  <1>2. /\ Len(nodeStack) \in Nat \ {0}
        /\ Last(nodeStack) = nodeStack[Len(nodeStack)]
        /\ Len(nodeStack) \in DOMAIN nodeStack
    BY <1>1 DEF Last
  <1>3. Last(nodeStack) \in DOMAIN ast
    BY <1>1, <1>2
  <1>4. /\ Last(nodeStack) \in Seq(Nat) /\ ast[Last(nodeStack)].arity \in Nat
        /\ unlinked[Last(nodeStack)] \in Nat
        /\ unlinked[Last(nodeStack)] <= ast[Last(nodeStack)].arity
    BY <1>1, <1>3, TreePositions DEF HeapInv, HeapTypeOK
  <1>5. Len(Last(nodeStack)) = Len(nodeStack) - 1
    <2>1. Len(nodeStack) \in 1..Len(nodeStack)
      BY <1>2
    <2> QED
      BY <1>2, <2>1 DEF HeapInv, StackIsWayDown
  <1>6. Last(nodeStack) \notin deleted
    BY <1>2 DEF HeapInv, NoPointerDangles
  <1>7. \A q \in DOMAIN ast \ deleted : Ahead(q, Last(nodeStack))
    BY <1>2 DEF HeapInv, RestIsAhead
  <1> QED
    BY <1>2, <1>3, <1>4, <1>5, <1>6, <1>7

LEMMA HeapBegin ==
  ASSUME HeapInv, BeginDestruction
  PROVE  HeapInv'
  <1>1. /\ ast' = ast /\ unlinked' = unlinked /\ deleted' = deleted
        /\ nodeStack = <<>> /\ deleted = {} /\ nodeStack' = <<Root>>
    BY DEF BeginDestruction, vars
  <1>2. IsTree(ast) /\ Root \in DOMAIN ast
    BY DEF HeapInv, HeapTypeOK, IsTree
  <1>3. Len(nodeStack') = 1 /\ nodeStack'[1] = Root /\ DOMAIN nodeStack' = {1}
    BY <1>1
  <1>4. HeapTypeOK'
    BY <1>1, <1>2 DEF HeapInv, HeapTypeOK
  <1>5. StackIsWayDown'
    BY <1>3 DEF StackIsWayDown, Root
  <1>6. \A n \in DOMAIN ast : unlinked[n] = 0
    BY <1>1 DEF HeapInv, OthersAreWhole
  <1>7. RestIsAhead'
    <2> SUFFICES ASSUME NEW q \in DOMAIN ast PROVE Ahead(q, Root)
      BY <1>1, <1>3 DEF RestIsAhead, Ahead
    <2>1. CASE q = Root
      <3>1. Root \in Seq(Nat)
        BY DEF Root
      <3>2. IsPrefix(Root, Root)
        BY <3>1, PrefixReflexive
      <3> QED
        BY <2>1, <3>2 DEF Ahead
    <2>2. CASE q # Root
      <3>1. q \in Seq(Nat) /\ q # <<>>
        BY <1>2, <2>2, TreePositions DEF Root
      <3>2. IsStrictPrefix(Root, q)
        BY <3>1 DEF IsStrictPrefix, IsPrefix, Root
      <3>3. 1 \in 1..Len(q) /\ q[1] \in 1..ast[SubSeq(q, 1, 0)].arity
        BY <1>2, <3>1 DEF IsTree
      <3>4. q[1] > unlinked[Root]
        BY <3>3, <1>2, <1>6
      <3> QED
        BY <3>2, <3>4 DEF Ahead, Root
    <2> QED
      BY <2>1, <2>2
  <1>8. OthersAreWhole' /\ NoPointerDangles' /\ DeletesInPostOrder'
    BY <1>1, <1>3, <1>6 DEF HeapInv, OthersAreWhole, NoPointerDangles, DeletesInPostOrder
  <1> QED
    BY <1>4, <1>5, <1>7, <1>8 DEF HeapInv

LEMMA HeapDescend ==
  ASSUME HeapInv, Descend
  PROVE  HeapInv'
  <1> DEFINE K == Len(nodeStack)
             n == Last(nodeStack)
             u == unlinked[n]
             c == Append(n, u + 1)
  <1>1. /\ K \in Nat \ {0} /\ n = nodeStack[K]
        /\ n \in DOMAIN ast /\ n \in Seq(Nat) /\ Len(n) = K - 1
        /\ n \notin deleted
        /\ u \in Nat /\ ast[n].arity \in Nat
        /\ \A q \in DOMAIN ast \ deleted : Ahead(q, n)
    BY TopOfStack DEF Descend
  <1>2. /\ ast' = ast /\ unlinked' = unlinked /\ deleted' = deleted
        /\ nodeStack' = Append(nodeStack, c) /\ u < ast[n].arity /\ c = FirstChild(n)
    BY DEF Descend, vars, HasChildren, FirstChild, Kid
  <1>3. nodeStack \in Seq(DOMAIN ast) /\ IsTree(ast) /\ u + 1 \in 1..ast[n].arity
    BY <1>1, <1>2 DEF HeapInv, HeapTypeOK
  <1>4. c \in DOMAIN ast /\ c \in Seq(Nat) /\ Len(c) = K /\ IsStrictPrefix(n, c)
    BY <1>1, <1>3, TreePositions, ChildBelow
  <1>5. /\ nodeStack' \in Seq(DOMAIN ast) /\ Len(nodeStack') = K + 1
        /\ nodeStack'[K + 1] = c
        /\ \A k \in 1..K : nodeStack'[k] = nodeStack[k]
    BY <1>2, <1>3, <1>4, AppendProperties
  <1>6. c \notin deleted
    <2>1. \A i \in 1..ast[n].arity : Append(n, i) \in deleted <=> i <= unlinked[n]
      BY <1>1 DEF HeapInv, NoPointerDangles, Kid
    <2> QED
      BY <2>1, <1>1, <1>3
  <1>7. \A k \in 1..K : Len(nodeStack[k]) = k - 1
    BY DEF HeapInv, StackIsWayDown
  <1>8. unlinked[c] = 0
    <2>1. \A k \in 1..K : nodeStack[k] # c
      BY <1>1, <1>4, <1>7
    <2> QED
      BY <2>1, <1>4, <1>6 DEF HeapInv, OthersAreWhole
  <1> HIDE DEF K, n, u, c
  <1>9. HeapTypeOK'
    BY <1>2, <1>5 DEF HeapInv, HeapTypeOK
  <1>10. StackIsWayDown'
    <2>1. nodeStack'[1] = Root
      BY <1>1, <1>5 DEF HeapInv, StackIsWayDown, K
    <2>2. ASSUME NEW k \in 1..(K + 1) PROVE Len(nodeStack'[k]) = k - 1
      <3>1. CASE k = K + 1
        BY <3>1, <1>1, <1>4, <1>5
      <3>2. CASE k \in 1..K
        BY <3>2, <1>5, <1>7
      <3> QED
        BY <3>1, <3>2, <1>1
    <2>3. \A k \in 1..K : nodeStack'[k + 1] = FirstChild(nodeStack[k])
      <3>1. \A k \in 1..(K - 1) : nodeStack[k + 1] = FirstChild(nodeStack[k])
        BY DEF HeapInv, StackIsWayDown, K
      <3>2. ASSUME NEW k \in 1..K PROVE nodeStack'[k + 1] = FirstChild(nodeStack[k])
        <4>1. CASE k = K
          BY <4>1, <1>1, <1>2, <1>5
        <4>2. CASE k < K
          BY <4>2, <3>1, <1>1, <1>5
        <4> QED
          BY <4>1, <4>2, <1>1
      <3> QED
        BY <3>2
    <2>4. \A k \in 1..K : FirstChild(nodeStack[k]) = FirstChild(nodeStack[k])'
      <3>1. ASSUME NEW k \in 1..K PROVE nodeStack'[k] = nodeStack[k]
        BY <1>5
      <3> QED
        BY <3>1, <1>2 DEF FirstChild, Kid
    <2> QED
      BY <2>1, <2>2, <2>3, <2>4, <1>1, <1>5 DEF StackIsWayDown
  <1>11. OthersAreWhole'
    BY <1>2, <1>5, <1>1 DEF HeapInv, OthersAreWhole, K
  <1>12. RestIsAhead'
    <2> SUFFICES ASSUME NEW q \in DOMAIN ast \ deleted PROVE Ahead(q, c)
      BY <1>1, <1>2, <1>5 DEF RestIsAhead, Ahead
    <2>1. q \in Seq(Nat)
      BY <1>3, TreePositions
    <2>2. CASE IsPrefix(q, n)
      BY <2>1, <2>2, <1>1, <1>4, PrefixTransitive DEF Ahead, IsStrictPrefix
    <2>3. CASE LeftOf(n, q)
      BY <2>1, <2>3, <1>1, LeftOfChild DEF Ahead, c
    <2>4. CASE IsStrictPrefix(n, q) /\ q[Len(n) + 1] > u
      <3>1. Len(n) < Len(q) /\ q[Len(n) + 1] \in Nat
        BY <2>1, <2>4, <1>1, StrictPrefixShorter, ElementOfSeq
      <3>2. CASE q[Len(n) + 1] > u + 1
        BY <2>1, <2>4, <3>2, <1>1, LeftOfLaterChild DEF Ahead, c
      <3>3. CASE q[Len(n) + 1] = u + 1
        <4>1. IsPrefix(c, q)
          BY <2>1, <2>4, <3>1, <3>3, <1>1 DEF c, IsPrefix, IsStrictPrefix
        <4>2. CASE c = q
          BY <4>2, <1>4, PrefixReflexive DEF Ahead
        <4>3. CASE c # q
          <5>1. IsStrictPrefix(c, q) /\ Len(c) < Len(q)
            BY <4>1, <4>3, <2>1, <1>4, StrictPrefixShorter DEF IsStrictPrefix
          <5>2. Len(c) + 1 \in 1..Len(q)
            BY <5>1, <2>1, <1>4
          <5>3. q[Len(c) + 1] \in 1..ast[SubSeq(q, 1, Len(c) + 1 - 1)].arity
            BY <5>2, <1>3 DEF IsTree
          <5> QED
            BY <5>1, <5>3, <1>8 DEF Ahead
        <4> QED
          BY <4>2, <4>3
      <3> QED
        BY <2>4, <3>1, <3>2, <3>3, <1>1
    <2> QED
      BY <2>2, <2>3, <2>4, <1>1 DEF Ahead, u
  <1>13. NoPointerDangles'
    <2>1. \A k \in 1..(K + 1) : nodeStack'[k] \notin deleted
      BY <1>1, <1>5, <1>6 DEF HeapInv, NoPointerDangles, K
    <2>2. DOMAIN nodeStack' = 1..(K + 1)
      BY <1>5
    <2> QED
      BY <2>1, <2>2, <1>2 DEF HeapInv, NoPointerDangles
  <1>14. DeletesInPostOrder'
    BY <1>2 DEF HeapInv, DeletesInPostOrder
  <1> QED
    BY <1>9, <1>10, <1>11, <1>12, <1>13, <1>14 DEF HeapInv

LEMMA HeapDelete ==
  ASSUME HeapInv, Delete
  PROVE  HeapInv'
  <1> DEFINE K == Len(nodeStack)
             n == Last(nodeStack)
             p == nodeStack[K - 1]
  <1>1. /\ K \in Nat \ {0} /\ n = nodeStack[K]
        /\ n \in DOMAIN ast /\ n \in Seq(Nat) /\ Len(n) = K - 1
        /\ n \notin deleted
        /\ ast[n].arity \in Nat
        /\ unlinked[n] = ast[n].arity
        /\ \A q \in DOMAIN ast \ deleted : Ahead(q, n)
    BY TopOfStack DEF Delete, HasChildren
  <1>2. /\ ast' = ast /\ deleted' = deleted \cup {n} /\ nodeStack' = Front(nodeStack)
        /\ unlinked' = IF nodeStack' = <<>> THEN unlinked
                       ELSE [unlinked EXCEPT ![Last(nodeStack')] = @ + 1]
    BY DEF Delete, vars
  <1>3. nodeStack \in Seq(DOMAIN ast) /\ IsTree(ast)
    BY DEF HeapInv, HeapTypeOK
  <1>4. /\ nodeStack' \in Seq(DOMAIN ast) /\ Len(nodeStack') = K - 1
        /\ \A k \in 1..(K - 1) : nodeStack'[k] = nodeStack[k]
    BY <1>1, <1>2, <1>3, FrontOfSeq
  <1>5. \A k \in 1..K : Len(nodeStack[k]) = k - 1
    BY DEF HeapInv, StackIsWayDown
  <1>6. \A k \in 1..K : nodeStack[k] \in DOMAIN ast /\ nodeStack[k] \notin deleted
    BY <1>3, ElementOfSeq DEF HeapInv, NoPointerDangles
  <1> HIDE DEF K, n, p
  (* What is left is above n or to the right of it.                        *)
  <1>7. ASSUME NEW q \in DOMAIN ast \ (deleted \cup {n})
        PROVE  q \in Seq(Nat) /\ (IsStrictPrefix(q, n) \/ LeftOf(n, q))
    <2>1. q \in Seq(Nat)
      BY <1>3, TreePositions
    <2>2. ASSUME IsStrictPrefix(n, q), q[Len(n) + 1] > unlinked[n] PROVE FALSE
      <3>1. Len(n) < Len(q) /\ n = SubSeq(q, 1, Len(n))
        BY <2>1, <2>2, <1>1, StrictPrefixShorter DEF IsStrictPrefix, IsPrefix
      <3>2. Len(n) + 1 \in 1..Len(q) /\ Len(n) + 1 - 1 = Len(n)
        BY <3>1, <2>1, <1>1
      <3>3. q[Len(n) + 1] \in 1..ast[SubSeq(q, 1, Len(n) + 1 - 1)].arity
        BY <3>2, <1>3 DEF IsTree
      <3>4. q[Len(n) + 1] \in 1..ast[n].arity
        BY <3>1, <3>2, <3>3
      <3> QED
        BY <2>2, <3>4, <1>1
    <2>3. Ahead(q, n)
      BY <1>1
    <2> QED
      BY <2>1, <2>2, <2>3 DEF Ahead, IsStrictPrefix
  <1>8. DeletesInPostOrder'
    <2> SUFFICES ASSUME NEW r \in deleted \cup {n}, NEW q \in DOMAIN ast \ (deleted \cup {n})
                 PROVE  PostBefore(r, q)
      BY <1>2 DEF DeletesInPostOrder
    <2>1. CASE r = n
      BY <2>1, <1>7 DEF PostBefore
    <2>2. CASE r \in deleted
      BY <2>2 DEF HeapInv, DeletesInPostOrder
    <2> QED
      BY <2>1, <2>2
  <1>9. CASE K = 1
    <2>1. nodeStack' = <<>> /\ unlinked' = unlinked
      BY <1>2, <1>4, <1>9
    <2>2. n = Root
      BY <1>1, <1>9 DEF Root
    <2>3. deleted' = DOMAIN ast
      <3>1. ASSUME NEW q \in DOMAIN ast \ (deleted \cup {n}) PROVE FALSE
        <4>1. Len(q) \in Nat /\ (Len(q) < 0 \/ LeftOf(n, q))
          BY <1>1, <1>7, <1>9, StrictPrefixShorter
        <4>2. DOMAIN n = {}
          BY <1>1, <1>9
        <4> QED
          BY <4>1, <4>2 DEF LeftOf
      <3>2. deleted \cup {n} \subseteq DOMAIN ast
        BY <1>1 DEF HeapInv, HeapTypeOK
      <3> QED
        BY <3>1, <3>2, <1>2
    <2>4. HeapTypeOK'
      BY <1>2, <1>4, <2>1, <2>3 DEF HeapInv, HeapTypeOK
    <2>5. StackIsWayDown'
      BY <2>1 DEF StackIsWayDown
    <2>6. ast' = ast /\ DOMAIN nodeStack' = {}
      BY <1>2, <2>1
    <2>7. OthersAreWhole'
      BY <2>3, <2>6 DEF OthersAreWhole
    <2>8. RestIsAhead'
      BY <2>1, <2>3, <2>6 DEF RestIsAhead
    <2>9. NoPointerDangles'
      BY <2>3, <2>6 DEF NoPointerDangles
    <2> QED
      BY <1>8, <2>4, <2>5, <2>7, <2>8, <2>9 DEF HeapInv
  <1>10. CASE K > 1
    <2>1. K - 1 \in 1..K /\ nodeStack' # <<>> /\ Last(nodeStack') = p
      <3>1. K - 1 \in 1..(K - 1) /\ K - 1 \in 1..K
        BY <1>1, <1>10
      <3> QED
        BY <3>1, <1>4 DEF Last, p
    <2>2. /\ p \in DOMAIN ast /\ p \in Seq(Nat) /\ Len(p) = K - 2 /\ p \notin deleted
          /\ p # n
      <3>1. p \in DOMAIN ast /\ p \notin deleted /\ Len(p) = (K - 1) - 1
        BY <2>1, <1>5, <1>6 DEF p
      <3> QED
        BY <3>1, <1>1, <1>3, TreePositions
    <2>3. n = Append(p, unlinked[p] + 1)
      <3>1. K - 1 \in 1..(K - 1) /\ (K - 1) + 1 = K
        BY <1>1, <1>10
      <3>2. nodeStack[(K - 1) + 1] = FirstChild(p)
        BY <3>1 DEF HeapInv, StackIsWayDown, K, p
      <3> QED
        BY <3>1, <3>2, <1>1 DEF FirstChild, Kid
    <2>4. unlinked[p] \in Nat
      BY <2>2 DEF HeapInv, HeapTypeOK
    <2>5. unlinked' = [unlinked EXCEPT ![p] = @ + 1]
      BY <1>2, <2>1
    <2>6. /\ unlinked' \in [DOMAIN ast -> Nat] /\ unlinked'[p] = unlinked[p] + 1
          /\ \A m \in DOMAIN ast : m # p => unlinked'[m] = unlinked[m]
      BY <2>2, <2>4, <2>5 DEF HeapInv, HeapTypeOK
    <2>7. unlinked[p] + 1 <= ast[p].arity
      <3>1. IsStrictPrefix(p, n) /\ Len(p) + 1 \in 1..Len(n)
        BY <1>1, <2>2, <2>3, <2>4, <1>10, ChildBelow
      <3>2. \A k \in 1..Len(n) : n[k] \in 1..ast[SubSeq(n, 1, k - 1)].arity
        BY <1>1, <1>3 DEF IsTree
      <3>3. n[Len(p) + 1] \in 1..ast[SubSeq(n, 1, Len(p) + 1 - 1)].arity
        BY <3>1, <3>2
      <3>4. SubSeq(n, 1, Len(p) + 1 - 1) = p /\ n[Len(p) + 1] = unlinked[p] + 1
        BY <2>2, <2>3, <2>4
      <3>5. ast[p].arity \in Nat
        BY <2>2, <1>3, TreePositions
      <3>6. unlinked[p] + 1 \in 1..ast[p].arity
        BY <3>3, <3>4
      <3> QED
        BY <3>5, <3>6, <2>4
    <2>8. HeapTypeOK'
      <3>1. \A m \in DOMAIN ast : unlinked'[m] <= ast[m].arity
        BY <2>6, <2>7 DEF HeapInv, HeapTypeOK
      <3> QED
        BY <1>1, <1>2, <1>3, <1>4, <2>6, <3>1 DEF HeapInv, HeapTypeOK
    <2>9. StackIsWayDown'
      <3>1. nodeStack'[1] = Root
        <4>1. 1 \in 1..(K - 1) /\ nodeStack # <<>>
          BY <1>1, <1>3, <1>10 DEF K
        <4> QED
          BY <4>1, <1>4 DEF HeapInv, StackIsWayDown
      <3>2. ASSUME NEW k \in 1..(K - 1) PROVE Len(nodeStack'[k]) = k - 1
        <4>1. k \in 1..K
          BY <1>1
        <4> QED
          BY <4>1, <1>4, <1>5
      <3>3. ASSUME NEW k \in 1..(K - 2)
            PROVE  nodeStack'[k + 1] = Append(nodeStack'[k], unlinked'[nodeStack'[k]] + 1)
        <4>1. /\ k \in 1..(K - 1) /\ k + 1 \in 1..(K - 1) /\ k \in 1..K
              /\ k \in 1..(Len(nodeStack) - 1)
          BY <1>1 DEF K
        <4>2. nodeStack[k + 1] = Append(nodeStack[k], unlinked[nodeStack[k]] + 1)
          BY <4>1 DEF HeapInv, StackIsWayDown, FirstChild, Kid
        <4>3. nodeStack[k] \in DOMAIN ast /\ nodeStack[k] # p
          <5>1. nodeStack[k] \in DOMAIN ast /\ Len(nodeStack[k]) = k - 1
            BY <4>1, <1>5, <1>6
          <5>2. k - 1 # K - 2
            BY <1>1
          <5> QED
            BY <5>1, <5>2, <2>2
        <4> QED
          BY <4>1, <4>2, <4>3, <1>4, <2>6
      <3>4. Len(nodeStack') = K - 1 /\ (K - 1) - 1 = K - 2
        BY <1>1, <1>4
      <3> QED
        BY <3>1, <3>2, <3>3, <3>4 DEF StackIsWayDown, FirstChild, Kid
    <2>10. OthersAreWhole'
      <3> SUFFICES ASSUME NEW m \in DOMAIN ast \ (deleted \cup {n}),
                          \A k \in 1..(K - 1) : nodeStack[k] # m
                   PROVE  unlinked'[m] = 0
        BY <1>2, <1>4 DEF OthersAreWhole
      <3>1. \A k \in 1..K : nodeStack[k] # m
        BY <1>1
      <3>2. unlinked[m] = 0
        BY <3>1 DEF HeapInv, OthersAreWhole, K
      <3>3. m # p
        BY <3>1, <2>1 DEF p
      <3> QED
        BY <3>2, <3>3, <2>6
    <2>11. RestIsAhead'
      <3> DEFINE AheadOfParent(q) ==
                   \/ IsPrefix(q, p)
                   \/ LeftOf(p, q)
                   \/ IsStrictPrefix(p, q) /\ q[Len(p) + 1] > unlinked'[p]
      <3>a. nodeStack' # <<>> /\ nodeStack'[Len(nodeStack')] = p
        <4>1. K - 1 \in 1..(K - 1)
          BY <1>1, <1>10
        <4> QED
          BY <4>1, <1>4, <2>1 DEF p
      <3> SUFFICES ASSUME NEW q \in DOMAIN ast \ (deleted \cup {n})
                   PROVE  AheadOfParent(q)
        BY <3>a, <1>2 DEF RestIsAhead, Ahead
      <3>1. q \in Seq(Nat) /\ (IsStrictPrefix(q, n) \/ LeftOf(n, q))
        BY <1>7
      <3>2. CASE IsStrictPrefix(q, n)
        BY <3>1, <3>2, <2>2, <2>3, <2>4, AboveChild
      <3>3. CASE LeftOf(n, q)
        <4>1. \/ LeftOf(p, q)
              \/ IsStrictPrefix(p, q) /\ q[Len(p) + 1] > unlinked[p] + 1
          BY <3>1, <3>3, <2>2, <2>3, <2>4, RightOfChild
        <4> QED
          BY <4>1, <2>6
      <3> QED
        BY <3>1, <3>2, <3>3
    <2>12. NoPointerDangles'
      <3>1. ASSUME NEW k \in 1..(K - 1) PROVE nodeStack'[k] \notin deleted \cup {n}
        <4>1. k \in 1..K /\ k # K
          BY <1>1
        <4>2. Len(nodeStack[k]) = k - 1 /\ nodeStack[k] # n
          BY <4>1, <1>1, <1>5
        <4> QED
          BY <4>1, <4>2, <1>4, <1>6
      <3>2. ASSUME NEW m \in DOMAIN ast \ (deleted \cup {n}), NEW i \in 1..ast[m].arity
            PROVE  Append(m, i) \in deleted \cup {n} <=> i <= unlinked'[m]
        <4>1. m \in Seq(Nat) /\ i \in Nat /\ ast[m].arity \in Nat
          BY <1>3, TreePositions
        <4>2. Append(m, i) \in deleted <=> i <= unlinked[m]
          BY DEF HeapInv, NoPointerDangles, Kid
        <4>3. Append(m, i) = n <=> (m = p /\ i = unlinked[p] + 1)
          <5>1. p \in Seq(Nat) /\ unlinked[p] + 1 \in Nat
            BY <2>2, <2>4
          <5>2. ASSUME Append(m, i) = Append(p, unlinked[p] + 1)
                PROVE  m = p /\ i = unlinked[p] + 1
            BY <4>1, <5>1, <5>2, ChildInjective
          <5> QED
            BY <5>2, <2>3
        <4>4. CASE m = p
          BY <4>1, <4>2, <4>3, <4>4, <2>4, <2>6
        <4>5. CASE m # p
          BY <4>2, <4>3, <4>5, <2>6
        <4> QED
          BY <4>4, <4>5
      <3>3. DOMAIN nodeStack' = 1..(K - 1)
        BY <1>4
      <3> QED
        BY <3>1, <3>2, <3>3, <1>2 DEF NoPointerDangles, Kid
    <2> QED
      BY <1>8, <2>8, <2>9, <2>10, <2>11, <2>12 DEF HeapInv
  <1> QED
    BY <1>1, <1>9, <1>10

(* Compilation does not touch the tree.                                    *)
LEMMA CompileKeepsHeap ==
  ASSUME Compile
  PROVE  UNCHANGED <<ast, nodeStack, unlinked, deleted>>
  <1>1. GenStep /\ UNCHANGED heapVars
    BY DEF Compile
  <1>2. CASE BindJumps
    BY <1>1, <1>2 DEF BindJumps, BindingNext, Expand, InitLoop, InitOther, CallBack, heapVars
  <1>3. CASE ~ BindJumps
    <2>1. UNCHANGED bindingVars
      BY <1>1, <1>3, GenKeepsBindings DEF Next
    <2> QED
      BY <1>1, <2>1 DEF bindingVars, heapVars
  <1> QED
    BY <1>2, <1>3

LEMMA HeapSame ==
  ASSUME HeapInv, UNCHANGED <<ast, nodeStack, unlinked, deleted>>
  PROVE  HeapInv'
  BY DEF HeapInv, HeapTypeOK, StackIsWayDown, OthersAreWhole, RestIsAhead, Ahead,
         NoPointerDangles, DeletesInPostOrder, FirstChild, Kid

LEMMA HeapInvariance == LifeSpec => []HeapInv
  <1>1. HeapInv /\ [LifeNext]_lifeVars => HeapInv'
    <2> SUFFICES ASSUME HeapInv, [LifeNext]_lifeVars PROVE HeapInv'
      OBVIOUS
    <2>1. CASE Compile
      BY <2>1, CompileKeepsHeap, HeapSame
    <2>2. CASE BeginDestruction
      BY <2>2, HeapBegin
    <2>3. CASE Descend
      BY <2>3, HeapDescend
    <2>4. CASE Delete
      BY <2>4, HeapDelete
    <2>5. CASE Gone \/ UNCHANGED lifeVars
      BY <2>5, HeapSame DEF Gone, lifeVars, vars, heapVars
    <2> QED
      BY <2>1, <2>2, <2>3, <2>4, <2>5 DEF LifeNext, LifeStep
  <1> QED
    BY <1>1, HeapInit, PTL DEF LifeSpec

(***************************************************************************)
(* Root::~Root deletes every node after all that is below it and before    *)
(* all that is to the right of it.                                         *)
(***************************************************************************)
THEOREM DestructorInPostOrder == LifeSpec => []DeletesInPostOrder
  BY HeapInvariance, PTL DEF HeapInv

(***************************************************************************)
(* It never looks at, and never deletes again, a node it has deleted: its  *)
(* stack and the deques of live nodes hold live nodes.                     *)
(***************************************************************************)
THEOREM DestructorIsSafe == LifeSpec => []NoPointerDangles
  BY HeapInvariance, PTL DEF HeapInv

(* When it returns no node is left.                                        *)
THEOREM DestructorLeaksNothing == LifeSpec => []NothingLeaks
  <1>1. HeapInv => NothingLeaks
    BY DEF HeapInv, RestIsAhead, NothingLeaks
  <1> QED
    BY <1>1, HeapInvariance, PTL

(***************************************************************************)
(* The destructor leaves the compilation as it was: seen without the heap, *)
(* a life of the tree is a run of Root::gen, so what is proved of that     *)
(* holds to the end.                                                       *)
(***************************************************************************)
THEOREM LifeImplementsCodeGen == LifeSpec => Spec
  <1>1. LifeInit => Init
    BY DEF LifeInit
  <1>2. [LifeNext]_lifeVars => [Next]_vars
    <2> SUFFICES ASSUME [LifeNext]_lifeVars PROVE [Next]_vars
      OBVIOUS
    <2>1. CASE Compile
      BY <2>1 DEF Compile, Next
    <2>2. CASE BeginDestruction \/ Descend \/ Delete
      BY <2>2 DEF BeginDestruction, Descend, Delete
    <2>3. CASE Gone \/ UNCHANGED lifeVars
      BY <2>3 DEF Gone, lifeVars
    <2> QED
      BY <2>1, <2>2, <2>3 DEF LifeNext, LifeStep
  <1> QED
    BY <1>1, <1>2, PTL DEF LifeSpec, Spec

(* break and continue keep the innermost loop until the tree is gone.      *)
THEOREM JumpsStayInnermostForLife == LifeSpec => []JumpsBindInnermost
  BY LifeImplementsCodeGen, JumpsStayInnermost, PTL

=============================================================================
