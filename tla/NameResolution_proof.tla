------------------------ MODULE NameResolution_proof -------------------------
(***************************************************************************)
(* For every program: the name passes keep their variables well typed,     *)
(* call their handlers in level order, and hand every symbol the scope     *)
(* that stands innermost around it.                                        *)
(***************************************************************************)
EXTENDS NameResolution, Ast_proof

(***************************************************************************)
(* The breadth first walk: walkAllChildlenBF calls back on the nodes level *)
(* by level, each level from left to right, and leaves none out.           *)
(***************************************************************************)

Queued == 1..Len(queue)

(* What waits has not been called back, and everything above it has.       *)
QueueIsFresh ==
  /\ seen = done \cup Range(queue)
  /\ \A i \in Queued : queue[i] \notin done
  /\ \A s \in seen : \A p \in DOMAIN ast : IsStrictPrefix(p, s) => p \in done

(* The queue is in level order and holds nodes of two levels at most.      *)
QueueInOrder ==
  /\ \A i, j \in Queued : i < j => LevelBefore(queue[i], queue[j])
  /\ \A i, j \in Queued : Len(queue[j]) <= Len(queue[i]) + 1
  /\ \A d \in done : \A i \in Queued : LevelBefore(d, queue[i])

RestIsCovered ==
  \A q \in DOMAIN ast \ done : \E i \in Queued : IsPrefix(queue[i], q)

WalkInv == WalkTypeOK /\ QueueIsFresh /\ QueueInOrder /\ RestIsCovered

(***************************************************************************)
(* Level order.                                                            *)
(***************************************************************************)
LEMMA LevelBeforeIsNotLonger ==
  ASSUME NEW p \in Seq(Nat), NEW q \in Seq(Nat), LevelBefore(p, q)
  PROVE  Len(p) <= Len(q)
  BY DEF LevelBefore

(* Siblings.                                                               *)
LEMMA SiblingsInOrder ==
  ASSUME NEW n \in Seq(Nat), NEW i \in Nat, NEW j \in Nat, i < j
  PROVE  LevelBefore(Append(n, i), Append(n, j))
  <1> DEFINE p == Append(n, i)
             q == Append(n, j)
             k == Len(n) + 1
  <1>1. p \in Seq(Nat) /\ q \in Seq(Nat) /\ Len(p) = k /\ Len(q) = k
    OBVIOUS
  <1>2. k \in DOMAIN p \cap DOMAIN q
    OBVIOUS
  <1>3. SubSeq(p, 1, k - 1) = SubSeq(q, 1, k - 1)
    OBVIOUS
  <1>4. p[k] < q[k]
    OBVIOUS
  <1> QED
    BY <1>1, <1>2, <1>3, <1>4 DEF LevelBefore, LeftOf

(* Cousins are in the order of their parents.                              *)
LEMMA CousinsInOrder ==
  ASSUME NEW m \in Seq(Nat), NEW n \in Seq(Nat), NEW i \in Nat, NEW j \in Nat,
         LeftOf(m, n), Len(m) = Len(n)
  PROVE  LevelBefore(Append(m, i), Append(n, j))
  <1> DEFINE p == Append(m, i)
             q == Append(n, j)
  <1>1. PICK k \in DOMAIN m \cap DOMAIN n :
          SubSeq(m, 1, k - 1) = SubSeq(n, 1, k - 1) /\ m[k] < n[k]
    BY DEF LeftOf
  <1>2. p \in Seq(Nat) /\ q \in Seq(Nat) /\ Len(p) = Len(q)
    OBVIOUS
  <1>3. k \in DOMAIN p \cap DOMAIN q /\ p[k] = m[k] /\ q[k] = n[k]
    OBVIOUS
  <1>4. SubSeq(p, 1, k - 1) = SubSeq(m, 1, k - 1) /\ SubSeq(q, 1, k - 1) = SubSeq(n, 1, k - 1)
    OBVIOUS
  <1> QED
    BY <1>1, <1>2, <1>3, <1>4 DEF LevelBefore, LeftOf

(* The parent of a node.                                                   *)
LEMMA ParentInTree ==
  ASSUME NEW t, IsTree(t), NEW q \in DOMAIN t, Len(q) > 0
  PROVE  \E p \in DOMAIN t : \E i \in Nat :
           q = Append(p, i) /\ Len(q) = Len(p) + 1 /\ IsStrictPrefix(p, q)
  <1> DEFINE p == SubSeq(q, 1, Len(q) - 1)
             i == q[Len(q)]
  <1>1. q \in Seq(Nat) /\ Len(q) \in 1..Len(q)
    BY TreePositions
  <1>2. p \in DOMAIN t /\ i \in Nat
    BY <1>1, ElementOfSeq DEF IsTree
  <1>3. p \in Seq(Nat) /\ Len(p) = Len(q) - 1
    BY <1>1, FrontOfSeq DEF Front
  <1>4. q = Append(p, i)
    BY <1>1, <1>3
  <1> HIDE DEF p, i
  <1>5. IsStrictPrefix(p, Append(p, i))
    BY <1>2, <1>3, ChildBelow
  <1>6. Len(q) = Len(p) + 1
    BY <1>1, <1>3
  <1> QED
    BY <1>2, <1>4, <1>5, <1>6

(***************************************************************************)
(* The walk.                                                               *)
(***************************************************************************)

(* The elements of a sequence.                                             *)
LEMMA RangeMember ==
  ASSUME NEW S, NEW s \in Seq(S), NEW x \in Range(s)
  PROVE  \E i \in 1..Len(s) : x = s[i]
  <1>1. DOMAIN s = 1..Len(s)
    OBVIOUS
  <1>2. \E i \in DOMAIN s : x = s[i]
    BY Zenon DEF Range
  <1> QED
    BY <1>1, <1>2

LEMMA InRange ==
  ASSUME NEW S, NEW s \in Seq(S), NEW i \in 1..Len(s)
  PROVE  s[i] \in Range(s)
  <1>1. i \in DOMAIN s
    OBVIOUS
  <1> QED
    BY <1>1, Zenon DEF Range

(* On nodes that are new the test for v keeps them all.                    *)
LEMMA UnseenOfNew ==
  ASSUME NEW s, NEW v, Range(s) \cap v = {}
  PROVE  Unseen(s, v) = s
  BY DEF Unseen

(* The root is above everything and below nothing.                         *)
LEMMA RootAboveAll ==
  ASSUME NEW t, IsTree(t)
  PROVE  /\ Root \in DOMAIN t /\ Len(Root) = 0
         /\ \A q \in DOMAIN t : IsPrefix(Root, q)
         /\ \A p \in DOMAIN t : ~ IsStrictPrefix(p, Root)
  <1>1. Root \in DOMAIN t /\ Root \in Seq(Nat) /\ Len(Root) = 0
    BY TreePositions DEF IsTree, Root
  <1>2. \A q \in DOMAIN t : IsPrefix(Root, q)
    BY TreePositions DEF IsPrefix, Root
  <1>3. ASSUME NEW p \in DOMAIN t, IsStrictPrefix(p, Root) PROVE FALSE
    <2>1. p \in Seq(Nat)
      BY TreePositions
    <2>2. Len(p) < Len(Root)
      BY <2>1, <1>1, <1>3, StrictPrefixShorter
    <2> QED
      BY <2>1, <2>2, <1>1
  <1> QED
    BY <1>1, <1>2, <1>3

LEMMA WalkStarts ==
  ASSUME IsTree(ast), StartWalk
  PROVE  WalkInv
  <1>1. /\ queue \in Seq(DOMAIN ast) /\ Len(queue) = 1 /\ queue[1] = Root
        /\ Range(queue) = {Root}
    BY RootAboveAll DEF StartWalk, Range
  <1> QED
    BY <1>1, RootAboveAll
       DEF WalkInv, WalkTypeOK, QueueIsFresh, QueueInOrder, RestIsCovered, StartWalk, Queued

LEMMA WalkRestarts ==
  ASSUME IsTree(ast), ast' = ast, RestartWalk
  PROVE  WalkInv'
  <1>1. /\ queue' \in Seq(DOMAIN ast) /\ Len(queue') = 1 /\ queue'[1] = Root
        /\ Range(queue') = {Root}
    BY RootAboveAll DEF RestartWalk, Range
  <1> QED
    BY <1>1, RootAboveAll
       DEF WalkInv, WalkTypeOK, QueueIsFresh, QueueInOrder, RestIsCovered, RestartWalk, Queued

(***************************************************************************)
(* What is known of the node that is called back: nothing longer has been  *)
(* called back before, and everything above it has.                        *)
(***************************************************************************)
LEMMA FrontOfQueue ==
  ASSUME WalkInv, NEW n, VisitFront(n)
  PROVE  /\ 1 \in Queued /\ n = queue[1]
         /\ n \in DOMAIN ast /\ n \in seen /\ n \notin done
         /\ \A d \in done : Len(d) <= Len(n)
  <1>1. 1 \in Queued /\ n = queue[1] /\ n \in DOMAIN ast
    BY DEF WalkInv, WalkTypeOK, VisitFront, Queued
  <1>2. n \in seen /\ n \notin done
    BY <1>1 DEF WalkInv, QueueIsFresh, WalkTypeOK, Range, Queued
  <1>3. ASSUME NEW d \in done PROVE Len(d) <= Len(n)
    <2>1. d \in Seq(Nat) /\ n \in Seq(Nat)
      BY <1>1, <1>3, TreePositions DEF WalkInv, WalkTypeOK
    <2>2. LevelBefore(d, n)
      BY <1>1, <1>3 DEF WalkInv, QueueInOrder
    <2> QED
      BY <2>1, <2>2, LevelBeforeIsNotLonger
  <1> QED
    BY <1>1, <1>2, <1>3

LEMMA WalkVisit ==
  ASSUME WalkInv, NEW n, VisitFront(n), ast' = ast
  PROVE  WalkInv'
  <1> DEFINE a == ast[n].arity
             K == Len(queue)
             L == K - 1 + a
  <1>1. /\ 1 \in Queued /\ n = queue[1] /\ n \in DOMAIN ast /\ n \in seen /\ n \notin done
        /\ \A d \in done : Len(d) <= Len(n)
    BY FrontOfQueue
  <1>2. /\ queue \in Seq(DOMAIN ast) /\ K \in Nat /\ K > 0 /\ IsTree(ast) /\ Queued = 1..K
        /\ n \in Seq(Nat) /\ a \in Nat
    BY <1>1, TreePositions DEF WalkInv, WalkTypeOK, Queued
  <1>3. /\ Children(ast, n) \in Seq(DOMAIN ast) /\ Len(Children(ast, n)) = a
        /\ \A i \in 1..a : Children(ast, n)[i] = Append(n, i)
    BY <1>1, <1>2, ChildrenSeq
  (* The children are new.                                                 *)
  <1>4. ASSUME NEW i \in 1..a
        PROVE  /\ Append(n, i) \in DOMAIN ast /\ IsStrictPrefix(n, Append(n, i))
               /\ Len(Append(n, i)) = Len(n) + 1
               /\ Append(n, i) \notin seen
    <2>1. /\ Append(n, i) \in DOMAIN ast /\ IsStrictPrefix(n, Append(n, i))
          /\ Len(Append(n, i)) = Len(n) + 1
      BY <1>1, <1>2, TreePositions, ChildBelow
    <2>2. Append(n, i) \notin seen
      BY <2>1, <1>1 DEF WalkInv, QueueIsFresh
    <2> QED
      BY <2>1, <2>2
  <1>5. Range(Children(ast, n)) = {Append(n, i) : i \in 1..a}
    <2>1. ASSUME NEW x \in Range(Children(ast, n))
          PROVE  x \in {Append(n, i) : i \in 1..a}
      <3>1. \E i \in 1..Len(Children(ast, n)) : x = Children(ast, n)[i]
        BY <1>3, RangeMember
      <3>2. \E i \in 1..a : x = Append(n, i)
        BY <3>1, <1>3
      <3> QED
        BY <3>2
    <2>2. ASSUME NEW i \in 1..a
          PROVE  Append(n, i) \in Range(Children(ast, n))
      <3>1. Children(ast, n)[i] \in Range(Children(ast, n))
        BY <1>3, InRange
      <3> QED
        BY <3>1, <1>3
    <2> QED
      BY <2>1, <2>2
  <1>6. Unseen(Children(ast, n), seen) = Children(ast, n)
    <2>1. Range(Children(ast, n)) \cap seen = {}
      BY <1>4, <1>5
    <2> QED
      BY <2>1, UnseenOfNew
  (* The queue moves up by one, the children follow.                       *)
  <1>7. /\ queue' \in Seq(DOMAIN ast) /\ Len(queue') = L
        /\ \A i \in 1..(K - 1) : queue'[i] = queue[i + 1]
        /\ \A i \in K..L : queue'[i] = Append(n, i - K + 1)
    <2>1. queue' = Tail(queue) \o Children(ast, n)
      BY <1>6 DEF VisitFront
    <2>2. /\ Tail(queue) \in Seq(DOMAIN ast) /\ Len(Tail(queue)) = K - 1
          /\ \A i \in 1..(K - 1) : Tail(queue)[i] = queue[i + 1]
      BY <1>2
    <2>3. /\ queue' \in Seq(DOMAIN ast) /\ Len(queue') = L
          /\ \A i \in 1..(K - 1) : queue'[i] = queue[i + 1]
          /\ \A i \in K..L : queue'[i] = Children(ast, n)[i - (K - 1)]
      <3> DEFINE old == Tail(queue)
                 new == Children(ast, n)
      <3>1. /\ old \in Seq(DOMAIN ast) /\ new \in Seq(DOMAIN ast)
            /\ Len(old) = K - 1 /\ Len(new) = a
        BY <2>2, <1>3
      <3> HIDE DEF old, new
      <3>2. /\ old \o new \in Seq(DOMAIN ast)
            /\ Len(old \o new) = K - 1 + a
            /\ \A i \in 1..(K - 1 + a) :
                 (old \o new)[i] = IF i <= K - 1 THEN old[i] ELSE new[i - (K - 1)]
        <4>1. /\ old \o new \in Seq(DOMAIN ast)
              /\ Len(old \o new) = Len(old) + Len(new)
              /\ \A i \in 1..(Len(old) + Len(new)) :
                   (old \o new)[i] =
                     IF i <= Len(old) THEN old[i] ELSE new[i - Len(old)]
          BY <3>1, ConcatProperties
        <4> QED
          BY <4>1, <3>1
      <3>3. ASSUME NEW i \in 1..(K - 1)
            PROVE  (old \o new)[i] = old[i]
        BY <3>2, <1>2
      <3>4. ASSUME NEW i \in K..L
            PROVE  (old \o new)[i] = new[i - (K - 1)]
        BY <3>2, <1>2
      <3> QED
        BY <3>2, <3>3, <3>4, <2>1, <2>2 DEF old, new
    <2>4. ASSUME NEW i \in K..L PROVE queue'[i] = Append(n, i - K + 1)
      <3>1. i - (K - 1) \in 1..a /\ i - (K - 1) = i - K + 1
        BY <1>2
      <3> QED
        BY <3>1, <2>3, <1>3
    <2> QED
      BY <2>3, <2>4
  <1>8. /\ done' = done \cup {n} /\ seen' = seen \cup {Append(n, i) : i \in 1..a}
        /\ Queued' = 1..L /\ L \in Nat
    BY <1>2, <1>5, <1>7 DEF VisitFront, Queued
  (* A place of the new queue is an old one or that of a child.            *)
  <1>9. ASSUME NEW i \in 1..L
        PROVE  /\ i \in Nat
               /\ i < K \/ i >= K
               /\ i < K => i + 1 \in Queued /\ i + 1 > 1 /\ queue'[i] = queue[i + 1]
               /\ i >= K => i - K + 1 \in 1..a /\ queue'[i] = Append(n, i - K + 1)
    BY <1>2, <1>7, <1>8
  <1> HIDE DEF L
  <1>10. WalkTypeOK'
    <2>1. seen' \subseteq DOMAIN ast /\ done' \subseteq DOMAIN ast
      BY <1>1, <1>4, <1>8 DEF WalkInv, WalkTypeOK
    <2> QED
      BY <2>1, <1>2, <1>7 DEF WalkTypeOK
  (* The places after the first hold other nodes than n.                   *)
  <1>11. \A j \in Queued : j > 1 => LevelBefore(n, queue[j]) /\ queue[j] # n
    <2> SUFFICES ASSUME NEW j \in Queued, j > 1 PROVE LevelBefore(n, queue[j]) /\ queue[j] # n
      OBVIOUS
    <2>1. LevelBefore(n, queue[j])
      BY <1>1, <1>2 DEF WalkInv, QueueInOrder
    <2>2. ~ LevelBefore(n, n)
      BY <1>2 DEF LevelBefore, LeftOf
    <2> QED
      BY <2>1, <2>2
  <1>12. QueueIsFresh'
    <2>1. seen' = done' \cup Range(queue')
      <3>1. /\ \A i \in 1..K : queue[i] \in Range(queue)
            /\ \A i \in 1..L : queue'[i] \in Range(queue')
        <4>1. \A i \in 1..Len(queue') : queue'[i] \in Range(queue')
          BY <1>7, InRange
        <4>2. \A i \in 1..Len(queue) : queue[i] \in Range(queue)
          BY <1>2, InRange
        <4>3. Len(queue') = L
          BY <1>7 DEF L
        <4> QED
          BY <4>1, <4>2, <4>3
      <3>2. \A i \in 1..K : queue[i] = n \/ \E j \in 1..L : queue'[j] = queue[i]
        <4> SUFFICES ASSUME NEW i \in 1..K, i # 1 PROVE \E j \in 1..L : queue'[j] = queue[i]
          BY <1>1
        <4>1. i - 1 \in 1..(K - 1) /\ i - 1 \in 1..L
          BY <1>2 DEF L
        <4> QED
          BY <4>1, <1>7
      <3>3. \A c \in 1..a : \E j \in 1..L : queue'[j] = Append(n, c)
        <4> SUFFICES ASSUME NEW c \in 1..a PROVE \E j \in 1..L : queue'[j] = Append(n, c)
          OBVIOUS
        <4>1. K + c - 1 \in K..L /\ K + c - 1 \in 1..L /\ (K + c - 1) - K + 1 = c
          BY <1>2 DEF L
        <4> QED
          BY <4>1, <1>7
      <3>4. seen = done \cup Range(queue)
        BY DEF WalkInv, QueueIsFresh
      <3>5. ASSUME NEW x \in Range(queue')
            PROVE  x \in Range(queue) \/ \E c \in 1..a : x = Append(n, c)
        <4>1. PICK i \in 1..L : x = queue'[i]
          <5>1. \E i \in 1..Len(queue') : x = queue'[i]
            BY <3>5, <1>7, RangeMember
          <5>2. Len(queue') = L
            BY <1>7 DEF L
          <5> QED
            BY <5>1, <5>2
        <4>2. CASE i < K
          <5>1. PICK k \in Queued : queue'[i] = queue[k]
            BY <4>2, <1>9
          <5> QED
            BY <5>1, <4>1, <3>1, <1>2
        <4>3. CASE i >= K
          BY <4>1, <4>3, <1>9
        <4> QED
          BY <4>2, <4>3, <1>9
      <3>6. ASSUME NEW x \in Range(queue), x # n
            PROVE  x \in Range(queue')
        <4>1. PICK i \in 1..K : x = queue[i]
          BY <3>6, <1>2, RangeMember
        <4>2. PICK j \in 1..L : queue'[j] = queue[i]
          BY <4>1, <3>2, <3>6
        <4> QED
          BY <4>1, <4>2, <3>1
      <3>7. ASSUME NEW c \in 1..a PROVE Append(n, c) \in Range(queue')
        <4>1. PICK j \in 1..L : queue'[j] = Append(n, c)
          BY <3>3
        <4>2. queue'[j] \in Range(queue')
          BY <3>1
        <4> QED
          BY <4>1, <4>2
      <3>8. n \in Range(queue)
        BY <3>1, <1>1, <1>2
      <3> QED
        BY <3>4, <3>5, <3>6, <3>7, <3>8, <1>8
    <2>2. \A i \in 1..L : queue'[i] \notin done'
      <3> SUFFICES ASSUME NEW i \in 1..L PROVE queue'[i] \notin done'
        OBVIOUS
      <3>1. CASE i >= K
        <4>1. PICK c \in 1..a : queue'[i] = Append(n, c)
          BY <3>1, <1>9
        <4> QED
          BY <4>1, <1>1, <1>4, <1>8 DEF WalkInv, QueueIsFresh
      <3>2. CASE i < K
        <4>1. PICK k \in Queued : k > 1 /\ queue'[i] = queue[k]
          BY <3>2, <1>9
        <4> QED
          BY <4>1, <1>8, <1>11 DEF WalkInv, QueueIsFresh
      <3> QED
        BY <3>1, <3>2, <1>9
    <2>3. ASSUME NEW s \in seen', NEW p \in DOMAIN ast, IsStrictPrefix(p, s)
          PROVE  p \in done'
      <3>1. CASE s \in seen
        BY <3>1, <2>3, <1>8 DEF WalkInv, QueueIsFresh
      <3>2. CASE \E c \in 1..a : s = Append(n, c)
        <4>1. IsPrefix(p, n) /\ p \in Seq(Nat)
          BY <3>2, <2>3, <1>2, TreePositions, AboveChild
        <4>2. p = n \/ IsStrictPrefix(p, n)
          BY <4>1 DEF IsStrictPrefix
        <4> QED
          BY <4>2, <1>1, <1>8 DEF WalkInv, QueueIsFresh
      <3> QED
        BY <3>1, <3>2, <2>3, <1>8
    <2> QED
      BY <2>1, <2>2, <2>3, <1>8 DEF QueueIsFresh
  <1>13. QueueInOrder'
    (* What was queued behind n is of the level of n or the next.          *)
    <2>1. ASSUME NEW i \in Queued, i > 1
          PROVE  /\ queue[i] \in Seq(Nat)
                 /\ Len(n) <= Len(queue[i]) /\ Len(queue[i]) <= Len(n) + 1
      <3>1. queue[i] \in Seq(Nat)
        BY <2>1, <1>2, TreePositions
      <3> QED
        BY <3>1, <2>1, <1>1, <1>2, <1>11, LevelBeforeIsNotLonger DEF WalkInv, QueueInOrder
    (* It precedes the children of n.                                      *)
    <2>2. ASSUME NEW i \in Queued, i > 1, NEW c \in 1..a
          PROVE  LevelBefore(queue[i], Append(n, c))
      <3>1. CASE Len(queue[i]) = Len(n)
        BY <3>1, <1>2, <1>4, <2>1, <2>2 DEF LevelBefore
      <3>2. CASE Len(queue[i]) = Len(n) + 1
        <4>1. queue[i] \in DOMAIN ast /\ Len(queue[i]) > 0 /\ queue[i] \in seen
          BY <3>2, <2>2, <1>2 DEF WalkInv, QueueIsFresh, Range
        <4>2. PICK m \in DOMAIN ast : \E k \in Nat :
                queue[i] = Append(m, k) /\ Len(queue[i]) = Len(m) + 1 /\ IsStrictPrefix(m, queue[i])
          BY <4>1, <1>2, ParentInTree
        <4>3. PICK k \in Nat : queue[i] = Append(m, k)
          BY <4>2
        <4>4. m \in Seq(Nat) /\ Len(m) = Len(n) /\ m \in done
          BY <3>2, <4>1, <4>2, <1>2, TreePositions DEF WalkInv, QueueIsFresh
        <4>5. LeftOf(m, n)
          BY <4>4, <1>1, <1>2 DEF WalkInv, QueueInOrder, LevelBefore
        <4> QED
          BY <4>3, <4>4, <4>5, <1>2, CousinsInOrder
      <3> QED
        BY <3>1, <3>2, <2>1, <2>2, <1>2
    <2>3. ASSUME NEW i \in 1..L, NEW j \in 1..L, i < j
          PROVE  LevelBefore(queue'[i], queue'[j])
      <3>1. CASE i < K /\ j < K
        <4>1. i + 1 \in Queued /\ j + 1 \in Queued /\ i + 1 < j + 1
          BY <3>1, <2>3, <1>9
        <4>2. LevelBefore(queue[i + 1], queue[j + 1])
          BY <4>1 DEF WalkInv, QueueInOrder
        <4> QED
          BY <4>2, <3>1, <1>9
      <3>2. CASE i < K /\ j >= K
        <4>1. PICK k \in Queued : k > 1 /\ queue'[i] = queue[k]
          BY <3>2, <1>9
        <4>2. PICK c \in 1..a : queue'[j] = Append(n, c)
          BY <3>2, <1>9
        <4> QED
          BY <4>1, <4>2, <2>2
      <3>3. CASE i >= K /\ j >= K
        <4> DEFINE u == i - K + 1
                   v == j - K + 1
        <4>1. u \in Nat /\ v \in Nat /\ u < v
          BY <3>3, <2>3, <1>2, <1>9
        <4>2. queue'[i] = Append(n, u) /\ queue'[j] = Append(n, v)
          BY <3>3, <1>9
        <4> HIDE DEF u, v
        <4> QED
          BY <4>1, <4>2, <1>2, SiblingsInOrder
      <3> QED
        BY <3>1, <3>2, <3>3, <2>3, <1>2, <1>9
    <2>4. ASSUME NEW i \in 1..L
          PROVE  /\ queue'[i] \in Seq(Nat)
                 /\ Len(n) <= Len(queue'[i]) /\ Len(queue'[i]) <= Len(n) + 1
      <3>1. CASE i < K
        <4>1. PICK k \in Queued : k > 1 /\ queue'[i] = queue[k]
          BY <3>1, <1>9
        <4> QED
          BY <4>1, <2>1
      <3>2. CASE i >= K
        <4>1. PICK c \in 1..a : queue'[i] = Append(n, c)
          BY <3>2, <1>9
        <4>2. Append(n, c) \in Seq(Nat) /\ Len(Append(n, c)) = Len(n) + 1 /\ Len(n) \in Nat
          BY <1>2, ChildBelow
        <4> QED
          BY <4>1, <4>2
      <3> QED
        BY <3>1, <3>2, <1>9
    <2>5. \A i, j \in 1..L : Len(queue'[j]) <= Len(queue'[i]) + 1
      BY <2>4, <1>2
    <2>6. ASSUME NEW d \in done', NEW i \in 1..L
          PROVE  LevelBefore(d, queue'[i])
      <3>1. CASE i < K
        <4>1. PICK k \in Queued : k > 1 /\ queue'[i] = queue[k]
          BY <3>1, <1>9
        <4>2. CASE d \in done
          BY <4>1, <4>2 DEF WalkInv, QueueInOrder
        <4>3. CASE d = n
          BY <4>1, <4>3, <1>11
        <4> QED
          BY <4>2, <4>3, <1>8
      <3>2. CASE i >= K
        <4>1. Len(d) <= Len(n) /\ d \in Seq(Nat)
          BY <1>1, <1>2, <1>8, TreePositions DEF WalkInv, WalkTypeOK
        <4>2. PICK c \in 1..a : queue'[i] = Append(n, c)
          BY <3>2, <1>9
        <4>3. Len(d) < Len(Append(n, c))
          BY <4>1, <1>2, <1>4
        <4> QED
          BY <4>2, <4>3 DEF LevelBefore
      <3> QED
        BY <3>1, <3>2, <1>9
    <2> QED
      BY <2>3, <2>5, <2>6, <1>8 DEF QueueInOrder
  <1>14. RestIsCovered'
    <2> SUFFICES ASSUME NEW q \in DOMAIN ast, q \notin done'
                 PROVE  \E i \in 1..L : IsPrefix(queue'[i], q)
      BY <1>8 DEF RestIsCovered
    <2>1. PICK i \in Queued : IsPrefix(queue[i], q)
      BY <1>8 DEF WalkInv, RestIsCovered
    <2>2. CASE i # 1
      <3>1. i - 1 \in 1..(K - 1) /\ i - 1 \in 1..L /\ (i - 1) + 1 = i
        BY <2>2, <1>2 DEF L
      <3>2. queue'[i - 1] = queue[i]
        BY <3>1, <1>7
      <3> QED
        BY <3>1, <3>2, <2>1
    <2>3. CASE i = 1
      <3>1. IsStrictPrefix(n, q)
        BY <2>1, <2>3, <1>1, <1>8 DEF IsStrictPrefix
      <3>2. PICK c \in 1..a : IsPrefix(Append(n, c), q)
        BY <3>1, <1>1, <1>2, TreeStep
      <3>3. K + c - 1 \in K..L /\ K + c - 1 \in 1..L /\ (K + c - 1) - K + 1 = c
        BY <1>2 DEF L
      <3> QED
        BY <3>2, <3>3, <1>7
    <2> QED
      BY <2>2, <2>3
  <1> QED
    BY <1>10, <1>12, <1>13, <1>14 DEF WalkInv

(***************************************************************************)
(* What the invariant says of a walk that is over, and of any other.       *)
(***************************************************************************)
LEMMA EmptyQueueMeansDone == WalkInv => WalkReachesAll
  <1> SUFFICES ASSUME WalkInv, queue = <<>> PROVE done = DOMAIN ast
    BY DEF WalkReachesAll
  <1>1. Queued = {}
    BY DEF Queued
  <1> QED
    BY <1>1 DEF WalkInv, WalkTypeOK, RestIsCovered

LEMMA InvMeansLevelOrder == WalkInv => CallsInLevelOrder
  <1> SUFFICES ASSUME WalkInv, NEW d \in done, NEW q \in DOMAIN ast \ done
               PROVE  LevelBefore(d, q)
    BY DEF CallsInLevelOrder
  <1>1. PICK i \in Queued : IsPrefix(queue[i], q)
    BY DEF WalkInv, RestIsCovered
  <1>2. /\ queue[i] \in Seq(Nat) /\ q \in Seq(Nat) /\ d \in Seq(Nat)
        /\ LevelBefore(d, queue[i])
    BY TreePositions DEF WalkInv, WalkTypeOK, QueueInOrder, Queued
  <1>3. CASE Len(queue[i]) = Len(q)
    BY <1>1, <1>2, <1>3, PrefixSameLength
  <1>4. CASE Len(queue[i]) < Len(q)
    BY <1>2, <1>4 DEF LevelBefore
  <1>5. Len(queue[i]) <= Len(q)
    BY <1>1, <1>2 DEF IsPrefix
  <1> QED
    BY <1>2, <1>3, <1>4, <1>5

(***************************************************************************)
(* While pass 1 runs, a node holds the innermost of the scopes around it   *)
(* that have been called back so far, and null as long as there is none.   *)
(***************************************************************************)
DoneScopes(p) == {s \in Scopes(ast) \cap done : IsStrictPrefix(s, p)}

HoldsInnermost(held, p) ==
  IF DoneScopes(p) = {}
  THEN held = Null
  ELSE /\ held \in DoneScopes(p)
       /\ \A s \in DoneScopes(p) : Len(s) <= Len(held)

ScopesSoFar ==
  /\ \A n \in Symbols(ast) : HoldsInnermost(scope[n], n)
  /\ \A s \in Scopes(ast) : HoldsInnermost(parent[s], s)

ScopesAreInnermost ==
  /\ \A n \in Symbols(ast) : IsInnermost(scope[n], n)
  /\ \A s \in Scopes(ast) :
       IF s = Root THEN parent[s] = Null ELSE IsInnermost(parent[s], s)

NameInv ==
  /\ ast \in Programs
  /\ TypeOK
  /\ WalkInv
  /\ pass = "resolveScope" => ScopesSoFar
  /\ pass # "resolveScope" => ScopesAreInnermost

LEMMA KindsApart ==
  ASSUME NEW t
  PROVE  /\ Scopes(t) \subseteq DOMAIN t /\ Symbols(t) \subseteq DOMAIN t
         /\ Declarations(t) \subseteq Symbols(t) /\ References(t) \subseteq Symbols(t)
         /\ Declarations(t) \subseteq DOMAIN t /\ References(t) \subseteq DOMAIN t
  BY DEF Scopes, Symbols, Declarations, References, OfKind

LEMMA NameInvInit ==
  ASSUME Init
  PROVE  NameInv
  <1>1. ast \in Programs /\ IsTree(ast)
    BY ProgramsAreTrees DEF Init
  <1>2. WalkInv
    BY <1>1, WalkStarts DEF Init
  <1>3. TypeOK
    BY <1>2 DEF Init, TypeOK, WalkInv, NoError
  <1>4. ScopesSoFar
    <2>1. \A p : DoneScopes(p) = {}
      BY DEF Init, StartWalk, DoneScopes
    <2> QED
      BY <2>1 DEF Init, ScopesSoFar, HoldsInnermost
  <1> QED
    BY <1>1, <1>2, <1>3, <1>4 DEF NameInv, Init

(***************************************************************************)
(* Pass 1.                                                                 *)
(***************************************************************************)

(* A scope that is called back is the innermost so far for what is below   *)
(* it; to anything else it is nothing.                                     *)
LEMMA NewScopeIsInnermost ==
  ASSUME WalkInv, NEW n, VisitFront(n), ast' = ast, n \in Scopes(ast),
         NEW p \in DOMAIN ast, NEW held, HoldsInnermost(held, p)
  PROVE  HoldsInnermost(IF p \in Below(ast, n) THEN n ELSE held, p)'
  <1>1. /\ n \in DOMAIN ast /\ n \notin done /\ done' = done \cup {n} /\ n \in Seq(Nat)
        /\ \A d \in done : Len(d) <= Len(n)
    BY FrontOfQueue, TreePositions DEF VisitFront, WalkInv, WalkTypeOK
  <1>2. CASE p \in Below(ast, n)
    <2>1. DoneScopes(p)' = DoneScopes(p) \cup {n}
      BY <1>1, <1>2 DEF DoneScopes, Below
    <2>2. \A s \in DoneScopes(p)' : Len(s) <= Len(n)
      BY <1>1, <2>1 DEF DoneScopes
    <2> QED
      BY <1>2, <2>1, <2>2 DEF HoldsInnermost
  <1>3. CASE p \notin Below(ast, n)
    <2>1. DoneScopes(p)' = DoneScopes(p)
      BY <1>1, <1>3 DEF DoneScopes, Below
    <2> QED
      BY <1>3, <2>1 DEF HoldsInnermost
  <1> QED
    BY <1>2, <1>3

LEMMA ResolveScopeInv ==
  ASSUME NameInv, NEW n \in DOMAIN ast, ResolveScope(n)
  PROVE  NameInv'
  <1>1. /\ VisitFront(n) /\ pass = "resolveScope"
        /\ UNCHANGED <<ast, pass, symbolset, sym, error>>
    BY DEF ResolveScope
  <1>2. WalkInv /\ WalkInv' /\ WalkTypeOK' /\ ScopesSoFar /\ TypeOK
    BY <1>1, WalkVisit DEF NameInv, WalkInv
  <1>3. CASE n \in Scopes(ast)
    <2>1. HandOutScope(n)
      BY <1>3 DEF ResolveScope
    <2>2. TypeOK'
      BY <1>1, <1>2, <1>3, <2>1 DEF TypeOK, HandOutScope
    <2>3. ASSUME NEW p \in Symbols(ast)
          PROVE  HoldsInnermost(scope[p], p)'
      <3>1. scope'[p] = IF p \in Below(ast, n) THEN n ELSE scope[p]
        BY <2>1, <2>3 DEF HandOutScope
      <3>2. HoldsInnermost(scope[p], p) /\ p \in DOMAIN ast
        BY <1>2, <2>3, KindsApart DEF ScopesSoFar
      <3> QED
        BY <1>1, <1>2, <1>3, <3>1, <3>2, NewScopeIsInnermost
    <2>4. ASSUME NEW p \in Scopes(ast)
          PROVE  HoldsInnermost(parent[p], p)'
      <3>1. parent'[p] = IF p \in Below(ast, n) THEN n ELSE parent[p]
        BY <2>1, <2>4 DEF HandOutScope
      <3>2. HoldsInnermost(parent[p], p) /\ p \in DOMAIN ast
        BY <1>2, <2>4, KindsApart DEF ScopesSoFar
      <3> QED
        BY <1>1, <1>2, <1>3, <3>1, <3>2, NewScopeIsInnermost
    <2> QED
      BY <1>1, <1>2, <2>2, <2>3, <2>4 DEF NameInv, ScopesSoFar
  <1>4. CASE n \notin Scopes(ast)
    <2>1. UNCHANGED <<scope, parent>>
      BY <1>4 DEF ResolveScope
    <2>2. TypeOK'
      BY <1>1, <1>2, <2>1 DEF TypeOK
    <2>3. \A p : DoneScopes(p)' = DoneScopes(p)
      BY <1>1, <1>4 DEF VisitFront, DoneScopes
    <2>4. ScopesSoFar'
      BY <1>1, <1>2, <2>1, <2>3 DEF ScopesSoFar, HoldsInnermost
    <2> QED
      BY <1>1, <1>2, <2>2, <2>4 DEF NameInv
  <1> QED
    BY <1>3, <1>4

(* The walk over, the scopes so far are all the scopes there are.          *)
LEMMA BeginSymbolsInv ==
  ASSUME NameInv, BeginSymbols
  PROVE  NameInv'
  <1>1. /\ pass = "resolveScope" /\ pass' = "resolveSymbol" /\ RestartWalk
        /\ UNCHANGED <<ast, scope, parent, symbolset, sym, error>>
    BY DEF BeginSymbols
  <1>2. IsTree(ast) /\ ast \in Programs
    BY DEF NameInv, WalkInv, WalkTypeOK
  <1>3. WalkInv'
    BY <1>1, <1>2, WalkRestarts
  <1>4. TypeOK'
    BY <1>1, <1>3 DEF NameInv, TypeOK, WalkInv
  <1>5. done = DOMAIN ast
    BY EmptyQueueMeansDone DEF NameInv, BeginSymbols, WalkReachesAll
  <1>6. \A p : DoneScopes(p) = {s \in Scopes(ast) : Encloses(s, p)}
    BY <1>5, KindsApart DEF DoneScopes, Encloses
  <1>7. /\ Root \in Scopes(ast) /\ Root \notin Symbols(ast)
        /\ \A p \in DOMAIN ast : p # Root => Encloses(Root, p)
        /\ \A p \in DOMAIN ast : ~ IsStrictPrefix(p, Root)
    <2>1. ast[Root].kind = "program" /\ Root \in DOMAIN ast
      BY <1>2, RootIsProgram, RootAboveAll
    <2>2. Root \in Scopes(ast) /\ Root \notin Symbols(ast)
      BY <2>1 DEF Scopes, Symbols, Declarations, References, OfKind, ScopeKinds,
                  DeclarationKinds
    <2> QED
      BY <1>2, <2>2, RootAboveAll DEF Encloses, IsStrictPrefix
  <1>8. ASSUME NEW held, NEW p \in DOMAIN ast, p # Root, HoldsInnermost(held, p)
        PROVE  IsInnermost(held, p)
    <2>1. Root \in DoneScopes(p)
      BY <1>6, <1>7, <1>8
    <2>2. held \in DoneScopes(p) /\ \A s \in DoneScopes(p) : Len(s) <= Len(held)
      BY <2>1, <1>8 DEF HoldsInnermost
    <2> QED
      BY <2>2, <1>6 DEF IsInnermost
  <1>9. ScopesAreInnermost
    <2>1. ScopesSoFar
      BY <1>1 DEF NameInv
    <2>2. \A n \in Symbols(ast) : IsInnermost(scope[n], n)
      BY <2>1, <1>7, <1>8, KindsApart DEF ScopesSoFar
    <2>3. \A s \in Scopes(ast) : s # Root => IsInnermost(parent[s], s)
      BY <2>1, <1>8, KindsApart DEF ScopesSoFar
    <2>4. DoneScopes(Root) = {}
      BY <1>7, KindsApart DEF DoneScopes
    <2>5. parent[Root] = Null
      BY <2>1, <2>4, <1>7 DEF ScopesSoFar, HoldsInnermost
    <2> QED
      BY <2>2, <2>3, <2>5 DEF ScopesAreInnermost
  <1>10. ScopesAreInnermost'
    BY <1>1, <1>9 DEF ScopesAreInnermost, IsInnermost, Encloses
  <1> QED
    BY <1>1, <1>2, <1>3, <1>4, <1>10 DEF NameInv

(***************************************************************************)
(* Pass 2 leaves the scopes alone.                                         *)
(***************************************************************************)
LEMMA SymbolStepInv ==
  ASSUME NameInv, NEW n \in DOMAIN ast, VisitSymbol(n),
         pass' \in {"resolveSymbol", "failed"},
         symbolset' \in [Scopes(ast) -> SUBSET Declarations(ast)],
         sym' \in [References(ast) -> Declarations(ast) \cup {Null}],
         error'.kind \in {"none", "not defined", "already defined"},
         error'.at \in DOMAIN ast \cup {Null}
  PROVE  NameInv'
  <1>1. VisitFront(n) /\ pass = "resolveSymbol" /\ UNCHANGED <<ast, scope, parent>>
    BY DEF VisitSymbol
  <1>2. WalkInv'
    BY <1>1, WalkVisit DEF NameInv
  <1>3. TypeOK'
    BY <1>1, <1>2 DEF NameInv, TypeOK, WalkInv
  <1>4. ScopesAreInnermost'
    BY <1>1 DEF NameInv, ScopesAreInnermost, IsInnermost, Encloses
  <1> QED
    BY <1>1, <1>2, <1>3, <1>4 DEF NameInv

LEMMA NameNextInv ==
  ASSUME NameInv, Next
  PROVE  NameInv'
  <1>1. CASE \E n \in DOMAIN ast : ResolveScope(n)
    BY <1>1, ResolveScopeInv
  <1>2. CASE BeginSymbols
    BY <1>2, BeginSymbolsInv
  <1>3. ASSUME NEW n \in DOMAIN ast,
               Declare(n) \/ Redeclare(n) \/ Refer(n) \/ ReferToNothing(n) \/ Skip(n)
        PROVE  NameInv'
    <2>1. VisitSymbol(n) /\ pass = "resolveSymbol"
      BY <1>3 DEF Declare, Redeclare, Refer, ReferToNothing, Skip, VisitSymbol
    <2>2. /\ symbolset \in [Scopes(ast) -> SUBSET Declarations(ast)]
          /\ sym \in [References(ast) -> Declarations(ast) \cup {Null}]
          /\ error.kind \in {"none", "not defined", "already defined"}
          /\ error.at \in DOMAIN ast \cup {Null}
      BY DEF NameInv, TypeOK
    <2>3. CASE Declare(n)
      <3>1. symbolset' \in [Scopes(ast) -> SUBSET Declarations(ast)]
        BY <2>2, <2>3 DEF Declare
      <3> QED
        BY <3>1, <2>1, <2>2, <2>3, SymbolStepInv DEF Declare
    <2>4. CASE Redeclare(n)
      BY <2>1, <2>2, <2>4, SymbolStepInv DEF Redeclare, Throw
    <2>5. CASE Refer(n)
      <3>1. sym' \in [References(ast) -> Declarations(ast) \cup {Null}]
        BY <2>2, <2>5 DEF Refer
      <3> QED
        BY <3>1, <2>1, <2>2, <2>5, SymbolStepInv DEF Refer
    <2>6. CASE ReferToNothing(n)
      BY <2>1, <2>2, <2>6, SymbolStepInv DEF ReferToNothing, Throw
    <2>7. CASE Skip(n)
      BY <2>1, <2>2, <2>7, SymbolStepInv DEF Skip
    <2> QED
      BY <1>3, <2>3, <2>4, <2>5, <2>6, <2>7
  <1>4. CASE Finish
    BY <1>4 DEF Finish, NameInv, TypeOK, WalkTypeOK, WalkInv, QueueIsFresh, QueueInOrder,
                RestIsCovered, Queued, ScopesAreInnermost, IsInnermost, Encloses
  <1>5. CASE Stop
    BY <1>5 DEF Stop, vars, NameInv, TypeOK, WalkTypeOK, WalkInv, QueueIsFresh, QueueInOrder,
                RestIsCovered, Queued, ScopesAreInnermost, IsInnermost, Encloses
  <1> QED
    BY <1>1, <1>2, <1>3, <1>4, <1>5 DEF Next

LEMMA NameInvariance == Spec => []NameInv
  <1>1. Init => NameInv
    BY NameInvInit
  <1>2. NameInv /\ [Next]_vars => NameInv'
    <2> SUFFICES ASSUME NameInv, UNCHANGED vars PROVE NameInv'
      BY NameNextInv
    <2> QED
      BY DEF vars, NameInv, TypeOK, WalkTypeOK, WalkInv, QueueIsFresh, QueueInOrder,
             RestIsCovered, Queued, ScopesSoFar, HoldsInnermost, DoneScopes,
             ScopesAreInnermost, IsInnermost, Encloses
  <1> QED
    BY <1>1, <1>2, PTL DEF Spec

(***************************************************************************)
(* The variables of the name passes stay well typed.                       *)
(***************************************************************************)
THEOREM NameTypeCorrect == Spec => []TypeOK
  <1>1. NameInv => TypeOK
    BY DEF NameInv
  <1> QED
    BY <1>1, NameInvariance, PTL

(***************************************************************************)
(* Both passes call their handlers level by level, left to right, and on   *)
(* every node before they end.                                             *)
(***************************************************************************)
THEOREM NamePassesInLevelOrder == Spec => [](CallsInLevelOrder /\ WalkReachesAll)
  <1>1. NameInv => CallsInLevelOrder /\ WalkReachesAll
    BY InvMeansLevelOrder, EmptyQueueMeansDone DEF NameInv
  <1> QED
    BY <1>1, NameInvariance, PTL

(***************************************************************************)
(* After resolveScope, and for good, every symbol holds the innermost      *)
(* scope around it and every scope the next one outwards.                  *)
(***************************************************************************)
THEOREM InnermostScope == Spec => []ScopeIsInnermost
  <1>1. NameInv => ScopeIsInnermost
    BY DEF NameInv, ScopesAreInnermost, ScopeIsInnermost
  <1> QED
    BY <1>1, NameInvariance, PTL

(***************************************************************************)
(* Pass 2.  Scope::find, as it is written, is a recursion over the parent  *)
(* pointers.  Here it is the symbols of one scope: the deepest of those    *)
(* around s, s among them, that hold the name.                             *)
(***************************************************************************)
Holding(s, x) == {w \in Scopes(ast) : IsPrefix(w, s) /\ Named(symbolset[w], x) # {}}

Deepest(S) == CHOOSE w \in S : \A v \in S : Len(v) <= Len(w)

NearestSymbols(s, x) ==
  IF s = Null \/ Holding(s, x) = {} THEN {} ELSE Named(symbolset[Deepest(Holding(s, x))], x)

(* Among the nodes above one node there is a deepest, and only one.        *)
LEMMA DeepestExists ==
  ASSUME NEW p \in Seq(Nat), NEW S, S \subseteq Seq(Nat), S # {},
         \A w \in S : IsPrefix(w, p)
  PROVE  /\ Deepest(S) \in S
         /\ \A v \in S : Len(v) <= Len(Deepest(S))
         /\ \A w \in S : (\A v \in S : Len(v) <= Len(w)) => w = Deepest(S)
  <1> DEFINE T == {Len(p) - Len(w) : w \in S}
  <1>1. \A w \in S : Len(w) \in Nat /\ Len(w) <= Len(p)
    BY DEF IsPrefix
  <1>2. T \subseteq Nat /\ T # {}
    BY <1>1
  <1>3. PICK n \in T : \A m \in T : n <= m
    BY <1>2, LeastNumber
  <1>4. PICK w \in S : n = Len(p) - Len(w)
    BY <1>3
  <1>5. \A v \in S : Len(v) <= Len(w)
    <2>1. \A v \in S : Len(p) - Len(w) <= Len(p) - Len(v)
      BY <1>3, <1>4
    <2> QED
      BY <2>1, <1>1
  <1>6. Deepest(S) \in S /\ \A v \in S : Len(v) <= Len(Deepest(S))
    BY <1>4, <1>5 DEF Deepest
  <1>7. ASSUME NEW u \in S, \A v \in S : Len(v) <= Len(u)
        PROVE  u = Deepest(S)
    <2>1. Len(u) = Len(Deepest(S))
      BY <1>1, <1>6, <1>7
    <2>2. IsPrefix(u, Deepest(S))
      BY <2>1, <1>6, PrefixComparable
    <2> QED
      BY <2>1, <2>2, <1>6, PrefixSameLength
  <1> QED
    BY <1>6, <1>7

(* The scopes around a scope are itself and those around its parent.       *)
LEMMA ParentIsNext ==
  ASSUME NameInv, pass # "resolveScope", NEW s \in Scopes(ast)
  PROVE  IF s = Root
         THEN parent[s] = Null /\ \A w \in Scopes(ast) : IsPrefix(w, s) => w = s
         ELSE /\ parent[s] \in Scopes(ast) /\ Len(parent[s]) < Len(s)
              /\ \A w \in Scopes(ast) :
                   IsPrefix(w, s) <=> w = s \/ IsPrefix(w, parent[s])
  <1>1. IsTree(ast) /\ ScopesAreInnermost
    BY DEF NameInv, TypeOK, WalkTypeOK
  <1>2. \A w \in Scopes(ast) : w \in DOMAIN ast /\ w \in Seq(Nat)
    BY <1>1, KindsApart, TreePositions
  <1>3. CASE s = Root
    <2>1. \A w \in Scopes(ast) : IsPrefix(w, s) => w = s
      BY <1>1, <1>2, <1>3, RootAboveAll DEF IsStrictPrefix
    <2> QED
      BY <1>1, <1>3, <2>1 DEF ScopesAreInnermost
  <1>4. CASE s # Root
    <2>1. IsInnermost(parent[s], s)
      BY <1>1, <1>4 DEF ScopesAreInnermost
    <2>2. parent[s] \in Scopes(ast) /\ IsStrictPrefix(parent[s], s)
      BY <2>1 DEF IsInnermost, Encloses
    <2>3. Len(parent[s]) < Len(s)
      BY <1>2, <2>2, StrictPrefixShorter
    <2>4. ASSUME NEW w \in Scopes(ast), IsPrefix(w, s), w # s
          PROVE  IsPrefix(w, parent[s])
      <3>1. Len(w) <= Len(parent[s])
        BY <2>1, <2>4 DEF IsInnermost, Encloses, IsStrictPrefix
      <3> QED
        BY <1>2, <2>2, <2>4, <3>1, PrefixComparable DEF IsStrictPrefix
    <2>5. ASSUME NEW w \in Scopes(ast), IsPrefix(w, parent[s])
          PROVE  IsPrefix(w, s)
      BY <1>2, <2>2, <2>5, PrefixTransitive DEF IsStrictPrefix
    <2> QED
      BY <1>2, <1>4, <2>2, <2>3, <2>4, <2>5, PrefixReflexive
  <1> QED
    BY <1>3, <1>4

(* NearestSymbols solves the equation of Scope::find.                      *)
LEMMA NearestStep ==
  ASSUME NameInv, pass # "resolveScope", NEW s \in Scopes(ast), NEW x
  PROVE  NearestSymbols(s, x) =
           IF Named(symbolset[s], x) # {} THEN Named(symbolset[s], x)
           ELSE NearestSymbols(parent[s], x)
  <1>1. IsTree(ast) /\ Null \notin DOMAIN ast
    BY NullIsNoNode DEF NameInv, TypeOK, WalkTypeOK
  <1>2. /\ s # Null /\ s \in Seq(Nat)
        /\ \A w \in Scopes(ast) : w # Null /\ w \in Seq(Nat)
    BY <1>1, KindsApart, TreePositions
  <1>3. CASE Named(symbolset[s], x) # {}
    <2>1. s \in Holding(s, x)
      BY <1>2, <1>3, PrefixReflexive DEF Holding
    <2>2. \A w \in Holding(s, x) : w \in Seq(Nat) /\ IsPrefix(w, s) /\ Len(w) <= Len(s)
      BY <1>2 DEF Holding, IsPrefix
    <2>3. s = Deepest(Holding(s, x))
      BY <1>2, <2>1, <2>2, DeepestExists
    <2> QED
      BY <1>2, <1>3, <2>1, <2>3 DEF NearestSymbols
  <1>4. CASE Named(symbolset[s], x) = {} /\ s = Root
    <2>1. Holding(s, x) = {} /\ parent[s] = Null
      BY <1>4, ParentIsNext DEF Holding
    <2> QED
      BY <1>4, <2>1 DEF NearestSymbols
  <1>5. CASE Named(symbolset[s], x) = {} /\ s # Root
    <2>1. parent[s] \in Scopes(ast) /\ Holding(s, x) = Holding(parent[s], x)
      BY <1>5, ParentIsNext DEF Holding
    <2> QED
      BY <1>2, <1>5, <2>1 DEF NearestSymbols
  <1> QED
    BY <1>3, <1>4, <1>5

(***************************************************************************)
(* The recursion of Scope::find ends, since parents are shorter, and ends  *)
(* with these symbols.                                                     *)
(***************************************************************************)
LEMMA FindIsNearest ==
  ASSUME NameInv, pass # "resolveScope", NEW s \in Scopes(ast), NEW x
  PROVE  Find(s, x) = NearestSymbols(s, x)
  <1> DEFINE S == Scopes(ast) \cup {Null}
             g == [z \in S |-> NearestSymbols(z, x)]
  <1>1. Null \notin Scopes(ast)
    BY NullIsNoNode, KindsApart DEF NameInv
  <1>2. \A z \in Scopes(ast) : z \in Seq(Nat) /\ Len(z) \in Nat
    <2>1. IsTree(ast)
      BY DEF NameInv, TypeOK, WalkTypeOK
    <2>2. \A z \in Scopes(ast) : z \in Seq(Nat)
      BY <2>1, KindsApart, TreePositions
    <2> QED
      BY <2>2
  <1>3. \A z \in Scopes(ast) : parent[z] \in S
    BY DEF NameInv, TypeOK
  <1>4. g = [z \in S |-> IF z = Null THEN {}
                         ELSE IF Named(symbolset[z], x) # {} THEN Named(symbolset[z], x)
                         ELSE g[parent[z]]]
    <2>1. \A z \in S : NearestSymbols(z, x) =
            IF z = Null THEN {}
            ELSE IF Named(symbolset[z], x) # {} THEN Named(symbolset[z], x)
            ELSE g[parent[z]]
      <3>1. NearestSymbols(Null, x) = {}
        BY DEF NearestSymbols
      <3>2. ASSUME NEW z \in Scopes(ast)
            PROVE  NearestSymbols(z, x) =
                     IF Named(symbolset[z], x) # {} THEN Named(symbolset[z], x)
                     ELSE g[parent[z]]
        <4>1. g[parent[z]] = NearestSymbols(parent[z], x)
          BY <1>3
        <4> QED
          BY <4>1, NearestStep
      <3> QED
        BY <1>1, <3>1, <3>2
    <2> QED
      BY <2>1
  <1> HIDE DEF g
  <1>5. PICK f : /\ Find(s, x) = f[s]
                 /\ f = [z \in S |-> IF z = Null THEN {}
                           ELSE IF Named(symbolset[z], x) # {} THEN Named(symbolset[z], x)
                           ELSE f[parent[z]]]
    BY <1>4, Zenon DEF Find
  <1>6. \A z \in Scopes(ast) : f[z] = IF Named(symbolset[z], x) # {}
                                      THEN Named(symbolset[z], x) ELSE f[parent[z]]
    BY <1>1, <1>5
  <1>7. f[Null] = {}
    BY <1>5
  <1> DEFINE Wrong == {z \in Scopes(ast) : f[z] # NearestSymbols(z, x)}
             T     == {Len(z) : z \in Wrong}
  <1>8. ASSUME Wrong # {} PROVE FALSE
    <2>1. T \subseteq Nat /\ T # {}
      BY <1>2, <1>8
    <2>2. PICK n \in T : \A m \in T : n <= m
      BY <2>1, LeastNumber
    <2>3. PICK z \in Wrong : \A y \in Wrong : Len(z) <= Len(y)
      BY <2>2
    <2>4. f[parent[z]] = NearestSymbols(parent[z], x)
      <3>1. CASE z = Root
        BY <1>7, <3>1, ParentIsNext DEF NearestSymbols
      <3>2. CASE z # Root
        <4>1. parent[z] \in Scopes(ast) /\ Len(parent[z]) < Len(z)
          BY <3>2, ParentIsNext
        <4>2. parent[z] \notin Wrong
          BY <1>2, <2>3, <4>1
        <4> QED
          BY <4>1, <4>2
      <3> QED
        BY <3>1, <3>2
    <2> QED
      BY <1>6, <2>3, <2>4, NearestStep
  <1> QED
    BY <1>5, <1>8

(***************************************************************************)
(* What pass 2 knows: a symbol set holds declarations of its scope that    *)
(* were called back, no name twice, and as long as nothing was thrown all  *)
(* of them; references called back are bound.                              *)
(***************************************************************************)
SetsAreTrue ==
  \A s \in Scopes(ast) : \A d \in symbolset[s] :
    /\ d \in done /\ scope[d] = s
    /\ \A e \in symbolset[s] : ast[d].name = ast[e].name => d = e

AllDeclared == \A d \in Declarations(ast) \cap done : d \in symbolset[scope[d]]
AllBound    == \A r \in References(ast) \cap done : sym[r] # Null

ErrorIsTrue ==
  /\ pass # "failed" => error.kind = "none"
  /\ error.kind = "not defined" => NearestMet(error.at) = {}
  /\ error.kind = "already defined" =>
       \E d \in Declarations(ast) :
         SameScopeTwice(d, error.at) /\ LevelBefore(d, error.at)

SymbolInv ==
  /\ pass = "resolveScope" => \A s \in Scopes(ast) : symbolset[s] = {}
  /\ SetsAreTrue
  /\ pass \in {"resolveSymbol", "resolved"} => AllDeclared /\ AllBound
  /\ pass = "resolved" => queue = <<>>
  /\ ErrorIsTrue
  /\ BindingFollowsLevels

(* Level order is an order.                                                *)
LEMMA LevelBeforeIsOneWay ==
  ASSUME NEW p \in Seq(Nat), NEW q \in Seq(Nat), LevelBefore(p, q)
  PROVE  ~ LevelBefore(q, p)
  <1>1. Len(p) \in Nat /\ Len(q) \in Nat
    OBVIOUS
  <1> QED
    BY <1>1, LeftOfIsOneWay DEF LevelBefore

(* Home, for which no pointer is followed, is what the pointers say.       *)
LEMMA InnermostIsOne ==
  ASSUME IsTree(ast), NEW n \in DOMAIN ast, NEW s, NEW z,
         IsInnermost(s, n), IsInnermost(z, n)
  PROVE  s = z
  <1>1. /\ s \in Seq(Nat) /\ z \in Seq(Nat) /\ n \in Seq(Nat)
        /\ IsPrefix(s, n) /\ IsPrefix(z, n) /\ Len(s) <= Len(z) /\ Len(z) <= Len(s)
    BY KindsApart, TreePositions DEF IsInnermost, Encloses, IsStrictPrefix
  <1>2. IsPrefix(s, z)
    BY <1>1, PrefixComparable
  <1> QED
    BY <1>1, <1>2, PrefixSameLength

LEMMA HomeIsScope ==
  ASSUME IsTree(ast), ScopesAreInnermost, NEW d \in Declarations(ast)
  PROVE  Home(d) = scope[d] /\ scope[d] \in Scopes(ast) /\ IsInnermost(scope[d], d)
  <1>1. d \in DOMAIN ast /\ IsInnermost(scope[d], d)
    BY KindsApart DEF ScopesAreInnermost
  <1>2. scope[d] \in Scopes(ast)
    BY <1>1 DEF IsInnermost, Encloses
  <1>3. Home(d) \in Scopes(ast) /\ IsInnermost(Home(d), d)
    BY <1>1, <1>2 DEF Home
  <1> QED
    BY <1>1, <1>2, <1>3, InnermostIsOne

(* The terms of the properties are about the tree alone.                   *)
LEMMA SameTree ==
  ASSUME ast' = ast
  PROVE  /\ \A d : Home(d)' = Home(d)
         /\ \A r : NearestMet(r)' = NearestMet(r)
         /\ \A d, e : SameScopeTwice(d, e)' <=> SameScopeTwice(d, e)
  <1>1. \A d : Home(d)' = Home(d)
    BY DEF Home, IsInnermost, Encloses
  <1>2. \A r : Met(r)' = Met(r)
    BY <1>1 DEF Met, Named, Encloses
  <1>3. \A r : NearestMet(r)' = NearestMet(r)
    BY <1>1, <1>2 DEF NearestMet
  <1> QED
    BY <1>1, <1>3 DEF SameScopeTwice

(***************************************************************************)
(* When a node is called back the declarations that were called back       *)
(* before it are those that stand before it in level order.                *)
(***************************************************************************)
LEMMA DoneIsBefore ==
  ASSUME NameInv, NEW n \in DOMAIN ast, VisitSymbol(n), NEW d \in DOMAIN ast
  PROVE  d \in done <=> LevelBefore(d, n)
  <1>1. /\ VisitFront(n) /\ ast' = ast /\ WalkInv /\ WalkInv' /\ n \notin done
        /\ done' = done \cup {n}
    BY WalkVisit, FrontOfQueue DEF VisitSymbol, VisitFront, NameInv
  <1>2. d \in Seq(Nat) /\ n \in Seq(Nat)
    BY TreePositions DEF NameInv, TypeOK, WalkTypeOK
  <1>3. CallsInLevelOrder /\ CallsInLevelOrder'
    BY <1>1, InvMeansLevelOrder, PTL
  <1>4. ASSUME d \in done PROVE LevelBefore(d, n)
    BY <1>1, <1>3, <1>4 DEF CallsInLevelOrder
  <1>5. ASSUME d \notin done, d # n PROVE LevelBefore(n, d)
    BY <1>1, <1>3, <1>5 DEF CallsInLevelOrder
  <1> QED
    BY <1>2, <1>4, <1>5, LevelBeforeIsOneWay

(* So the declarations a reference has met are in the symbol sets of the   *)
(* scopes around it, and those symbol sets hold no others.                 *)
LEMMA MetIsDeclared ==
  ASSUME NameInv, SymbolInv, NEW n \in DOMAIN ast, VisitSymbol(n), NEW d
  PROVE  d \in Met(n) <=>
           \E w \in Scopes(ast) : Encloses(w, n) /\ d \in Named(symbolset[w], ast[n].name)
                                  /\ w = Home(d)
  <1>1. /\ pass = "resolveSymbol" /\ IsTree(ast) /\ ScopesAreInnermost
        /\ symbolset \in [Scopes(ast) -> SUBSET Declarations(ast)]
        /\ SetsAreTrue /\ AllDeclared
    BY DEF VisitSymbol, NameInv, SymbolInv, TypeOK, WalkTypeOK
  <1>2. ASSUME d \in Met(n)
        PROVE  /\ Home(d) \in Scopes(ast) /\ Encloses(Home(d), n)
               /\ d \in Named(symbolset[Home(d)], ast[n].name)
    <2>1. /\ d \in Declarations(ast) /\ ast[d].name = ast[n].name
          /\ LevelBefore(d, n) /\ Encloses(Home(d), n)
      BY <1>2 DEF Met, Named
    <2>2. d \in done
      BY <2>1, KindsApart, DoneIsBefore
    <2>3. Home(d) = scope[d] /\ scope[d] \in Scopes(ast)
      BY <1>1, <2>1, HomeIsScope
    <2> QED
      BY <1>1, <2>1, <2>2, <2>3 DEF AllDeclared, Named
  <1>3. ASSUME NEW w \in Scopes(ast), Encloses(w, n),
               d \in Named(symbolset[w], ast[n].name), w = Home(d)
        PROVE  d \in Met(n)
    <2>1. d \in symbolset[w] /\ ast[d].name = ast[n].name /\ d \in Declarations(ast)
      BY <1>1, <1>3 DEF Named
    <2>2. d \in done
      BY <1>1, <2>1 DEF SetsAreTrue
    <2>3. LevelBefore(d, n)
      BY <2>1, <2>2, KindsApart, DoneIsBefore
    <2> QED
      BY <1>3, <2>1, <2>3 DEF Met, Named
  <1> QED
    BY <1>2, <1>3

LEMMA SetsAreHomes ==
  ASSUME NameInv, SymbolInv, pass # "resolveScope",
         NEW w \in Scopes(ast), NEW d \in symbolset[w]
  PROVE  d \in Declarations(ast) /\ Home(d) = w
  <1>1. /\ IsTree(ast) /\ ScopesAreInnermost /\ SetsAreTrue
        /\ symbolset \in [Scopes(ast) -> SUBSET Declarations(ast)]
    BY DEF NameInv, SymbolInv, TypeOK, WalkTypeOK
  <1>2. d \in Declarations(ast) /\ scope[d] = w
    BY <1>1 DEF SetsAreTrue
  <1> QED
    BY <1>1, <1>2, HomeIsScope

(* Scope::find finds for a reference the nearest declarations it has met.  *)
LEMMA FindIsNearestMet ==
  ASSUME NameInv, SymbolInv, NEW n \in References(ast), VisitSymbol(n)
  PROVE  Find(scope[n], ast[n].name) = NearestMet(n)
  <1> DEFINE x == ast[n].name
             H == Holding(scope[n], x)
             w == Deepest(H)
  <1>1. /\ pass = "resolveSymbol" /\ IsTree(ast) /\ ScopesAreInnermost /\ ast \in Programs
        /\ n \in DOMAIN ast /\ n \in Symbols(ast)
    BY KindsApart DEF VisitSymbol, NameInv, TypeOK, WalkTypeOK
  <1>2. IsInnermost(scope[n], n) /\ scope[n] \in Scopes(ast) /\ scope[n] # Null
    BY <1>1, KindsApart, NullIsNoNode DEF ScopesAreInnermost, IsInnermost, Encloses
  <1>3. \A v \in Scopes(ast) : v \in Seq(Nat) /\ Len(v) \in Nat
    <2>1. \A v \in Scopes(ast) : v \in Seq(Nat)
      BY <1>1, KindsApart, TreePositions
    <2> QED
      BY <2>1
  <1>4. \A v \in Scopes(ast) : Encloses(v, n) <=> IsPrefix(v, scope[n])
    <2>1. n \in Seq(Nat)
      BY <1>1, TreePositions
    <2>2. IsStrictPrefix(scope[n], n)
      BY <1>2 DEF IsInnermost, Encloses
    <2>3. ASSUME NEW v \in Scopes(ast), Encloses(v, n) PROVE IsPrefix(v, scope[n])
      <3>1. Len(v) <= Len(scope[n])
        BY <1>2, <2>3 DEF IsInnermost
      <3> QED
        BY <1>2, <1>3, <2>1, <2>2, <2>3, <3>1, PrefixComparable DEF Encloses, IsStrictPrefix
    <2>4. ASSUME NEW v \in Scopes(ast), IsPrefix(v, scope[n]) PROVE Encloses(v, n)
      BY <1>2, <1>3, <2>1, <2>2, <2>4, StrictPrefixTransitive DEF Encloses
    <2> QED
      BY <2>3, <2>4
  <1>5. Find(scope[n], x) = NearestSymbols(scope[n], x)
    BY <1>1, <1>2, FindIsNearest
  <1>6. \A d : d \in Met(n) <=> \E v \in H : d \in Named(symbolset[v], x) /\ v = Home(d)
    BY <1>1, <1>4, MetIsDeclared DEF Holding
  <1>7. \A v \in H : \A d \in Named(symbolset[v], x) : Home(d) = v
    BY <1>1, SetsAreHomes DEF Holding, Named
  <1>8. CASE H = {}
    <2>1. Met(n) = {} /\ NearestMet(n) = {}
      BY <1>6, <1>8 DEF NearestMet
    <2> QED
      BY <1>5, <1>8, <2>1 DEF NearestSymbols
  <1>9. CASE H # {}
    <2>1. Find(scope[n], x) = Named(symbolset[w], x)
      BY <1>2, <1>5, <1>9 DEF NearestSymbols
    <2>2. /\ w \in H /\ \A v \in H : Len(v) <= Len(w)
          /\ \A u \in H : (\A v \in H : Len(v) <= Len(u)) => u = w
      <3>1. H \subseteq Seq(Nat) /\ scope[n] \in Seq(Nat) /\ \A v \in H : IsPrefix(v, scope[n])
        BY <1>2, <1>3 DEF Holding
      <3> QED
        BY <1>9, <3>1, DeepestExists
    <2> HIDE DEF w
    <2>3. ASSUME NEW d \in Named(symbolset[w], x) PROVE d \in NearestMet(n)
      <3>1. Home(d) = w /\ d \in Met(n)
        BY <1>6, <1>7, <2>2, <2>3
      <3>2. \A e \in Met(n) : Len(Home(e)) <= Len(w)
        BY <1>6, <2>2
      <3> QED
        BY <3>1, <3>2 DEF NearestMet
    <2>4. PICK c : c \in Named(symbolset[w], x)
      BY <2>2 DEF Holding
    <2>5. ASSUME NEW d \in NearestMet(n) PROVE d \in Named(symbolset[w], x)
      <3>1. d \in Met(n) /\ \A e \in Met(n) : Len(Home(e)) <= Len(Home(d))
        BY <2>5 DEF NearestMet
      <3>2. Home(d) \in H /\ d \in Named(symbolset[Home(d)], x)
        BY <1>6, <3>1
      <3>3. c \in Met(n) /\ Home(c) = w
        BY <1>6, <1>7, <2>2, <2>4
      <3>4. \A v \in H : Len(v) <= Len(Home(d))
        <4>1. Len(w) <= Len(Home(d))
          BY <3>1, <3>3
        <4>2. \A v \in H : Len(v) \in Nat
          BY <1>3 DEF Holding
        <4> QED
          BY <2>2, <3>2, <4>1, <4>2
      <3>5. Home(d) = w
        BY <2>2, <3>2, <3>4
      <3> QED
        BY <3>2, <3>5
    <2> QED
      BY <2>1, <2>3, <2>5
  <1> QED
    BY <1>8, <1>9

(* Two of them would have one home and one name.                           *)
LEMMA FoundIsOne ==
  ASSUME NameInv, SymbolInv, NEW n \in References(ast), VisitSymbol(n),
         NEW d \in NearestMet(n)
  PROVE  NearestMet(n) = {d}
  <1> SUFFICES ASSUME NEW e \in NearestMet(n) PROVE e = d
    OBVIOUS
  <1>1. n \in DOMAIN ast /\ pass = "resolveSymbol" /\ IsTree(ast)
    BY KindsApart DEF VisitSymbol, NameInv, TypeOK, WalkTypeOK
  <1>2. d \in Met(n) /\ e \in Met(n) /\ Len(Home(d)) <= Len(Home(e)) /\ Len(Home(e)) <= Len(Home(d))
    BY DEF NearestMet
  <1>3. /\ Home(d) \in Scopes(ast) /\ Encloses(Home(d), n)
        /\ d \in symbolset[Home(d)] /\ ast[d].name = ast[n].name
        /\ Home(e) \in Scopes(ast) /\ Encloses(Home(e), n)
        /\ e \in symbolset[Home(e)] /\ ast[e].name = ast[n].name
    BY <1>1, <1>2, MetIsDeclared DEF Named
  <1>4. /\ Home(d) \in Seq(Nat) /\ Home(e) \in Seq(Nat) /\ n \in Seq(Nat)
        /\ IsPrefix(Home(d), n) /\ IsPrefix(Home(e), n)
    BY <1>1, <1>3, KindsApart, TreePositions DEF Encloses, IsStrictPrefix
  <1>5. Len(Home(d)) = Len(Home(e)) /\ IsPrefix(Home(d), Home(e))
    BY <1>2, <1>4, PrefixComparable
  <1>6. Home(d) = Home(e)
    BY <1>4, <1>5, PrefixSameLength
  <1> QED
    BY <1>3, <1>6 DEF SymbolInv, SetsAreTrue

(***************************************************************************)
(* The steps.                                                              *)
(***************************************************************************)
LEMMA SymbolInvInit == Init => SymbolInv
  <1> SUFFICES ASSUME Init PROVE SymbolInv
    OBVIOUS
  <1>1. \A s \in Scopes(ast) : symbolset[s] = {}
    BY DEF Init
  <1>2. \A r \in References(ast) : sym[r] = Null
    BY DEF Init
  <1> QED
    BY <1>1, <1>2 DEF Init, SymbolInv, SetsAreTrue, ErrorIsTrue, NoError, BindingFollowsLevels

(* Steps that leave tree, symbol sets and bindings, or the error, alone.   *)
LEMMA SetsStay ==
  ASSUME SymbolInv, UNCHANGED <<ast, scope, symbolset, sym>>,
         done \subseteq done' \/ \A s \in Scopes(ast) : symbolset[s] = {}
  PROVE  SetsAreTrue' /\ BindingFollowsLevels'
  <1>1. SetsAreTrue'
    BY DEF SymbolInv, SetsAreTrue
  <1>2. BindingFollowsLevels'
    BY SameTree DEF SymbolInv, BindingFollowsLevels
  <1> QED
    BY <1>1, <1>2

LEMMA ErrorStays ==
  ASSUME SymbolInv, UNCHANGED <<ast, error>>, pass # "failed" \/ pass' = "failed"
  PROVE  ErrorIsTrue'
  BY SameTree DEF SymbolInv, ErrorIsTrue

LEMMA OtherStepInv ==
  ASSUME NameInv, SymbolInv,
         (\E n \in DOMAIN ast : ResolveScope(n)) \/ BeginSymbols \/ Finish \/ UNCHANGED vars
  PROVE  SymbolInv'
  <1>1. CASE \E n \in DOMAIN ast : ResolveScope(n)
    <2>1. /\ pass = "resolveScope" /\ pass' = pass
          /\ UNCHANGED <<ast, symbolset, sym, error>>
      BY <1>1 DEF ResolveScope
    <2>2. \A s \in Scopes(ast) : symbolset[s] = {}
      BY <2>1 DEF SymbolInv
    <2>3. SetsAreTrue' /\ BindingFollowsLevels' /\ ErrorIsTrue'
      <3>1. SetsAreTrue'
        BY <2>1, <2>2 DEF SetsAreTrue
      <3>2. BindingFollowsLevels'
        BY <2>1, SameTree DEF SymbolInv, BindingFollowsLevels
      <3> QED
        BY <2>1, <3>1, <3>2, ErrorStays
    <2> QED
      BY <2>1, <2>2, <2>3 DEF SymbolInv
  <1>2. CASE BeginSymbols
    <2>1. /\ pass = "resolveScope" /\ pass' = "resolveSymbol" /\ done' = {}
          /\ UNCHANGED <<ast, scope, symbolset, sym, error>>
      BY <1>2 DEF BeginSymbols, RestartWalk
    <2>2. \A s \in Scopes(ast) : symbolset[s] = {}
      BY <2>1 DEF SymbolInv
    <2>3. AllDeclared' /\ AllBound'
      BY <2>1 DEF AllDeclared, AllBound
    <2>4. ErrorIsTrue' /\ SetsAreTrue' /\ BindingFollowsLevels'
      BY <2>1, <2>2, SetsStay, ErrorStays
    <2> QED
      BY <2>1, <2>3, <2>4 DEF SymbolInv
  <1>3. CASE Finish
    <2>1. /\ pass = "resolveSymbol" /\ pass' = "resolved" /\ queue' = <<>>
          /\ UNCHANGED <<ast, queue, seen, done, scope, parent, symbolset, sym, error>>
      BY <1>3 DEF Finish
    <2>2. AllDeclared' /\ AllBound'
      BY <2>1 DEF SymbolInv, AllDeclared, AllBound
    <2>3. ErrorIsTrue' /\ SetsAreTrue' /\ BindingFollowsLevels'
      BY <2>1, SetsStay, ErrorStays
    <2> QED
      BY <2>1, <2>2, <2>3 DEF SymbolInv
  <1>4. CASE UNCHANGED vars
    <2>1. UNCHANGED <<ast, queue, done, pass, scope, symbolset, sym, error>>
      BY <1>4 DEF vars
    <2>2. AllDeclared' = AllDeclared /\ AllBound' = AllBound
      BY <2>1 DEF AllDeclared, AllBound
    <2>3. ErrorIsTrue' /\ SetsAreTrue' /\ BindingFollowsLevels'
      BY <2>1, SetsStay, ErrorStays
    <2> QED
      BY <2>1, <2>2, <2>3 DEF SymbolInv
  <1> QED
    BY <1>1, <1>2, <1>3, <1>4

LEMMA DeclareInv ==
  ASSUME NameInv, SymbolInv, NEW n \in DOMAIN ast, Declare(n)
  PROVE  SymbolInv'
  <1> DEFINE s == scope[n]
  <1>1. /\ VisitSymbol(n) /\ pass = "resolveSymbol" /\ n \in Declarations(ast)
        /\ Named(symbolset[s], ast[n].name) = {}
        /\ symbolset' = [symbolset EXCEPT ![s] = @ \cup {n}]
        /\ UNCHANGED <<ast, scope, pass, sym, error>> /\ done' = done \cup {n}
    BY DEF Declare, VisitSymbol, VisitFront, ExistsOnSameScope
  <1>2. /\ s \in Scopes(ast) /\ n \notin done
        /\ symbolset \in [Scopes(ast) -> SUBSET Declarations(ast)]
        /\ SetsAreTrue /\ AllDeclared /\ AllBound
    BY <1>1, HomeIsScope, FrontOfQueue
       DEF SymbolInv, NameInv, TypeOK, WalkTypeOK, VisitSymbol
  <1>3. SetsAreTrue'
    <2> SUFFICES ASSUME NEW z \in Scopes(ast), NEW d \in symbolset'[z],
                        NEW e \in symbolset'[z]
                 PROVE  d \in done' /\ scope[d] = z /\ (ast[d].name = ast[e].name => d = e)
      BY <1>1 DEF SetsAreTrue
    <2>1. CASE z # s
      BY <1>1, <1>2, <2>1 DEF SetsAreTrue
    <2>2. CASE z = s
      <3>1. symbolset'[s] = symbolset[s] \cup {n}
        BY <1>1, <1>2
      <3>2. \A c \in symbolset[s] : ast[c].name # ast[n].name
        BY <1>1 DEF Named
      <3> QED
        BY <1>1, <1>2, <2>2, <3>1, <3>2 DEF SetsAreTrue
    <2> QED
      BY <2>1, <2>2
  <1>4. AllDeclared'
    <2> SUFFICES ASSUME NEW d \in Declarations(ast), d \in done'
                 PROVE  d \in symbolset'[scope[d]]
      BY <1>1 DEF AllDeclared
    <2>1. d \in symbolset[scope[d]] \/ d = n
      BY <1>1, <1>2 DEF AllDeclared
    <2>2. scope[d] \in Scopes(ast)
      BY <1>1, HomeIsScope DEF NameInv, TypeOK, WalkTypeOK
    <2> QED
      BY <1>1, <1>2, <2>1, <2>2
  <1>5. AllBound'
    <2>1. n \notin References(ast)
      BY <1>1 DEF Declarations, References, OfKind, DeclarationKinds
    <2> QED
      BY <1>1, <1>2, <2>1 DEF AllBound
  <1>6. ErrorIsTrue' /\ BindingFollowsLevels'
    <2>1. BindingFollowsLevels'
      BY <1>1, SameTree DEF SymbolInv, BindingFollowsLevels
    <2> QED
      BY <1>1, <2>1, ErrorStays
  <1> QED
    BY <1>1, <1>3, <1>4, <1>5, <1>6 DEF SymbolInv

LEMMA ReferInv ==
  ASSUME NameInv, SymbolInv, NEW n \in DOMAIN ast, Refer(n)
  PROVE  SymbolInv'
  <1>1. /\ VisitSymbol(n) /\ pass = "resolveSymbol" /\ n \in References(ast)
        /\ UNCHANGED <<ast, scope, pass, symbolset, error>> /\ done' = done \cup {n}
    BY DEF Refer, VisitSymbol, VisitFront
  <1>2. PICK d \in Find(scope[n], ast[n].name) \cap Declarations(ast) :
          sym' = [sym EXCEPT ![n] = d]
    BY DEF Refer
  <1>3. NearestMet(n) = {d}
    BY <1>1, <1>2, FindIsNearestMet, FoundIsOne
  <1>4. /\ sym \in [References(ast) -> Declarations(ast) \cup {Null}]
        /\ SetsAreTrue /\ AllDeclared /\ AllBound /\ d # Null
    BY <1>1, <1>2, KindsApart, NullIsNoNode DEF SymbolInv, NameInv, TypeOK
  <1>5. BindingFollowsLevels'
    <2> SUFFICES ASSUME NEW r \in References(ast), sym'[r] # Null
                 PROVE  NearestMet(r) = {sym'[r]}
      BY <1>1, SameTree DEF BindingFollowsLevels
    <2>1. CASE r = n
      BY <1>2, <1>3, <1>4, <2>1
    <2>2. CASE r # n
      BY <1>2, <1>4, <2>2 DEF SymbolInv, BindingFollowsLevels
    <2> QED
      BY <2>1, <2>2
  <1>6. SetsAreTrue'
    BY <1>1, <1>4 DEF SetsAreTrue
  <1>7. AllDeclared'
    <2>1. n \notin Declarations(ast)
      BY <1>1 DEF Declarations, References, OfKind, DeclarationKinds
    <2> QED
      BY <1>1, <1>4, <2>1 DEF AllDeclared
  <1>8. AllBound'
    BY <1>1, <1>2, <1>4 DEF AllBound
  <1>9. ErrorIsTrue'
    BY <1>1, ErrorStays
  <1> QED
    BY <1>1, <1>5, <1>6, <1>7, <1>8, <1>9 DEF SymbolInv

LEMMA RedeclareInv ==
  ASSUME NameInv, SymbolInv, NEW n \in DOMAIN ast, Redeclare(n)
  PROVE  SymbolInv'
  <1>1. /\ VisitSymbol(n) /\ pass = "resolveSymbol" /\ n \in Declarations(ast)
        /\ Named(symbolset[scope[n]], ast[n].name) # {}
        /\ pass' = "failed" /\ error' = [kind |-> "already defined", at |-> n]
        /\ UNCHANGED <<ast, scope, symbolset, sym>> /\ done' = done \cup {n}
    BY DEF Redeclare, VisitSymbol, VisitFront, ExistsOnSameScope, Throw
  <1>2. /\ scope[n] \in Scopes(ast) /\ Home(n) = scope[n] /\ n \notin done
        /\ SetsAreTrue
    BY <1>1, HomeIsScope, FrontOfQueue
       DEF SymbolInv, NameInv, TypeOK, WalkTypeOK, VisitSymbol
  <1>3. PICK d : d \in symbolset[scope[n]] /\ ast[d].name = ast[n].name
    BY <1>1 DEF Named
  <1>4. d \in Declarations(ast) /\ Home(d) = scope[n] /\ d \in done
    BY <1>1, <1>2, <1>3, SetsAreHomes DEF SetsAreTrue
  <1>5. SameScopeTwice(d, n) /\ LevelBefore(d, n)
    BY <1>1, <1>2, <1>3, <1>4, DoneIsBefore, KindsApart DEF SameScopeTwice
  <1>6. ErrorIsTrue'
    <2>1. /\ pass' = "failed" /\ error'.kind = "already defined" /\ error'.at = n
          /\ Declarations(ast)' = Declarations(ast)
      BY <1>1 DEF Declarations
    <2>2. SameScopeTwice(d, error.at)' /\ LevelBefore(d, error'.at)
      BY <1>1, <1>5, <2>1, SameTree DEF SameScopeTwice
    <2> QED
      BY <1>4, <2>1, <2>2 DEF ErrorIsTrue
  <1>7. SetsAreTrue' /\ BindingFollowsLevels'
    BY <1>1, SetsStay
  <1> QED
    BY <1>1, <1>6, <1>7 DEF SymbolInv

LEMMA ReferToNothingInv ==
  ASSUME NameInv, SymbolInv, NEW n \in DOMAIN ast, ReferToNothing(n)
  PROVE  SymbolInv'
  <1>1. /\ VisitSymbol(n) /\ pass = "resolveSymbol" /\ n \in References(ast)
        /\ Find(scope[n], ast[n].name) = {}
        /\ pass' = "failed" /\ error' = [kind |-> "not defined", at |-> n]
        /\ UNCHANGED <<ast, scope, symbolset, sym>> /\ done' = done \cup {n}
    BY DEF ReferToNothing, VisitSymbol, VisitFront, Throw
  <1>2. NearestMet(n) = {}
    BY <1>1, FindIsNearestMet
  <1>3. ErrorIsTrue'
    <2>1. pass' = "failed" /\ error'.kind = "not defined" /\ error'.at = n
      BY <1>1
    <2>2. NearestMet(error.at)' = {}
      BY <1>1, <1>2, <2>1, SameTree DEF NearestMet
    <2> QED
      BY <2>1, <2>2 DEF ErrorIsTrue
  <1>4. SetsAreTrue' /\ BindingFollowsLevels'
    BY <1>1, SetsStay
  <1> QED
    BY <1>1, <1>3, <1>4 DEF SymbolInv

LEMMA SkipInv ==
  ASSUME NameInv, SymbolInv, NEW n \in DOMAIN ast, Skip(n)
  PROVE  SymbolInv'
  <1>1. /\ pass = "resolveSymbol" /\ n \notin Symbols(ast)
        /\ UNCHANGED <<ast, scope, pass, symbolset, sym, error>> /\ done' = done \cup {n}
    BY DEF Skip, VisitSymbol, VisitFront
  <1>2. AllDeclared' /\ AllBound'
    BY <1>1 DEF SymbolInv, AllDeclared, AllBound, Symbols
  <1>3. SetsAreTrue' /\ BindingFollowsLevels'
    BY <1>1, SetsStay
  <1>4. ErrorIsTrue'
    BY <1>1, ErrorStays
  <1> QED
    BY <1>1, <1>2, <1>3, <1>4 DEF SymbolInv

LEMMA SymbolInvariance == Spec => [](NameInv /\ SymbolInv)
  <1>1. NameInv /\ SymbolInv /\ [Next]_vars => SymbolInv'
    <2> SUFFICES ASSUME NameInv, SymbolInv, [Next]_vars PROVE SymbolInv'
      OBVIOUS
    <2>1. CASE \E n \in DOMAIN ast : \/ Declare(n) \/ Redeclare(n) \/ Refer(n)
                                     \/ ReferToNothing(n) \/ Skip(n)
      BY <2>1, DeclareInv, RedeclareInv, ReferInv, ReferToNothingInv, SkipInv
    <2>2. CASE (\E n \in DOMAIN ast : ResolveScope(n)) \/ BeginSymbols \/ Finish
               \/ UNCHANGED vars
      BY <2>2, OtherStepInv
    <2> QED
      BY <2>1, <2>2 DEF Next, Stop
  <1> QED
    BY <1>1, SymbolInvInit, NameInvariance, PTL DEF Spec

(***************************************************************************)
(* A reference is bound to the declaration of its name in the nearest      *)
(* scope around it, counting those that stand before it in level order.    *)
(***************************************************************************)
THEOREM BindingRule == Spec => []BindingFollowsLevels
  <1>1. SymbolInv => BindingFollowsLevels
    BY DEF SymbolInv
  <1> QED
    BY <1>1, SymbolInvariance, PTL

(***************************************************************************)
(* The SymbolErrors are true, and a program without one has all references *)
(* bound and no name twice in a scope.                                     *)
(***************************************************************************)
THEOREM VerdictOfNames == Spec => []VerdictIsExact
  <1>1. NameInv /\ SymbolInv => VerdictIsExact
    <2> SUFFICES ASSUME NameInv, SymbolInv PROVE VerdictIsExact
      OBVIOUS
    <2>1. ASSUME pass = "resolved"
          PROVE  /\ \A r \in References(ast) : sym[r] # Null
                 /\ \A d, e \in Declarations(ast) : ~ SameScopeTwice(d, e)
      <3>1. /\ done = DOMAIN ast /\ IsTree(ast) /\ ScopesAreInnermost
            /\ AllDeclared /\ AllBound /\ SetsAreTrue
        BY <2>1, EmptyQueueMeansDone
           DEF NameInv, SymbolInv, WalkReachesAll, TypeOK, WalkTypeOK
      <3>2. \A r \in References(ast) : sym[r] # Null
        BY <3>1, KindsApart DEF AllBound
      <3>3. ASSUME NEW d \in Declarations(ast), NEW e \in Declarations(ast),
                   SameScopeTwice(d, e)
            PROVE  FALSE
        <4>1. /\ d \in symbolset[scope[d]] /\ e \in symbolset[scope[e]]
              /\ Home(d) = scope[d] /\ Home(e) = scope[e] /\ scope[d] \in Scopes(ast)
          BY <3>1, KindsApart, HomeIsScope DEF AllDeclared
        <4>2. d # e /\ ast[d].name = ast[e].name /\ Home(d) = Home(e)
          BY <3>3 DEF SameScopeTwice
        <4>3. e \in symbolset[scope[d]]
          BY <4>1, <4>2
        <4> QED
          BY <3>1, <4>1, <4>2, <4>3 DEF SetsAreTrue
      <3> QED
        BY <3>2, <3>3
    <2> QED
      BY <2>1 DEF SymbolInv, ErrorIsTrue, VerdictIsExact
  <1> QED
    BY <1>1, SymbolInvariance, PTL

=============================================================================
