------------------------------ MODULE Ast_proof ------------------------------
(***************************************************************************)
(* Facts about positions in a tree, used by the proofs of the passes.      *)
(***************************************************************************)
EXTENDS Ast, SequenceTheorems, WellFoundedInduction, TLAPS

(***************************************************************************)
(* Sequences.                                                              *)
(***************************************************************************)

(* A function on 1..k is a sequence of length k.                           *)
LEMMA FunctionIsSeq ==
  ASSUME NEW S, NEW k \in Nat, NEW f \in [1..k -> S]
  PROVE  f \in Seq(S) /\ Len(f) = k
  <1>1. f \in Seq(S)
    BY SeqDef
  <1> QED
    BY <1>1, LenProperties

(* Front drops the last element.                                           *)
LEMMA FrontOfSeq ==
  ASSUME NEW S, NEW s \in Seq(S), Len(s) > 0
  PROVE  /\ Front(s) \in Seq(S)
         /\ Len(Front(s)) = Len(s) - 1
         /\ \A i \in 1..(Len(s) - 1) : Front(s)[i] = s[i]
  <1>1. Len(s) \in Nat
    BY LenProperties
  <1> DEFINE m == Len(s) - 1
  <1>2. Front(s) = SubSeq(s, 1, m)
    BY DEF Front
  <1>3. m \in Nat /\ \A i \in 1..m : s[i] \in S
    BY <1>1, ElementOfSeq
  <1> HIDE DEF m
  <1>4. /\ SubSeq(s, 1, m) \in Seq(S)
        /\ Len(SubSeq(s, 1, m)) = IF 1 <= m THEN m - 1 + 1 ELSE 0
        /\ \A i \in 1..(m - 1 + 1) : SubSeq(s, 1, m)[i] = s[1 + i - 1]
    BY <1>3, SubSeqProperties
  <1>5. /\ SubSeq(s, 1, m) \in Seq(S)
        /\ Len(SubSeq(s, 1, m)) = m
        /\ \A i \in 1..m : SubSeq(s, 1, m)[i] = s[i]
    BY <1>3, <1>4
  <1> QED
    BY <1>2, <1>5 DEF m

(* Reverse keeps the elements and the length.                              *)
LEMMA ReverseOfSeq ==
  ASSUME NEW S, NEW s \in Seq(S)
  PROVE  /\ Reverse(s) \in Seq(S)
         /\ Len(Reverse(s)) = Len(s)
         /\ \A i \in 1..Len(s) : Reverse(s)[i] = s[Len(s) - i + 1]
  <1> DEFINE k == Len(s)
             r == [i \in 1..k |-> s[(k - i) + 1]]
  <1>1. k \in Nat /\ \A i \in 1..k : s[i] \in S
    BY LenProperties, ElementOfSeq
  <1>2. r \in [1..k -> S]
    BY <1>1
  <1>3. r \in Seq(S) /\ Len(r) = k
    BY <1>1, <1>2, FunctionIsSeq
  <1>4. Reverse(s) = r
    BY DEF Reverse
  <1> QED
    BY <1>3, <1>4

(* A number in any set of them is the least one.                           *)
LEMMA LeastNumber ==
  ASSUME NEW T, T \subseteq Nat, T # {}
  PROVE  \E n \in T : \A m \in T : n <= m
  <1>1. PICK n \in T : \A m \in T : ~ (<<m, n>> \in OpToRel(<, Nat))
    BY NatLessThanWellFounded, WFMin
  <1>2. \A m \in T : ~ (m < n)
    BY <1>1 DEF OpToRel
  <1> QED
    BY <1>2, SMT

(* What is equal from each index to the next is equal throughout.          *)
LEMMA ChainIsEqual ==
  ASSUME NEW a \in Nat, NEW f, \A i \in 1..(a - 1) : f[i] = f[i + 1]
  PROVE  \A i \in 1..a : f[i] = f[1]
  <1> DEFINE S == {i \in 1..a : f[i] # f[1]}
  <1>1. SUFFICES ASSUME S # {} PROVE FALSE
    OBVIOUS
  <1>2. S \subseteq Nat
    OBVIOUS
  <1>3. PICK m \in S : \A k \in S : m <= k
    BY <1>1, <1>2, LeastNumber
  <1>4. m \in 1..a /\ f[m] # f[1] /\ m # 1
    BY <1>3
  <1>5. m - 1 \in 1..(a - 1) /\ (m - 1) + 1 = m /\ m - 1 \in 1..a /\ ~ (m <= m - 1)
    BY <1>4
  <1>6. f[m - 1] = f[m]
    BY <1>5
  <1>7. m - 1 \in S
    BY <1>4, <1>5, <1>6
  <1> QED
    BY <1>3, <1>5, <1>7

(***************************************************************************)
(* Prefixes and trees.                                                     *)
(***************************************************************************)

(* A strict prefix is shorter.                                             *)
LEMMA StrictPrefixShorter ==
  ASSUME NEW p \in Seq(Nat), NEW q \in Seq(Nat), IsStrictPrefix(p, q)
  PROVE  Len(p) < Len(q)
  <1>1. Len(p) <= Len(q)
    BY DEF IsStrictPrefix, IsPrefix
  <1>2. p = SubSeq(q, 1, Len(p)) /\ p # q
    BY DEF IsStrictPrefix, IsPrefix
  <1>3. SubSeq(q, 1, Len(q)) = q
    BY SubSeqFull
  <1>4. Len(p) # Len(q)
    BY <1>2, <1>3
  <1>5. Len(p) \in Nat /\ Len(q) \in Nat
    BY LenProperties
  <1> QED
    BY <1>1, <1>4, <1>5

(* Being a prefix is reflexive and transitive; a prefix of the same length *)
(* is the sequence itself.                                                 *)
LEMMA PrefixReflexive ==
  ASSUME NEW p \in Seq(Nat)
  PROVE  IsPrefix(p, p)
  BY DEF IsPrefix

LEMMA PrefixTransitive ==
  ASSUME NEW p \in Seq(Nat), NEW q \in Seq(Nat), NEW r \in Seq(Nat),
         IsPrefix(p, q), IsPrefix(q, r)
  PROVE  IsPrefix(p, r)
  BY DEF IsPrefix

LEMMA PrefixSameLength ==
  ASSUME NEW p \in Seq(Nat), NEW q \in Seq(Nat), IsPrefix(p, q), Len(p) = Len(q)
  PROVE  p = q
  BY SubSeqFull DEF IsPrefix

(* Two nodes above the same node are above one another.                    *)
LEMMA PrefixComparable ==
  ASSUME NEW p \in Seq(Nat), NEW q \in Seq(Nat), NEW r \in Seq(Nat),
         IsPrefix(p, r), IsPrefix(q, r), Len(p) <= Len(q)
  PROVE  IsPrefix(p, q)
  BY DEF IsPrefix

(* Strictly above, in one step or the other.                               *)
LEMMA StrictPrefixTransitive ==
  ASSUME NEW p \in Seq(Nat), NEW q \in Seq(Nat), NEW r \in Seq(Nat),
         \/ IsStrictPrefix(p, q) /\ IsPrefix(q, r)
         \/ IsPrefix(p, q) /\ IsStrictPrefix(q, r)
  PROVE  IsStrictPrefix(p, r)
  <1>1. IsPrefix(p, r)
    BY PrefixTransitive DEF IsStrictPrefix
  <1>2. Len(p) <= Len(q) /\ Len(q) <= Len(r)
    BY DEF IsStrictPrefix, IsPrefix
  <1>3. Len(p) < Len(q) \/ Len(q) < Len(r)
    BY StrictPrefixShorter
  <1>4. Len(p) < Len(r)
    BY <1>2, <1>3
  <1> QED
    BY <1>1, <1>4 DEF IsStrictPrefix

(* A child is one longer than its parent and strictly below it.            *)
LEMMA ChildBelow ==
  ASSUME NEW p \in Seq(Nat), NEW i \in Nat
  PROVE  /\ Append(p, i) \in Seq(Nat)
         /\ Len(Append(p, i)) = Len(p) + 1
         /\ IsStrictPrefix(p, Append(p, i))
  BY DEF IsStrictPrefix, IsPrefix

(* What is above a child is above its parent, or is the parent.            *)
LEMMA AboveChild ==
  ASSUME NEW p \in Seq(Nat), NEW q \in Seq(Nat), NEW i \in Nat,
         IsStrictPrefix(q, Append(p, i))
  PROVE  IsPrefix(q, p)
  <1>1. /\ Append(p, i) \in Seq(Nat)
        /\ Len(Append(p, i)) = Len(p) + 1
        /\ IsPrefix(p, Append(p, i))
    BY ChildBelow DEF IsStrictPrefix
  <1>2. Len(q) < Len(p) + 1
    BY <1>1, StrictPrefixShorter
  <1>3. Len(q) <= Len(p)
    BY <1>2
  <1> QED
    BY <1>1, <1>3, PrefixComparable DEF IsStrictPrefix

(* The positions of a tree are sequences, its arities numbers.             *)
LEMMA TreePositions ==
  ASSUME NEW t, IsTree(t), NEW p \in DOMAIN t
  PROVE  /\ p \in Seq(Nat)
         /\ t[p].arity \in Nat
         /\ \A i \in 1..t[p].arity : Append(p, i) \in DOMAIN t
  BY DEF IsTree

(* The children of a node, in order.                                       *)
LEMMA ChildrenSeq ==
  ASSUME NEW t, IsTree(t), NEW p \in DOMAIN t
  PROVE  /\ Children(t, p) \in Seq(DOMAIN t)
         /\ Len(Children(t, p)) = t[p].arity
         /\ \A i \in 1..t[p].arity : Children(t, p)[i] = Append(p, i)
  <1> DEFINE a == t[p].arity
             c == [i \in 1..a |-> Append(p, i)]
  <1>1. a \in Nat /\ c \in [1..a -> DOMAIN t]
    BY TreePositions
  <1>2. c \in Seq(DOMAIN t) /\ Len(c) = a
    BY <1>1, FunctionIsSeq
  <1>3. Children(t, p) = c
    BY DEF Children
  <1> QED
    BY <1>2, <1>3

(* The way down from a node to one below it leads through a child.         *)
LEMMA TreeStep ==
  ASSUME NEW t, IsTree(t), NEW p \in DOMAIN t, NEW q \in DOMAIN t, IsStrictPrefix(p, q)
  PROVE  \E i \in 1..t[p].arity :
           Append(p, i) \in DOMAIN t /\ IsPrefix(Append(p, i), q)
  <1> DEFINE k == Len(p) + 1
  <1>1. p \in Seq(Nat) /\ q \in Seq(Nat) /\ Len(p) < Len(q)
    BY TreePositions, StrictPrefixShorter
  <1>2. k \in 1..Len(q) /\ SubSeq(q, 1, k - 1) = p
    BY <1>1 DEF IsStrictPrefix, IsPrefix
  <1>3. q[k] \in 1..t[p].arity
    BY <1>2 DEF IsTree
  <1>4. IsPrefix(Append(p, q[k]), q)
    BY <1>1, <1>2 DEF IsPrefix
  <1> QED
    BY <1>3, <1>4, TreePositions

(***************************************************************************)
(* Before and after in post order.                                         *)
(***************************************************************************)
(* Sequences that agree up to n have the same beginning of length n.       *)
LEMMA SameBeginning ==
  ASSUME NEW p \in Seq(Nat), NEW q \in Seq(Nat), NEW n \in Nat,
         n <= Len(p), n <= Len(q), \A i \in 1..n : p[i] = q[i]
  PROVE  SubSeq(p, 1, n) = SubSeq(q, 1, n)
  <1>1. \A i \in 1..n : p[i] \in Nat /\ q[i] \in Nat
    <2>1. \A i \in 1..n : i \in 1..Len(p) /\ i \in 1..Len(q)
      BY LenProperties
    <2> QED
      BY <2>1, ElementOfSeq
  <1>2. /\ SubSeq(p, 1, n) \in Seq(Nat) /\ Len(SubSeq(p, 1, n)) = IF 1 <= n THEN n - 1 + 1 ELSE 0
        /\ \A i \in 1..(n - 1 + 1) : SubSeq(p, 1, n)[i] = p[1 + i - 1]
    BY <1>1, SubSeqProperties
  <1>3. /\ SubSeq(q, 1, n) \in Seq(Nat) /\ Len(SubSeq(q, 1, n)) = IF 1 <= n THEN n - 1 + 1 ELSE 0
        /\ \A i \in 1..(n - 1 + 1) : SubSeq(q, 1, n)[i] = q[1 + i - 1]
    BY <1>1, SubSeqProperties
  <1>4. \A i \in 1..Len(SubSeq(p, 1, n)) : SubSeq(p, 1, n)[i] = SubSeq(q, 1, n)[i]
    BY <1>2, <1>3
  <1> QED
    BY <1>2, <1>3, <1>4, SeqEqual

(* The parts of the position of a child.                                   *)
LEMMA ChildParts ==
  ASSUME NEW p \in Seq(Nat), NEW i \in Nat
  PROVE  /\ SubSeq(Append(p, i), 1, Len(p)) = p
         /\ Append(p, i)[Len(p) + 1] = i
  OBVIOUS

(* A child determines its parent and its index.                            *)
LEMMA ChildInjective ==
  ASSUME NEW p \in Seq(Nat), NEW q \in Seq(Nat), NEW i \in Nat, NEW j \in Nat,
         Append(p, i) = Append(q, j)
  PROVE  p = q /\ i = j
  <1>1. Len(p) = Len(q)
    BY ChildBelow
  <1>2. SubSeq(Append(p, i), 1, Len(p)) = p /\ Append(p, i)[Len(p) + 1] = i
    BY ChildParts
  <1>3. SubSeq(Append(q, j), 1, Len(q)) = q /\ Append(q, j)[Len(q) + 1] = j
    BY ChildParts
  <1> QED
    BY <1>1, <1>2, <1>3

(* What is right of a node is right of its children.                       *)
LEMMA LeftOfChild ==
  ASSUME NEW p \in Seq(Nat), NEW q \in Seq(Nat), NEW i \in Nat, LeftOf(p, q)
  PROVE  LeftOf(Append(p, i), q)
  <1>1. PICK k \in DOMAIN p \cap DOMAIN q :
          SubSeq(p, 1, k - 1) = SubSeq(q, 1, k - 1) /\ p[k] < q[k]
    BY DEF LeftOf
  <1>2. k \in DOMAIN Append(p, i) /\ Append(p, i)[k] = p[k]
    BY <1>1
  <1>3. SubSeq(Append(p, i), 1, k - 1) = SubSeq(p, 1, k - 1)
    BY <1>1
  <1> QED
    BY <1>1, <1>2, <1>3 DEF LeftOf

(* Below a node, to the right of its child: in a later child.              *)
LEMMA LeftOfLaterChild ==
  ASSUME NEW p \in Seq(Nat), NEW q \in Seq(Nat), NEW i \in Nat,
         IsStrictPrefix(p, q), q[Len(p) + 1] > i
  PROVE  LeftOf(Append(p, i), q)
  <1> DEFINE k == Len(p) + 1
  <1>1. Len(p) < Len(q)
    BY StrictPrefixShorter
  <1>2. k \in DOMAIN Append(p, i) /\ k \in DOMAIN q /\ Append(p, i)[k] = i
    BY <1>1
  <1>3. SubSeq(Append(p, i), 1, k - 1) = p /\ SubSeq(q, 1, k - 1) = p
    BY <1>1 DEF IsStrictPrefix, IsPrefix
  <1>4. i < q[k]
    BY <1>2, ElementOfSeq
  <1> QED
    BY <1>2, <1>3, <1>4 DEF LeftOf

(* What is right of a child is right of its parent or in a later child.    *)
LEMMA RightOfChild ==
  ASSUME NEW p \in Seq(Nat), NEW q \in Seq(Nat), NEW i \in Nat,
         LeftOf(Append(p, i), q)
  PROVE  LeftOf(p, q) \/ (IsStrictPrefix(p, q) /\ q[Len(p) + 1] > i)
  <1> DEFINE c == Append(p, i)
  <1>1. PICK k \in DOMAIN c \cap DOMAIN q :
          SubSeq(c, 1, k - 1) = SubSeq(q, 1, k - 1) /\ c[k] < q[k]
    BY DEF LeftOf
  <1>2. c \in Seq(Nat) /\ Len(c) = Len(p) + 1 /\ \A j \in 1..Len(p) : c[j] = p[j]
    OBVIOUS
  <1>3. SubSeq(c, 1, Len(p)) = p /\ c[Len(p) + 1] = i
    BY ChildParts
  <1>4. Len(p) \in Nat /\ Len(q) \in Nat
    BY LenProperties
  <1> HIDE DEF c
  <1>5. k \in 1..(Len(p) + 1) /\ k \in 1..Len(q)
    BY <1>1, <1>2
  <1>6. CASE k <= Len(p)
    <2>1. k \in 1..Len(p) /\ k - 1 \in Nat /\ k - 1 <= Len(p) /\ k - 1 <= Len(p) + 1
      BY <1>4, <1>5, <1>6
    <2>2. \A j \in 1..(k - 1) : j \in 1..Len(p)
      BY <1>4, <2>1
    <2>3. SubSeq(c, 1, k - 1) = SubSeq(p, 1, k - 1)
      BY <1>2, <2>1, <2>2, SameBeginning
    <2>4. k \in DOMAIN p \cap DOMAIN q
      BY <1>5, <2>1
    <2>5. SubSeq(p, 1, k - 1) = SubSeq(q, 1, k - 1) /\ p[k] < q[k]
      BY <1>1, <1>2, <2>1, <2>3
    <2> QED
      BY <2>4, <2>5 DEF LeftOf
  <1>7. CASE k = Len(p) + 1
    <2>1. k - 1 = Len(p)
      BY <1>4, <1>7
    <2>2. p = SubSeq(q, 1, Len(p)) /\ i < q[Len(p) + 1]
      BY <1>1, <1>3, <1>7, <2>1
    <2>3. Len(p) < Len(q) /\ q[Len(p) + 1] \in Nat
      BY <1>4, <1>5, <1>7, ElementOfSeq
    <2>4. IsStrictPrefix(p, q)
      BY <1>4, <2>2, <2>3 DEF IsStrictPrefix, IsPrefix
    <2> QED
      BY <2>2, <2>3, <2>4
  <1> QED
    BY <1>4, <1>5, <1>6, <1>7

(* What is left of a node is left of everything below that node.           *)
LEMMA LeftOfBelow ==
  ASSUME NEW p \in Seq(Nat), NEW r \in Seq(Nat), NEW q \in Seq(Nat),
         LeftOf(p, r), IsPrefix(r, q)
  PROVE  LeftOf(p, q)
  <1>1. PICK k \in DOMAIN p \cap DOMAIN r :
          SubSeq(p, 1, k - 1) = SubSeq(r, 1, k - 1) /\ p[k] < r[k]
    BY DEF LeftOf
  <1>2. Len(r) <= Len(q) /\ r = SubSeq(q, 1, Len(r))
    BY DEF IsPrefix
  <1>3. k \in 1..Len(r) /\ k \in DOMAIN q
    BY <1>1, <1>2
  <1>4. \A i \in 1..Len(r) : i \in 1..Len(q) /\ r[i] = q[i]
    BY <1>2
  <1>5. SubSeq(q, 1, k - 1) = SubSeq(r, 1, k - 1)
    <2>1. Len(r) \in Nat /\ Len(q) \in Nat
      BY LenProperties
    <2>2. k \in Nat /\ 1 <= k /\ k <= Len(r) /\ Len(r) <= Len(q)
      BY <1>2, <1>3, <2>1
    <2>3. k - 1 \in Nat /\ k - 1 <= Len(r) /\ k - 1 <= Len(q)
      BY <2>1, <2>2
    <2>4. \A i \in 1..(k - 1) : i \in 1..Len(r)
      BY <2>1, <2>3
    <2> QED
      BY <1>4, <2>3, <2>4, SameBeginning
  <1> QED
    BY <1>1, <1>3, <1>4, <1>5 DEF LeftOf

(* Of two children of a node the one with the smaller index is left.       *)
LEMMA SiblingLeft ==
  ASSUME NEW p \in Seq(Nat), NEW i \in Nat, NEW j \in Nat, i < j
  PROVE  LeftOf(Append(p, i), Append(p, j))
  <1> DEFINE k == Len(p) + 1
  <1>1. k \in DOMAIN Append(p, i) /\ k \in DOMAIN Append(p, j) /\ k - 1 = Len(p)
    OBVIOUS
  <1>2. Append(p, i)[k] = i /\ SubSeq(Append(p, i), 1, Len(p)) = p
    BY ChildParts
  <1>3. Append(p, j)[k] = j /\ SubSeq(Append(p, j), 1, Len(p)) = p
    BY ChildParts
  <1> QED
    BY <1>1, <1>2, <1>3 DEF LeftOf

(* What has the same beginning agrees up to there.                         *)
LEMMA BeginningAgrees ==
  ASSUME NEW p \in Seq(Nat), NEW q \in Seq(Nat), NEW n \in Nat,
         n <= Len(p), n <= Len(q), SubSeq(p, 1, n) = SubSeq(q, 1, n)
  PROVE  \A i \in 1..n : p[i] = q[i]
  <1>1. \A i \in 1..n : p[i] \in Nat /\ q[i] \in Nat
    <2>1. \A i \in 1..n : i \in 1..Len(p) /\ i \in 1..Len(q)
      BY LenProperties
    <2> QED
      BY <2>1, ElementOfSeq
  <1>2. /\ \A i \in 1..(n - 1 + 1) : SubSeq(p, 1, n)[i] = p[1 + i - 1]
        /\ \A i \in 1..(n - 1 + 1) : SubSeq(q, 1, n)[i] = q[1 + i - 1]
    BY <1>1, SubSeqProperties
  <1>3. \A i \in 1..n : i \in 1..(n - 1 + 1) /\ 1 + i - 1 = i
    OBVIOUS
  <1> QED
    BY <1>2, <1>3

(* Left and right are not the same.                                        *)
LEMMA LeftOfIsOneWay ==
  ASSUME NEW p \in Seq(Nat), NEW q \in Seq(Nat), LeftOf(p, q)
  PROVE  ~ LeftOf(q, p)
  <1> SUFFICES ASSUME LeftOf(q, p) PROVE FALSE
    OBVIOUS
  <1>1. PICK k \in DOMAIN p \cap DOMAIN q :
          SubSeq(p, 1, k - 1) = SubSeq(q, 1, k - 1) /\ p[k] < q[k]
    BY DEF LeftOf
  <1>2. PICK j \in DOMAIN q \cap DOMAIN p :
          SubSeq(q, 1, j - 1) = SubSeq(p, 1, j - 1) /\ q[j] < p[j]
    BY DEF LeftOf
  <1>3. /\ k \in 1..Len(p) /\ k \in 1..Len(q) /\ j \in 1..Len(p) /\ j \in 1..Len(q)
        /\ p[k] \in Nat /\ q[k] \in Nat /\ p[j] \in Nat /\ q[j] \in Nat
    BY ElementOfSeq
  <1>4. Len(p) \in Nat /\ Len(q) \in Nat
    BY LenProperties
  <1>5. /\ k - 1 \in Nat /\ k - 1 <= Len(p) /\ k - 1 <= Len(q)
        /\ j - 1 \in Nat /\ j - 1 <= Len(p) /\ j - 1 <= Len(q)
    <2>1. k \in 1..Len(p) /\ k \in 1..Len(q) /\ j \in 1..Len(p) /\ j \in 1..Len(q)
      BY <1>3
    <2> QED
      BY <1>4, <2>1
  <1>6. /\ \A i \in 1..(k - 1) : p[i] = q[i]
        /\ \A i \in 1..(j - 1) : q[i] = p[i]
    BY <1>1, <1>2, <1>5, BeginningAgrees
  <1>7. k \in 1..(j - 1) \/ j \in 1..(k - 1) \/ j = k
    BY <1>3, <1>4
  <1>8. p[k] < q[k] /\ q[j] < p[j]
    BY <1>1, <1>2, Zenon
  <1>9. /\ k \in 1..(j - 1) => q[k] = p[k]
        /\ j \in 1..(k - 1) => p[j] = q[j]
    BY <1>6
  <1>10. \A a, b \in Nat : a < b => a # b /\ ~ (b < a)
    OBVIOUS
  <1> QED
    BY <1>3, <1>7, <1>8, <1>9, <1>10, Zenon

(* What is above a node is neither left nor right of it.                   *)
LEMMA PrefixIsNotLeft ==
  ASSUME NEW p \in Seq(Nat), NEW q \in Seq(Nat), IsPrefix(p, q)
  PROVE  ~ LeftOf(p, q) /\ ~ LeftOf(q, p)
  <1>1. Len(p) <= Len(q) /\ p = SubSeq(q, 1, Len(p))
    BY DEF IsPrefix
  <1>2. \A k \in DOMAIN p : p[k] = q[k] /\ p[k] \in Nat
    <2>1. SubSeq(p, 1, Len(p)) = SubSeq(q, 1, Len(p)) /\ Len(p) \in Nat /\ Len(p) <= Len(p)
      BY <1>1, SubSeqFull, LenProperties
    <2>2. \A k \in 1..Len(p) : p[k] = q[k]
      BY <1>1, <2>1, BeginningAgrees
    <2> QED
      BY <2>2, LenProperties, ElementOfSeq
  <1> QED
    BY <1>2 DEF LeftOf

=============================================================================
