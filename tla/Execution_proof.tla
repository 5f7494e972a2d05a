--------------------------- MODULE Execution_proof ---------------------------
(***************************************************************************)
(* For every program whose jumps end then branches, and whatever its       *)
(* conditions come out as: the generated code does what the source says.   *)
(*                                                                         *)
(* First, the order of the source (SourceOrder) is well defined.  Then,    *)
(* through every step of gen, each instruction stands where the source     *)
(* comes to it, and the frames of gen know which place comes next.  At the *)
(* end, the execution of such code is the one that SourceFlow describes.   *)
(***************************************************************************)
EXTENDS Execution, CodeGen_proof, FiniteSetTheorems

(***************************************************************************)
(* The order of the source.  Control goes from a point to one that comes   *)
(* later in it; only loops lead back, and they name an expression.         *)
(***************************************************************************)
Precedes(c, d) ==
  LET p == c[2]
      q == d[2]
  IN  IF c[1] = "begin" THEN IF d[1] = "begin" THEN TextBefore(p, q)
                             ELSE IsPrefix(p, q) \/ IsPrefix(q, p) \/ LeftOf(p, q)
                        ELSE IF d[1] = "begin" THEN LeftOf(p, q) ELSE PostBefore(p, q)

Ahead(t, c) == {d \in Points(t) : Precedes(c, d)}

(* A node is not left of itself, nor strictly above itself.                *)
LEMMA NotBeforeItself ==
  ASSUME NEW p \in Seq(Nat)
  PROVE  ~ LeftOf(p, p) /\ ~ IsStrictPrefix(p, p)
  <1>1. ~ LeftOf(p, p)
    BY PrefixReflexive, PrefixIsNotLeft
  <1> QED
    BY <1>1 DEF IsStrictPrefix

LEMMA PrefixCases ==
  ASSUME NEW p \in Seq(Nat), NEW q \in Seq(Nat), IsPrefix(p, q)
  PROVE  p = q \/ IsStrictPrefix(p, q)
  BY DEF IsStrictPrefix

LEMMA StrictIsPrefix ==
  ASSUME NEW p, NEW q, IsStrictPrefix(p, q)
  PROVE  IsPrefix(p, q) /\ p # q
  BY DEF IsStrictPrefix

(* The ways on, each to a later point: down to the first child, ...        *)
LEMMA DownIsLater ==
  ASSUME NEW n \in Seq(Nat), NEW i \in Nat, NEW q \in Seq(Nat)
  PROVE  LET m == Append(n, i) IN
         /\ TextBefore(n, m) /\ ~ TextBefore(m, m)
         /\ TextBefore(m, q) => TextBefore(n, q)
         /\ IsPrefix(m, q) \/ IsPrefix(q, m) \/ LeftOf(m, q)
              => IsPrefix(n, q) \/ IsPrefix(q, n) \/ LeftOf(n, q)
  <1> DEFINE m == Append(n, i)
  <1>1. m \in Seq(Nat) /\ IsStrictPrefix(n, m) /\ IsPrefix(n, m)
    BY ChildBelow, StrictIsPrefix
  <1>2. LeftOf(m, q) => LeftOf(n, q) \/ IsStrictPrefix(n, q)
    BY RightOfChild
  <1>3. IsStrictPrefix(q, m) => IsPrefix(q, n)
    BY AboveChild
  <1> HIDE DEF m
  <1>4. ~ TextBefore(m, m)
    BY <1>1, NotBeforeItself DEF TextBefore
  <1>5. IsStrictPrefix(m, q) => IsStrictPrefix(n, q)
    BY <1>1, StrictPrefixTransitive, StrictIsPrefix
  <1>6. IsPrefix(m, q) => IsPrefix(n, q)
    BY <1>1, PrefixTransitive
  <1>7. IsPrefix(q, m) => IsPrefix(n, q) \/ IsPrefix(q, n)
    BY <1>1, <1>3, PrefixCases
  <1>8. IsStrictPrefix(n, q) => IsPrefix(n, q)
    BY StrictIsPrefix
  <1>9. /\ TextBefore(n, m) /\ ~ TextBefore(m, m)
        /\ TextBefore(m, q) => TextBefore(n, q)
        /\ IsPrefix(m, q) \/ IsPrefix(q, m) \/ LeftOf(m, q)
             => IsPrefix(n, q) \/ IsPrefix(q, n) \/ LeftOf(n, q)
    BY <1>1, <1>2, <1>4, <1>5, <1>6, <1>7, <1>8 DEF TextBefore
  <1> QED
    BY <1>9 DEF m

(* ... from the begin or the end of a statement to the end of one around   *)
(* it, ...                                                                 *)
LEMMA OutIsLater ==
  ASSUME NEW n \in Seq(Nat), NEW l \in Seq(Nat), IsPrefix(l, n), NEW q \in Seq(Nat)
  PROVE  /\ ~ PostBefore(l, l)
         /\ LeftOf(l, q) => LeftOf(n, q)
         /\ PostBefore(l, q) => PostBefore(n, q)
         /\ l # n => PostBefore(n, l)
  <1>1. ~ PostBefore(l, l)
    BY NotBeforeItself DEF PostBefore
  <1>2. LeftOf(l, q) => LeftOf(n, q)
    <2> SUFFICES ASSUME LeftOf(l, q) PROVE LeftOf(n, q)
      OBVIOUS
    <2>1. PICK k \in DOMAIN l \cap DOMAIN q : SubSeq(l, 1, k - 1) = SubSeq(q, 1, k - 1) /\ l[k] < q[k]
      BY DEF LeftOf
    <2>2. Len(l) <= Len(n) /\ \A j \in 1..Len(l) : l[j] = n[j]
      BY PrefixEntry
    <2>3. k \in DOMAIN n /\ n[k] = l[k] /\ k \in 1..Len(l) /\ Len(l) \in Nat /\ Len(n) \in Nat
      BY <2>2
    <2>4. SubSeq(n, 1, k - 1) = SubSeq(l, 1, k - 1)
      BY <2>2, <2>3, SameBeginning
    <2> QED
      BY <2>1, <2>3, <2>4 DEF LeftOf
  <1>3. IsStrictPrefix(q, l) => IsStrictPrefix(q, n)
    BY StrictPrefixTransitive
  <1> QED
    BY <1>1, <1>2, <1>3, PrefixCases DEF PostBefore

(* ... and on to the next statement of a list.                             *)
LEMMA NextIsLater ==
  ASSUME NEW p \in Seq(Nat), NEW i \in Nat, NEW q \in Seq(Nat)
  PROVE  LET n == Append(p, i)
             m == Append(p, i + 1) IN
         /\ LeftOf(n, m) /\ ~ TextBefore(m, m)
         /\ TextBefore(m, q) => LeftOf(n, q)
         /\ IsPrefix(m, q) \/ IsPrefix(q, m) \/ LeftOf(m, q) => PostBefore(n, q)
  <1> DEFINE n == Append(p, i)
             m == Append(p, i + 1)
  <1>1. /\ n \in Seq(Nat) /\ m \in Seq(Nat) /\ IsStrictPrefix(p, n)
        /\ LeftOf(n, m)
    BY ChildBelow, SiblingLeft
  <1>2. ASSUME LeftOf(m, q) PROVE LeftOf(n, q)
    <2>1. LeftOf(p, q) \/ (IsStrictPrefix(p, q) /\ q[Len(p) + 1] > i + 1)
      BY <1>2, RightOfChild, i + 1 \in Nat
    <2>2. CASE LeftOf(p, q)
      BY <2>2, LeftOfChild
    <2>3. CASE IsStrictPrefix(p, q) /\ q[Len(p) + 1] > i + 1
      <3>1. Len(p) + 1 \in 1..Len(q)
        BY <2>3, StrictPrefixShorter
      <3>2. q[Len(p) + 1] \in Nat
        BY <3>1
      <3>3. q[Len(p) + 1] > i
        BY <2>3, <3>2
      <3> QED
        BY <2>3, <3>3, LeftOfLaterChild
    <2> QED
      BY <2>1, <2>2, <2>3
  <1>3. IsStrictPrefix(q, m) => IsPrefix(q, p)
    BY AboveChild, i + 1 \in Nat
  <1> HIDE DEF m, n
  <1>4. ~ TextBefore(m, m)
    BY <1>1, NotBeforeItself DEF TextBefore
  <1>5. IsPrefix(m, q) => LeftOf(n, q)
    BY <1>1, LeftOfBelow
  <1>6. IsStrictPrefix(m, q) => LeftOf(n, q)
    BY <1>5, StrictIsPrefix
  <1>7. IsStrictPrefix(q, m) => IsStrictPrefix(q, n)
    BY <1>1, <1>3, StrictPrefixTransitive
  <1>8. IsPrefix(q, m) => PostBefore(n, q)
    BY <1>1, <1>7, PrefixCases DEF PostBefore
  <1>9. /\ LeftOf(n, m) /\ ~ TextBefore(m, m)
        /\ TextBefore(m, q) => LeftOf(n, q)
        /\ IsPrefix(m, q) \/ IsPrefix(q, m) \/ LeftOf(m, q) => PostBefore(n, q)
    BY <1>1, <1>2, <1>4, <1>5, <1>6, <1>8 DEF TextBefore, PostBefore
  <1> QED
    BY <1>9 DEF m, n

(* Less is ahead of the later point.                                       *)
Later(t, c, d) ==
  /\ c \in Points(t) /\ d \in Points(t)
  /\ Ahead(t, d) \subseteq Ahead(t, c)
  /\ d \in Ahead(t, c) /\ d \notin Ahead(t, d)

LEMMA PointParts ==
  ASSUME NEW t, NEW c \in Points(t)
  PROVE  /\ c = <<c[1], c[2]>> /\ c[1] \in {"begin", "after"} /\ c[2] \in DOMAIN t
         /\ c = <<"begin", c[2]>> \/ c = <<"after", c[2]>>
  BY DEF Points

LEMMA PointsOf ==
  ASSUME NEW t, NEW n \in DOMAIN t
  PROVE  <<"begin", n>> \in Points(t) /\ <<"after", n>> \in Points(t)
  BY DEF Points

LEMMA LaterDown ==
  ASSUME NEW t, IsTree(t), NEW n \in DOMAIN t, NEW i \in 1..t[n].arity
  PROVE  Later(t, <<"begin", n>>, <<"begin", Child(n, i)>>)
  <1> DEFINE m == Append(n, i)
  <1>1. n \in Seq(Nat) /\ m \in DOMAIN t /\ m \in Seq(Nat) /\ i \in Nat
    BY TreePositions
  <1>2. /\ TextBefore(n, m) /\ ~ TextBefore(m, m)
        /\ \A q \in Seq(Nat) :
             /\ TextBefore(m, q) => TextBefore(n, q)
             /\ IsPrefix(m, q) \/ IsPrefix(q, m) \/ LeftOf(m, q)
                  => IsPrefix(n, q) \/ IsPrefix(q, n) \/ LeftOf(n, q)
    BY <1>1, DownIsLater
  <1> HIDE DEF m
  <1>3. ASSUME NEW e \in Points(t), Precedes(<<"begin", m>>, e) PROVE Precedes(<<"begin", n>>, e)
    <2>1. e[2] \in Seq(Nat)
      BY PointParts, TreePositions
    <2> QED
      BY <1>2, <1>3, <2>1 DEF Precedes
  <1>4. Precedes(<<"begin", n>>, <<"begin", m>>) /\ ~ Precedes(<<"begin", m>>, <<"begin", m>>)
    BY <1>2 DEF Precedes
  <1> QED
    BY <1>1, <1>3, <1>4, PointsOf DEF Later, Ahead, m, Child

LEMMA LaterOut ==
  ASSUME NEW t, IsTree(t), NEW n \in DOMAIN t, NEW l \in DOMAIN t, IsPrefix(l, n),
         NEW c, c = <<"begin", n>> \/ (c = <<"after", n>> /\ l # n)
  PROVE  Later(t, c, <<"after", l>>)
  <1>1. n \in Seq(Nat) /\ l \in Seq(Nat)
    BY TreePositions
  <1>2. /\ ~ PostBefore(l, l) /\ (l # n => PostBefore(n, l))
        /\ \A q \in Seq(Nat) :
             /\ LeftOf(l, q) => LeftOf(n, q)
             /\ PostBefore(l, q) => PostBefore(n, q)
    BY <1>1, OutIsLater
  <1>3. ASSUME NEW q \in Seq(Nat), PostBefore(l, q)
        PROVE  IsPrefix(n, q) \/ IsPrefix(q, n) \/ LeftOf(n, q)
    <2>1. IsStrictPrefix(q, l) => IsPrefix(q, n)
      BY <1>1, StrictIsPrefix, PrefixTransitive
    <2> QED
      BY <1>2, <1>3, <2>1 DEF PostBefore
  <1>4. ASSUME NEW e \in Points(t), Precedes(<<"after", l>>, e) PROVE Precedes(c, e)
    <2>1. e[2] \in Seq(Nat)
      BY PointParts, TreePositions
    <2>2. LeftOf(n, e[2]) => TextBefore(n, e[2])
      BY DEF TextBefore
    <2> QED
      BY <1>2, <1>3, <1>4, <2>1, <2>2 DEF Precedes
  <1>5. Precedes(c, <<"after", l>>) /\ ~ Precedes(<<"after", l>>, <<"after", l>>)
    BY <1>2 DEF Precedes
  <1> QED
    BY <1>1, <1>4, <1>5, PointsOf DEF Later, Ahead

LEMMA LaterNext ==
  ASSUME NEW t, IsTree(t), NEW p \in DOMAIN t, NEW i \in Nat, i \in 1..t[p].arity,
         i + 1 \in 1..t[p].arity
  PROVE  Later(t, <<"after", Child(p, i)>>, <<"begin", Child(p, i + 1)>>)
  <1> DEFINE n == Append(p, i)
             m == Append(p, i + 1)
  <1>1. n \in Seq(Nat) /\ m \in DOMAIN t /\ n \in DOMAIN t /\ m \in Seq(Nat) /\ p \in Seq(Nat)
    BY TreePositions
  <1>2. /\ LeftOf(n, m) /\ ~ TextBefore(m, m)
        /\ \A q \in Seq(Nat) :
             /\ TextBefore(m, q) => LeftOf(n, q)
             /\ IsPrefix(m, q) \/ IsPrefix(q, m) \/ LeftOf(m, q) => PostBefore(n, q)
    BY <1>1, NextIsLater
  <1> HIDE DEF m, n
  <1>3. ASSUME NEW e \in Points(t), Precedes(<<"begin", m>>, e) PROVE Precedes(<<"after", n>>, e)
    <2>1. e[2] \in Seq(Nat)
      BY PointParts, TreePositions
    <2> QED
      BY <1>2, <1>3, <2>1 DEF Precedes
  <1>4. Precedes(<<"after", n>>, <<"begin", m>>) /\ ~ Precedes(<<"begin", m>>, <<"begin", m>>)
    BY <1>2 DEF Precedes
  <1> QED
    BY <1>1, <1>3, <1>4, PointsOf DEF Later, Ahead, m, n, Child

(***************************************************************************)
(* Such trees: a for has its parts, and a break a loop to leave.           *)
(***************************************************************************)
Leads(t) ==
  /\ IsTree(t)
  /\ t[Root].kind = "program"
  /\ \A n \in OfKind(t, {"for"}) : t[n].arity >= 1
  /\ \A j \in Jumps(t) : LoopsAround(t, j) # {}

LEMMA InnermostIsAround ==
  ASSUME NEW t, IsTree(t), NEW j \in DOMAIN t, LoopsAround(t, j) # {}
  PROVE  /\ InnermostLoop(t, j) \in LoopsAround(t, j)
         /\ \A m \in LoopsAround(t, j) : Len(m) <= Len(InnermostLoop(t, j))
  <1> DEFINE T == {k \in Nat : \E l \in LoopsAround(t, j) : k = Len(j) - Len(l)}
  <1>1. ASSUME NEW l \in LoopsAround(t, j)
        PROVE  l \in Seq(Nat) /\ Len(l) \in Nat /\ Len(j) \in Nat /\ Len(l) < Len(j)
    <2>1. l \in Seq(Nat) /\ j \in Seq(Nat)
      BY TreePositions DEF LoopsAround, Loops, OfKind
    <2> QED
      BY <2>1, StrictPrefixShorter DEF LoopsAround
  <1>2. PICK l0 \in LoopsAround(t, j) : TRUE
    OBVIOUS
  <1>3. Len(j) - Len(l0) \in T
    BY <1>1
  <1>4. T \subseteq Nat /\ T # {}
    BY <1>3
  <1> HIDE DEF T
  <1>5. PICK k \in T : \A m \in T : k <= m
    BY <1>4, LeastNumber
  <1>6. PICK l \in LoopsAround(t, j) : k = Len(j) - Len(l)
    BY <1>5 DEF T
  <1>7. ASSUME NEW m \in LoopsAround(t, j) PROVE Len(m) <= Len(l)
    <2>1. Len(j) - Len(m) \in T
      BY <1>1 DEF T
    <2>2. Len(j) - Len(l) <= Len(j) - Len(m)
      BY <1>5, <1>6, <2>1
    <2> QED
      BY <1>1, <2>2
  <1> QED
    BY <1>7 DEF InnermostLoop

(* The way up from a child.                                                *)
LEMMA ParentOfNode ==
  ASSUME NEW t, IsTree(t), NEW n \in DOMAIN t, n # Root
  PROVE  LET p == ParentOf(n)
             i == Last(n) IN
         /\ p \in DOMAIN t /\ i \in Nat /\ i \in 1..t[p].arity
         /\ n = Child(p, i) /\ IsStrictPrefix(p, n) /\ p \in Seq(Nat)
  <1>1. n \in Seq(Nat) /\ Len(n) \in Nat /\ Len(n) > 0
    BY TreePositions DEF Root
  <1>2. SubSeq(n, 1, Len(n) - 1) \in DOMAIN t
        /\ n[Len(n)] \in 1..t[SubSeq(n, 1, Len(n) - 1)].arity
    BY <1>1 DEF IsTree
  <1>3. ParentOf(n) = SubSeq(n, 1, Len(n) - 1) /\ Last(n) = n[Len(n)]
    BY DEF ParentOf, Front, Last
  <1> DEFINE p == SubSeq(n, 1, Len(n) - 1)
             i == n[Len(n)]
  <1>4. p \in Seq(Nat) /\ i \in Nat /\ Len(p) = Len(n) - 1
    <2>1. n[Len(n)] \in Nat
      BY <1>1
    <2>2. SubSeq(n, 1, Len(n) - 1) \in Seq(Nat) /\ Len(SubSeq(n, 1, Len(n) - 1)) = Len(n) - 1
      BY <1>1, FrontOfSeq DEF Front
    <2> QED
      BY <2>1, <2>2
  <1>5. n = Append(p, i)
    <2>1. Len(Append(p, i)) = Len(n) /\ Append(p, i) \in Seq(Nat)
      BY <1>1, <1>4
    <2>2. \A k \in 1..Len(n) : Append(p, i)[k] = n[k]
      BY <1>1, <1>4
    <2> QED
      BY <1>1, <2>1, <2>2
  <1>6. IsStrictPrefix(p, Append(p, i))
    BY <1>4, ChildBelow
  <1> QED
    BY <1>2, <1>3, <1>4, <1>5, <1>6 DEF Child

LEMMA OnwardLooksAhead ==
  ASSUME NEW t, Leads(t), NEW c \in Points(t), NEW f, NEW g,
         \A d : Later(t, c, d) => f[d] = g[d]
  PROVE  Onward(t, f, c) = Onward(t, g, c)
  <1>1. IsTree(t)
    BY DEF Leads
  <1>2. PICK n \in DOMAIN t : n = c[2] /\ (c = <<"begin", n>> \/ c = <<"after", n>>)
    BY PointParts
  <1>3. n \in Seq(Nat) /\ t[n].arity \in Nat /\ IsPrefix(n, n)
    BY <1>1, TreePositions, PrefixReflexive
  <1>4. CASE c = <<"begin", n>>
    <2>1. ASSUME t[n].kind = "for" PROVE f[<<"begin", Child(n, 1)>>] = g[<<"begin", Child(n, 1)>>]
      <3>1. 1 \in 1..t[n].arity
        BY <1>3, <2>1 DEF Leads, OfKind
      <3> QED
        BY <1>1, <1>4, <3>1, LaterDown
    <2>2. ASSUME t[n].arity # 0 PROVE f[<<"begin", Child(n, 1)>>] = g[<<"begin", Child(n, 1)>>]
      <3>1. 1 \in 1..t[n].arity
        BY <1>3, <2>2
      <3> QED
        BY <1>1, <1>4, <3>1, LaterDown
    <2>3. f[<<"after", n>>] = g[<<"after", n>>]
      BY <1>1, <1>3, <1>4, LaterOut
    <2>4. ASSUME t[n].kind = "break"
          PROVE  f[<<"after", InnermostLoop(t, n)>>] = g[<<"after", InnermostLoop(t, n)>>]
      <3>1. LoopsAround(t, n) # {}
        BY <2>4 DEF Leads, Jumps, JumpKinds, OfKind
      <3>2. InnermostLoop(t, n) \in LoopsAround(t, n)
        BY <1>1, <3>1, InnermostIsAround
      <3>3. InnermostLoop(t, n) \in DOMAIN t /\ IsPrefix(InnermostLoop(t, n), n)
        BY <3>2, StrictIsPrefix DEF LoopsAround, Loops, OfKind
      <3> QED
        BY <1>1, <1>4, <3>3, LaterOut
    <2> HIDE DEF Child
    <2>5. c[1] = "begin" /\ c[2] = n
      BY <1>4
    <2> QED
      BY <2>1, <2>2, <2>3, <2>4, <2>5 DEF Onward
  <1>5. CASE c = <<"after", n>>
    <2>1. c[1] = "after" /\ c[2] = n
      BY <1>5
    <2>2. CASE n = Root
      <3>1. ParentOf(n) = Root
        BY <2>2 DEF ParentOf, Front, Root
      <3>2. t[Root].kind \in {"program", "function", "ret"}
        BY DEF Leads
      <3> QED
        BY <2>1, <3>1, <3>2 DEF Onward
    <2>3. CASE n # Root
      <3>1. PICK p \in DOMAIN t : p = ParentOf(n)
        BY <1>1, <2>3, ParentOfNode
      <3>2. PICK i \in Nat : i = Last(n) /\ i \in 1..t[p].arity /\ n = Child(p, i)
                             /\ IsStrictPrefix(p, n) /\ p \in Seq(Nat)
        BY <1>1, <2>3, <3>1, ParentOfNode
      <3>3. ASSUME i < t[p].arity
            PROVE  f[<<"begin", Child(p, i + 1)>>] = g[<<"begin", Child(p, i + 1)>>]
        <4>1. i + 1 \in 1..t[p].arity
          BY <1>1, <3>2, <3>3, TreePositions
        <4> QED
          BY <1>1, <1>5, <3>2, <4>1, LaterNext
      <3>4. f[<<"after", p>>] = g[<<"after", p>>]
        BY <1>1, <1>5, <3>2, LaterOut, StrictIsPrefix
      <3> QED
        BY <2>1, <3>1, <3>2, <3>3, <3>4 DEF Onward
    <2> QED
      BY <2>2, <2>3
  <1> QED
    BY <1>2, <1>4, <1>5

LEMMA FiniteOrder ==
  ASSUME NEW t, IsTree(t)
  PROVE  /\ IsFiniteSet(Points(t)) /\ Cardinality(Points(t)) \in Nat
         /\ \A c : /\ IsFiniteSet(Ahead(t, c)) /\ Cardinality(Ahead(t, c)) \in Nat
                  /\ Cardinality(Ahead(t, c)) <= Cardinality(Points(t))
  <1>1. IsFiniteSet({"begin", "after"})
    <2>1. {"begin", "after"} = {"begin"} \cup {"after"}
      OBVIOUS
    <2>2. IsFiniteSet({"begin"}) /\ IsFiniteSet({"after"})
      BY FS_Singleton
    <2>3. IsFiniteSet({"begin"} \cup {"after"})
      BY <2>2, FS_Union
    <2> QED
      BY <2>1, <2>3
  <1>2. IsFiniteSet(Points(t))
    BY <1>1, FS_Product DEF Points, IsTree
  <1>3. \A c : Ahead(t, c) \subseteq Points(t)
    BY DEF Ahead
  <1>4. \A c : IsFiniteSet(Ahead(t, c)) /\ Cardinality(Ahead(t, c)) <= Cardinality(Points(t))
    BY <1>2, <1>3, FS_Subset
  <1> QED
    BY <1>2, <1>4, FS_CardinalityType

(* Less and less is ahead, so that where control goes is determined.       *)
LEMMA LessAhead ==
  ASSUME NEW t, IsTree(t), NEW c, NEW d, Later(t, c, d)
  PROVE  /\ Cardinality(Ahead(t, c)) \in Nat /\ Cardinality(Ahead(t, d)) \in Nat
         /\ Cardinality(Ahead(t, d)) < Cardinality(Ahead(t, c))
  <1>2. IsFiniteSet(Ahead(t, c)) /\ IsFiniteSet(Ahead(t, d))
    BY FiniteOrder
  <1>3. Ahead(t, d) \subseteq Ahead(t, c) /\ Ahead(t, d) # Ahead(t, c)
    BY DEF Later
  <1> QED
    BY <1>2, <1>3, FS_Subset, FS_CardinalityType

Determined(t, k) ==
  \E f : \A c \in Points(t) : Cardinality(Ahead(t, c)) < k => f[c] = Onward(t, f, c)

LEMMA DeterminedFurther ==
  ASSUME NEW t, Leads(t), NEW k \in Nat, Determined(t, k)
  PROVE  Determined(t, k + 1)
  <1>1. PICK f : \A c \in Points(t) : Cardinality(Ahead(t, c)) < k => f[c] = Onward(t, f, c)
    BY DEF Determined
  <1> DEFINE g == [c \in Points(t) |-> Onward(t, f, c)]
  <1>2. \A c \in Points(t) : g[c] = Onward(t, f, c)
    OBVIOUS
  <1> HIDE DEF g
  <1>3. ASSUME NEW c \in Points(t), Cardinality(Ahead(t, c)) < k + 1
        PROVE  g[c] = Onward(t, g, c)
    <2>1. ASSUME NEW d, Later(t, c, d) PROVE f[d] = g[d]
      <3>1. d \in Points(t) /\ Cardinality(Ahead(t, d)) < k
        BY <1>3, <2>1, LessAhead DEF Later, Leads
      <3> QED
        BY <1>1, <1>2, <3>1
    <2>2. Onward(t, f, c) = Onward(t, g, c)
      BY <2>1, OnwardLooksAhead
    <2> QED
      BY <1>2, <2>2
  <1> QED
    BY <1>3 DEF Determined

LEMMA ControlGoesOn ==
  ASSUME NEW t, Leads(t)
  PROVE  \A c \in Points(t) : GoesTo(t)[c] = Onward(t, GoesTo(t), c)
  <1>0. IsTree(t)
    BY DEF Leads
  <1> DEFINE N == Cardinality(Points(t)) + 1
             T == {k \in Nat : ~ Determined(t, k)}
  <1>2. N \in Nat /\ \A c \in Points(t) : Cardinality(Ahead(t, c)) < N
    BY <1>0, FiniteOrder
  <1> HIDE DEF N
  <1>3. Determined(t, N)
    <2> SUFFICES ASSUME N \in T PROVE FALSE
      BY <1>2
    <2>1. PICK k \in T : \A m \in T : k <= m
      <3>1. T \subseteq Nat /\ T # {}
        OBVIOUS
      <3> HIDE DEF T
      <3> QED
        BY <3>1, LeastNumber
    <2>2. Determined(t, 0)
      <3>1. ASSUME NEW c \in Points(t) PROVE ~ (Cardinality(Ahead(t, c)) < 0)
        BY <1>0, FiniteOrder
      <3> QED
        BY <3>1 DEF Determined
    <2>3. k # 0 /\ k \in Nat /\ ~ Determined(t, k)
      BY <2>2
    <2>4. k - 1 \in Nat /\ k - 1 \notin T
      BY <2>1, <2>3
    <2>5. Determined(t, k - 1)
      BY <2>4
    <2>6. Determined(t, (k - 1) + 1)
      BY <2>4, <2>5, DeterminedFurther
    <2> QED
      BY <2>3, <2>6
  <1>4. PICK f : \A c \in Points(t) : f[c] = Onward(t, f, c)
    BY <1>2, <1>3 DEF Determined
  <1> DEFINE g == [c \in Points(t) |-> f[c]]
  <1>5. \A c \in Points(t) : Onward(t, g, c) = Onward(t, f, c)
    <2> HIDE DEF g
    <2>1. \A d \in Points(t) : f[d] = g[d]
      BY DEF g
    <2> QED
      BY <2>1, OnwardLooksAhead DEF Later
  <1>6. g = [c \in Points(t) |-> Onward(t, g, c)]
    BY <1>4, <1>5
  <1>7. GoesTo(t) = [c \in Points(t) |-> Onward(t, GoesTo(t), c)]
    <2> HIDE DEF g
    <2>1. \E h : h = [c \in Points(t) |-> Onward(t, h, c)]
      BY <1>6
    <2> QED
      BY <2>1 DEF GoesTo
  <1> QED
    BY <1>7

(***************************************************************************)
(* Where control goes, statement by statement.                             *)
(***************************************************************************)
LEMMA BeginOf ==
  ASSUME NEW t, Leads(t), NEW n \in DOMAIN t
  PROVE  /\ t[n].kind \in {"if", "while"} => Begin(t, n) = Append(n, 1)
         /\ t[n].kind = "for" => Begin(t, n) = Begin(t, Append(n, 1))
         /\ t[n].kind \in {"block", "compound"} =>
              Begin(t, n) = IF t[n].arity = 0 THEN After(t, n) ELSE Begin(t, Append(n, 1))
         /\ t[n].kind = "ret" => Begin(t, n) = IF t[n].arity = 0 THEN Null ELSE Append(n, 1)
         /\ t[n].kind = "break" => Begin(t, n) = After(t, InnermostLoop(t, n))
         /\ t[n].kind = "continue" =>
              Begin(t, n) = IF t[InnermostLoop(t, n)].kind = "for"
                            THEN Append(InnermostLoop(t, n), 3) ELSE Append(InnermostLoop(t, n), 1)
         /\ t[n].kind \in {"expr", "voidcall"} => Begin(t, n) = n
  <1> DEFINE c == <<"begin", n>>
  <1>1. c \in Points(t)
    BY PointsOf
  <1>2. GoesTo(t)[c] = Onward(t, GoesTo(t), c)
    BY <1>1, ControlGoesOn
  <1>3. c[1] = "begin" /\ c[2] = n
    OBVIOUS
  <1>4. Begin(t, n) = GoesTo(t)[c]
    BY DEF Begin
  <1> HIDE DEF c
  <1>5. t[n].kind \in {"if", "while"} => Begin(t, n) = Append(n, 1)
    BY <1>2, <1>3, <1>4 DEF Onward, Child
  <1>6. t[n].kind = "for" => Begin(t, n) = Begin(t, Append(n, 1))
    BY <1>2, <1>3, <1>4 DEF Onward, Child, Begin
  <1>7. t[n].kind \in {"block", "compound"} =>
          Begin(t, n) = IF t[n].arity = 0 THEN After(t, n) ELSE Begin(t, Append(n, 1))
    BY <1>2, <1>3, <1>4 DEF Onward, Child, Begin, After
  <1>8. t[n].kind = "ret" => Begin(t, n) = IF t[n].arity = 0 THEN Null ELSE Append(n, 1)
    BY <1>2, <1>3, <1>4 DEF Onward, Child
  <1>9. t[n].kind = "break" => Begin(t, n) = After(t, InnermostLoop(t, n))
    BY <1>2, <1>3, <1>4 DEF Onward, After
  <1>10. t[n].kind = "continue" =>
           Begin(t, n) = IF t[InnermostLoop(t, n)].kind = "for"
                         THEN Append(InnermostLoop(t, n), 3) ELSE Append(InnermostLoop(t, n), 1)
    BY <1>2, <1>3, <1>4 DEF Onward, Child
  <1>11. t[n].kind \in {"expr", "voidcall"} => Begin(t, n) = n
    BY <1>2, <1>3, <1>4 DEF Onward
  <1> QED
    BY <1>5, <1>6, <1>7, <1>8, <1>9, <1>10, <1>11

LEMMA AfterOf ==
  ASSUME NEW t, Leads(t), NEW p \in DOMAIN t, NEW i \in 1..t[p].arity
  PROVE  LET n == Append(p, i) IN
         /\ t[p].kind \in {"function", "ret"} => After(t, n) = Null
         /\ t[p].kind \in {"block", "compound"} =>
              After(t, n) = IF i < t[p].arity THEN Begin(t, Append(p, i + 1)) ELSE After(t, p)
         /\ t[p].kind = "while" => After(t, n) = Append(p, 1)
         /\ t[p].kind = "for" /\ i = 4 => After(t, n) = Append(p, 3)
         /\ t[p].kind = "for" /\ i \in {1, 3} => After(t, n) = Append(p, 2)
         /\ t[p].kind = "if" => After(t, n) = After(t, p)
  <1> DEFINE n == Append(p, i)
             c == <<"after", n>>
  <1>1. n \in DOMAIN t /\ n # Root /\ p \in Seq(Nat) /\ i \in Nat
    <2>1. IsTree(t)
      BY DEF Leads
    <2>2. p \in Seq(Nat) /\ n \in DOMAIN t /\ t[p].arity \in Nat
      BY <2>1, TreePositions
    <2>3. i \in Nat
      BY <2>2
    <2>4. Len(n) = Len(p) + 1 /\ Len(p) \in Nat
      BY <2>2, <2>3, ChildBelow
    <2> QED
      BY <2>2, <2>3, <2>4 DEF Root
  <1>2. c \in Points(t)
    BY <1>1, PointsOf
  <1>3. GoesTo(t)[c] = Onward(t, GoesTo(t), c)
    BY <1>2, ControlGoesOn
  <1>4. c[1] = "after" /\ c[2] = n
    OBVIOUS
  <1>5. ParentOf(n) = p /\ Last(n) = i
    <2>1. /\ ParentOf(n) \in Seq(Nat) /\ Last(n) \in Nat
          /\ n = Append(ParentOf(n), Last(n))
      BY <1>1, ParentOfNode DEF Leads, Child
    <2> QED
      BY <1>1, <2>1, ChildInjective
  <1>6. After(t, n) = GoesTo(t)[c]
    BY DEF After
  <1> HIDE DEF c, n
  <1>7. t[p].kind \in {"function", "ret"} => After(t, n) = Null
    BY <1>3, <1>4, <1>5, <1>6 DEF Onward
  <1>8. t[p].kind \in {"block", "compound"} =>
          After(t, n) = IF i < t[p].arity THEN Begin(t, Append(p, i + 1)) ELSE After(t, p)
    BY <1>3, <1>4, <1>5, <1>6 DEF Onward, Child, Begin, After
  <1>9. t[p].kind = "while" => After(t, n) = Append(p, 1)
    BY <1>3, <1>4, <1>5, <1>6 DEF Onward, Child
  <1>10. t[p].kind = "for" /\ i = 4 => After(t, n) = Append(p, 3)
    BY <1>3, <1>4, <1>5, <1>6 DEF Onward, Child
  <1>11. t[p].kind = "for" /\ i \in {1, 3} => After(t, n) = Append(p, 2)
    BY <1>3, <1>4, <1>5, <1>6 DEF Onward, Child
  <1>12. t[p].kind = "if" => After(t, n) = After(t, p)
    BY <1>3, <1>4, <1>5, <1>6 DEF Onward, After
  <1> QED
    BY <1>7, <1>8, <1>9, <1>10, <1>11, <1>12 DEF n

(***************************************************************************)
(* Instructions that follow the source.  Before the k-th instruction of    *)
(* the list is, which belongs to the block b, control has reached the      *)
(* place that b stands for or what comes after the expression before.      *)
(***************************************************************************)
Straight(i) == i.op \in {"eval", "store"} /\ ~ IsCondition(ast, i.at)

Clear(is, k) == k = 1 \/ Straight(is[k - 1])

Reaches(is, b, k) == IF k = 1 THEN StandsFor(b) ELSE After(ast, is[k - 1].at)

FitsSimple(is, b, k) ==
  /\ Clear(is, k)
  /\ \/ /\ is[k].op \in {"eval", "store"}
        /\ is[k].at = Reaches(is, b, k) /\ is[k].at \in DOMAIN ast
        /\ is[k].op = "store" <=> IsReturned(ast, is[k].at)
     \/ is[k].op = "br" /\ StandsFor(is[k].to) = Reaches(is, b, k)
     \/ is[k].op = "ret" /\ Reaches(is, b, k) = Null

FitsCondition(is, k) ==
  /\ k > 1 /\ is[k].op = "condbr"
  /\ is[k - 1].op = "eval" /\ IsCondition(ast, is[k - 1].at)
  /\ StandsFor(is[k].then) = Taken(ast, is[k - 1].at)
  /\ StandsFor(is[k].else) = NotTaken(ast, is[k - 1].at)

Fits(is, b, k) == FitsSimple(is, b, k) \/ FitsCondition(is, k)

FitsAll(is, b) == \A k \in 1..Len(is) : Fits(is, b, k)

(* After the list control is at the place x, or asks the condition e.      *)
Ready(is, b, x) ==
  /\ FitsAll(is, b)
  /\ Clear(is, Len(is) + 1) /\ Reaches(is, b, Len(is) + 1) = x

Asks(is, b, e) ==
  /\ FitsAll(is, b)
  /\ is # <<>> /\ is[Len(is)] = Eval(e) /\ IsCondition(ast, e)

(* An instruction at the end changes nothing before it.                    *)
LEMMA FitsBefore ==
  ASSUME NEW is \in Seq(Instr), NEW i \in Instr, NEW b, FitsAll(is, b)
  PROVE  LET js == Append(is, i) IN
         /\ Len(js) = Len(is) + 1 /\ js[Len(js)] = i /\ js # <<>> /\ Len(is) \in Nat
         /\ js \in Seq(Instr)
         /\ \A k \in 1..Len(is) : Fits(js, b, k)
         /\ Fits(js, b, Len(js)) => FitsAll(js, b)
         /\ Clear(js, Len(js)) <=> Clear(is, Len(is) + 1)
         /\ Reaches(js, b, Len(js)) = Reaches(is, b, Len(is) + 1)
         /\ Len(js) > 1 => js[Len(js) - 1] = is[Len(is)] /\ Len(is) # 0
         /\ Clear(js, Len(js) + 1) <=> Straight(i)
         /\ Reaches(js, b, Len(js) + 1) = After(ast, i.at)
  <1> DEFINE js == Append(is, i)
  <1>1. PICK n \in Nat : n = Len(is)
    OBVIOUS
  <1>2. /\ Len(js) = n + 1 /\ js \in Seq(Instr) /\ js[n + 1] = i
        /\ \A k \in 1..n : js[k] = is[k]
    BY <1>1
  <1> HIDE DEF js
  <1>3. js # <<>>
    BY <1>2
  <1>4. ASSUME NEW k \in 1..(n + 1)
        PROVE  /\ Clear(js, k) <=> Clear(is, k)
               /\ Reaches(js, b, k) = Reaches(is, b, k)
               /\ k > 1 => js[k - 1] = is[k - 1] /\ k - 1 \in 1..n
    <2>1. CASE k = 1
      BY <2>1 DEF Clear, Reaches
    <2>2. CASE k # 1
      <3>1. k - 1 \in 1..n
        BY <1>1, <2>2
      <3>2. js[k - 1] = is[k - 1]
        BY <1>2, <3>1
      <3> QED
        BY <2>2, <3>1, <3>2 DEF Clear, Reaches
    <2> QED
      BY <2>1, <2>2
  <1>5. ASSUME NEW k \in 1..n PROVE Fits(js, b, k)
    <2>1. js[k] = is[k] /\ k \in 1..(n + 1)
      BY <1>1, <1>2
    <2>2. Fits(is, b, k)
      BY <1>1 DEF FitsAll
    <2>3. CASE FitsSimple(is, b, k)
      <3>1. FitsSimple(js, b, k)
        BY <1>4, <2>1, <2>3 DEF FitsSimple
      <3> QED
        BY <3>1 DEF Fits
    <2>4. CASE FitsCondition(is, k)
      <3>1. k > 1
        BY <2>4 DEF FitsCondition
      <3>2. js[k - 1] = is[k - 1]
        BY <1>4, <2>1, <3>1
      <3>3. FitsCondition(js, k)
        BY <2>1, <2>4, <3>2 DEF FitsCondition
      <3> QED
        BY <3>3 DEF Fits
    <2> QED
      BY <2>2, <2>3, <2>4 DEF Fits
  <1>6. Fits(js, b, n + 1) => FitsAll(js, b)
    <2> SUFFICES ASSUME Fits(js, b, n + 1), NEW k \in 1..Len(js) PROVE Fits(js, b, k)
      BY DEF FitsAll
    <2>1. k \in 1..n \/ k = n + 1
      BY <1>1, <1>2
    <2> QED
      BY <1>5, <2>1
  <1>7. n + 1 \in 1..(n + 1) /\ (n + 1 > 1 => n # 0) /\ n + 2 # 1 /\ (n + 1) - 1 = n /\ (n + 2) - 1 = n + 1
        /\ (n + 1) + 1 = n + 2
    BY <1>1
  <1>8. /\ Clear(js, n + 2) <=> Straight(i)
        /\ Reaches(js, b, n + 2) = After(ast, i.at)
    BY <1>2, <1>7 DEF Clear, Reaches
  <1>9. /\ Clear(js, n + 1) <=> Clear(is, n + 1)
        /\ Reaches(js, b, n + 1) = Reaches(is, b, n + 1)
        /\ n + 1 > 1 => js[n] = is[n] /\ n # 0
    BY <1>4, <1>7
  <1> QED
    BY <1>1, <1>2, <1>3, <1>5, <1>6, <1>7, <1>8, <1>9 DEF js

LEMMA ReadyIsOpen ==
  ASSUME NEW is \in Seq(Instr), NEW b, NEW x, Ready(is, b, x)
  PROVE  ~ Terminated(is)
  <1> SUFFICES ASSUME is # <<>>, IsTerminator(Last(is)) PROVE FALSE
    BY DEF Terminated
  <1>1. PICK n \in Nat : n = Len(is)
    OBVIOUS
  <1>2. n # 0 /\ Last(is) = is[n] /\ (n + 1) - 1 = n /\ n + 1 # 1
    BY <1>1 DEF Last
  <1>3. Straight(is[n])
    BY <1>1, <1>2 DEF Ready, Clear
  <1> QED
    BY <1>2, <1>3 DEF Straight, IsTerminator

LEMMA ReadyEmpty ==
  ASSUME NEW b
  PROVE  Ready(<<>>, b, StandsFor(b))
  BY DEF Ready, FitsAll, Clear, Reaches

LEMMA FitsEmpty ==
  ASSUME NEW b
  PROVE  FitsAll(<<>>, b)
  BY DEF FitsAll

(* An expression is evaluated where control is.                            *)
LEMMA ReadyEval ==
  ASSUME NEW is \in Seq(Instr), NEW b, NEW e \in DOMAIN ast, e \in Seq(Nat), Ready(is, b, e),
         ~ IsReturned(ast, e)
  PROVE  /\ ~ IsCondition(ast, e) => Ready(Append(is, Eval(e)), b, After(ast, e))
         /\ IsCondition(ast, e) => Asks(Append(is, Eval(e)), b, e)
  <1>1. PICK i \in Instr : i = Eval(e)
    BY Kinds
  <1>2. PICK js : js = Append(is, i)
    OBVIOUS
  <1>3. i.op = "eval" /\ i.at = e
    BY <1>1 DEF Eval
  <1>4. FitsAll(is, b)
    BY DEF Ready
  <1>5. FitsSimple(js, b, Len(js))
    <2>1. Clear(js, Len(js)) /\ Reaches(js, b, Len(js)) = e /\ js[Len(js)] = i
      BY <1>2, <1>4, FitsBefore DEF Ready
    <2> QED
      BY <1>3, <2>1 DEF FitsSimple
  <1>6. FitsAll(js, b)
    BY <1>2, <1>4, <1>5, FitsBefore DEF Fits
  <1>7. /\ Clear(js, Len(js) + 1) <=> Straight(i)
        /\ Reaches(js, b, Len(js) + 1) = After(ast, e)
        /\ js # <<>> /\ js[Len(js)] = i
    BY <1>2, <1>3, <1>4, FitsBefore
  <1>8. ~ IsCondition(ast, e) => Straight(i)
    BY <1>3 DEF Straight
  <1>9. ~ IsCondition(ast, e) => Ready(js, b, After(ast, e))
    BY <1>6, <1>7, <1>8 DEF Ready
  <1>10. IsCondition(ast, e) => Asks(js, b, e)
    BY <1>1, <1>6, <1>7 DEF Asks
  <1> QED
    BY <1>1, <1>2, <1>9, <1>10

LEMMA ReadyStore ==
  ASSUME NEW is \in Seq(Instr), NEW b, NEW e \in DOMAIN ast, e \in Seq(Nat), Ready(is, b, e),
         IsReturned(ast, e)
  PROVE  Ready(Append(is, Store(e)), b, After(ast, e))
  <1>1. PICK i \in Instr : i = Store(e)
    BY Kinds
  <1>2. PICK js : js = Append(is, i)
    OBVIOUS
  <1>3. i.op = "store" /\ i.at = e
    BY <1>1 DEF Store
  <1>4. FitsAll(is, b)
    BY DEF Ready
  <1>5. FitsSimple(js, b, Len(js))
    <2>1. Clear(js, Len(js)) /\ Reaches(js, b, Len(js)) = e /\ js[Len(js)] = i
      BY <1>2, <1>4, FitsBefore DEF Ready
    <2> QED
      BY <1>3, <2>1 DEF FitsSimple
  <1>6. FitsAll(js, b)
    BY <1>2, <1>4, <1>5, FitsBefore DEF Fits
  <1>7. /\ Clear(js, Len(js) + 1) <=> Straight(i)
        /\ Reaches(js, b, Len(js) + 1) = After(ast, e)
    BY <1>2, <1>3, <1>4, FitsBefore
  <1>8. Straight(i)
    BY <1>3 DEF Straight, IsCondition, IsReturned
  <1> QED
    BY <1>1, <1>2, <1>6, <1>7, <1>8 DEF Ready

(* A branch leads on from where control is.                                *)
LEMMA FitsBranch ==
  ASSUME NEW is \in Seq(Instr), NEW b, NEW m \in Blocks(ast), Ready(is, b, StandsFor(m))
  PROVE  FitsAll(Append(is, Br(m)), b)
  <1>1. PICK i \in Instr : i = Br(m)
    BY Kinds
  <1>2. PICK js : js = Append(is, i)
    OBVIOUS
  <1>3. i.op = "br" /\ i.to = m
    BY <1>1 DEF Br
  <1>4. FitsAll(is, b)
    BY DEF Ready
  <1>5. FitsSimple(js, b, Len(js))
    <2>1. Clear(js, Len(js)) /\ Reaches(js, b, Len(js)) = StandsFor(m) /\ js[Len(js)] = i
      BY <1>2, <1>4, FitsBefore DEF Ready
    <2> QED
      BY <1>3, <2>1 DEF FitsSimple
  <1> QED
    BY <1>1, <1>2, <1>4, <1>5, FitsBefore DEF Fits

LEMMA FitsAsked ==
  ASSUME NEW is \in Seq(Instr), NEW b, NEW e, Asks(is, b, e),
         NEW m \in Blocks(ast), NEW l \in Blocks(ast),
         StandsFor(m) = Taken(ast, e), StandsFor(l) = NotTaken(ast, e)
  PROVE  FitsAll(Append(is, CondBr(m, l)), b)
  <1>1. PICK i \in Instr : i = CondBr(m, l)
    BY Kinds
  <1>2. PICK js : js = Append(is, i)
    OBVIOUS
  <1>3. i.op = "condbr" /\ i.then = m /\ i.else = l
    BY <1>1 DEF CondBr
  <1>4. FitsAll(is, b)
    BY DEF Asks
  <1>5. is # <<>> /\ Len(is) \in Nat /\ Len(is) # 0
    BY DEF Asks
  <1>6. /\ Len(js) > 1 /\ js[Len(js) - 1] = is[Len(is)] /\ js[Len(js)] = i
    <2>1. Len(js) = Len(is) + 1
      BY <1>2, <1>4, FitsBefore
    <2>2. Len(js) > 1
      BY <1>5, <2>1
    <2> QED
      BY <1>2, <1>4, <2>2, FitsBefore
  <1>7. js[Len(js) - 1].op = "eval" /\ js[Len(js) - 1].at = e
    BY <1>6 DEF Asks, Eval
  <1>8. FitsCondition(js, Len(js))
    BY <1>3, <1>6, <1>7 DEF FitsCondition, Asks
  <1> QED
    BY <1>1, <1>2, <1>4, <1>8, FitsBefore DEF Fits

LEMMA FitsReturn ==
  ASSUME NEW b, StandsFor(b) = Null
  PROVE  FitsAll(<<RetInstr>>, b)
  <1>1. PICK is : is = <<RetInstr>>
    OBVIOUS
  <1>2. Len(is) = 1 /\ is[1].op = "ret"
    BY <1>1 DEF RetInstr
  <1>3. FitsSimple(is, b, 1)
    BY <1>2 DEF FitsSimple, Clear, Reaches
  <1> QED
    BY <1>1, <1>2, <1>3 DEF FitsAll, Fits

(***************************************************************************)
(* Blocks under construction.  Rets remember the blocks they are in; these *)
(* blocks lose their last branch when their function is over.  left are    *)
(* the blocks of the Rets that the function on the stack has generated.    *)
(***************************************************************************)
Opened(is) == IF Terminated(is) THEN Front(is) ELSE is

Left(fs, pb) ==
  IF Len(fs) >= 3 THEN {pb[r] : r \in Rets(ast) \cap Below(ast, fs[3].node)} \ {Null} ELSE {}

BlockFits(left, co, b) ==
  IF b \in left THEN Ready(Opened(co[b]), b, Null) ELSE FitsAll(co[b], b)

(* The child that the frame f called last, and the place of the source     *)
(* where generation is.                                                    *)
LastKid(f) == Kid(f.node, Turns(ast, f.node)[f.step - 1])

Expected(f) == IF f.step = 1 THEN Begin(ast, f.node) ELSE After(ast, LastKid(f))

(* That child came to its end with the jump or return x.                   *)
Ended(f, x) ==
  /\ f.step > 1
  /\ IsPrefix(LastKid(f), x)
  /\ \A q \in DOMAIN ast :
       IsPrefix(LastKid(f), q) /\ IsStrictPrefix(q, x) => ast[q].kind = "compound"

(* The current block is where generation is, or it is over.                *)
Alive(f, left, co, c) == c \notin left /\ Ready(co[c], c, Expected(f))

Over(f, left, co, c) ==
  /\ \E x \in Rets(ast) \cup Jumps(ast) : Ended(f, x)
  /\ c \in left <=> ~ Terminated(co[c])

(* What the statement of the frame f will add to blocks other than the     *)
(* current one goes on where these blocks have come to.                    *)
Waits(f, left, co) ==
  LET n == f.node
      k == ast[n].kind
  IN  /\ k = "if" /\ f.step >= 2 => f.origin \notin left /\ Asks(co[f.origin], f.origin, Kid(n, 1))
      /\ k = "if" /\ f.step = 3 =>
           \/ Terminated(co[f.thenEnd]) \/ f.thenEnd \in left
           \/ Ready(co[f.thenEnd], f.thenEnd, After(ast, n))
      /\ k \in LoopKinds => \A b \in Blocks(ast) : Holds(ast, f, b) => b \notin left

EntriesAreInserted(fs, ins) ==
  \A x \in Functions(ast) :
    \/ <<"entry", x>> \in ins
    \/ \E k \in DOMAIN fs : Awaits(ast, fs[k], x) \/ (fs[k].node = x /\ fs[k].step = 1)

FlowParts(fs, ins, co, c, pb) ==
  /\ \A b \in Blocks(ast) : BlockFits(Left(fs, pb), co, b)
  /\ Len(fs) >= 3 => \/ Alive(fs[Len(fs)], Left(fs, pb), co, c)
                     \/ Over(fs[Len(fs)], Left(fs, pb), co, c)
  /\ \A k \in DOMAIN fs : Waits(fs[k], Left(fs, pb), co)
  /\ \A r \in Rets(ast) : pb[r] # Null => Passed(ast, fs, r)
  /\ EntriesAreInserted(fs, ins)

FlowNow == FlowParts(frames, inserted, code, cur, parentbb)

(* The frames that a call or a return leaves.                              *)
LEMMA SameLeft ==
  ASSUME NEW fs, NEW pb, NEW K \in Nat, K >= 3, Len(frames) >= 3, Len(fs) = K,
         fs[3].node = frames[3].node
  PROVE  Left(fs, pb) = Left(frames, pb)
  BY DEF Left

LEMMA PassedStays ==
  ASSUME ast \in Programs, GenInv, frames # <<>>, NEW fs, NEW r \in DOMAIN ast,
         Passed(ast, frames, r),
         ReturnedTo(fs) \/ \E f : CalledTo(f, fs)
  PROVE  Passed(ast, fs, r)
  <1>1. PICK K \in Nat \ {0} : K = Len(frames) /\ DOMAIN frames = 1..K /\ Top = frames[K] /\ K \in DOMAIN frames
    BY TopIn
  <1>2. \A k \in 1..K : frames[k].node # r /\ ~ Awaits(ast, frames[k], r)
    BY <1>1 DEF Passed
  <1>3. CASE ReturnedTo(fs)
    <2>1. DOMAIN fs = 1..(K - 1) /\ \A k \in 1..(K - 1) : fs[k] = frames[k]
      BY <1>1, <1>3 DEF ReturnedTo
    <2> QED
      BY <1>1, <1>2, <2>1 DEF Passed
  <1>4. ASSUME NEW f, CalledTo(f, fs) PROVE Passed(ast, fs, r)
    <2>1. /\ DOMAIN fs = 1..(K + 1) /\ \A k \in 1..(K - 1) : fs[k] = frames[k]
          /\ fs[K] = f /\ f.node = Top.node /\ fs[K + 1].node = NextKid
      BY <1>1, <1>4 DEF CalledTo
    <2>2. ~ Awaits(ast, Top, r) /\ Top.node # r
      BY <1>1, <1>2
    <2>3. /\ ~ Awaits(ast, f, r) /\ ~ Awaits(ast, fs[K + 1], r) /\ ~ IsPrefix(NextKid, r)
      BY <1>1, <1>4, <2>2, AwaitedAfterCall
    <2>4. NextKid # r
      <3>1. NextKid \in Seq(Nat)
        BY <1>4, NextKidBelow DEF CalledTo
      <3> QED
        BY <2>3, <3>1, PrefixReflexive
    <2> SUFFICES ASSUME NEW k \in 1..(K + 1) PROVE fs[k].node # r /\ ~ Awaits(ast, fs[k], r)
      BY <2>1 DEF Passed
    <2>5. k \in 1..(K - 1) \/ k = K \/ k = K + 1
      BY <1>1, Places
    <2>6. CASE k \in 1..(K - 1)
      <3>1. k \in 1..K
        BY <1>1, <2>6, Places
      <3> QED
        BY <1>2, <2>1, <2>6, <3>1
    <2>7. CASE k = K
      BY <2>1, <2>2, <2>3, <2>7
    <2>8. CASE k = K + 1
      BY <2>1, <2>3, <2>4, <2>8
    <2> QED
      BY <2>5, <2>6, <2>7, <2>8
  <1> QED
    BY <1>3, <1>4

LEMMA EntriesAfterCall ==
  ASSUME ast \in Programs, GenInv, frames # <<>>, EntriesAreInserted(frames, inserted),
         NEW f, NEW fs, CalledTo(f, fs), NEW ins, inserted \subseteq ins,
         ast[Top.node].kind = "function" => <<"entry", Top.node>> \in ins
  PROVE  EntriesAreInserted(fs, ins)
  <1> SUFFICES ASSUME NEW x \in Functions(ast), <<"entry", x>> \notin ins
               PROVE  \E k \in DOMAIN fs : Awaits(ast, fs[k], x) \/ (fs[k].node = x /\ fs[k].step = 1)
    BY DEF EntriesAreInserted
  <1>1. PICK K \in Nat \ {0} : K = Len(frames) /\ DOMAIN frames = 1..K /\ Top = frames[K] /\ K \in DOMAIN frames
    BY TopIn
  <1>2. PICK k \in 1..K : Awaits(ast, frames[k], x) \/ (frames[k].node = x /\ frames[k].step = 1)
    BY <1>1 DEF EntriesAreInserted
  <1>3. /\ DOMAIN fs = 1..(K + 1) /\ \A l \in 1..(K - 1) : fs[l] = frames[l]
        /\ fs[K] = f /\ f.node = Top.node /\ f.step = Top.step + 1
        /\ fs[K + 1].node = NextKid /\ fs[K + 1].step = 1
        /\ Top.step \in DOMAIN Turns(ast, Top.node)
    BY <1>1 DEF CalledTo
  <1>4. k \in 1..(K + 1) /\ K \in 1..(K + 1) /\ K + 1 \in 1..(K + 1) /\ (k = K \/ k \in 1..(K - 1))
    BY <1>1, Places
  <1>5. CASE k \in 1..(K - 1)
    BY <1>2, <1>3, <1>4, <1>5
  <1>6. CASE k = K /\ Awaits(ast, Top, x)
    <2>1. PICK i \in DOMAIN Turns(ast, Top.node) :
            i >= Top.step /\ IsPrefix(Kid(Top.node, Turns(ast, Top.node)[i]), x)
      BY <1>6 DEF Awaits
    <2>2. Top.node \in DOMAIN ast /\ Top.step \in Nat /\ Len(NextKid) = K /\ NextKid \in Seq(Nat)
      BY <1>1, <1>3, NextKidIsNode, NextKidBelow, TopFrame DEF GenInv, FrameType
    <2>3. i \in Nat
      BY <2>2, TurnIsChild
    <2>4. CASE i = Top.step
      <3>1. IsPrefix(NextKid, x)
        BY <2>1, <2>4 DEF NextKid
      <3>2. x \in DOMAIN ast /\ x \in Seq(Nat) /\ Len(x) = 1
        BY FunctionsMakeTheProgram, ProgramsAreTrees, TreePositions DEF Functions, OfKind
      <3>3. Len(NextKid) <= Len(x)
        BY <2>2, <3>1, <3>2, PrefixEntry
      <3>4. NextKid = x
        BY <1>1, <2>2, <3>1, <3>2, <3>3, PrefixSameLength
      <3> QED
        BY <1>3, <1>4, <3>4
    <2>5. CASE i # Top.step
      <3>1. i >= f.step
        BY <1>3, <2>1, <2>2, <2>3, <2>5
      <3>2. Awaits(ast, f, x)
        BY <1>3, <2>1, <3>1 DEF Awaits
      <3> QED
        BY <1>3, <1>4, <3>2
    <2> QED
      BY <2>4, <2>5
  <1>7. CASE k = K /\ Top.node = x
    BY <1>7 DEF Functions, OfKind
  <1> QED
    BY <1>1, <1>2, <1>4, <1>5, <1>6, <1>7

LEMMA EntriesAfterReturn ==
  ASSUME ast \in Programs, GenInv, frames # <<>>, EntriesAreInserted(frames, inserted),
         NEW fs, ReturnedTo(fs), NEW ins, inserted \subseteq ins
  PROVE  EntriesAreInserted(fs, ins)
  <1> SUFFICES ASSUME NEW x \in Functions(ast), <<"entry", x>> \notin ins
               PROVE  \E k \in DOMAIN fs : Awaits(ast, fs[k], x) \/ (fs[k].node = x /\ fs[k].step = 1)
    BY DEF EntriesAreInserted
  <1>1. PICK K \in Nat \ {0} : K = Len(frames) /\ DOMAIN frames = 1..K /\ Top = frames[K] /\ K \in DOMAIN frames
    BY TopIn
  <1>2. PICK k \in 1..K : Awaits(ast, frames[k], x) \/ (frames[k].node = x /\ frames[k].step = 1)
    BY <1>1 DEF EntriesAreInserted
  <1>3. /\ DOMAIN fs = 1..(K - 1) /\ \A l \in 1..(K - 1) : fs[l] = frames[l]
        /\ Top.step = Len(Turns(ast, Top.node)) + 1
    BY <1>1 DEF ReturnedTo
  <1>4. k = K \/ k \in 1..(K - 1)
    BY <1>1, Places
  <1>5. ASSUME k = K PROVE FALSE
    <2>1. Top.node \in DOMAIN ast /\ Len(Turns(ast, Top.node)) \in Nat
      BY <1>1, FrameIn
    <2>2. ~ Awaits(ast, Top, x)
      <3> SUFFICES ASSUME NEW i \in DOMAIN Turns(ast, Top.node), i >= Top.step PROVE FALSE
        BY DEF Awaits
      <3>1. i \in 1..Len(Turns(ast, Top.node))
        BY <2>1, TurnIsChild
      <3> QED
        BY <1>3, <2>1, <3>1
    <2>3. Top.node = x /\ Top.step = 1
      BY <1>1, <1>2, <1>5, <2>2
    <2>4. Turns(ast, Top.node) = <<ast[Top.node].arity>>
      BY <2>1, <2>3, TurnsAreChildren DEF Functions, OfKind
    <2>5. Len(Turns(ast, Top.node)) = 1
      BY <2>4
    <2> QED
      BY <1>3, <2>3, <2>5
  <1> QED
    BY <1>2, <1>3, <1>4, <1>5

(* The frames below the top one wait as before.                            *)
LEMMA WaitsBelow ==
  ASSUME ast \in Programs, GenInv, BlocksNow, FlowNow, frames # <<>>,
         NEW k \in DOMAIN frames, k < Len(frames),
         NEW left, NEW co,
         Left(frames, parentbb) \subseteq left,
         \A b \in left : b \in Left(frames, parentbb) \/ b = cur,
         \A b \in Blocks(ast) : ~ Touched(b) => co[b] = code[b]
  PROVE  Waits(frames[k], left, co)
  <1>1. Waits(frames[k], Left(frames, parentbb), code)
    BY DEF FlowNow, FlowParts
  <1>2. HeldApart(ast, frames, cur)
    BY DEF BlocksNow, BlockParts
  <1>3. ASSUME NEW b, Holds(ast, frames[k], b)
        PROVE  co[b] = code[b] /\ (b \in left => b \in Left(frames, parentbb))
    <2>1. ~ Touched(b) /\ b \in Blocks(ast)
      BY <1>2, <1>3, HeldIsNotTouched, HeldByFrame
    <2> QED
      BY <2>1 DEF Touched
  <1>4. PICK g : g = frames[k]
    OBVIOUS
  <1>5. PICK n : n = g.node
    OBVIOUS
  <1>6. ASSUME ast[n].kind = "if", g.step >= 2
        PROVE  g.origin \notin left /\ Asks(co[g.origin], g.origin, Kid(n, 1))
    <2>1. Holds(ast, g, g.origin)
      BY <1>5, <1>6 DEF Holds
    <2> QED
      BY <1>1, <1>3, <1>4, <1>5, <1>6, <2>1 DEF Waits
  <1>7. ASSUME ast[n].kind = "if", g.step = 3
        PROVE  \/ Terminated(co[g.thenEnd]) \/ g.thenEnd \in left
               \/ Ready(co[g.thenEnd], g.thenEnd, After(ast, n))
    <2>1. Holds(ast, g, g.thenEnd)
      BY <1>5, <1>7 DEF Holds, Fills
    <2> QED
      BY <1>1, <1>3, <1>4, <1>5, <1>7, <2>1 DEF Waits
  <1>8. ASSUME ast[n].kind \in LoopKinds, NEW b \in Blocks(ast), Holds(ast, g, b)
        PROVE  b \notin left
    BY <1>1, <1>3, <1>4, <1>5, <1>8 DEF Waits
  <1> QED
    BY <1>4, <1>5, <1>6, <1>7, <1>8 DEF Waits

(* A statement of a function calls gen.  Generation goes on at the begin   *)
(* of the child.                                                           *)
LEMMA FlowAfterCall ==
  ASSUME ast \in Programs, GenInv, BlocksNow, FlowNow, frames # <<>>, Len(frames) >= 3,
         NEW f, NEW fs, CalledTo(f, fs),
         NEW ins, inserted \subseteq ins, NEW co, NEW c, NEW left, left = Left(frames, parentbb),
         \A b \in Blocks(ast) : ~ Touched(b) => co[b] = code[b],
         \A b \in Blocks(ast) : co[b] = code[b] \/ BlockFits(left, co, b),
         Waits(f, left, co),
         c \notin left, Ready(co[c], c, Begin(ast, NextKid))
  PROVE  FlowParts(fs, ins, co, c, parentbb)
  <1>1. PICK K \in Nat \ {0} : K = Len(frames) /\ DOMAIN frames = 1..K /\ Top = frames[K] /\ K \in DOMAIN frames
    BY TopIn
  <1>2. /\ DOMAIN fs = 1..(K + 1) /\ \A l \in 1..(K - 1) : fs[l] = frames[l] /\ Len(fs) = K + 1
        /\ fs[K] = f /\ f.node = Top.node /\ f.step = Top.step + 1
        /\ fs[K + 1].node = NextKid /\ fs[K + 1].step = 1
        /\ Len(fs) = K + 1
    BY <1>1 DEF CalledTo
  <1>3. Left(fs, parentbb) = left
    <2>1. fs[3].node = frames[3].node
      <3>1. CASE K = 3
        BY <1>1, <1>2, <3>1
      <3>2. CASE K # 3
        BY <1>1, <1>2, <3>2
      <3> QED
        BY <3>1, <3>2
    <2>2. K + 1 \in Nat /\ K + 1 >= 3
      BY <1>1
    <2> QED
      BY <1>2, <2>1, <2>2, SameLeft
  <1>4. ASSUME NEW b \in Blocks(ast) PROVE BlockFits(left, co, b)
    <2>1. BlockFits(left, code, b)
      BY DEF FlowNow, FlowParts
    <2> QED
      BY <2>1 DEF BlockFits
  <1>5. ASSUME NEW k \in DOMAIN fs PROVE Waits(fs[k], left, co)
    <2>1. k \in 1..(K - 1) \/ k = K \/ k = K + 1
      BY <1>1, <1>2, Places
    <2>2. CASE k \in 1..(K - 1)
      <3>1. k \in DOMAIN frames /\ k < Len(frames)
        BY <1>1, <2>2, Places
      <3>2. Waits(frames[k], left, co)
        BY <3>1, WaitsBelow
      <3> QED
        BY <1>2, <2>2, <3>2
    <2>3. CASE k = K
      BY <1>2, <2>3
    <2>4. CASE k = K + 1
      <3>1. fs[k].step = 1
        BY <1>2, <2>4
      <3>2. \A b : ~ Holds(ast, fs[k], b)
        BY <3>1, NewHoldsNothing
      <3> QED
        BY <3>1, <3>2 DEF Waits
    <2> QED
      BY <2>1, <2>2, <2>3, <2>4
  <1>6. Alive(fs[Len(fs)], left, co, c)
    BY <1>2 DEF Alive, Expected
  <1>7. \A r \in Rets(ast) : parentbb[r] # Null => Passed(ast, fs, r)
    <2> SUFFICES ASSUME NEW r \in Rets(ast), parentbb[r] # Null PROVE Passed(ast, fs, r)
      OBVIOUS
    <2>1. Passed(ast, frames, r) /\ r \in DOMAIN ast
      BY DEF FlowNow, FlowParts, Rets, OfKind
    <2> QED
      BY <2>1, PassedStays
  <1>8. EntriesAreInserted(fs, ins)
    <2>1. ast[Top.node].kind # "function"
      <3>1. ast[Top.node].kind = "function" <=> K = 2
        BY <1>1, TopLevel
      <3> QED
        BY <1>1, <3>1
    <2> QED
      BY <2>1, EntriesAfterCall DEF FlowNow, FlowParts
  <1> QED
    BY <1>3, <1>4, <1>5, <1>6, <1>7, <1>8 DEF FlowParts

(* A statement of a function returns.                                      *)
LEMMA FlowAfterReturn ==
  ASSUME ast \in Programs, GenInv, BlocksNow, FlowNow, frames # <<>>,
         NEW fs, ReturnedTo(fs), Len(fs) >= 3,
         NEW ins, inserted \subseteq ins, NEW co, NEW c, NEW pb, NEW left, left = Left(fs, pb),
         Left(frames, parentbb) \subseteq left,
         \A b \in left : b \in Left(frames, parentbb) \/ b = cur,
         \A r \in Rets(ast) : pb[r] # Null => parentbb[r] # Null \/ r = Top.node,
         \A b \in Blocks(ast) : ~ Touched(b) => co[b] = code[b],
         \A b \in Blocks(ast) : BlockFits(left, co, b),
         Alive(fs[Len(fs)], left, co, c) \/ Over(fs[Len(fs)], left, co, c)
  PROVE  FlowParts(fs, ins, co, c, pb)
  <1>1. PICK K \in Nat \ {0} : K = Len(frames) /\ DOMAIN frames = 1..K /\ Top = frames[K] /\ K \in DOMAIN frames
    BY TopIn
  <1>2. DOMAIN fs = 1..(K - 1) /\ \A l \in 1..(K - 1) : fs[l] = frames[l]
    BY <1>1 DEF ReturnedTo
  <1>3. ASSUME NEW k \in DOMAIN fs PROVE Waits(fs[k], left, co)
    <2>1. k \in 1..(K - 1)
      BY <1>2
    <2>2. k \in DOMAIN frames /\ k < Len(frames)
      BY <1>1, <2>1, Places
    <2>3. Waits(frames[k], left, co)
      BY <2>2, WaitsBelow
    <2> QED
      BY <1>2, <2>1, <2>3
  <1>4. ASSUME NEW r \in Rets(ast), pb[r] # Null PROVE Passed(ast, fs, r)
    <2>1. r \in DOMAIN ast
      BY DEF Rets, OfKind
    <2>2. CASE parentbb[r] # Null
      <3>1. Passed(ast, frames, r)
        BY <2>2 DEF FlowNow, FlowParts
      <3> QED
        BY <2>1, <3>1, PassedStays
    <2>3. CASE r = Top.node
      <3> SUFFICES ASSUME NEW k \in 1..(K - 1)
                   PROVE  frames[k].node # r /\ ~ Awaits(ast, frames[k], r)
        BY <1>2 DEF Passed
      <3>1. k \in DOMAIN frames /\ k < Len(frames)
        BY <1>1, Places
      <3>2. IsStrictPrefix(frames[k].node, Top.node)
        BY <3>1, FrameAbove
      <3>3. r \in Seq(Nat) /\ IsPrefix(Top.node, r)
        BY <2>1, <2>3, ProgramsAreTrees, TreePositions, PrefixReflexive
      <3>4. ~ Awaits(ast, frames[k], r)
        BY <2>1, <3>1, <3>3, TopIsNotAwaited DEF BlocksNow, BlockParts
      <3> QED
        BY <2>3, <3>2, <3>4 DEF IsStrictPrefix
    <2> QED
      BY <1>4, <2>2, <2>3
  <1>5. EntriesAreInserted(fs, ins)
    BY EntriesAfterReturn DEF FlowNow, FlowParts
  <1> QED
    BY <1>3, <1>4, <1>5 DEF FlowParts

LEMMA CleanLeads ==
  ASSUME ast \in Programs, IsClean(ast)
  PROVE  Leads(ast) /\ IsTree(ast)
  <1>1. IsTree(ast)
    BY ProgramsAreTrees
  <1>2. ast[Root].kind = "program"
    BY <1>1, FunctionsMakeTheProgram DEF IsTree
  <1>3. \A n \in OfKind(ast, {"for"}) : ast[n].arity >= 1
    BY StatementsAreWhole
  <1> QED
    BY <1>1, <1>2, <1>3 DEF Leads, IsClean

(* What the blocks stand for.                                              *)
LEMMA Stands ==
  ASSUME NEW n
  PROVE  /\ StandsFor(<<"entry", n>>) = Begin(ast, Body(ast, n))
         /\ StandsFor(<<"return", n>>) = Null
         /\ StandsFor(<<"then", n>>) = Begin(ast, Kid(n, 2))
         /\ StandsFor(<<"while-body", n>>) = Begin(ast, Kid(n, 2))
         /\ StandsFor(<<"else", n>>) = Begin(ast, Kid(n, 3))
         /\ StandsFor(<<"for-body", n>>) = Begin(ast, Kid(n, 4))
         /\ StandsFor(<<"while-cond", n>>) = Kid(n, 1)
         /\ StandsFor(<<"for-header", n>>) = Kid(n, 2)
         /\ StandsFor(<<"next-for", n>>) = Kid(n, 3)
         /\ StandsFor(<<"merge-if", n>>) = After(ast, n)
         /\ StandsFor(<<"merge-for", n>>) = After(ast, n)
         /\ StandsFor(<<"while-merge", n>>) = After(ast, n)
  BY DEF StandsFor

(* The parts of a statement that are conditions, and their branches.       *)
LEMMA KidParts ==
  ASSUME NEW n \in Seq(Nat), NEW i \in Nat
  PROVE  ParentOf(Kid(n, i)) = n /\ Last(Kid(n, i)) = i
  <1>1. PICK m : m = Kid(n, i)
    OBVIOUS
  <1>2. /\ m \in Seq(Nat) /\ Len(m) = Len(n) + 1 /\ SubSeq(m, 1, Len(n)) = n
        /\ m[Len(n) + 1] = i /\ Len(n) \in Nat
    BY <1>1, ChildBelow, ChildParts DEF Kid
  <1>3. Len(m) - 1 = Len(n)
    BY <1>2
  <1>4. ParentOf(m) = SubSeq(m, 1, Len(m) - 1) /\ Last(m) = m[Len(m)]
    BY DEF ParentOf, Front, Last
  <1> QED
    BY <1>1, <1>2, <1>3, <1>4

LEMMA ConditionOfIf ==
  ASSUME ast \in Programs, IsClean(ast), NEW n \in DOMAIN ast, ast[n].kind = "if"
  PROVE  /\ IsCondition(ast, Kid(n, 1)) /\ ~ IsReturned(ast, Kid(n, 1)) /\ Kid(n, 1) \in DOMAIN ast
         /\ Taken(ast, Kid(n, 1)) = StandsFor(<<"then", n>>)
         /\ NotTaken(ast, Kid(n, 1)) = IF ast[n].arity = 3 THEN StandsFor(<<"else", n>>)
                                       ELSE StandsFor(<<"merge-if", n>>)
         /\ ast[n].arity \in {2, 3}
  <1>1. n \in Seq(Nat) /\ ast[n].arity \in {2, 3} /\ 1 \in 1..ast[n].arity
    BY ProgramsAreTrees, TreePositions, StatementsAreWhole DEF OfKind
  <1>2. Kid(n, 1) \in DOMAIN ast
    BY <1>1, ProgramsAreTrees, TreePositions DEF Kid
  <1>3. ParentOf(Kid(n, 1)) = n /\ Last(Kid(n, 1)) = 1
    BY <1>1, KidParts
  <1> QED
    BY <1>1, <1>2, <1>3, Stands DEF IsCondition, IsReturned, Taken, NotTaken, Kid, Child

LEMMA ConditionOfWhile ==
  ASSUME ast \in Programs, IsClean(ast), NEW n \in DOMAIN ast, ast[n].kind = "while"
  PROVE  /\ IsCondition(ast, Kid(n, 1)) /\ ~ IsReturned(ast, Kid(n, 1)) /\ Kid(n, 1) \in DOMAIN ast
         /\ Taken(ast, Kid(n, 1)) = StandsFor(<<"while-body", n>>)
         /\ NotTaken(ast, Kid(n, 1)) = StandsFor(<<"while-merge", n>>)
  <1>1. n \in Seq(Nat) /\ ast[n].arity = 2 /\ 1 \in 1..ast[n].arity
    BY ProgramsAreTrees, TreePositions, StatementsAreWhole DEF OfKind
  <1>2. Kid(n, 1) \in DOMAIN ast
    BY <1>1, ProgramsAreTrees, TreePositions DEF Kid
  <1>3. ParentOf(Kid(n, 1)) = n /\ Last(Kid(n, 1)) = 1
    BY <1>1, KidParts
  <1> QED
    BY <1>1, <1>2, <1>3, Stands DEF IsCondition, IsReturned, Taken, NotTaken, Kid, Child

LEMMA ConditionOfFor ==
  ASSUME ast \in Programs, IsClean(ast), NEW n \in DOMAIN ast, ast[n].kind = "for"
  PROVE  /\ IsCondition(ast, Kid(n, 2)) /\ ~ IsReturned(ast, Kid(n, 2)) /\ Kid(n, 2) \in DOMAIN ast
         /\ Taken(ast, Kid(n, 2)) = StandsFor(<<"for-body", n>>)
         /\ NotTaken(ast, Kid(n, 2)) = StandsFor(<<"merge-for", n>>)
  <1>1. n \in Seq(Nat) /\ ast[n].arity = 4 /\ 2 \in 1..ast[n].arity
    BY ProgramsAreTrees, TreePositions, StatementsAreWhole DEF OfKind
  <1>2. Kid(n, 2) \in DOMAIN ast
    BY <1>1, ProgramsAreTrees, TreePositions DEF Kid
  <1>3. ParentOf(Kid(n, 2)) = n /\ Last(Kid(n, 2)) = 2
    BY <1>1, KidParts
  <1> QED
    BY <1>1, <1>2, <1>3, Stands DEF IsCondition, IsReturned, Taken, NotTaken, Kid, Child

(* No statement that gen is called on is a condition.                      *)
LEMMA TurnIsNoCondition ==
  ASSUME ast \in Programs, NEW n \in DOMAIN ast, NEW i \in DOMAIN Turns(ast, n)
  PROVE  ~ IsCondition(ast, Kid(n, Turns(ast, n)[i])) /\ ~ IsReturned(ast, Kid(n, Turns(ast, n)[i]))
  <1>1. PICK a : a = Turns(ast, n)[i]
    OBVIOUS
  <1>2. n \in Seq(Nat) /\ a \in Nat /\ a \in 1..ast[n].arity /\ i \in 1..Len(Turns(ast, n))
        /\ ast[n].arity \in Nat
    <2>1. n \in Seq(Nat) /\ ast[n].arity \in Nat
      BY ProgramsAreTrees, TreePositions
    <2> QED
      BY <1>1, <2>1, TurnIsChild
  <1>3. ParentOf(Kid(n, a)) = n /\ Last(Kid(n, a)) = a
    BY <1>2, KidParts
  <1>4. ast[n].kind = "if" => a # 1
    <2> SUFFICES ASSUME ast[n].kind = "if" PROVE a # 1
      OBVIOUS
    <2>1. ast[n].arity \in {2, 3}
      BY StatementsAreWhole DEF OfKind
    <2>2. CASE ast[n].arity = 2
      <3>1. Len(Turns(ast, n)) = 1 /\ Turns(ast, n)[1] = 2
        BY <2>2, TurnsAreChildren
      <3> QED
        BY <1>1, <1>2, <3>1
    <2>3. CASE ast[n].arity = 3
      <3>1. Len(Turns(ast, n)) = 2 /\ Turns(ast, n)[1] = 2 /\ Turns(ast, n)[2] = 3
        BY <2>3, TurnsAreChildren
      <3> QED
        BY <1>1, <1>2, <3>1
    <2> QED
      BY <2>1, <2>2, <2>3
  <1>5. ast[n].kind = "while" => a # 1
    <2> SUFFICES ASSUME ast[n].kind = "while" PROVE a # 1
      OBVIOUS
    <2>1. Turns(ast, n) = <<2>>
      BY TurnsAreChildren
    <2> QED
      BY <1>1, <1>2, <2>1
  <1>6. ast[n].kind = "for" => a # 2
    <2> SUFFICES ASSUME ast[n].kind = "for" PROVE a # 2
      OBVIOUS
    <2>1. Turns(ast, n) = <<1, 4, 3>>
      BY TurnsAreChildren
    <2>2. i \in 1..3
      BY <1>2, <2>1
    <2> QED
      BY <1>1, <2>1, <2>2
  <1>7. ast[n].kind # "ret"
    <2> SUFFICES ASSUME ast[n].kind = "ret" PROVE FALSE
      OBVIOUS
    <2>1. Turns(ast, n) = <<>>
      BY TurnsAreChildren
    <2> QED
      BY <1>2, <2>1
  <1> QED
    BY <1>1, <1>3, <1>4, <1>5, <1>6, <1>7 DEF IsCondition, IsReturned

(***************************************************************************)
(* Where generation is.                                                    *)
(***************************************************************************)

(* Nothing was called: generation is alive.                                *)
LEMMA AliveAtStart ==
  ASSUME ast \in Programs, GenInv, frames # <<>>, Len(frames) >= 3, FlowNow, Top.step = 1
  PROVE  /\ cur \notin Left(frames, parentbb)
         /\ Ready(code[cur], cur, Begin(ast, Top.node))
  <1>1. Top = frames[Len(frames)]
    BY TopIn
  <1>2. ~ Over(Top, Left(frames, parentbb), code, cur)
    BY DEF Over, Ended
  <1>3. Alive(Top, Left(frames, parentbb), code, cur)
    BY <1>1, <1>2 DEF FlowNow, FlowParts
  <1> QED
    BY <1>3 DEF Alive, Expected

LEMMA AliveOrOver ==
  ASSUME ast \in Programs, GenInv, frames # <<>>, Len(frames) >= 3, FlowNow
  PROVE  \/ Alive(Top, Left(frames, parentbb), code, cur)
         \/ Over(Top, Left(frames, parentbb), code, cur)
  BY TopIn DEF FlowNow, FlowParts

(* The frame that is on top after a return.                                *)
LEMMA ReturnPlace ==
  ASSUME ast \in Programs, GenInv, BlocksNow, frames # <<>>, NEW fs, ReturnedTo(fs), Len(fs) >= 3
  PROVE  LET g == fs[Len(fs)] IN
         /\ LastKid(g) = Top.node /\ g.step > 1
         /\ Expected(g) = After(ast, Top.node)
         /\ \A pb : Left(fs, pb) = Left(frames, pb)
         /\ g.node \in DOMAIN ast /\ g.step - 1 \in DOMAIN Turns(ast, g.node)
         /\ Top.node = Kid(g.node, Turns(ast, g.node)[g.step - 1])
         /\ Len(frames) >= 4
  <1>1. PICK K \in Nat \ {0} : K = Len(frames) /\ DOMAIN frames = 1..K /\ Top = frames[K] /\ K \in DOMAIN frames
    BY TopIn
  <1>2. /\ DOMAIN fs = 1..(K - 1) /\ \A l \in 1..(K - 1) : fs[l] = frames[l]
        /\ Len(fs) = K - 1
    BY <1>1 DEF ReturnedTo
  <1>3. K >= 4 /\ K - 1 \in 1..(K - 1) /\ K - 1 \in 1..K /\ K - 1 < K /\ (K - 1) + 1 = K
        /\ 3 \in 1..(K - 1) /\ K - 1 \in Nat
    BY <1>1, <1>2
  <1>4. PICK g : g = frames[K - 1]
    OBVIOUS
  <1>5. fs[Len(fs)] = g /\ fs[3] = frames[3]
    BY <1>2, <1>3, <1>4
  <1>6. /\ g.step - 1 \in DOMAIN Turns(ast, g.node)
        /\ Top.node = Kid(g.node, Turns(ast, g.node)[g.step - 1])
    BY <1>1, <1>3, <1>4 DEF BlocksNow, BlockParts, FramesWait
  <1>7. g.step > 1 /\ g.step \in Nat /\ g.node \in DOMAIN ast
    BY <1>1, <1>3, <1>4, FrameAbove, FrameIn
  <1>8. g.step # 1 /\ LastKid(g) = Top.node
    BY <1>6, <1>7 DEF LastKid
  <1>9. \A pb : Left(fs, pb) = Left(frames, pb)
    BY <1>1, <1>2, <1>3, <1>5, SameLeft
  <1> QED
    BY <1>1, <1>3, <1>5, <1>6, <1>7, <1>8, <1>9 DEF Expected

(* Statements follow neither a return nor a jump.                          *)
LEMMA OverIsLast ==
  ASSUME ast \in Programs, GenInv, IsClean(ast), frames # <<>>,
         ast[Top.node].kind \in {"compound", "block"},
         NEW x \in Rets(ast) \cup Jumps(ast), Ended(Top, x)
  PROVE  Top.step > ast[Top.node].arity
  <1>1. PICK n \in DOMAIN ast : n = Top.node
    BY TopFrame DEF GenInv
  <1>2. PICK s \in Nat : s = Top.step
    BY TopFrame DEF GenInv, FrameType
  <1>3. /\ n \in Seq(Nat) /\ ast[n].arity \in Nat
        /\ Len(Turns(ast, n)) = ast[n].arity /\ \A i \in 1..ast[n].arity : Turns(ast, n)[i] = i
        /\ s \in 1..(ast[n].arity + 1) /\ s > 1
    <2>1. n \in Seq(Nat) /\ ast[n].arity \in Nat
      BY ProgramsAreTrees, TreePositions
    <2>2. /\ Len(Turns(ast, n)) = ast[n].arity /\ \A i \in 1..ast[n].arity : Turns(ast, n)[i] = i
      BY <1>1, TurnsAreChildren
    <2>3. s \in 1..(Len(Turns(ast, n)) + 1)
      BY <1>1, <1>2, TopFrame DEF GenInv
    <2> QED
      BY <1>2, <2>1, <2>2, <2>3 DEF Ended
  <1>4. s - 1 \in 1..ast[n].arity /\ s - 1 \in Nat
    BY <1>3
  <1>5. PICK k : k = Append(n, s - 1)
    OBVIOUS
  <1>6. LastKid(Top) = k
    BY <1>1, <1>2, <1>3, <1>4, <1>5 DEF LastKid, Kid
  <1>7. k \in Seq(Nat) /\ Len(k) = Len(n) + 1 /\ IsStrictPrefix(n, k) /\ k[Len(n) + 1] = s - 1
    BY <1>3, <1>4, <1>5, ChildBelow, ChildParts
  <1>8. x \in DOMAIN ast /\ x \in Seq(Nat)
    BY ProgramsAreTrees, TreePositions DEF Rets, Jumps, OfKind
  <1>9. IsPrefix(k, x)
    BY <1>6 DEF Ended
  <1>10. IsStrictPrefix(n, x) /\ x[Len(n) + 1] = s - 1
    <2>1. IsStrictPrefix(n, x)
      BY <1>3, <1>7, <1>8, <1>9, StrictPrefixTransitive
    <2>2. Len(k) <= Len(x) /\ \A l \in 1..Len(k) : k[l] = x[l]
      BY <1>7, <1>8, <1>9, PrefixEntry
    <2>3. Len(n) + 1 \in 1..Len(k)
      BY <1>3, <1>7
    <2> QED
      BY <1>7, <2>1, <2>2, <2>3
  <1>11. ASSUME NEW r \in Below(ast, n), IsStrictPrefix(r, x) PROVE ast[r].kind = "compound"
    <2>1. r \in DOMAIN ast /\ r \in Seq(Nat) /\ IsStrictPrefix(n, r)
      BY ProgramsAreTrees, TreePositions DEF Below
    <2>2. IsPrefix(r, x) /\ Len(r) >= Len(k)
      <3>1. Len(n) < Len(r)
        BY <1>3, <2>1, StrictPrefixShorter
      <3>2. Len(r) \in Nat /\ Len(n) \in Nat
        BY <1>3, <2>1
      <3> QED
        BY <1>7, <1>11, <3>1, <3>2 DEF IsStrictPrefix
    <2>3. IsPrefix(k, r)
      BY <1>7, <1>8, <1>9, <2>1, <2>2, PrefixComparable
    <2> QED
      BY <1>6, <1>11, <2>1, <2>3 DEF Ended
  <1>12. NothingFollows(ast, x)
    BY DEF IsClean
  <1>13. n \in OfKind(ast, {"compound", "block"})
    BY <1>1 DEF OfKind
  <1>14. x[Len(n) + 1] = ast[n].arity
    BY <1>10, <1>11, <1>12, <1>13 DEF NothingFollows
  <1> QED
    BY <1>1, <1>2, <1>3, <1>10, <1>14

(***************************************************************************)
(* What a step writes.                                                     *)
(***************************************************************************)
FlowNext == FlowParts(frames', inserted', code', cur', parentbb')

LEMMA EmitAt ==
  ASSUME NEW co \in Codes, NEW b \in Blocks(ast), NEW i, NEW d, d = Emit(co, b, i)
  PROVE  d[b] = Append(co[b], i)
  BY DEF Emit, Codes

LEMMA OpenedEmit ==
  ASSUME NEW is \in Seq(Instr), NEW i \in Instr
  PROVE  /\ IsTerminator(i) => Opened(Append(is, i)) = is
         /\ ~ IsTerminator(i) => Opened(Append(is, i)) = Append(is, i)
         /\ ~ Terminated(is) => Opened(is) = is
  <1>1. PICK js : js = Append(is, i)
    OBVIOUS
  <1>2. js # <<>> /\ Last(js) = i /\ Front(js) = is
    BY <1>1 DEF Last, Front
  <1> QED
    BY <1>1, <1>2 DEF Opened, Terminated

(* What was not early after the step was open before it.                   *)
LEMMA NotEarly ==
  ASSUME NEW b \in Blocks(ast), NEW co, ~ SomeEarly(ast, co),
         Early(co[b]) <=> Early(code[b]) \/ Terminated(code[b])
  PROVE  ~ Terminated(code[b])
  BY DEF SomeEarly

(* A branch at the end of a block.                                         *)
LEMMA BranchFits ==
  ASSUME NEW b \in Blocks(ast), code[b] \in Seq(Instr), NEW left, BlockFits(left, code, b),
         NEW m \in Blocks(ast), ~ Terminated(code[b]),
         b \in left \/ Ready(code[b], b, StandsFor(m)),
         NEW co, co[b] = Append(code[b], Br(m))
  PROVE  BlockFits(left, co, b)
  <1>1. PICK i \in Instr : i = Br(m) /\ IsTerminator(i)
    BY Kinds
  <1>2. CASE b \in left
    <2>1. Opened(co[b]) = code[b] /\ Opened(code[b]) = code[b]
      BY <1>1, OpenedEmit
    <2> QED
      BY <1>2, <2>1 DEF BlockFits
  <1>3. CASE b \notin left
    <2>1. FitsAll(co[b], b)
      BY <1>3, FitsBranch
    <2> QED
      BY <1>3, <2>1 DEF BlockFits
  <1> QED
    BY <1>2, <1>3

LEMMA CloseFits ==
  ASSUME NEW b \in Blocks(ast), code[b] \in Seq(Instr), NEW left, BlockFits(left, code, b),
         NEW m \in Blocks(ast),
         Terminated(code[b]) \/ b \in left \/ Ready(code[b], b, StandsFor(m)),
         NEW co, co[b] = Close(code[b], m)
  PROVE  BlockFits(left, co, b)
  <1>1. CASE Terminated(code[b])
    BY <1>1 DEF Close, BlockFits
  <1>2. CASE ~ Terminated(code[b])
    BY <1>2, BranchFits DEF Close
  <1> QED
    BY <1>1, <1>2

(* The current block of a statement in progress.                           *)
LEMMA CurPlace ==
  ASSUME ast \in Programs, GenInv, frames # <<>>, Len(frames) >= 3, FlowNow,
         NEW left, left = Left(frames, parentbb)
  PROVE  /\ Terminated(code[cur]) \/ cur \in left \/ Ready(code[cur], cur, Expected(Top))
         /\ \A b \in Blocks(ast) : BlockFits(left, code, b) /\ code[b] \in Seq(Instr)
         /\ left \subseteq inserted
         /\ Waits(Top, left, code)
  <1>1. Terminated(code[cur]) \/ cur \in left \/ Ready(code[cur], cur, Expected(Top))
    BY AliveOrOver DEF Alive, Over
  <1>2. left \subseteq inserted
    BY DEF Left, GenInv, ParentsInv
  <1>3. Waits(Top, left, code)
    BY TopIn DEF FlowNow, FlowParts
  <1>4. \A b \in Blocks(ast) : BlockFits(left, code, b)
    BY DEF FlowNow, FlowParts
  <1>5. \A b \in Blocks(ast) : code[b] \in Seq(Instr)
    BY DEF GenInv
  <1> QED
    BY <1>1, <1>2, <1>3, <1>4, <1>5

LEMMA BranchOut ==
  ASSUME ast \in Programs, GenInv, frames # <<>>, Len(frames) >= 3, FlowNow,
         NEW left, left = Left(frames, parentbb), cur \in Blocks(ast),
         NEW m \in Blocks(ast), StandsFor(m) = Expected(Top), ~ Terminated(code[cur]),
         NEW co, co[cur] = Append(code[cur], Br(m))
  PROVE  BlockFits(left, co, cur)
  <1>1. /\ cur \in left \/ Ready(code[cur], cur, StandsFor(m))
        /\ BlockFits(left, code, cur) /\ code[cur] \in Seq(Instr)
    BY CurPlace
  <1> QED
    BY <1>1, BranchFits

(***************************************************************************)
(* Statements without statements in them.                                  *)
(***************************************************************************)
LEMMA LeafPlace ==
  ASSUME ast \in Programs, IsClean(ast), GenInv, BlocksNow, FlowNow, frames # <<>>,
         ast[Top.node].kind \in LeafKinds, Return,
         NEW n, n = Top.node, NEW b, b = cur, NEW fs, fs = frames',
         NEW left, left = Left(frames, parentbb)
  PROVE  /\ ReturnedTo(fs) /\ Len(fs) >= 3 /\ Len(frames) >= 3 /\ Len(frames) >= 4
         /\ Left(fs, parentbb) = left
         /\ n \in DOMAIN ast /\ n \in Seq(Nat)
         /\ b \in Blocks(ast) /\ code \in Codes /\ code[b] \in Seq(Instr)
         /\ b \notin left /\ Ready(code[b], b, Begin(ast, n))
         /\ LastKid(fs[Len(fs)]) = n /\ fs[Len(fs)].step > 1
         /\ Expected(fs[Len(fs)]) = After(ast, n)
         /\ ~ IsCondition(ast, n) /\ ~ IsReturned(ast, n)
  <1>1. ReturnedTo(fs) /\ b \in Blocks(ast)
    BY LeafReturns
  <1>2. PICK K \in Nat : K = Len(frames) /\ K >= 4
    BY LeafReturns
  <1>3. Len(fs) >= 3 /\ Len(frames) >= 3 /\ Len(frames) >= 4
    BY <1>1, <1>2 DEF ReturnedTo
  <1>4. n \in DOMAIN ast /\ n \in Seq(Nat)
    BY TopFrame, ProgramsAreTrees, TreePositions DEF GenInv
  <1>5. Top.step = 1
    <2>1. Turns(ast, n) = <<>>
      BY <1>4, TurnsAreChildren DEF LeafKinds
    <2> QED
      BY <1>1, <2>1 DEF ReturnedTo
  <1>6. b \notin left /\ Ready(code[b], b, Begin(ast, n))
    BY <1>3, <1>5, AliveAtStart
  <1>7. PICK g : g = fs[Len(fs)]
    OBVIOUS
  <1>8. /\ LastKid(g) = n /\ g.step > 1 /\ Expected(g) = After(ast, n)
        /\ Left(fs, parentbb) = left
        /\ g.node \in DOMAIN ast /\ g.step - 1 \in DOMAIN Turns(ast, g.node)
        /\ n = Kid(g.node, Turns(ast, g.node)[g.step - 1])
    BY <1>1, <1>3, <1>7, ReturnPlace
  <1>9. ~ IsCondition(ast, n) /\ ~ IsReturned(ast, n)
    BY <1>8, TurnIsNoCondition
  <1>10. code \in Codes /\ code[b] \in Seq(Instr)
    BY <1>1 DEF GenInv, Codes
  <1> QED
    BY <1>1, <1>3, <1>4, <1>6, <1>7, <1>8, <1>9, <1>10

LEMMA GenExpressionFlow ==
  ASSUME ast \in Programs, IsClean(ast), GenInv, BlocksNow, FlowNow, GenExpression
  PROVE  FlowNext
  <1>0. PICK n : n = Top.node
    OBVIOUS
  <1>b. PICK b : b = cur
    OBVIOUS
  <1>f. PICK fs : fs = frames'
    OBVIOUS
  <1>l. PICK left : left = Left(frames, parentbb)
    OBVIOUS
  <1>c. PICK co : co = Emit(code, b, Eval(n))
    OBVIOUS
  <1>1. /\ frames # <<>> /\ ast[n].kind \in ExpressionKinds /\ code' = co /\ Return
        /\ cur' = b /\ inserted' = inserted /\ parentbb' = parentbb
    BY <1>0, <1>b, <1>c DEF GenExpression, Keep
  <1>2. /\ ReturnedTo(fs) /\ Len(fs) >= 3 /\ Len(frames) >= 3
        /\ Left(fs, parentbb) = left
        /\ n \in DOMAIN ast /\ n \in Seq(Nat)
        /\ b \in Blocks(ast) /\ code \in Codes /\ code[b] \in Seq(Instr)
        /\ b \notin left /\ Ready(code[b], b, Begin(ast, n))
        /\ Expected(fs[Len(fs)]) = After(ast, n)
        /\ ~ IsCondition(ast, n) /\ ~ IsReturned(ast, n)
    <2>1. ast[Top.node].kind \in LeafKinds
      BY <1>0, <1>1 DEF LeafKinds
    <2> QED
      BY <1>0, <1>b, <1>f, <1>l, <1>1, <2>1, LeafPlace
  <1>3. Begin(ast, n) = n
    BY <1>1, <1>2, CleanLeads, BeginOf DEF ExpressionKinds
  <1>4. co[b] = Append(code[b], Eval(n)) /\ \A x \in Blocks(ast) : x # b => co[x] = code[x]
    <2>1. Eval(n) \in Instr
      BY <1>2, Kinds
    <2> QED
      BY <1>2, <1>c, <2>1, EmitAt, EmitEnds
  <1>5. Ready(co[b], b, After(ast, n))
    BY <1>2, <1>3, <1>4, ReadyEval
  <1>6. \A x \in Blocks(ast) : BlockFits(left, co, x)
    <2> SUFFICES ASSUME NEW x \in Blocks(ast) PROVE BlockFits(left, co, x)
      OBVIOUS
    <2>1. CASE x = b
      BY <1>2, <1>5, <2>1 DEF BlockFits, Ready
    <2>2. CASE x # b
      BY <1>4, <1>l, <2>2 DEF FlowNow, FlowParts, BlockFits
    <2> QED
      BY <2>1, <2>2
  <1>7. \A x \in Blocks(ast) : ~ Touched(x) => co[x] = code[x]
    BY <1>4, <1>b DEF Touched
  <1>8. Alive(fs[Len(fs)], left, co, b)
    BY <1>2, <1>5 DEF Alive
  <1>9. FlowParts(fs, inserted, co, b, parentbb)
    BY <1>1, <1>2, <1>6, <1>7, <1>8, <1>l, FlowAfterReturn
  <1> QED
    BY <1>1, <1>9, <1>f DEF FlowNext

(* A statement that ends here was the last of its parts.                   *)
LEMMA EndsHere ==
  ASSUME ast \in Programs, NEW g, NEW x \in Rets(ast) \cup Jumps(ast), LastKid(g) = x, g.step > 1
  PROVE  Ended(g, x)
  <1>1. x \in Seq(Nat)
    BY ProgramsAreTrees, TreePositions DEF Rets, Jumps, OfKind
  <1>2. IsPrefix(x, x)
    BY <1>1, PrefixReflexive
  <1>3. ASSUME NEW q \in DOMAIN ast, IsPrefix(x, q), IsStrictPrefix(q, x) PROVE FALSE
    <2>1. q \in Seq(Nat)
      BY ProgramsAreTrees, TreePositions
    <2>2. Len(x) <= Len(q) /\ Len(q) < Len(x)
      BY <1>1, <1>3, <2>1, PrefixEntry, StrictPrefixShorter
    <2> QED
      BY <1>1, <2>1, <2>2
  <1> QED
    BY <1>2, <1>3 DEF Ended

LEMMA GenRetFlow ==
  ASSUME ast \in Programs, IsClean(ast), GenInv, BlocksNow, FlowNow, GenRet
  PROVE  FlowNext
  <1>0. PICK n : n = Top.node
    OBVIOUS
  <1>b. PICK b : b = cur
    OBVIOUS
  <1>f. PICK fs : fs = frames'
    OBVIOUS
  <1>l. PICK left : left = Left(frames, parentbb)
    OBVIOUS
  <1>c. PICK co : co = IF HasSlot(ast, n) THEN Emit(code, b, Store(Kid(n, 1))) ELSE code
    OBVIOUS
  <1>p. PICK pb : pb = [parentbb EXCEPT ![n] = b]
    OBVIOUS
  <1>1. /\ frames # <<>> /\ ast[n].kind = "ret" /\ code' = co /\ Return
        /\ cur' = b /\ inserted' = inserted /\ parentbb' = pb
    BY <1>0, <1>b, <1>c, <1>p DEF GenRet, At, Keep
  <1>2. /\ ReturnedTo(fs) /\ Len(fs) >= 3 /\ Len(frames) >= 3 /\ Len(frames) >= 4
        /\ Left(fs, parentbb) = left
        /\ n \in DOMAIN ast /\ n \in Seq(Nat)
        /\ b \in Blocks(ast) /\ code \in Codes /\ code[b] \in Seq(Instr)
        /\ b \notin left /\ Ready(code[b], b, Begin(ast, n))
        /\ LastKid(fs[Len(fs)]) = n /\ fs[Len(fs)].step > 1
    <2>1. ast[Top.node].kind \in LeafKinds
      BY <1>0, <1>1 DEF LeafKinds
    <2> QED
      BY <1>0, <1>b, <1>f, <1>l, <1>1, <2>1, LeafPlace
  <1>3. Ready(co[b], b, Null) /\ ~ Terminated(co[b]) /\ Opened(co[b]) = co[b]
        /\ \A x \in Blocks(ast) : x # b => co[x] = code[x]
    <2>1. ast[n].arity = 0 \/ HasSlot(ast, n)
      BY <1>1, <1>2 DEF IsClean, Rets, OfKind
    <2>2. CASE ~ HasSlot(ast, n)
      <3>1. Begin(ast, n) = Null
        BY <1>1, <1>2, <2>1, <2>2, CleanLeads, BeginOf
      <3>2. co = code
        BY <1>c, <2>2
      <3>3. ~ Terminated(code[b])
        BY <1>2, ReadyIsOpen
      <3> QED
        BY <1>2, <3>1, <3>2, <3>3 DEF Opened
    <2>3. CASE HasSlot(ast, n)
      <3>1. ast[n].arity = 1 /\ co = Emit(code, b, Store(Kid(n, 1)))
        BY <1>c, <2>3 DEF HasSlot
      <3>2. PICK e : e = Kid(n, 1)
        OBVIOUS
      <3>3. /\ e \in DOMAIN ast /\ e \in Seq(Nat) /\ Begin(ast, n) = e
            /\ 1 \in 1..ast[n].arity /\ e = Append(n, 1)
        <4>1. Begin(ast, n) = Append(n, 1)
          BY <1>1, <1>2, <3>1, CleanLeads, BeginOf
        <4>2. 1 \in 1..ast[n].arity
          BY <3>1
        <4>3. e \in DOMAIN ast /\ e \in Seq(Nat)
          BY <1>2, <3>2, <4>2, ProgramsAreTrees, TreePositions DEF Kid
        <4> QED
          BY <3>2, <4>1, <4>2, <4>3 DEF Kid
      <3>4. IsReturned(ast, e)
        BY <1>1, <1>2, <3>2, KidParts DEF IsReturned
      <3>5. After(ast, e) = Null
        BY <1>1, <1>2, <3>3, CleanLeads, AfterOf
      <3>6. /\ co[b] = Append(code[b], Store(e)) /\ Store(e) \in Instr
            /\ \A x \in Blocks(ast) : x # b => co[x] = code[x]
        <4>1. Store(e) \in Instr
          BY <3>3, Kinds
        <4> QED
          BY <1>2, <3>1, <3>2, <4>1, EmitAt, EmitEnds
      <3>7. Ready(co[b], b, Null)
        BY <1>2, <3>3, <3>4, <3>5, <3>6, ReadyStore
      <3>8. co[b] \in Seq(Instr)
        BY <1>2, <3>6
      <3>9. ~ Terminated(co[b])
        BY <3>7, <3>8, ReadyIsOpen
      <3> QED
        BY <3>6, <3>7, <3>9 DEF Opened
    <2> QED
      BY <2>2, <2>3
  <1>4. Left(fs, pb) = left \cup {b}
    <2>1. n \in Rets(ast) /\ n \in Below(ast, frames[3].node)
      <3>1. 3 \in DOMAIN frames /\ 3 < Len(frames)
        <4>1. PICK K \in Nat : K = Len(frames) /\ DOMAIN frames = 1..K
          BY <1>1, TopIn
        <4> QED
          BY <1>2, <4>1
      <3>2. IsStrictPrefix(frames[3].node, n)
        BY <1>0, <3>1, FrameAbove
      <3> QED
        BY <1>1, <1>2, <3>2 DEF Rets, OfKind, Below
    <2>2. parentbb[n] = Null
      <3>1. ~ Passed(ast, frames, n)
        BY <1>0, <1>1, TopIn DEF Passed
      <3> QED
        BY <2>1, <3>1 DEF FlowNow, FlowParts
    <2>3. b # Null /\ \A r \in Rets(ast) : pb[r] = IF r = n THEN b ELSE parentbb[r]
      BY <1>2, <1>p, NullIsNoBlock DEF GenInv, ParentsInv
    <2>4. fs[3].node = frames[3].node
      <3>1. PICK K \in Nat : K = Len(frames) /\ K - 1 = Len(fs) /\ \A k \in 1..(K - 1) : fs[k] = frames[k]
        BY <1>1, <1>2, TopIn DEF ReturnedTo
      <3>2. 3 \in 1..(K - 1)
        BY <1>2, <3>1
      <3> QED
        BY <3>1, <3>2
    <2>5. left = {parentbb[r] : r \in Rets(ast) \cap Below(ast, frames[3].node)} \ {Null}
      BY <1>2, <1>l DEF Left
    <2>6. Left(fs, pb) = {pb[r] : r \in Rets(ast) \cap Below(ast, frames[3].node)} \ {Null}
      BY <1>2, <2>4 DEF Left
    <2> QED
      BY <2>1, <2>2, <2>3, <2>5, <2>6
  <1>5. PICK after : after = left \cup {b}
    OBVIOUS
  <1>6. \A x \in Blocks(ast) : BlockFits(after, co, x)
    <2> SUFFICES ASSUME NEW x \in Blocks(ast) PROVE BlockFits(after, co, x)
      OBVIOUS
    <2>1. CASE x = b
      BY <1>3, <1>5, <2>1 DEF BlockFits
    <2>2. CASE x # b
      <3>1. BlockFits(left, code, x)
        BY <1>l DEF FlowNow, FlowParts
      <3> QED
        BY <1>3, <1>5, <2>2, <3>1 DEF BlockFits
    <2> QED
      BY <2>1, <2>2
  <1>7. \A x \in Blocks(ast) : ~ Touched(x) => co[x] = code[x]
    BY <1>3, <1>b DEF Touched
  <1>8. Over(fs[Len(fs)], after, co, b)
    <2>1. n \in Rets(ast)
      BY <1>1, <1>2 DEF Rets, OfKind
    <2>2. Ended(fs[Len(fs)], n)
      BY <1>2, <2>1, EndsHere
    <2> QED
      BY <1>3, <1>5, <2>1, <2>2 DEF Over
  <1>9. \A r \in Rets(ast) : pb[r] # Null => parentbb[r] # Null \/ r = Top.node
    BY <1>0, <1>p DEF GenInv, ParentsInv
  <1>10. FlowParts(fs, inserted, co, b, pb)
    <2>1. \A x \in after : x \in Left(frames, parentbb) \/ x = cur
      BY <1>5, <1>l, <1>b
    <2>2. after = Left(fs, pb) /\ Left(frames, parentbb) \subseteq after
      BY <1>4, <1>5, <1>l
    <2> QED
      BY <1>1, <1>2, <1>6, <1>7, <1>8, <1>9, <2>1, <2>2, FlowAfterReturn
  <1> QED
    BY <1>1, <1>10, <1>f DEF FlowNext

(* A jump goes where the loop that it is bound to says.                    *)
LEMMA JumpPlace ==
  ASSUME ast \in Programs, IsClean(ast), JumpsBindInnermost, stack = <<>>,
         NEW j \in Jumps(ast), target[j] # Null
  PROVE  /\ JumpBlock(j, target[j]) \in Blocks(ast)
         /\ StandsFor(JumpBlock(j, target[j])) = Begin(ast, j)
  <1>1. PICK l : l = target[j]
    OBVIOUS
  <1>2. PICK i : i = InnermostLoop(ast, j)
    OBVIOUS
  <1>3. /\ IsTree(ast) /\ Leads(ast) /\ j \in DOMAIN ast /\ j \in Seq(Nat)
        /\ ast[j].kind \in {"break", "continue"}
    BY CleanLeads, TreePositions DEF Jumps, JumpKinds, OfKind
  <1>4. /\ LoopsAround(ast, j) # {}
        /\ l \in LoopsAround(ast, j) /\ \A m \in LoopsAround(ast, j) : Len(m) <= Len(l)
    BY <1>1 DEF JumpsBindInnermost
  <1>5. /\ i \in LoopsAround(ast, j) /\ \A m \in LoopsAround(ast, j) : Len(m) <= Len(i)
    BY <1>2, <1>3, <1>4, InnermostIsAround
  <1>6. /\ l \in Seq(Nat) /\ i \in Seq(Nat) /\ IsPrefix(l, j) /\ IsPrefix(i, j)
        /\ l \in DOMAIN ast /\ ast[l].kind \in {"for", "while"}
    BY <1>3, <1>4, <1>5, TreePositions DEF LoopsAround, Loops, LoopKinds, OfKind, IsStrictPrefix
  <1>7. l = i
    <2>1. Len(l) = Len(i)
      <3>1. Len(l) \in Nat /\ Len(i) \in Nat /\ Len(l) <= Len(i) /\ Len(i) <= Len(l)
        BY <1>4, <1>5, <1>6
      <3> QED
        BY <3>1
    <2>2. IsPrefix(l, i)
      BY <1>3, <1>6, <2>1, PrefixComparable
    <2> QED
      BY <1>6, <2>1, <2>2, PrefixSameLength
  <1>8. /\ ast[j].kind = "break" => Begin(ast, j) = After(ast, l)
        /\ ast[j].kind = "continue" =>
             Begin(ast, j) = IF ast[l].kind = "for" THEN Append(l, 3) ELSE Append(l, 1)
    BY <1>2, <1>3, <1>7, BeginOf
  <1>9. PICK x : x = JumpBlock(j, l)
    OBVIOUS
  <1>10. x = <<(IF ast[l].kind = "for" THEN ForTargets ELSE WhileTargets)[ast[j].kind], l>>
    BY <1>9 DEF JumpBlock
  <1>11. CASE ast[j].kind = "break"
    <2>1. CASE ast[l].kind = "for"
      <3>1. x = <<"merge-for", l>>
        BY <1>10, <1>11, <2>1 DEF ForTargets, WhileTargets
      <3> QED
        BY <1>1, <1>6, <1>8, <1>9, <1>11, <2>1, <3>1, Stands, RolesOf
    <2>2. CASE ast[l].kind = "while"
      <3>1. x = <<"while-merge", l>>
        BY <1>10, <1>11, <2>2 DEF ForTargets, WhileTargets
      <3> QED
        BY <1>1, <1>6, <1>8, <1>9, <1>11, <2>2, <3>1, Stands, RolesOf
    <2> QED
      BY <1>6, <2>1, <2>2
  <1>12. CASE ast[j].kind = "continue"
    <2>1. CASE ast[l].kind = "for"
      <3>1. x = <<"next-for", l>>
        BY <1>10, <1>12, <2>1 DEF ForTargets, WhileTargets
      <3> QED
        BY <1>1, <1>6, <1>8, <1>9, <1>12, <2>1, <3>1, Stands, RolesOf DEF Kid
    <2>2. CASE ast[l].kind = "while"
      <3>1. x = <<"while-cond", l>>
        BY <1>10, <1>12, <2>2 DEF ForTargets, WhileTargets
      <3> QED
        BY <1>1, <1>6, <1>8, <1>9, <1>12, <2>2, <3>1, Stands, RolesOf DEF Kid
    <2> QED
      BY <1>6, <2>1, <2>2
  <1> QED
    BY <1>3, <1>11, <1>12

LEMMA GenJumpFlow ==
  ASSUME ast \in Programs, IsClean(ast), GenInv, BlocksNow, FlowNow, GenJump,
         JumpsBindInnermost, stack = <<>>
  PROVE  FlowNext
  <1>0. PICK n : n = Top.node
    OBVIOUS
  <1>b. PICK b : b = cur
    OBVIOUS
  <1>f. PICK fs : fs = frames'
    OBVIOUS
  <1>l. PICK left : left = Left(frames, parentbb)
    OBVIOUS
  <1>m. PICK m : m = JumpBlock(n, target[n])
    OBVIOUS
  <1>c. PICK co : co = Emit(code, b, Br(m))
    OBVIOUS
  <1>1. /\ frames # <<>> /\ n \in Jumps(ast) /\ target[n] # Null /\ code' = co /\ Return
        /\ cur' = b /\ inserted' = inserted /\ parentbb' = parentbb
    BY <1>0, <1>b, <1>m, <1>c DEF GenJump, Keep
  <1>2. /\ ReturnedTo(fs) /\ Len(fs) >= 3 /\ Len(frames) >= 3
        /\ Left(fs, parentbb) = left
        /\ n \in DOMAIN ast /\ n \in Seq(Nat)
        /\ b \in Blocks(ast) /\ code \in Codes /\ code[b] \in Seq(Instr)
        /\ b \notin left /\ Ready(code[b], b, Begin(ast, n))
        /\ LastKid(fs[Len(fs)]) = n /\ fs[Len(fs)].step > 1
    <2>1. ast[Top.node].kind \in LeafKinds
      BY <1>0, <1>1 DEF LeafKinds, Jumps, OfKind
    <2> QED
      BY <1>0, <1>b, <1>f, <1>l, <1>1, <2>1, LeafPlace
  <1>3. m \in Blocks(ast) /\ StandsFor(m) = Begin(ast, n)
    BY <1>1, <1>m, JumpPlace
  <1>4. /\ co[b] = Append(code[b], Br(m)) /\ \A x \in Blocks(ast) : x # b => co[x] = code[x]
        /\ Terminated(co[b])
    <2>1. Br(m) \in Instr /\ IsTerminator(Br(m))
      BY <1>3, Kinds
    <2> QED
      BY <1>2, <1>c, <2>1, EmitAt, EmitEnds
  <1>5. FitsAll(co[b], b)
    BY <1>2, <1>3, <1>4, FitsBranch
  <1>6. \A x \in Blocks(ast) : BlockFits(left, co, x)
    <2> SUFFICES ASSUME NEW x \in Blocks(ast) PROVE BlockFits(left, co, x)
      OBVIOUS
    <2>1. CASE x = b
      BY <1>2, <1>5, <2>1 DEF BlockFits
    <2>2. CASE x # b
      BY <1>4, <1>l, <2>2 DEF FlowNow, FlowParts, BlockFits
    <2> QED
      BY <2>1, <2>2
  <1>7. \A x \in Blocks(ast) : ~ Touched(x) => co[x] = code[x]
    BY <1>4, <1>b DEF Touched
  <1>8. Over(fs[Len(fs)], left, co, b)
    BY <1>1, <1>2, <1>4, EndsHere DEF Over
  <1>9. FlowParts(fs, inserted, co, b, parentbb)
    BY <1>1, <1>2, <1>6, <1>7, <1>8, <1>l, FlowAfterReturn
  <1> QED
    BY <1>1, <1>9, <1>f DEF FlowNext

(***************************************************************************)
(* The program, functions and lists of statements.                         *)
(***************************************************************************)
LEMMA WaitsOutside ==
  ASSUME ast \in Programs, NEW g, g.node \in DOMAIN ast, Len(g.node) <= 1, NEW left, NEW co
  PROVE  Waits(g, left, co)
  <1>1. g.node \in Seq(Nat)
    BY ProgramsAreTrees, TreePositions
  <1>2. Len(g.node) = 0 \/ Len(g.node) = 1
    <2>1. PICK m \in Nat : m = Len(g.node)
      BY <1>1
    <2>2. m <= 1
      BY <2>1
    <2>3. m = 0 \/ m = 1
      BY <2>2
    <2> QED
      BY <2>1, <2>3
  <1>3. Len(g.node) = 0 => g.node = Root
    BY <1>1 DEF Root
  <1>4. ast[g.node].kind \in {"program", "function"}
    BY <1>2, <1>3, FunctionsMakeTheProgram
  <1> QED
    BY <1>4 DEF Waits, LoopKinds

(* A statement that is no if and no loop waits for nothing.                *)
LEMMA WaitsForNothing ==
  ASSUME NEW g, ast[g.node].kind \notin {"if", "for", "while"}, NEW left, NEW co
  PROVE  Waits(g, left, co)
  BY DEF Waits, LoopKinds

(* A call or a return outside of functions.                                *)
LEMMA FlowOutside ==
  ASSUME ast \in Programs, GenInv, BlocksNow, FlowNow, frames # <<>>,
         NEW fs, Len(fs) <= 2, Len(frames) <= 2,
         ReturnedTo(fs) \/ (ast[Top.node].kind # "function" /\ \E f : CalledTo(f, fs)),
         NEW c
  PROVE  FlowParts(fs, inserted, code, c, parentbb)
  <1>1. PICK K \in Nat \ {0} : K = Len(frames) /\ DOMAIN frames = 1..K /\ Top = frames[K] /\ K \in DOMAIN frames
    BY TopIn
  <1>2. PICK L \in Nat : L = Len(fs) /\ DOMAIN fs = 1..L
    <2>1. CASE ReturnedTo(fs)
      <3>1. Len(fs) = K - 1 /\ DOMAIN fs = 1..(K - 1) /\ K - 1 \in Nat
        BY <1>1, <2>1 DEF ReturnedTo
      <3> QED
        BY <3>1
    <2>2. CASE \E f : CalledTo(f, fs)
      BY <1>1, <2>2 DEF CalledTo
    <2> QED
      BY <2>1, <2>2
  <1>3. ~ (Len(fs) >= 3) /\ ~ (Len(frames) >= 3)
    BY <1>1, <1>2
  <1>4. Left(fs, parentbb) = Left(frames, parentbb)
    BY <1>3 DEF Left
  <1>5. \A b \in Blocks(ast) : BlockFits(Left(fs, parentbb), code, b)
    BY <1>4 DEF FlowNow, FlowParts
  <1>6. ASSUME NEW k \in DOMAIN fs PROVE Waits(fs[k], Left(fs, parentbb), code)
    <2>1. fs[k].node \in DOMAIN ast /\ Len(fs[k].node) = k - 1
      <3>1. CASE ReturnedTo(fs)
        <4>1. k \in DOMAIN frames /\ fs[k] = frames[k]
          BY <1>1, <1>2, <3>1 DEF ReturnedTo
        <4> QED
          BY <4>1, FrameIn
      <3>2. ASSUME NEW f, CalledTo(f, fs) PROVE fs[k].node \in DOMAIN ast /\ Len(fs[k].node) = k - 1
        <4>1. /\ k \in 1..(K + 1) /\ \A l \in 1..(K - 1) : fs[l] = frames[l]
              /\ fs[K] = f /\ f.node = Top.node /\ fs[K + 1].node = NextKid
          BY <1>1, <1>2, <3>2 DEF CalledTo
        <4>2. k \in 1..(K - 1) \/ k = K \/ k = K + 1
          BY <1>1, <4>1, Places
        <4>3. CASE k \in 1..(K - 1)
          <5>1. k \in DOMAIN frames
            BY <1>1, <4>3, Places
          <5> QED
            BY <4>1, <4>3, <5>1, FrameIn
        <4>4. CASE k = K
          BY <1>1, <4>1, <4>4, FrameIn
        <4>5. CASE k = K + 1
          <5>1. Len(Top.node) = K - 1 /\ Top.node \in DOMAIN ast
            BY <1>1, FrameIn
          <5>2. /\ NextKid \in DOMAIN ast /\ Len(NextKid) = Len(Top.node) + 1
            BY <1>1, <3>2, <5>1, TurnIsChild DEF CalledTo, NextKid
          <5> QED
            BY <1>1, <4>1, <4>5, <5>1, <5>2
        <4> QED
          BY <4>2, <4>3, <4>4, <4>5
      <3> QED
        BY <3>1, <3>2
    <2>2. k - 1 <= 1
      BY <1>2
    <2> QED
      BY <2>1, <2>2, WaitsOutside
  <1>7. ASSUME NEW r \in Rets(ast), parentbb[r] # Null PROVE Passed(ast, fs, r)
    <2>1. Passed(ast, frames, r) /\ r \in DOMAIN ast
      BY <1>7 DEF FlowNow, FlowParts, Rets, OfKind
    <2> QED
      BY <2>1, PassedStays
  <1>8. EntriesAreInserted(fs, inserted)
    <2>1. EntriesAreInserted(frames, inserted)
      BY DEF FlowNow, FlowParts
    <2> QED
      BY <2>1, EntriesAfterCall, EntriesAfterReturn
  <1> QED
    BY <1>3, <1>5, <1>6, <1>7, <1>8 DEF FlowParts

(* Where a list of statements is.                                          *)
LEMMA ListPlace ==
  ASSUME ast \in Programs, IsClean(ast), GenInv, frames # <<>>,
         ast[Top.node].kind \in {"compound", "block"}, NEW n, n = Top.node
  PROVE  /\ n \in DOMAIN ast /\ n \in Seq(Nat) /\ ast[n].arity \in Nat
         /\ Top.step \in 1..(ast[n].arity + 1)
         /\ Len(Turns(ast, n)) = ast[n].arity
         /\ Top.step <= ast[n].arity => NextKid = Append(n, Top.step)
                                        /\ Expected(Top) = Begin(ast, NextKid)
         /\ Top.step > ast[n].arity => Expected(Top) = After(ast, n)
  <1>1. n \in DOMAIN ast /\ n \in Seq(Nat) /\ ast[n].arity \in Nat
    BY TopFrame, ProgramsAreTrees, TreePositions DEF GenInv
  <1>2. Len(Turns(ast, n)) = ast[n].arity /\ \A i \in 1..ast[n].arity : Turns(ast, n)[i] = i
    BY <1>1, TurnsAreChildren
  <1>3. Top.step \in 1..(ast[n].arity + 1)
    BY <1>2, TopFrame DEF GenInv
  <1>4. PICK s \in Nat : s = Top.step
    BY <1>1, <1>3
  <1>5. PICK a \in Nat : a = ast[n].arity
    BY <1>1
  <1>6. s \in 1..(a + 1)
    BY <1>3, <1>4, <1>5
  <1>7. Expected(Top) = IF s <= a THEN Begin(ast, Append(n, s)) ELSE After(ast, n)
    <2>1. CASE s = 1
      <3>1. Expected(Top) = Begin(ast, n)
        BY <1>4, <2>1 DEF Expected
      <3>2. Begin(ast, n) = IF a = 0 THEN After(ast, n) ELSE Begin(ast, Append(n, 1))
        BY <1>1, <1>5, CleanLeads, BeginOf
      <3>3. a = 0 <=> ~ (s <= a)
        BY <1>6, <2>1
      <3> QED
        BY <2>1, <3>1, <3>2, <3>3
    <2>2. CASE s # 1
      <3>1. s - 1 \in 1..a /\ (s - 1) + 1 = s /\ (s - 1 < a <=> s <= a)
        BY <1>6, <2>2
      <3>2. LastKid(Top) = Append(n, s - 1)
        BY <1>2, <1>4, <1>5, <3>1 DEF LastKid, Kid
      <3>3. PICK i : i = s - 1
        OBVIOUS
      <3>4. i \in 1..ast[n].arity
        BY <1>5, <3>1, <3>3
      <3>5. After(ast, Append(n, i)) = IF i < ast[n].arity THEN Begin(ast, Append(n, i + 1)) ELSE After(ast, n)
        BY <1>1, <3>4, CleanLeads, AfterOf
      <3> QED
        BY <1>4, <1>5, <2>2, <3>1, <3>2, <3>3, <3>5 DEF Expected
    <2> QED
      BY <2>1, <2>2
  <1>8. s <= a => NextKid = Append(n, s)
    BY <1>2, <1>4, <1>5, <1>6 DEF NextKid, Kid
  <1>9. Top.step <= ast[n].arity => NextKid = Append(n, Top.step) /\ Expected(Top) = Begin(ast, NextKid)
    BY <1>4, <1>5, <1>7, <1>8
  <1>10. Top.step > ast[n].arity => Expected(Top) = After(ast, n)
    <2>1. s > a => ~ (s <= a)
      OBVIOUS
    <2> QED
      BY <1>4, <1>5, <1>7, <2>1
  <1> QED
    BY <1>1, <1>2, <1>3, <1>9, <1>10

LEMMA ListCallFlow ==
  ASSUME ast \in Programs, IsClean(ast), GenInv, BlocksNow, FlowNow, frames # <<>>,
         ast[Top.node].kind \in {"compound", "block"},
         Top.step <= ast[Top.node].arity, CallGen(Top, Kid(Top.node, Top.step)),
         UNCHANGED <<cur, inserted, code, parentbb>>
  PROVE  FlowNext
  <1>0. PICK fs : fs = frames'
    OBVIOUS
  <1>1. PICK f : CalledTo(f, fs)
    BY <1>0, ListCalls
  <1>2. PICK n : n = Top.node
    OBVIOUS
  <1>3. Expected(Top) = Begin(ast, NextKid) /\ Top.step \in Nat /\ ast[n].arity \in Nat
    BY <1>2, ListPlace
  <1>4. Len(frames) >= 3
    <2>1. PICK K \in Nat : K = Len(frames)
      BY TopIn
    <2>2. K = 3 \/ K >= 4
      BY <2>1, TopLevel
    <2> QED
      BY <2>1, <2>2
  <1>5. PICK left : left = Left(frames, parentbb)
    OBVIOUS
  <1>6. Alive(Top, left, code, cur)
    <2>1. ~ Over(Top, left, code, cur)
      <3> SUFFICES ASSUME NEW x \in Rets(ast) \cup Jumps(ast), Ended(Top, x) PROVE FALSE
        BY DEF Over
      <3>1. Top.step > ast[Top.node].arity
        BY OverIsLast
      <3> QED
        BY <1>2, <1>3, <3>1
    <2> QED
      BY <1>4, <1>5, <2>1, AliveOrOver
  <1>7. cur \notin left /\ Ready(code[cur], cur, Begin(ast, NextKid))
    BY <1>3, <1>6 DEF Alive
  <1>8. Waits(f, left, code)
    <2>1. f.node = Top.node
      BY <1>1 DEF CalledTo
    <2> QED
      BY <2>1, WaitsForNothing
  <1>9. FlowParts(fs, inserted, code, cur, parentbb)
    BY <1>1, <1>4, <1>5, <1>7, <1>8, FlowAfterCall
  <1> QED
    BY <1>0, <1>9 DEF FlowNext

(* What a statement ends with, the list around it ends with.               *)
LEMMA ListEnded ==
  ASSUME ast \in Programs, IsClean(ast), GenInv, BlocksNow, frames # <<>>,
         ast[Top.node].kind = "compound", NEW x \in Rets(ast) \cup Jumps(ast), Ended(Top, x),
         NEW g, LastKid(g) = Top.node, g.step > 1
  PROVE  Ended(g, x)
  <1>1. PICK n : n = Top.node
    OBVIOUS
  <1>2. /\ n \in DOMAIN ast /\ n \in Seq(Nat) /\ ast[n].arity \in Nat
        /\ Top.step \in 1..(ast[n].arity + 1) /\ Len(Turns(ast, n)) = ast[n].arity
    BY <1>1, ListPlace
  <1>3. PICK k : k = LastKid(Top)
    OBVIOUS
  <1>4. x \in DOMAIN ast /\ x \in Seq(Nat)
    BY ProgramsAreTrees, TreePositions DEF Rets, Jumps, OfKind
  <1>5. k \in DOMAIN ast /\ k \in Seq(Nat) /\ IsStrictPrefix(n, k) /\ Len(k) = Len(n) + 1
    <2>1. Top.step - 1 \in DOMAIN Turns(ast, n)
      <3>1. PICK s \in Nat : s = Top.step /\ s > 1 /\ s - 1 \in 1..ast[n].arity
        BY <1>2 DEF Ended
      <3>2. Turns(ast, n) \in Seq(1..ast[n].arity)
        BY <1>2, TurnsAreChildren
      <3> QED
        BY <1>2, <3>1, <3>2
    <2>2. k \in DOMAIN ast /\ IsStrictPrefix(n, k) /\ Len(k) = Len(n) + 1
      BY <1>1, <1>2, <1>3, <2>1, TurnIsChild DEF LastKid
    <2> QED
      BY <2>2, ProgramsAreTrees, TreePositions
  <1>6. IsPrefix(k, x) /\ \A q \in DOMAIN ast : IsPrefix(k, q) /\ IsStrictPrefix(q, x) => ast[q].kind = "compound"
    BY <1>3 DEF Ended
  <1>7. IsPrefix(n, x)
    BY <1>2, <1>4, <1>5, <1>6, StrictPrefixTransitive DEF IsStrictPrefix
  <1>8. ASSUME NEW q \in DOMAIN ast, IsPrefix(n, q), IsStrictPrefix(q, x)
        PROVE  ast[q].kind = "compound"
    <2>1. q \in Seq(Nat) /\ IsPrefix(q, x)
      BY <1>8, ProgramsAreTrees, TreePositions DEF IsStrictPrefix
    <2>2. CASE q = n
      BY <1>1, <2>2
    <2>3. CASE q # n
      <3>1. IsStrictPrefix(n, q)
        BY <1>8, <2>3 DEF IsStrictPrefix
      <3>2. Len(n) < Len(q)
        BY <1>2, <2>1, <3>1, StrictPrefixShorter
      <3>3. Len(k) <= Len(q)
        BY <1>2, <1>5, <2>1, <3>2
      <3>4. IsPrefix(k, q)
        BY <1>4, <1>5, <1>6, <2>1, <3>3, PrefixComparable
      <3> QED
        BY <1>6, <1>8, <3>4
    <2> QED
      BY <2>2, <2>3
  <1> QED
    BY <1>1, <1>7, <1>8 DEF Ended

LEMMA ListReturnFlow ==
  ASSUME ast \in Programs, IsClean(ast), GenInv, BlocksNow, FlowNow, frames # <<>>,
         ast[Top.node].kind = "compound", Top.step > ast[Top.node].arity, Return,
         UNCHANGED <<cur, inserted, code, parentbb>>
  PROVE  FlowNext
  <1>0. PICK fs : fs = frames'
    OBVIOUS
  <1>1. PICK n : n = Top.node
    OBVIOUS
  <1>2. /\ n \in DOMAIN ast /\ ast[n].arity \in Nat
        /\ Top.step \in 1..(ast[n].arity + 1) /\ Len(Turns(ast, n)) = ast[n].arity
        /\ Expected(Top) = After(ast, n)
    BY <1>1, ListPlace
  <1>3. ReturnedTo(fs)
    <2>1. Top.step = Len(Turns(ast, Top.node)) + 1
      BY <1>1, <1>2
    <2>2. Returns
      BY <2>1 DEF Returns, Return
    <2> QED
      BY <1>0, <2>2, ReturnsTo
  <1>4. PICK K \in Nat : K = Len(frames) /\ K >= 4
    <2>1. PICK K \in Nat : K = Len(frames)
      BY TopIn
    <2> QED
      BY <2>1, TopLevel
  <1>5. Len(fs) >= 3 /\ Len(frames) >= 3
    BY <1>3, <1>4 DEF ReturnedTo
  <1>6. PICK g : g = fs[Len(fs)]
    OBVIOUS
  <1>7. /\ LastKid(g) = n /\ g.step > 1 /\ Expected(g) = After(ast, n)
        /\ Left(fs, parentbb) = Left(frames, parentbb)
    BY <1>1, <1>3, <1>5, <1>6, ReturnPlace
  <1>8. PICK left : left = Left(frames, parentbb)
    OBVIOUS
  <1>9. Alive(g, left, code, cur) \/ Over(g, left, code, cur)
    <2>1. CASE Alive(Top, left, code, cur)
      BY <1>2, <1>7, <2>1 DEF Alive
    <2>2. CASE Over(Top, left, code, cur)
      <3>1. PICK x \in Rets(ast) \cup Jumps(ast) : Ended(Top, x)
        BY <2>2 DEF Over
      <3>2. Ended(g, x)
        BY <1>1, <1>7, <3>1, ListEnded
      <3> QED
        BY <2>2, <3>2 DEF Over
    <2> QED
      BY <1>5, <1>8, <2>1, <2>2, AliveOrOver
  <1>10. \A x \in Blocks(ast) : BlockFits(left, code, x)
    BY <1>8 DEF FlowNow, FlowParts
  <1>11. FlowParts(fs, inserted, code, cur, parentbb)
    BY <1>3, <1>5, <1>6, <1>7, <1>8, <1>9, <1>10, FlowAfterReturn
  <1> QED
    BY <1>0, <1>11 DEF FlowNext

LEMMA GenChildrenFlow ==
  ASSUME ast \in Programs, IsClean(ast), GenInv, BlocksNow, FlowNow, GenChildren
  PROVE  FlowNext
  <1>1. /\ frames # <<>> /\ ast[Top.node].kind \in {"program", "compound"}
        /\ IF Top.step <= ast[Top.node].arity THEN CallGen(Top, Kid(Top.node, Top.step)) ELSE Return
        /\ UNCHANGED <<cur, inserted, code, parentbb>>
    BY DEF GenChildren, Keep
  <1>2. Top.node \in DOMAIN ast /\ Top.step \in Nat /\ ast[Top.node].arity \in Nat
        /\ Top.step \in 1..(Len(Turns(ast, Top.node)) + 1)
    <2>1. /\ Top.node \in DOMAIN ast /\ Len(Turns(ast, Top.node)) \in Nat
          /\ Top.step \in 1..(Len(Turns(ast, Top.node)) + 1)
      BY <1>1, TopIn, FrameIn, TopFrame DEF GenInv
    <2>2. ast[Top.node].arity \in Nat
      BY <2>1, ProgramsAreTrees, TreePositions
    <2>3. Top.step \in Nat
      BY <2>1
    <2> QED
      BY <2>1, <2>2, <2>3
  <1>3. CASE ast[Top.node].kind = "compound"
    <2>1. CASE Top.step <= ast[Top.node].arity
      BY <1>1, <1>3, <2>1, ListCallFlow
    <2>2. CASE ~ (Top.step <= ast[Top.node].arity)
      <3>1. Top.step > ast[Top.node].arity
        BY <1>2, <2>2
      <3> QED
        BY <1>1, <1>3, <2>2, <3>1, ListReturnFlow
    <2> QED
      BY <2>1, <2>2
  <1>4. CASE ast[Top.node].kind = "program"
    <2>0. PICK fs : fs = frames'
      OBVIOUS
    <2>1. PICK K \in Nat : K = Len(frames) /\ K = 1
      <3>1. PICK K \in Nat : K = Len(frames)
        BY <1>1, TopIn
      <3> QED
        BY <1>1, <1>4, <3>1, TopLevel
    <2>2. Len(fs) <= 2 /\ (ReturnedTo(fs) \/ \E f : CalledTo(f, fs))
      <3>1. CASE Top.step <= ast[Top.node].arity
        <4>1. PICK f : CalledTo(f, fs)
          BY <1>1, <1>4, <2>0, <3>1, ListCalls
        <4>2. Len(fs) = K + 1
          BY <2>1, <4>1 DEF CalledTo
        <4>3. K + 1 <= 2
          BY <2>1
        <4> QED
          BY <4>1, <4>2, <4>3
      <3>2. CASE ~ (Top.step <= ast[Top.node].arity)
        <4>1. Len(Turns(ast, Top.node)) = ast[Top.node].arity
          BY <1>2, <1>4, TurnsAreChildren
        <4>2. Top.step = Len(Turns(ast, Top.node)) + 1
          BY <1>2, <3>2, <4>1
        <4>3. Returns
          BY <1>1, <3>2, <4>2 DEF Returns, Return
        <4>4. ReturnedTo(fs)
          BY <2>0, <4>3, ReturnsTo
        <4>5. Len(fs) = K - 1
          BY <2>1, <4>4 DEF ReturnedTo
        <4>6. K - 1 <= 2
          BY <2>1
        <4> QED
          BY <4>4, <4>5, <4>6
      <3> QED
        BY <3>1, <3>2
    <2>3. FlowParts(fs, inserted, code, cur, parentbb)
      BY <1>1, <1>4, <2>1, <2>2, FlowOutside
    <2> QED
      BY <1>1, <2>0, <2>3 DEF FlowNext
  <1> QED
    BY <1>1, <1>3, <1>4

LEMMA GenBlockFlow ==
  ASSUME ast \in Programs, IsClean(ast), GenInv, BlocksNow, FlowNow, GenBlock
  PROVE  FlowNext
  BY ListCallFlow DEF GenBlock, Keep

LEMMA EndFunctionFlow ==
  ASSUME ast \in Programs, IsClean(ast), GenInv, BlocksNow, FlowNow, EndFunction
  PROVE  FlowNext
  <1>1. /\ frames # <<>> /\ ast[Top.node].kind = "function" /\ Top.step = 2 /\ Return
        /\ UNCHANGED <<cur, inserted, code, parentbb>>
    BY DEF EndFunction, At, Keep
  <1>2. PICK fs : fs = frames'
    OBVIOUS
  <1>3. Returns
    <2>1. Top.node \in DOMAIN ast
      BY <1>1, TopFrame DEF GenInv
    <2>2. Turns(ast, Top.node) = <<ast[Top.node].arity>>
      BY <1>1, <2>1, TurnsAreChildren
    <2>3. Len(Turns(ast, Top.node)) = 1
      BY <2>2
    <2> QED
      BY <1>1, <2>3 DEF Returns, Return
  <1>4. ReturnedTo(fs)
    BY <1>2, <1>3, ReturnsTo
  <1>5. PICK K \in Nat : K = Len(frames) /\ K = 2
    <2>1. PICK K \in Nat : K = Len(frames)
      BY <1>1, TopIn
    <2> QED
      BY <1>1, <2>1, TopLevel
  <1>6. Len(fs) <= 2
    BY <1>4, <1>5 DEF ReturnedTo
  <1>7. FlowParts(fs, inserted, code, cur, parentbb)
    BY <1>1, <1>4, <1>5, <1>6, FlowOutside
  <1> QED
    BY <1>1, <1>2, <1>7 DEF FlowNext

(***************************************************************************)
(* If.                                                                     *)
(***************************************************************************)

(* What a block that is new, or empty and held, stands for, is where       *)
(* generation goes on in it.                                               *)
LEMMA MergeFlow ==
  ASSUME ast \in Programs, IsClean(ast), GenInv, BlocksNow, FlowNow, frames # <<>>,
         NEW fs, ReturnedTo(fs), Len(fs) >= 3,
         NEW left, left = Left(frames, parentbb),
         NEW ins, inserted \subseteq ins, NEW co, NEW m,
         m \notin left, co[m] = <<>>, StandsFor(m) = After(ast, Top.node),
         \A b \in Blocks(ast) : ~ Touched(b) => co[b] = code[b],
         \A b \in Blocks(ast) : BlockFits(left, co, b)
  PROVE  FlowParts(fs, ins, co, m, parentbb)
  <1>1. PICK g : g = fs[Len(fs)]
    OBVIOUS
  <1>2. Expected(g) = After(ast, Top.node) /\ Left(fs, parentbb) = left
    BY <1>1, ReturnPlace
  <1>3. Alive(g, left, co, m)
    BY <1>2, ReadyEmpty DEF Alive
  <1> QED
    BY <1>1, <1>2, <1>3, FlowAfterReturn

LEMMA GenThenFlow ==
  ASSUME ast \in Programs, IsClean(ast), GenInv, BlocksNow, FlowNow, GenThen
  PROVE  FlowNext
  <1>0. PICK n : n = Top.node
    OBVIOUS
  <1>b. PICK b : b = cur
    OBVIOUS
  <1>t. PICK then : then = <<"then", n>>
    OBVIOUS
  <1>e. PICK e : e = Kid(n, 1)
    OBVIOUS
  <1>l. PICK left : left = Left(frames, parentbb)
    OBVIOUS
  <1>c. PICK co : co = Emit(code, b, Eval(e))
    OBVIOUS
  <1> DEFINE g == [Top EXCEPT !.origin = b]
  <1>1. /\ frames # <<>> /\ ast[n].kind = "if" /\ Top.step = 1
        /\ code' = co /\ cur' = then /\ inserted' = inserted \cup {then} /\ parentbb' = parentbb
        /\ CallGen(g, Kid(n, 2))
    BY <1>0, <1>b, <1>t, <1>e, <1>c DEF GenThen, At, Keep
  <1>2. /\ n \in DOMAIN ast /\ n \in Seq(Nat) /\ Top \in FrameType
        /\ b \in inserted /\ b \in Blocks(ast) /\ code \in Codes /\ Len(frames) >= 3
        /\ code[b] \in Seq(Instr)
    BY <1>0, <1>1, <1>b, InnerSize DEF Codes
  <1>3. Top.step \in DOMAIN Turns(ast, n) /\ NextKid = Kid(n, 2)
    <2>1. Turns(ast, n) \in Seq(1..ast[n].arity) /\ Len(Turns(ast, n)) \in {1, 2}
          /\ Turns(ast, n)[1] = 2
      BY <1>1, <1>2, TurnsAreChildren, StatementsAreWhole DEF OfKind
    <2> QED
      BY <1>0, <1>1, <2>1 DEF NextKid
  <1>4. g \in FrameType /\ g.node = n /\ g.step = Top.step /\ g.origin = b
    BY <1>0, <1>2 DEF FrameType
  <1> HIDE DEF g
  <1>5. PICK f : Calls(f) /\ f.node = n /\ f.step = 2 /\ f.origin = b
    BY <1>0, <1>1, <1>2, <1>3, <1>4, CallGenCalls
  <1>6. PICK fs : fs = frames'
    OBVIOUS
  <1>7. CalledTo(f, fs)
    BY <1>5, <1>6, CallsTo
  <1>8. then \in Blocks(ast) /\ then \notin inserted /\ code[then] = <<>> /\ then # b
    <2>1. then \in Blocks(ast) /\ then[1] = "then" /\ then[2] = n
      BY <1>1, <1>2, <1>t, RolesOf
    <2>2. ~ Reached(Top, "then")
      BY <1>1 DEF Reached
    <2> QED
      BY <1>0, <1>1, <1>2, <2>1, <2>2, NewBlock
  <1>9. IsCondition(ast, e) /\ ~ IsReturned(ast, e) /\ e \in DOMAIN ast /\ e \in Seq(Nat)
    BY <1>1, <1>2, <1>e, ConditionOfIf, ProgramsAreTrees, TreePositions
  <1>10. /\ co[b] = Append(code[b], Eval(e)) /\ \A x \in Blocks(ast) : x # b => co[x] = code[x]
    <2>1. Eval(e) \in Instr
      BY <1>9, Kinds
    <2> QED
      BY <1>2, <1>c, <2>1, EmitAt, EmitEnds
  <1>11. b \notin left /\ Ready(code[b], b, e)
    <2>1. Begin(ast, n) = e
      BY <1>1, <1>2, <1>e, CleanLeads, BeginOf DEF Kid
    <2> QED
      BY <1>0, <1>1, <1>2, <1>b, <1>l, <2>1, AliveAtStart
  <1>12. Asks(co[b], b, e)
    BY <1>2, <1>9, <1>10, <1>11, ReadyEval
  <1>13. then \notin left
    BY <1>1, <1>2, <1>8, <1>l, CurPlace
  <1>14. Ready(co[then], then, Begin(ast, NextKid))
    BY <1>3, <1>8, <1>10, <1>t, ReadyEmpty, Stands
  <1>15. Waits(f, left, co)
    BY <1>1, <1>5, <1>11, <1>12, <1>e DEF Waits, LoopKinds
  <1>16. \A x \in Blocks(ast) : co[x] = code[x] \/ BlockFits(left, co, x)
    BY <1>10, <1>11, <1>12 DEF BlockFits, Asks
  <1>17. \A x \in Blocks(ast) : ~ Touched(x) => co[x] = code[x]
    BY <1>10, <1>b DEF Touched
  <1>18. PICK ins : ins = inserted \cup {then}
    OBVIOUS
  <1>19. FlowParts(fs, ins, co, then, parentbb)
    BY <1>1, <1>2, <1>7, <1>13, <1>14, <1>15, <1>16, <1>17, <1>18, <1>l, FlowAfterCall
  <1> QED
    BY <1>1, <1>6, <1>18, <1>19 DEF FlowNext

(* What the branch of an if called last comes to.                          *)
LEMMA IfPlace ==
  ASSUME ast \in Programs, IsClean(ast), GenInv, frames # <<>>,
         ast[Top.node].kind = "if", Top.step \in {2, 3}
  PROVE  /\ Top.step = 3 => ast[Top.node].arity = 3
         /\ Expected(Top) = After(ast, Top.node)
  <1>1. PICK n : n = Top.node
    OBVIOUS
  <1>2. n \in DOMAIN ast /\ n \in Seq(Nat) /\ ast[n].arity \in {2, 3}
        /\ Top.step \in 1..(Len(Turns(ast, n)) + 1)
    BY <1>1, InnerSize, StatementsAreWhole, TopFrame DEF OfKind, GenInv
  <1>3. /\ ast[n].arity = 2 => Len(Turns(ast, n)) = 1 /\ Turns(ast, n)[1] = 2
        /\ ast[n].arity = 3 => Len(Turns(ast, n)) = 2 /\ Turns(ast, n)[1] = 2 /\ Turns(ast, n)[2] = 3
    BY <1>1, <1>2, TurnsAreChildren
  <1>4. Top.step = 3 => ast[n].arity = 3
    <2> SUFFICES ASSUME Top.step = 3, ast[n].arity = 2 PROVE FALSE
      BY <1>2
    <2>1. PICK k : k = Len(Turns(ast, n))
      OBVIOUS
    <2>2. k = 1 /\ 3 \in 1..(k + 1)
      BY <1>2, <1>3, <2>1
    <2> QED
      BY <2>2
  <1>5. PICK i : i = Turns(ast, n)[Top.step - 1]
    OBVIOUS
  <1>6. i \in 1..ast[n].arity
    BY <1>2, <1>3, <1>4, <1>5
  <1>7. LastKid(Top) = Append(n, i)
    BY <1>1, <1>5 DEF LastKid, Kid
  <1>8. After(ast, Append(n, i)) = After(ast, n)
    BY <1>1, <1>2, <1>6, CleanLeads, AfterOf
  <1> QED
    BY <1>1, <1>4, <1>7, <1>8 DEF Expected

LEMMA GenElseFlow ==
  ASSUME ast \in Programs, IsClean(ast), GenInv, BlocksNow, FlowNow, GenElse
  PROVE  FlowNext
  <1>0. PICK n : n = Top.node
    OBVIOUS
  <1>b. PICK b : b = cur
    OBVIOUS
  <1>t. PICK else : else = <<"else", n>>
    OBVIOUS
  <1>o. PICK o : o = Top.origin
    OBVIOUS
  <1>l. PICK left : left = Left(frames, parentbb)
    OBVIOUS
  <1> DEFINE g == [Top EXCEPT !.thenEnd = b]
  <1>1. /\ frames # <<>> /\ ast[n].kind = "if" /\ Top.step = 2 /\ ast[n].arity = 3
        /\ code' = code /\ parentbb' = parentbb
        /\ cur' = else /\ inserted' = inserted \cup {else}
        /\ CallGen(g, Kid(n, 3))
    BY <1>0, <1>b, <1>t DEF GenElse, At, Keep
  <1>2. /\ n \in DOMAIN ast /\ n \in Seq(Nat) /\ Top \in FrameType
        /\ b \in inserted /\ b \in Blocks(ast) /\ code \in Codes /\ Len(frames) >= 3
    BY <1>0, <1>1, <1>b, InnerSize
  <1>3. Top.step \in DOMAIN Turns(ast, n) /\ NextKid = Kid(n, 3)
    <2>1. Turns(ast, n) \in Seq(1..ast[n].arity) /\ Len(Turns(ast, n)) = 2
          /\ Turns(ast, n)[2] = 3
      BY <1>1, <1>2, TurnsAreChildren
    <2> QED
      BY <1>0, <1>1, <2>1 DEF NextKid
  <1>4. g \in FrameType /\ g.node = n /\ g.step = Top.step /\ g.origin = o /\ g.thenEnd = b
    BY <1>0, <1>2, <1>o DEF FrameType
  <1> HIDE DEF g
  <1>5. PICK f : Calls(f) /\ f.node = n /\ f.step = 3 /\ f.origin = o /\ f.thenEnd = b
    BY <1>0, <1>1, <1>2, <1>3, <1>4, CallGenCalls
  <1>6. PICK fs : fs = frames'
    OBVIOUS
  <1>7. CalledTo(f, fs)
    BY <1>5, <1>6, CallsTo
  <1>8. else \in Blocks(ast) /\ else \notin inserted /\ code[else] = <<>>
    <2>1. else \in Blocks(ast) /\ else[1] = "else" /\ else[2] = n
      BY <1>1, <1>2, <1>t, RolesOf
    <2>2. ~ Reached(Top, "else")
      BY <1>1 DEF Reached
    <2> QED
      BY <1>0, <1>1, <2>1, <2>2, NewBlock
  <1>9. /\ Terminated(code[b]) \/ b \in left \/ Ready(code[b], b, Expected(Top))
        /\ left \subseteq inserted
        /\ Waits(Top, left, code)
    BY <1>1, <1>2, <1>b, <1>l, CurPlace
  <1>10. Expected(Top) = After(ast, n)
    BY <1>0, <1>1, IfPlace
  <1>11. o \notin left /\ Asks(code[o], o, Kid(n, 1))
    BY <1>0, <1>1, <1>9, <1>o DEF Waits
  <1>12. Waits(f, left, code)
    BY <1>1, <1>5, <1>9, <1>10, <1>11 DEF Waits, LoopKinds
  <1>13. Ready(code[else], else, Begin(ast, NextKid))
    BY <1>3, <1>8, <1>t, ReadyEmpty, Stands
  <1>14. PICK ins : ins = inserted \cup {else}
    OBVIOUS
  <1>15. FlowParts(fs, ins, code, else, parentbb)
    BY <1>1, <1>2, <1>7, <1>8, <1>9, <1>12, <1>13, <1>14, <1>l, FlowAfterCall
  <1> QED
    BY <1>1, <1>6, <1>14, <1>15 DEF FlowNext

(* The block that an if started in gets its conditional branch.            *)
LEMMA OriginPlace ==
  ASSUME ast \in Programs, IsClean(ast), GenInv, BlocksNow, FlowNow, frames # <<>>,
         ast[Top.node].kind = "if", Top.step \in {2, 3},
         NEW n, n = Top.node, NEW o, o = Top.origin,
         NEW left, left = Left(frames, parentbb),
         NEW l, l \in {<<"else", n>>, <<"merge-if", n>>},
         l = <<"else", n>> <=> ast[n].arity = 3,
         NEW i, i = CondBr(<<"then", n>>, l),
         NEW co, co[o] = Append(code[o], i)
  PROVE  /\ o \in Blocks(ast) /\ o \in inserted /\ o # cur /\ i \in Instr /\ IsTerminator(i)
         /\ code[o] \in Seq(Instr)
         /\ Holds(ast, Top, o)
         /\ BlockFits(left, co, o)
  <1>1. n \in DOMAIN ast /\ Len(frames) >= 3 /\ cur \in Blocks(ast)
    BY InnerSize
  <1>2. Holds(ast, Top, o)
    BY DEF Holds
  <1>3. PICK K \in DOMAIN frames : Top = frames[K]
    BY TopIn
  <1>4. o \in inserted /\ o \in Blocks(ast)
    BY <1>2, <1>3, HeldByFrame
  <1>5. o # cur
    BY <1>2, <1>4, TopApart DEF HoldsOf
  <1>6. <<"then", n>> \in Blocks(ast) /\ l \in Blocks(ast)
    BY <1>1, RolesOf
  <1>7. i \in Instr /\ IsTerminator(i)
    BY <1>6, Kinds
  <1>8. Waits(Top, left, code)
    BY <1>1, CurPlace
  <1>9. o \notin left /\ Asks(code[o], o, Kid(n, 1))
    BY <1>8 DEF Waits
  <1>10. /\ StandsFor(<<"then", n>>) = Taken(ast, Kid(n, 1))
         /\ StandsFor(l) = NotTaken(ast, Kid(n, 1))
    BY <1>1, ConditionOfIf
  <1>11. FitsAll(co[o], o)
    <2>1. PICK m \in Blocks(ast) : m = <<"then", n>>
      BY <1>6
    <2>2. code[o] \in Seq(Instr)
      BY <1>4 DEF GenInv
    <2> QED
      BY <1>6, <1>9, <1>10, <2>1, <2>2, FitsAsked
  <1>12. code[o] \in Seq(Instr)
    BY <1>4 DEF GenInv
  <1> QED
    BY <1>2, <1>4, <1>5, <1>7, <1>9, <1>11, <1>12 DEF BlockFits

LEMMA EndElseFlow ==
  ASSUME ast \in Programs, IsClean(ast), GenInv, BlocksNow, FlowNow, EndElse,
         ~ SomeEarly(ast, code')
  PROVE  FlowNext
  <1>0. PICK n : n = Top.node
    OBVIOUS
  <1>m. PICK m : m = <<"merge-if", n>>
    OBVIOUS
  <1>b. PICK b : b = cur
    OBVIOUS
  <1>o. PICK o : o = Top.origin
    OBVIOUS
  <1>e. PICK e : e = Top.thenEnd
    OBVIOUS
  <1>l. PICK left : left = Left(frames, parentbb)
    OBVIOUS
  <1>t. PICK i : i = CondBr(<<"then", n>>, <<"else", n>>)
    OBVIOUS
  <1>c. PICK c : c = Emit(code, b, Br(m))
    OBVIOUS
  <1>d. PICK d : d = Emit(c, o, i)
    OBVIOUS
  <1>f. PICK co : co = [d EXCEPT ![e] = Close(@, m)]
    OBVIOUS
  <1>1. /\ frames # <<>> /\ ast[n].kind = "if" /\ Top.step = 3
        /\ inserted' = inserted \cup {m} /\ cur' = m /\ code' = co
        /\ frames' = Front(frames) /\ parentbb' = parentbb
    BY <1>0, <1>m, <1>b, <1>o, <1>e, <1>t, <1>c, <1>d, <1>f DEF EndElse, At, Return, Keep
  <1>2. /\ n \in DOMAIN ast /\ b \in inserted /\ b \in Blocks(ast) /\ code \in Codes
        /\ Len(frames) >= 3
    BY <1>0, <1>1, <1>b, InnerSize
  <1>3. ast[n].arity = 3 /\ Expected(Top) = After(ast, n)
    BY <1>0, <1>1, IfPlace
  <1>4. PICK fs : fs = frames'
    OBVIOUS
  <1>5. ReturnedTo(fs) /\ Len(fs) >= 3
    <2>1. Len(Turns(ast, n)) = 2
      BY <1>1, <1>2, <1>3, TurnsAreChildren
    <2>2. Returns
      BY <1>0, <1>1, <2>1 DEF Returns
    <2> QED
      BY <1>0, <1>1, <1>4, <2>2, ReturnsTo, InnerSize
  <1>6. /\ m \in Blocks(ast) /\ m \notin inserted /\ code[m] = <<>>
    <2>1. m \in Blocks(ast) /\ m[1] = "merge-if" /\ m[2] = n
      BY <1>1, <1>2, <1>m, RolesOf
    <2>2. ~ Reached(Top, "merge-if")
      BY DEF Reached
    <2> QED
      BY <1>0, <1>1, <2>1, <2>2, NewBlock
  <1>7. /\ Terminated(code[b]) \/ b \in left \/ Ready(code[b], b, Expected(Top))
        /\ \A x \in Blocks(ast) : BlockFits(left, code, x) /\ code[x] \in Seq(Instr)
        /\ left \subseteq inserted
        /\ Waits(Top, left, code)
    BY <1>1, <1>2, <1>b, <1>l, CurPlace
  <1>8. /\ o \in Blocks(ast) /\ o \in inserted /\ o # b /\ i \in Instr /\ IsTerminator(i)
        /\ Holds(ast, Top, o)
    <2>1. PICK x : x = [y \in {o} |-> Append(code[o], i)]
      OBVIOUS
    <2>2. x[o] = Append(code[o], i)
      BY <2>1
    <2> QED
      BY <1>0, <1>1, <1>3, <1>b, <1>o, <1>l, <1>t, <2>2, OriginPlace
  <1>9. /\ e \in Blocks(ast) /\ e \in inserted /\ e # b /\ e # o
        /\ Holds(ast, Top, e)
    <2>1. Holds(ast, Top, e)
      BY <1>0, <1>1, <1>e DEF Holds, Fills
    <2>2. PICK K \in DOMAIN frames : Top = frames[K]
      BY <1>1, TopIn
    <2>3. e \in inserted /\ e \in Blocks(ast)
      BY <2>1, <2>2, HeldByFrame
    <2>4. HoldsOf(ast, Top, cur)
      BY <1>1, TopApart
    <2> QED
      BY <1>0, <1>1, <1>b, <1>o, <1>e, <2>1, <2>3, <2>4 DEF HoldsOf
  <1>10. /\ c \in Codes /\ \A x \in Blocks(ast) : x # b => c[x] = code[x]
         /\ c[b] = Append(code[b], Br(m))
         /\ Early(c[b]) <=> Early(code[b]) \/ Terminated(code[b])
    <2>1. Br(m) \in Instr
      BY <1>6, Kinds
    <2> QED
      BY <1>2, <1>c, <2>1, EmitAt, EmitEnds
  <1>11. /\ d \in Codes /\ \A x \in Blocks(ast) : x # o => d[x] = c[x]
         /\ d[o] = Append(c[o], i)
    BY <1>8, <1>10, <1>d, EmitAt, EmitEnds
  <1>12. /\ \A x \in Blocks(ast) : x # e => co[x] = d[x]
         /\ co[e] = Close(d[e], m)
    BY <1>9, <1>11, <1>f DEF Codes
  <1>13. /\ \A x \in Blocks(ast) : x \notin {b, o, e} => co[x] = code[x]
         /\ co[b] = Append(code[b], Br(m)) /\ co[o] = Append(code[o], i)
         /\ co[e] = Close(code[e], m)
         /\ Early(co[b]) <=> Early(code[b]) \/ Terminated(code[b])
    BY <1>2, <1>8, <1>9, <1>10, <1>11, <1>12
  <1>14. BlockFits(left, co, b)
    <2>1. ~ Terminated(code[b])
      BY <1>1, <1>2, <1>13, NotEarly
    <2>2. StandsFor(m) = Expected(Top)
      BY <1>3, <1>m, Stands
    <2> QED
      BY <1>1, <1>2, <1>6, <1>13, <1>b, <1>l, <2>1, <2>2, BranchOut
  <1>15. BlockFits(left, co, o)
    BY <1>0, <1>1, <1>3, <1>13, <1>b, <1>o, <1>l, <1>t, OriginPlace
  <1>16. BlockFits(left, co, e)
    <2>1. Terminated(code[e]) \/ e \in left \/ Ready(code[e], e, StandsFor(m))
      BY <1>0, <1>1, <1>7, <1>e, <1>m, Stands DEF Waits
    <2> QED
      BY <1>6, <1>7, <1>9, <1>13, <2>1, CloseFits
  <1>17. \A x \in Blocks(ast) : BlockFits(left, co, x)
    <2> SUFFICES ASSUME NEW x \in Blocks(ast), x \notin {b, o, e} PROVE BlockFits(left, co, x)
      BY <1>14, <1>15, <1>16
    <2> QED
      BY <1>7, <1>13 DEF BlockFits
  <1>18. \A x \in Blocks(ast) : ~ Touched(x) => co[x] = code[x]
    BY <1>8, <1>9, <1>13, <1>b DEF Touched
  <1>19. /\ m \notin left /\ co[m] = <<>> /\ StandsFor(m) = After(ast, Top.node)
    BY <1>0, <1>2, <1>6, <1>7, <1>8, <1>9, <1>13, <1>m, Stands
  <1>20. PICK ins : ins = inserted \cup {m}
    OBVIOUS
  <1>21. FlowParts(fs, ins, co, m, parentbb)
    BY <1>1, <1>5, <1>17, <1>18, <1>19, <1>20, <1>l, MergeFlow
  <1> QED
    BY <1>1, <1>4, <1>20, <1>21 DEF FlowNext

LEMMA EndThenFlow ==
  ASSUME ast \in Programs, IsClean(ast), GenInv, BlocksNow, FlowNow, EndThen
  PROVE  FlowNext
  <1>0. PICK n : n = Top.node
    OBVIOUS
  <1>m. PICK m : m = <<"merge-if", n>>
    OBVIOUS
  <1>b. PICK b : b = cur
    OBVIOUS
  <1>o. PICK o : o = Top.origin
    OBVIOUS
  <1>l. PICK left : left = Left(frames, parentbb)
    OBVIOUS
  <1>t. PICK i : i = CondBr(<<"then", n>>, m)
    OBVIOUS
  <1>c. PICK c : c = [code EXCEPT ![b] = Close(@, m)]
    OBVIOUS
  <1>f. PICK co : co = Emit(c, o, i)
    OBVIOUS
  <1>1. /\ frames # <<>> /\ ast[n].kind = "if" /\ ast[n].arity = 2 /\ Top.step = 2
        /\ inserted' = inserted \cup {m} /\ cur' = m /\ code' = co
        /\ frames' = Front(frames) /\ parentbb' = parentbb
    BY <1>0, <1>m, <1>b, <1>o, <1>t, <1>c, <1>f DEF EndThen, At, Return, Keep
  <1>2. /\ n \in DOMAIN ast /\ b \in inserted /\ b \in Blocks(ast) /\ code \in Codes
        /\ Len(frames) >= 3
    BY <1>0, <1>1, <1>b, InnerSize
  <1>3. Expected(Top) = After(ast, n)
    BY <1>0, <1>1, IfPlace
  <1>4. PICK fs : fs = frames'
    OBVIOUS
  <1>5. ReturnedTo(fs) /\ Len(fs) >= 3
    <2>1. Len(Turns(ast, n)) = 1
      BY <1>1, <1>2, TurnsAreChildren
    <2>2. Returns
      BY <1>0, <1>1, <2>1 DEF Returns
    <2> QED
      BY <1>0, <1>1, <1>4, <2>2, ReturnsTo, InnerSize
  <1>6. /\ m \in Blocks(ast) /\ m \notin inserted /\ code[m] = <<>>
    <2>1. m \in Blocks(ast) /\ m[1] = "merge-if" /\ m[2] = n
      BY <1>1, <1>2, <1>m, RolesOf
    <2>2. ~ Reached(Top, "merge-if")
      BY DEF Reached
    <2> QED
      BY <1>0, <1>1, <2>1, <2>2, NewBlock
  <1>7. /\ Terminated(code[b]) \/ b \in left \/ Ready(code[b], b, Expected(Top))
        /\ \A x \in Blocks(ast) : BlockFits(left, code, x) /\ code[x] \in Seq(Instr)
        /\ left \subseteq inserted
    BY <1>1, <1>2, <1>b, <1>l, CurPlace
  <1>u. m \in {<<"else", n>>, <<"merge-if", n>>} /\ m # <<"else", n>> /\ ast[n].arity # 3
    BY <1>1, <1>m
  <1>8. /\ o \in Blocks(ast) /\ o \in inserted /\ o # b /\ i \in Instr /\ IsTerminator(i)
        /\ Holds(ast, Top, o)
    <2>1. PICK x : x = [y \in {o} |-> Append(code[o], i)]
      OBVIOUS
    <2>2. x[o] = Append(code[o], i)
      BY <2>1
    <2> QED
      BY <1>0, <1>1, <1>b, <1>o, <1>l, <1>t, <1>u, <2>2, OriginPlace
  <1>9. /\ c \in Codes /\ \A x \in Blocks(ast) : x # b => c[x] = code[x]
        /\ c[b] = Close(code[b], m)
    <2>1. code \in Codes /\ b \in Blocks(ast) /\ m \in Blocks(ast)
      BY <1>2, <1>6
    <2>2. \A x \in Blocks(ast) : x # b => c[x] = code[x]
      BY <1>c, <2>1 DEF Codes
    <2>3. c[b] = Close(code[b], m)
      BY <1>c, <2>1 DEF Codes
    <2>4. c \in Codes
      BY <1>c, <2>1, Closes DEF Grows
    <2> QED
      BY <2>2, <2>3, <2>4
  <1>10. /\ \A x \in Blocks(ast) : x # o => co[x] = c[x]
         /\ co[o] = Append(c[o], i)
    BY <1>8, <1>9, <1>f, EmitAt, EmitEnds
  <1>11. /\ \A x \in Blocks(ast) : x \notin {b, o} => co[x] = code[x]
         /\ co[b] = Close(code[b], m) /\ co[o] = Append(code[o], i)
    BY <1>2, <1>8, <1>9, <1>10
  <1>12. BlockFits(left, co, b)
    <2>1. Terminated(code[b]) \/ b \in left \/ Ready(code[b], b, StandsFor(m))
      BY <1>3, <1>7, <1>m, Stands
    <2> QED
      BY <1>2, <1>6, <1>7, <1>11, <2>1, CloseFits
  <1>13. BlockFits(left, co, o)
    <2>1. co[o] = Append(code[o], i)
      BY <1>11
    <2> QED
      BY <1>0, <1>1, <1>b, <1>o, <1>l, <1>t, <1>u, <2>1, OriginPlace
  <1>14. \A x \in Blocks(ast) : BlockFits(left, co, x)
    <2> SUFFICES ASSUME NEW x \in Blocks(ast), x \notin {b, o} PROVE BlockFits(left, co, x)
      BY <1>12, <1>13
    <2> QED
      BY <1>7, <1>11 DEF BlockFits
  <1>15. \A x \in Blocks(ast) : ~ Touched(x) => co[x] = code[x]
    BY <1>8, <1>11, <1>b DEF Touched
  <1>16. /\ m \notin left /\ co[m] = <<>> /\ StandsFor(m) = After(ast, Top.node)
    BY <1>0, <1>2, <1>6, <1>7, <1>8, <1>11, <1>m, Stands
  <1>17. PICK ins : ins = inserted \cup {m}
    OBVIOUS
  <1>18. FlowParts(fs, ins, co, m, parentbb)
    BY <1>1, <1>5, <1>14, <1>15, <1>16, <1>17, <1>l, MergeFlow
  <1> QED
    BY <1>1, <1>4, <1>17, <1>18 DEF FlowNext

(***************************************************************************)
(* For and while.                                                          *)
(***************************************************************************)

(* Where a loop is.                                                        *)
LEMMA LoopPlace ==
  ASSUME ast \in Programs, IsClean(ast), GenInv, frames # <<>>,
         ast[Top.node].kind \in {"for", "while"}, NEW n, n = Top.node
  PROVE  /\ n \in DOMAIN ast /\ n \in Seq(Nat)
         /\ ast[n].kind = "for" =>
              /\ Top.step = 1 => Expected(Top) = Begin(ast, Kid(n, 1)) /\ NextKid = Kid(n, 1)
              /\ Top.step = 2 => Expected(Top) = Kid(n, 2) /\ NextKid = Kid(n, 4)
              /\ Top.step = 3 => /\ Expected(Top) = Kid(n, 3) /\ NextKid = Kid(n, 3)
                                 /\ Begin(ast, Kid(n, 3)) = Kid(n, 3)
              /\ Top.step = 4 => Expected(Top) = Kid(n, 2)
         /\ ast[n].kind = "while" =>
              /\ Top.step = 1 => Expected(Top) = Kid(n, 1) /\ NextKid = Kid(n, 2)
              /\ Top.step = 2 => Expected(Top) = Kid(n, 1)
  <1>1. n \in DOMAIN ast /\ n \in Seq(Nat)
    BY TopFrame, ProgramsAreTrees, TreePositions DEF GenInv
  <1>2. Leads(ast) /\ IsTree(ast)
    BY CleanLeads
  <1>3. CASE ast[n].kind = "for"
    <2>1. Turns(ast, n) = <<1, 4, 3>> /\ ast[n].arity = 4
      BY <1>1, <1>3, TurnsAreChildren, StatementsAreWhole DEF OfKind
    <2>2. 1 \in 1..ast[n].arity /\ 3 \in 1..ast[n].arity /\ 4 \in 1..ast[n].arity
      BY <2>1
    <2>3. /\ After(ast, Append(n, 1)) = Append(n, 2)
          /\ After(ast, Append(n, 4)) = Append(n, 3)
          /\ After(ast, Append(n, 3)) = Append(n, 2)
          /\ Begin(ast, n) = Begin(ast, Append(n, 1))
      <3>1. After(ast, Append(n, 1)) = Append(n, 2)
        BY <1>1, <1>2, <1>3, <2>2, AfterOf
      <3>2. After(ast, Append(n, 4)) = Append(n, 3)
        BY <1>1, <1>2, <1>3, <2>2, AfterOf
      <3>3. After(ast, Append(n, 3)) = Append(n, 2)
        BY <1>1, <1>2, <1>3, <2>2, AfterOf
      <3>4. Begin(ast, n) = Begin(ast, Append(n, 1))
        BY <1>1, <1>2, <1>3, BeginOf
      <3> QED
        BY <3>1, <3>2, <3>3, <3>4
    <2>4. Begin(ast, Append(n, 3)) = Append(n, 3)
      <3>1. PICK k : k = Append(n, 3)
        OBVIOUS
      <3>2. k \in DOMAIN ast
        BY <1>1, <1>2, <2>2, <3>1, TreePositions
      <3>3. ast[k].kind \in {"expr", "voidcall"}
        BY <1>1, <1>3, <3>1 DEF IsClean, OfKind, Kid, ExpressionKinds
      <3> QED
        BY <1>2, <3>1, <3>2, <3>3, BeginOf
    <2>5. /\ Top.step = 2 => LastKid(Top) = Append(n, 1)
          /\ Top.step = 3 => LastKid(Top) = Append(n, 4)
          /\ Top.step = 4 => LastKid(Top) = Append(n, 3)
      BY <2>1 DEF LastKid, Kid
    <2>6. /\ Top.step = 1 => NextKid = Append(n, 1)
          /\ Top.step = 2 => NextKid = Append(n, 4)
          /\ Top.step = 3 => NextKid = Append(n, 3)
      BY <2>1 DEF NextKid, Kid
    <2>7. Top.step = 1 => Expected(Top) = Begin(ast, Kid(n, 1)) /\ NextKid = Kid(n, 1)
      BY <2>3, <2>6 DEF Expected, Kid
    <2>8. Top.step = 2 => Expected(Top) = Kid(n, 2) /\ NextKid = Kid(n, 4)
      <3>1. Top.step = 2 => Expected(Top) = After(ast, LastKid(Top))
        BY DEF Expected
      <3>2. Kid(n, 2) = Append(n, 2) /\ Kid(n, 4) = Append(n, 4)
        BY DEF Kid
      <3> QED
        BY <2>3, <2>5, <2>6, <3>1, <3>2
    <2>9. Top.step = 3 => /\ Expected(Top) = Kid(n, 3) /\ NextKid = Kid(n, 3)
                          /\ Begin(ast, Kid(n, 3)) = Kid(n, 3)
      BY <2>3, <2>4, <2>5, <2>6 DEF Expected, Kid
    <2>10. Top.step = 4 => Expected(Top) = Kid(n, 2)
      <3>1. Top.step = 4 => Expected(Top) = After(ast, LastKid(Top))
        BY DEF Expected
      <3>2. Kid(n, 2) = Append(n, 2)
        BY DEF Kid
      <3> QED
        BY <2>3, <2>5, <3>1, <3>2
    <2> QED
      BY <1>1, <1>3, <2>7, <2>8, <2>9, <2>10
  <1>4. CASE ast[n].kind = "while"
    <2>1. Turns(ast, n) = <<2>> /\ ast[n].arity = 2
      BY <1>1, <1>4, TurnsAreChildren, StatementsAreWhole DEF OfKind
    <2>2. 2 \in 1..ast[n].arity
      BY <2>1
    <2>3. After(ast, Append(n, 2)) = Append(n, 1)
      BY <1>1, <1>2, <1>4, <2>2, AfterOf
    <2>4. Begin(ast, n) = Append(n, 1)
      BY <1>1, <1>2, <1>4, BeginOf
    <2>5. Top.step = 2 => LastKid(Top) = Append(n, 2)
      BY <2>1 DEF LastKid, Kid
    <2>6. Top.step = 1 => NextKid = Append(n, 2)
      BY <2>1 DEF NextKid, Kid
    <2> QED
      BY <1>1, <1>4, <2>3, <2>4, <2>5, <2>6 DEF Expected, Kid
  <1> QED
    BY <1>3, <1>4

(* A block for a condition: its expression and its conditional branch.     *)
LEMMA ConditionFits ==
  ASSUME ast \in Programs, NEW n \in DOMAIN ast, NEW a \in {1, 2}, NEW h \in Blocks(ast),
         NEW y \in Blocks(ast), NEW m \in Blocks(ast),
         Kid(n, a) \in DOMAIN ast, Kid(n, a) \in Seq(Nat),
         IsCondition(ast, Kid(n, a)), ~ IsReturned(ast, Kid(n, a)),
         StandsFor(h) = Kid(n, a), StandsFor(y) = Taken(ast, Kid(n, a)),
         StandsFor(m) = NotTaken(ast, Kid(n, a)),
         NEW c \in Codes, c[h] = <<>>,
         NEW d, d = Emit(c, h, Eval(Kid(n, a))), NEW co, co = Emit(d, h, CondBr(y, m))
  PROVE  /\ FitsAll(co[h], h)
         /\ \A x \in Blocks(ast) : x # h => co[x] = c[x]
         /\ co \in Codes
  <1>1. PICK e : e = Kid(n, a)
    OBVIOUS
  <1>2. Eval(e) \in Instr /\ CondBr(y, m) \in Instr
    BY <1>1, Kinds
  <1>3. /\ d \in Codes /\ \A x \in Blocks(ast) : x # h => d[x] = c[x]
        /\ d[h] = Append(<<>>, Eval(e))
    <2>1. PICK i \in Instr : i = Eval(e)
      BY <1>2
    <2>2. d = Emit(c, h, i)
      BY <1>1, <2>1
    <2>3. d \in Codes /\ \A x \in Blocks(ast) : x # h => d[x] = c[x]
      BY <2>2, EmitEnds
    <2>4. d[h] = Append(c[h], i)
      BY <2>2, EmitAt
    <2> QED
      BY <2>1, <2>3, <2>4
  <1>4. /\ co \in Codes /\ \A x \in Blocks(ast) : x # h => co[x] = d[x]
        /\ co[h] = Append(d[h], CondBr(y, m))
    <2>1. PICK i \in Instr : i = CondBr(y, m)
      BY <1>2
    <2>2. co = Emit(d, h, i)
      BY <2>1
    <2>3. co \in Codes /\ \A x \in Blocks(ast) : x # h => co[x] = d[x]
      BY <1>3, <2>2, EmitEnds
    <2>4. co[h] = Append(d[h], i)
      BY <1>3, <2>2, EmitAt
    <2> QED
      BY <2>1, <2>3, <2>4
  <1>5. Asks(d[h], h, e)
    <2>1. Ready(<<>>, h, e)
      BY <1>1, ReadyEmpty
    <2>2. <<>> \in Seq(Instr)
      OBVIOUS
    <2> QED
      BY <1>1, <1>3, <2>1, <2>2, ReadyEval
  <1>6. FitsAll(co[h], h)
    <2>1. d[h] \in Seq(Instr)
      BY <1>3 DEF Codes
    <2> QED
      BY <1>1, <1>4, <1>5, <2>1, FitsAsked
  <1> QED
    BY <1>3, <1>4, <1>6

LEMMA GenForInitFlow ==
  ASSUME ast \in Programs, IsClean(ast), GenInv, BlocksNow, FlowNow, GenForInit
  PROVE  FlowNext
  <1>0. PICK n : n = Top.node
    OBVIOUS
  <1>h. PICK header : header = <<"for-header", n>>
    OBVIOUS
  <1>y. PICK body : body = <<"for-body", n>>
    OBVIOUS
  <1>l. PICK left : left = Left(frames, parentbb)
    OBVIOUS
  <1>1. /\ frames # <<>> /\ ast[n].kind = "for" /\ Top.step = 1
        /\ cur' = cur /\ code' = code /\ parentbb' = parentbb
        /\ inserted' = inserted \cup {header, body}
        /\ CallGen(Top, Kid(n, 1))
    BY <1>0, <1>h, <1>y DEF GenForInit, At, Keep
  <1>2. n \in DOMAIN ast /\ Len(frames) >= 3
    BY <1>0, <1>1, InnerSize
  <1>3. PICK fs : fs = frames'
    OBVIOUS
  <1>4. PICK f : CalledTo(f, fs)
    BY <1>0, <1>1, <1>3, LoopCalls
  <1>5. f.node = n /\ f.step = 2
    BY <1>0, <1>1, <1>4 DEF CalledTo
  <1>6. header \notin inserted /\ body \notin inserted
    <2>1. /\ header \in Blocks(ast) /\ header[1] = "for-header" /\ header[2] = n
          /\ body \in Blocks(ast) /\ body[1] = "for-body" /\ body[2] = n
      BY <1>1, <1>2, <1>h, <1>y, RolesOf
    <2>2. ~ Reached(Top, "for-header") /\ ~ Reached(Top, "for-body")
      BY <1>1 DEF Reached
    <2> QED
      BY <1>0, <1>1, <2>1, <2>2, NewBlock
  <1>7. left \subseteq inserted
    BY <1>1, <1>2, <1>l, CurPlace
  <1>8. cur \notin left /\ Ready(code[cur], cur, Begin(ast, NextKid))
    <2>1. NextKid = Kid(n, 1) /\ Begin(ast, n) = Begin(ast, Append(n, 1))
      BY <1>0, <1>1, <1>2, LoopPlace, CleanLeads, BeginOf
    <2> QED
      BY <1>0, <1>1, <1>2, <1>l, <2>1, AliveAtStart DEF Kid
  <1>9. Waits(f, left, code)
    <2>1. \A b : Holds(ast, f, b) => b \in {header, body}
      BY <1>1, <1>5, <1>h, <1>y DEF Holds, Fills
    <2> QED
      BY <1>1, <1>5, <1>6, <1>7, <2>1 DEF Waits
  <1>10. PICK ins : ins = inserted \cup {header, body}
    OBVIOUS
  <1>11. FlowParts(fs, ins, code, cur, parentbb)
    BY <1>1, <1>2, <1>4, <1>8, <1>9, <1>10, <1>l, FlowAfterCall
  <1> QED
    BY <1>1, <1>3, <1>10, <1>11 DEF FlowNext

LEMMA LoopWaitsNot ==
  ASSUME NEW f, ast[f.node].kind \in {"for", "while"}, f.step # 2, NEW left, NEW co
  PROVE  Waits(f, left, co)
  BY LoopHoldsNothing DEF Waits

LEMMA GenForBodyFlow ==
  ASSUME ast \in Programs, IsClean(ast), GenInv, BlocksNow, FlowNow, GenForBody,
         ~ SomeEarly(ast, code')
  PROVE  FlowNext
  <1>0. PICK n : n = Top.node
    OBVIOUS
  <1>h. PICK header : header = <<"for-header", n>>
    OBVIOUS
  <1>y. PICK body : body = <<"for-body", n>>
    OBVIOUS
  <1>m. PICK merge : merge = <<"merge-for", n>>
    OBVIOUS
  <1>b. PICK b : b = cur
    OBVIOUS
  <1>l. PICK left : left = Left(frames, parentbb)
    OBVIOUS
  <1>c. PICK c : c = Emit(code, b, Br(header))
    OBVIOUS
  <1>d. PICK d : d = Emit(c, header, Eval(Kid(n, 2)))
    OBVIOUS
  <1>f. PICK co : co = Emit(d, header, CondBr(body, merge))
    OBVIOUS
  <1>1. /\ frames # <<>> /\ ast[n].kind = "for" /\ Top.step = 2
        /\ inserted' = inserted /\ cur' = body /\ code' = co /\ parentbb' = parentbb
        /\ CallGen(Top, Kid(n, 4))
    BY <1>0, <1>h, <1>y, <1>m, <1>b, <1>c, <1>d, <1>f DEF GenForBody, At, Keep
  <1>2. /\ n \in DOMAIN ast /\ n \in Seq(Nat) /\ b \in inserted /\ b \in Blocks(ast)
        /\ code \in Codes /\ Len(frames) >= 3
    BY <1>0, <1>1, <1>b, InnerSize
  <1>3. PICK fs : fs = frames'
    OBVIOUS
  <1>4. PICK f : CalledTo(f, fs)
    BY <1>0, <1>1, <1>3, LoopCalls
  <1>5. f.node = n /\ f.step = 3
    BY <1>0, <1>1, <1>4 DEF CalledTo
  <1>6. header \in Blocks(ast) /\ body \in Blocks(ast) /\ merge \in Blocks(ast)
    BY <1>1, <1>2, <1>h, <1>y, <1>m, RolesOf
  <1>7. /\ header # b /\ body # b /\ header # body
        /\ code[header] = <<>> /\ code[body] = <<>>
        /\ Holds(ast, Top, header) /\ Holds(ast, Top, body)
    <2>1. Holds(ast, Top, header) /\ Holds(ast, Top, body)
      BY <1>0, <1>1, <1>h, <1>y DEF Holds, Fills
    <2>2. HoldsOf(ast, Top, cur) /\ HeldIsOpen(ast, code, Top)
      BY <1>1, TopApart
    <2>3. header # b /\ body # b
      BY <1>6, <1>b, <2>1, <2>2 DEF HoldsOf
    <2>4. code[header] = <<>> /\ code[body] = <<>>
      BY <1>0, <1>1, <1>h, <1>y, <2>2 DEF HeldIsOpen
    <2> QED
      BY <1>h, <1>y, <2>1, <2>3, <2>4
  <1>8. /\ \A x \in Blocks(ast) : BlockFits(left, code, x)
        /\ header \notin left /\ body \notin left
    <2>1. Waits(Top, left, code) /\ \A x \in Blocks(ast) : BlockFits(left, code, x)
      BY <1>1, <1>2, <1>l, CurPlace
    <2> QED
      BY <1>0, <1>1, <1>6, <1>7, <2>1 DEF Waits, LoopKinds
  <1>9. /\ c \in Codes /\ \A x \in Blocks(ast) : x # b => c[x] = code[x]
        /\ c[b] = Append(code[b], Br(header))
        /\ Early(c[b]) <=> Early(code[b]) \/ Terminated(code[b])
    <2>1. Br(header) \in Instr
      BY <1>6, Kinds
    <2> QED
      BY <1>2, <1>c, <2>1, EmitAt, EmitEnds
  <1>10. /\ FitsAll(co[header], header)
         /\ \A x \in Blocks(ast) : x # header => co[x] = c[x]
    <2>1. /\ IsCondition(ast, Kid(n, 2)) /\ ~ IsReturned(ast, Kid(n, 2)) /\ Kid(n, 2) \in DOMAIN ast
          /\ Taken(ast, Kid(n, 2)) = StandsFor(body)
          /\ NotTaken(ast, Kid(n, 2)) = StandsFor(merge)
      BY <1>1, <1>2, <1>y, <1>m, ConditionOfFor
    <2>2. Kid(n, 2) \in Seq(Nat) /\ StandsFor(header) = Kid(n, 2)
      BY <1>h, <2>1, ProgramsAreTrees, TreePositions, Stands
    <2>3. c[header] = <<>>
      BY <1>6, <1>7, <1>9
    <2> QED
      BY <1>2, <1>6, <1>9, <1>d, <1>f, <2>1, <2>2, <2>3, ConditionFits
  <1>11. /\ \A x \in Blocks(ast) : x \notin {b, header} => co[x] = code[x]
         /\ co[b] = Append(code[b], Br(header))
         /\ Early(co[b]) <=> Early(code[b]) \/ Terminated(code[b])
    BY <1>2, <1>7, <1>9, <1>10
  <1>12. Expected(Top) = Kid(n, 2) /\ NextKid = Kid(n, 4)
    BY <1>0, <1>1, LoopPlace
  <1>13. BlockFits(left, co, b)
    <2>1. ~ Terminated(code[b])
      BY <1>1, <1>2, <1>11, NotEarly
    <2>2. StandsFor(header) = Expected(Top)
      BY <1>12, <1>h, Stands
    <2> QED
      BY <1>1, <1>2, <1>6, <1>11, <1>b, <1>l, <2>1, <2>2, BranchOut
  <1>14. \A x \in Blocks(ast) : co[x] = code[x] \/ BlockFits(left, co, x)
    BY <1>8, <1>10, <1>11, <1>13 DEF BlockFits
  <1>15. \A x \in Blocks(ast) : ~ Touched(x) => co[x] = code[x]
    BY <1>7, <1>11, <1>b DEF Touched
  <1>16. Waits(f, left, co)
    BY <1>1, <1>5, LoopWaitsNot
  <1>17. Ready(co[body], body, Begin(ast, NextKid))
    BY <1>6, <1>7, <1>11, <1>12, <1>y, ReadyEmpty, Stands
  <1>18. FlowParts(fs, inserted, co, body, parentbb)
    BY <1>1, <1>2, <1>4, <1>8, <1>14, <1>15, <1>16, <1>17, <1>l, FlowAfterCall
  <1> QED
    BY <1>1, <1>3, <1>18 DEF FlowNext

LEMMA GenForNextFlow ==
  ASSUME ast \in Programs, IsClean(ast), GenInv, BlocksNow, FlowNow, GenForNext,
         ~ SomeEarly(ast, code')
  PROVE  FlowNext
  <1>0. PICK n : n = Top.node
    OBVIOUS
  <1>x. PICK next : next = <<"next-for", n>>
    OBVIOUS
  <1>b. PICK b : b = cur
    OBVIOUS
  <1>l. PICK left : left = Left(frames, parentbb)
    OBVIOUS
  <1>c. PICK co : co = Emit(code, b, Br(next))
    OBVIOUS
  <1>1. /\ frames # <<>> /\ ast[n].kind = "for" /\ Top.step = 3
        /\ inserted' = inserted \cup {next} /\ cur' = next /\ code' = co /\ parentbb' = parentbb
        /\ CallGen(Top, Kid(n, 3))
    BY <1>0, <1>x, <1>b, <1>c DEF GenForNext, At, Keep
  <1>2. /\ n \in DOMAIN ast /\ n \in Seq(Nat) /\ b \in inserted /\ b \in Blocks(ast)
        /\ code \in Codes /\ Len(frames) >= 3
    BY <1>0, <1>1, <1>b, InnerSize
  <1>3. PICK fs : fs = frames'
    OBVIOUS
  <1>4. PICK f : CalledTo(f, fs)
    BY <1>0, <1>1, <1>3, LoopCalls
  <1>5. f.node = n /\ f.step = 4
    BY <1>0, <1>1, <1>4 DEF CalledTo
  <1>6. next \in Blocks(ast) /\ next \notin inserted /\ code[next] = <<>> /\ next # b
    <2>1. next \in Blocks(ast) /\ next[1] = "next-for" /\ next[2] = n
      BY <1>1, <1>2, <1>x, RolesOf
    <2>2. ~ Reached(Top, "next-for")
      BY <1>1 DEF Reached
    <2> QED
      BY <1>0, <1>1, <1>2, <2>1, <2>2, NewBlock
  <1>7. /\ \A x \in Blocks(ast) : BlockFits(left, code, x)
        /\ next \notin left
    BY <1>1, <1>2, <1>6, <1>l, CurPlace
  <1>8. /\ \A x \in Blocks(ast) : x # b => co[x] = code[x]
        /\ co[b] = Append(code[b], Br(next))
        /\ Early(co[b]) <=> Early(code[b]) \/ Terminated(code[b])
    <2>1. Br(next) \in Instr
      BY <1>6, Kinds
    <2> QED
      BY <1>2, <1>c, <2>1, EmitAt, EmitEnds
  <1>9. /\ Expected(Top) = Kid(n, 3) /\ NextKid = Kid(n, 3) /\ Begin(ast, Kid(n, 3)) = Kid(n, 3)
        /\ StandsFor(next) = Kid(n, 3)
    BY <1>0, <1>1, <1>x, LoopPlace, Stands
  <1>10. BlockFits(left, co, b)
    <2>1. ~ Terminated(code[b])
      BY <1>1, <1>2, <1>8, NotEarly
    <2> QED
      BY <1>1, <1>2, <1>6, <1>8, <1>9, <1>b, <1>l, <2>1, BranchOut
  <1>11. \A x \in Blocks(ast) : co[x] = code[x] \/ BlockFits(left, co, x)
    BY <1>8, <1>10
  <1>12. \A x \in Blocks(ast) : ~ Touched(x) => co[x] = code[x]
    BY <1>8, <1>b DEF Touched
  <1>13. Waits(f, left, co)
    BY <1>1, <1>5, LoopWaitsNot
  <1>14. Ready(co[next], next, Begin(ast, NextKid))
    BY <1>6, <1>8, <1>9, ReadyEmpty
  <1>15. PICK ins : ins = inserted \cup {next}
    OBVIOUS
  <1>16. FlowParts(fs, ins, co, next, parentbb)
    BY <1>1, <1>2, <1>4, <1>7, <1>11, <1>12, <1>13, <1>14, <1>15, <1>l, FlowAfterCall
  <1> QED
    BY <1>1, <1>3, <1>15, <1>16 DEF FlowNext

LEMMA EndForFlow ==
  ASSUME ast \in Programs, IsClean(ast), GenInv, BlocksNow, FlowNow, EndFor,
         ~ SomeEarly(ast, code')
  PROVE  FlowNext
  <1>0. PICK n : n = Top.node
    OBVIOUS
  <1>h. PICK header : header = <<"for-header", n>>
    OBVIOUS
  <1>m. PICK m : m = <<"merge-for", n>>
    OBVIOUS
  <1>b. PICK b : b = cur
    OBVIOUS
  <1>l. PICK left : left = Left(frames, parentbb)
    OBVIOUS
  <1>c. PICK co : co = Emit(code, b, Br(header))
    OBVIOUS
  <1>1. /\ frames # <<>> /\ ast[n].kind = "for" /\ Top.step = 4
        /\ inserted' = inserted \cup {m} /\ cur' = m /\ code' = co
        /\ frames' = Front(frames) /\ parentbb' = parentbb
    BY <1>0, <1>h, <1>m, <1>b, <1>c DEF EndFor, At, Return, Keep
  <1>2. /\ n \in DOMAIN ast /\ b \in inserted /\ b \in Blocks(ast) /\ code \in Codes
        /\ Len(frames) >= 3
    BY <1>0, <1>1, <1>b, InnerSize
  <1>3. PICK fs : fs = frames'
    OBVIOUS
  <1>4. ReturnedTo(fs) /\ Len(fs) >= 3
    <2>1. Turns(ast, n) = <<1, 4, 3>>
      BY <1>1, <1>2, TurnsAreChildren
    <2>2. Len(Turns(ast, n)) = 3
      BY <2>1
    <2>3. Returns
      BY <1>0, <1>1, <2>2 DEF Returns
    <2> QED
      BY <1>0, <1>1, <1>3, <2>3, ReturnsTo, InnerSize
  <1>5. /\ m \in Blocks(ast) /\ m \notin inserted /\ code[m] = <<>> /\ header \in Blocks(ast)
    <2>1. m \in Blocks(ast) /\ m[1] = "merge-for" /\ m[2] = n /\ header \in Blocks(ast)
      BY <1>1, <1>2, <1>m, <1>h, RolesOf
    <2>2. ~ Reached(Top, "merge-for")
      BY DEF Reached
    <2> QED
      BY <1>0, <1>1, <2>1, <2>2, NewBlock
  <1>6. /\ \A x \in Blocks(ast) : BlockFits(left, code, x)
        /\ left \subseteq inserted
    BY <1>1, <1>2, <1>l, CurPlace
  <1>7. /\ \A x \in Blocks(ast) : x # b => co[x] = code[x]
        /\ co[b] = Append(code[b], Br(header))
        /\ Early(co[b]) <=> Early(code[b]) \/ Terminated(code[b])
    <2>1. Br(header) \in Instr
      BY <1>5, Kinds
    <2> QED
      BY <1>2, <1>c, <2>1, EmitAt, EmitEnds
  <1>8. BlockFits(left, co, b)
    <2>1. ~ Terminated(code[b])
      BY <1>1, <1>2, <1>7, NotEarly
    <2>2. StandsFor(header) = Expected(Top)
      BY <1>0, <1>1, <1>h, LoopPlace, Stands
    <2> QED
      BY <1>1, <1>2, <1>5, <1>7, <1>b, <1>l, <2>1, <2>2, BranchOut
  <1>9. \A x \in Blocks(ast) : BlockFits(left, co, x)
    <2> SUFFICES ASSUME NEW x \in Blocks(ast), x # b PROVE BlockFits(left, co, x)
      BY <1>8
    <2> QED
      BY <1>6, <1>7 DEF BlockFits
  <1>10. \A x \in Blocks(ast) : ~ Touched(x) => co[x] = code[x]
    BY <1>7, <1>b DEF Touched
  <1>11. /\ m \notin left /\ co[m] = <<>> /\ StandsFor(m) = After(ast, Top.node)
    BY <1>0, <1>2, <1>5, <1>6, <1>7, <1>m, Stands
  <1>12. PICK ins : ins = inserted \cup {m}
    OBVIOUS
  <1>13. FlowParts(fs, ins, co, m, parentbb)
    BY <1>1, <1>4, <1>9, <1>10, <1>11, <1>12, <1>l, MergeFlow
  <1> QED
    BY <1>1, <1>3, <1>12, <1>13 DEF FlowNext

LEMMA GenWhileBodyFlow ==
  ASSUME ast \in Programs, IsClean(ast), GenInv, BlocksNow, FlowNow, GenWhileBody,
         ~ SomeEarly(ast, code')
  PROVE  FlowNext
  <1>0. PICK n : n = Top.node
    OBVIOUS
  <1>h. PICK header : header = <<"while-cond", n>>
    OBVIOUS
  <1>y. PICK body : body = <<"while-body", n>>
    OBVIOUS
  <1>m. PICK merge : merge = <<"while-merge", n>>
    OBVIOUS
  <1>b. PICK b : b = cur
    OBVIOUS
  <1>l. PICK left : left = Left(frames, parentbb)
    OBVIOUS
  <1>c. PICK c : c = Emit(code, b, Br(header))
    OBVIOUS
  <1>d. PICK d : d = Emit(c, header, Eval(Kid(n, 1)))
    OBVIOUS
  <1>f. PICK co : co = Emit(d, header, CondBr(body, merge))
    OBVIOUS
  <1>1. /\ frames # <<>> /\ ast[n].kind = "while" /\ Top.step = 1
        /\ inserted' = inserted \cup {body, header, merge}
        /\ cur' = body /\ code' = co /\ parentbb' = parentbb
        /\ CallGen(Top, Kid(n, 2))
    BY <1>0, <1>h, <1>y, <1>m, <1>b, <1>c, <1>d, <1>f DEF GenWhileBody, At, Keep
  <1>2. /\ n \in DOMAIN ast /\ n \in Seq(Nat) /\ b \in inserted /\ b \in Blocks(ast)
        /\ code \in Codes /\ Len(frames) >= 3
    BY <1>0, <1>1, <1>b, InnerSize
  <1>3. PICK fs : fs = frames'
    OBVIOUS
  <1>4. PICK f : CalledTo(f, fs)
    BY <1>0, <1>1, <1>3, LoopCalls
  <1>5. f.node = n /\ f.step = 2
    BY <1>0, <1>1, <1>4 DEF CalledTo
  <1>6. header \in Blocks(ast) /\ body \in Blocks(ast) /\ merge \in Blocks(ast)
    BY <1>1, <1>2, <1>h, <1>y, <1>m, RolesOf
  <1>7. /\ header \notin inserted /\ body \notin inserted /\ merge \notin inserted
        /\ code[header] = <<>> /\ code[body] = <<>> /\ header # body
        /\ header # b /\ body # b
    <2>1. /\ header[1] = "while-cond" /\ header[2] = n /\ body[1] = "while-body" /\ body[2] = n
          /\ merge[1] = "while-merge" /\ merge[2] = n
      BY <1>h, <1>y, <1>m
    <2>2. ~ Reached(Top, "while-cond") /\ ~ Reached(Top, "while-body") /\ ~ Reached(Top, "while-merge")
      BY <1>1 DEF Reached
    <2> QED
      BY <1>0, <1>1, <1>2, <1>6, <2>1, <2>2, NewBlock
  <1>8. /\ \A x \in Blocks(ast) : BlockFits(left, code, x)
        /\ header \notin left /\ body \notin left /\ merge \notin left
    BY <1>1, <1>2, <1>7, <1>l, CurPlace
  <1>9. /\ c \in Codes /\ \A x \in Blocks(ast) : x # b => c[x] = code[x]
        /\ c[b] = Append(code[b], Br(header))
        /\ Early(c[b]) <=> Early(code[b]) \/ Terminated(code[b])
    <2>1. Br(header) \in Instr
      BY <1>6, Kinds
    <2> QED
      BY <1>2, <1>c, <2>1, EmitAt, EmitEnds
  <1>10. /\ FitsAll(co[header], header)
         /\ \A x \in Blocks(ast) : x # header => co[x] = c[x]
    <2>1. /\ IsCondition(ast, Kid(n, 1)) /\ ~ IsReturned(ast, Kid(n, 1)) /\ Kid(n, 1) \in DOMAIN ast
          /\ Taken(ast, Kid(n, 1)) = StandsFor(body)
          /\ NotTaken(ast, Kid(n, 1)) = StandsFor(merge)
      BY <1>1, <1>2, <1>y, <1>m, ConditionOfWhile
    <2>2. Kid(n, 1) \in Seq(Nat) /\ StandsFor(header) = Kid(n, 1)
      BY <1>h, <2>1, ProgramsAreTrees, TreePositions, Stands
    <2>3. c[header] = <<>>
      BY <1>6, <1>7, <1>9
    <2> QED
      BY <1>2, <1>6, <1>9, <1>d, <1>f, <2>1, <2>2, <2>3, ConditionFits
  <1>11. /\ \A x \in Blocks(ast) : x \notin {b, header} => co[x] = code[x]
         /\ co[b] = Append(code[b], Br(header))
         /\ Early(co[b]) <=> Early(code[b]) \/ Terminated(code[b])
    BY <1>2, <1>7, <1>9, <1>10
  <1>12. Expected(Top) = Kid(n, 1) /\ NextKid = Kid(n, 2)
    BY <1>0, <1>1, LoopPlace
  <1>13. BlockFits(left, co, b)
    <2>1. ~ Terminated(code[b])
      BY <1>1, <1>2, <1>11, NotEarly
    <2>2. StandsFor(header) = Expected(Top)
      BY <1>12, <1>h, Stands
    <2> QED
      BY <1>1, <1>2, <1>6, <1>11, <1>b, <1>l, <2>1, <2>2, BranchOut
  <1>14. \A x \in Blocks(ast) : co[x] = code[x] \/ BlockFits(left, co, x)
    BY <1>8, <1>10, <1>11, <1>13 DEF BlockFits
  <1>15. \A x \in Blocks(ast) : ~ Touched(x) => co[x] = code[x]
    BY <1>7, <1>11, <1>b DEF Touched
  <1>16. Waits(f, left, co)
    <2>1. \A x : Holds(ast, f, x) => x = merge
      BY <1>1, <1>5, <1>m DEF Holds, Fills
    <2> QED
      BY <1>1, <1>5, <1>8, <2>1 DEF Waits
  <1>17. Ready(co[body], body, Begin(ast, NextKid))
    BY <1>6, <1>7, <1>11, <1>12, <1>y, ReadyEmpty, Stands
  <1>18. PICK ins : ins = inserted \cup {body, header, merge}
    OBVIOUS
  <1>19. FlowParts(fs, ins, co, body, parentbb)
    BY <1>1, <1>2, <1>4, <1>8, <1>14, <1>15, <1>16, <1>17, <1>18, <1>l, FlowAfterCall
  <1> QED
    BY <1>1, <1>3, <1>18, <1>19 DEF FlowNext

LEMMA EndWhileFlow ==
  ASSUME ast \in Programs, IsClean(ast), GenInv, BlocksNow, FlowNow, EndWhile,
         ~ SomeEarly(ast, code')
  PROVE  FlowNext
  <1>0. PICK n : n = Top.node
    OBVIOUS
  <1>h. PICK header : header = <<"while-cond", n>>
    OBVIOUS
  <1>m. PICK m : m = <<"while-merge", n>>
    OBVIOUS
  <1>b. PICK b : b = cur
    OBVIOUS
  <1>l. PICK left : left = Left(frames, parentbb)
    OBVIOUS
  <1>c. PICK co : co = Emit(code, b, Br(header))
    OBVIOUS
  <1>1. /\ frames # <<>> /\ ast[n].kind = "while" /\ Top.step = 2
        /\ inserted' = inserted /\ cur' = m /\ code' = co
        /\ frames' = Front(frames) /\ parentbb' = parentbb
    BY <1>0, <1>h, <1>m, <1>b, <1>c DEF EndWhile, At, Return, Keep
  <1>2. /\ n \in DOMAIN ast /\ b \in inserted /\ b \in Blocks(ast) /\ code \in Codes
        /\ Len(frames) >= 3
    BY <1>0, <1>1, <1>b, InnerSize
  <1>3. PICK fs : fs = frames'
    OBVIOUS
  <1>4. ReturnedTo(fs) /\ Len(fs) >= 3
    <2>1. Turns(ast, n) = <<2>>
      BY <1>1, <1>2, TurnsAreChildren
    <2>2. Len(Turns(ast, n)) = 1
      BY <2>1
    <2>3. Returns
      BY <1>0, <1>1, <2>2 DEF Returns
    <2> QED
      BY <1>0, <1>1, <1>3, <2>3, ReturnsTo, InnerSize
  <1>5. m \in Blocks(ast) /\ header \in Blocks(ast)
    BY <1>1, <1>2, <1>m, <1>h, RolesOf
  <1>6. /\ \A x \in Blocks(ast) : BlockFits(left, code, x)
        /\ Waits(Top, left, code)
    BY <1>1, <1>2, <1>l, CurPlace
  <1>7. m \notin left /\ m # b /\ code[m] = <<>>
    <2>1. Holds(ast, Top, m)
      BY <1>0, <1>1, <1>m DEF Holds, Fills
    <2>2. HoldsOf(ast, Top, cur) /\ HeldIsOpen(ast, code, Top)
      BY <1>1, TopApart
    <2>3. m # b
      BY <1>5, <1>b, <2>1, <2>2 DEF HoldsOf
    <2>4. code[m] = <<>>
      BY <1>0, <1>1, <1>m, <2>2 DEF HeldIsOpen
    <2>5. m \notin left
      BY <1>0, <1>1, <1>5, <1>6, <2>1 DEF Waits, LoopKinds
    <2> QED
      BY <2>3, <2>4, <2>5
  <1>8. /\ \A x \in Blocks(ast) : x # b => co[x] = code[x]
        /\ co[b] = Append(code[b], Br(header))
        /\ Early(co[b]) <=> Early(code[b]) \/ Terminated(code[b])
    <2>1. Br(header) \in Instr
      BY <1>5, Kinds
    <2> QED
      BY <1>2, <1>c, <2>1, EmitAt, EmitEnds
  <1>9. BlockFits(left, co, b)
    <2>1. ~ Terminated(code[b])
      BY <1>1, <1>2, <1>8, NotEarly
    <2>2. StandsFor(header) = Expected(Top)
      BY <1>0, <1>1, <1>h, LoopPlace, Stands
    <2> QED
      BY <1>1, <1>2, <1>5, <1>8, <1>b, <1>l, <2>1, <2>2, BranchOut
  <1>10. \A x \in Blocks(ast) : BlockFits(left, co, x)
    <2> SUFFICES ASSUME NEW x \in Blocks(ast), x # b PROVE BlockFits(left, co, x)
      BY <1>9
    <2> QED
      BY <1>6, <1>8 DEF BlockFits
  <1>11. \A x \in Blocks(ast) : ~ Touched(x) => co[x] = code[x]
    BY <1>8, <1>b DEF Touched
  <1>12. co[m] = <<>> /\ StandsFor(m) = After(ast, Top.node)
    BY <1>0, <1>5, <1>7, <1>8, <1>m, Stands
  <1>13. FlowParts(fs, inserted, co, m, parentbb)
    BY <1>1, <1>4, <1>7, <1>10, <1>11, <1>12, <1>l, MergeFlow
  <1> QED
    BY <1>1, <1>3, <1>13 DEF FlowNext

(***************************************************************************)
(* The begin and the end of a function's body.                             *)
(***************************************************************************)
LEMMA GenFunctionFlow ==
  ASSUME ast \in Programs, IsClean(ast), GenInv, BlocksNow, FlowNow, GenFunction
  PROVE  FlowNext
  <1>0. PICK n : n = Top.node
    OBVIOUS
  <1>e. PICK e : e = <<"entry", n>>
    OBVIOUS
  <1>1. /\ frames # <<>> /\ ast[n].kind = "function" /\ Top.step = 1
        /\ cur' = e /\ inserted' = inserted \cup {e} /\ parentbb' = parentbb
        /\ CallGen(Top, Kid(n, ast[n].arity))
        /\ code' = code
    BY <1>0, <1>e DEF GenFunction, At, Keep
  <1>2. n \in DOMAIN ast /\ Top \in FrameType
    BY <1>0, <1>1, TopFrame DEF GenInv
  <1>3. Turns(ast, n) = <<ast[n].arity>>
    BY <1>1, <1>2, TurnsAreChildren
  <1>4. Top.step \in DOMAIN Turns(ast, n) /\ NextKid = Kid(n, ast[n].arity)
    BY <1>0, <1>1, <1>3 DEF NextKid
  <1>5. PICK f : Calls(f) /\ f.node = n /\ f.step = 2
    BY <1>0, <1>1, <1>2, <1>4, CallGenCalls
  <1>6. PICK fs : fs = frames'
    OBVIOUS
  <1>7. CalledTo(f, fs)
    BY <1>5, <1>6, CallsTo
  <1>8. Len(frames) = 2 /\ DOMAIN frames = 1..2 /\ Top = frames[2]
    <2>1. PICK K \in Nat : K = Len(frames) /\ DOMAIN frames = 1..K /\ Top = frames[K]
      BY <1>1, TopIn
    <2>2. K = 2
      BY <1>0, <1>1, <2>1, TopLevel
    <2> QED
      BY <2>1, <2>2
  <1>9. /\ DOMAIN fs = 1..3 /\ Len(fs) = 3 /\ fs[1] = frames[1] /\ fs[2] = f
        /\ fs[3].node = NextKid /\ fs[3].step = 1
    BY <1>7, <1>8 DEF CalledTo
  <1>10. e \in Blocks(ast) /\ e \notin inserted /\ code[e] = <<>>
    <2>1. e \in Blocks(ast) /\ e[1] = "entry" /\ e[2] = n
      BY <1>1, <1>2, <1>e, RolesOf
    <2> QED
      BY <1>0, <1>1, <2>1, NewBlock DEF Reached
  <1>11. ASSUME NEW r \in Rets(ast), IsPrefix(NextKid, r) PROVE parentbb[r] = Null
    <2>1. r \in DOMAIN ast
      BY DEF Rets, OfKind
    <2>2. Awaits(ast, Top, r)
      BY <1>1, <1>7, <1>11, <2>1, AwaitedAfterCall
    <2>3. ~ Passed(ast, frames, r)
      BY <1>8, <2>2 DEF Passed
    <2> QED
      BY <2>3 DEF FlowNow, FlowParts
  <1>12. Left(fs, parentbb) = {}
    <2>1. Left(fs, parentbb) = {parentbb[r] : r \in Rets(ast) \cap Below(ast, NextKid)} \ {Null}
      BY <1>9 DEF Left
    <2>2. \A r \in Below(ast, NextKid) : IsPrefix(NextKid, r)
      BY DEF Below, IsStrictPrefix
    <2> QED
      BY <1>11, <2>1, <2>2
  <1>13. \A b \in Blocks(ast) : BlockFits({}, code, b)
    <2>1. Left(frames, parentbb) = {}
      BY <1>8 DEF Left
    <2> QED
      BY <2>1 DEF FlowNow, FlowParts
  <1>14. Alive(fs[3], {}, code, e)
    <2>1. Expected(fs[3]) = Begin(ast, NextKid)
      BY <1>9 DEF Expected
    <2>2. StandsFor(e) = Begin(ast, NextKid)
      BY <1>4, <1>e, Stands DEF Body, Child, Kid
    <2> QED
      BY <1>10, <2>1, <2>2, ReadyEmpty DEF Alive
  <1>15. ASSUME NEW k \in 1..3 PROVE Waits(fs[k], {}, code)
    <2>1. CASE k = 1
      <3>1. frames[1].node \in DOMAIN ast /\ Len(frames[1].node) = 0
        BY <1>8, FrameIn
      <3> QED
        BY <1>9, <2>1, <3>1, WaitsOutside
    <2>2. CASE k = 2
      BY <1>1, <1>5, <1>9, <2>2, WaitsForNothing
    <2>3. CASE k = 3
      BY <1>9, <2>3, NewHoldsNothing DEF Waits
    <2> QED
      BY <2>1, <2>2, <2>3
  <1>16. \A r \in Rets(ast) : parentbb[r] # Null => Passed(ast, fs, r)
    <2> SUFFICES ASSUME NEW r \in Rets(ast), parentbb[r] # Null PROVE Passed(ast, fs, r)
      OBVIOUS
    <2>1. Passed(ast, frames, r) /\ r \in DOMAIN ast
      BY DEF FlowNow, FlowParts, Rets, OfKind
    <2> QED
      BY <1>1, <1>7, <2>1, PassedStays
  <1>17. PICK ins : ins = inserted \cup {e}
    OBVIOUS
  <1>18. EntriesAreInserted(fs, ins)
    BY <1>0, <1>1, <1>7, <1>17, <1>e, EntriesAfterCall DEF FlowNow, FlowParts
  <1>19. FlowParts(fs, ins, code, e, parentbb)
    BY <1>9, <1>12, <1>13, <1>14, <1>15, <1>16, <1>18 DEF FlowParts
  <1> QED
    BY <1>1, <1>6, <1>17, <1>19 DEF FlowNext

(* A block that a return is in goes on to the return block.                *)
LEMMA RetractFits ==
  ASSUME NEW is \in Seq(Instr), NEW b, NEW m \in Blocks(ast), Ready(Opened(is), b, StandsFor(m))
  PROVE  FitsAll(Ret2Alloca(is, m), b)
  <1>1. PICK js : js = Opened(is)
    OBVIOUS
  <1>2. js \in Seq(Instr)
    <2>1. CASE Terminated(is)
      <3>1. is # <<>> /\ js = Front(is)
        BY <1>1, <2>1 DEF Opened, Terminated
      <3> QED
        BY <3>1, FrontOfSeq
    <2>2. CASE ~ Terminated(is)
      BY <1>1, <2>2 DEF Opened
    <2> QED
      BY <2>1, <2>2
  <1>3. Ret2Alloca(is, m) = js \o <<Br(m)>>
    BY <1>1 DEF Ret2Alloca, Opened
  <1>4. js \o <<Br(m)>> = Append(js, Br(m))
    <2>1. PICK i \in Instr : i = Br(m)
      BY Kinds
    <2> QED
      BY <1>2, <2>1
  <1>5. FitsAll(Append(js, Br(m)), b)
    BY <1>1, <1>2, FitsBranch
  <1> QED
    BY <1>3, <1>4, <1>5

LEMMA EndBlockFlow ==
  ASSUME ast \in Programs, IsClean(ast), GenInv, BlocksNow, FlowNow, EndBlock,
         ~ SomeEarly(ast, code')
  PROVE  FlowNext
  <1>0. PICK n : n = Top.node
    OBVIOUS
  <1>r. PICK ret : ret = <<"return", n>>
    OBVIOUS
  <1>b. PICK b : b = cur
    OBVIOUS
  <1>l. PICK over : over = {parentbb[r] : r \in Rets(ast) \cap Below(ast, n)}
    OBVIOUS
  <1>c. PICK c : c = Emit(code, b, Br(ret))
    OBVIOUS
  <1>d. PICK full : full = [c EXCEPT ![ret] = <<RetInstr>>]
    OBVIOUS
  <1>f. PICK co : co = [x \in DOMAIN code |->
                          IF x \in over THEN Ret2Alloca(full[x], ret) ELSE full[x]]
    OBVIOUS
  <1>1. /\ frames # <<>> /\ ast[n].kind = "block" /\ Top.step > ast[n].arity
        /\ code' = co /\ parentbb' = parentbb
        /\ inserted' = inserted \cup {ret} /\ cur' = ret
        /\ frames' = Front(frames)
    BY <1>0, <1>r, <1>b, <1>l, <1>c, <1>d, <1>f DEF EndBlock, Return, Keep
  <1>2. /\ n \in DOMAIN ast /\ b \in inserted /\ b \in Blocks(ast) /\ code \in Codes
        /\ Top.step \in 1..(Len(Turns(ast, n)) + 1)
        /\ DOMAIN code = Blocks(ast)
    <2>1. n \in DOMAIN ast /\ Top.step \in 1..(Len(Turns(ast, n)) + 1)
      BY <1>0, <1>1, TopFrame DEF GenInv
    <2>2. b \in inserted /\ b \in Blocks(ast)
      BY <1>0, <1>1, <1>b, InnerTop
    <2> QED
      BY <2>1, <2>2 DEF GenInv, Codes
  <1>3. Returns
    <2>1. Len(Turns(ast, n)) = ast[n].arity /\ ast[n].arity \in Nat
      BY <1>1, <1>2, TurnsAreChildren, ProgramsAreTrees, TreePositions
    <2>2. Top.step = Len(Turns(ast, n)) + 1
      BY <1>1, <1>2, <2>1
    <2> QED
      BY <1>0, <1>1, <2>2 DEF Returns
  <1>4. PICK fs : fs = frames'
    OBVIOUS
  <1>5. ReturnedTo(fs)
    BY <1>3, <1>4, ReturnsTo
  <1>6. /\ Len(frames) >= 3 /\ DOMAIN frames = 1..3 /\ Top = frames[3]
        /\ DOMAIN fs = 1..2 /\ ~ (Len(fs) >= 3) /\ \A k \in 1..2 : fs[k] = frames[k]
    <2>1. PICK K \in Nat : K = Len(frames) /\ DOMAIN frames = 1..K /\ Top = frames[K]
      BY <1>1, TopIn
    <2>2. K = 3
      BY <1>0, <1>1, <2>1, TopLevel
    <2>3. Len(fs) = 2 /\ DOMAIN fs = 1..2 /\ \A k \in 1..2 : fs[k] = frames[k]
      BY <1>5, <2>1, <2>2 DEF ReturnedTo
    <2> QED
      BY <2>1, <2>2, <2>3
  <1>7. /\ ret \in Blocks(ast) /\ ret \notin inserted /\ ret # b
    <2>1. ret \in Blocks(ast) /\ ret[1] = "return" /\ ret[2] = n
      BY <1>1, <1>2, <1>r, RolesOf
    <2>2. ~ Reached(Top, "return")
      BY DEF Reached
    <2> QED
      BY <1>0, <1>1, <1>2, <2>1, <2>2, NewBlock
  <1>8. PICK left : left = Left(frames, parentbb)
    OBVIOUS
  <1>9. /\ \A x \in Blocks(ast) : x \in over <=> x \in left
        /\ ret \notin left
    <2>1. left = over \ {Null}
      BY <1>0, <1>6, <1>8, <1>l DEF Left
    <2>2. \A x \in Blocks(ast) : x # Null
      BY NullIsNoBlock
    <2>3. left \subseteq inserted
      BY <1>1, <1>6, <1>8, CurPlace
    <2> QED
      BY <1>7, <2>1, <2>2, <2>3
  <1>10. /\ c \in Codes /\ \A x \in Blocks(ast) : x # b => c[x] = code[x]
         /\ c[b] = Append(code[b], Br(ret))
         /\ Early(c[b]) <=> Early(code[b]) \/ Terminated(code[b])
    <2>1. Br(ret) \in Instr
      BY <1>7, Kinds
    <2> QED
      BY <1>2, <1>c, <2>1, EmitAt, EmitEnds
  <1>11. /\ \A x \in Blocks(ast) : x # ret => full[x] = c[x] /\ full[x] \in Seq(Instr)
         /\ full[ret] = <<RetInstr>>
    BY <1>7, <1>10, <1>d DEF Codes
  <1>12. \A x \in Blocks(ast) : co[x] = IF x \in left THEN Ret2Alloca(full[x], ret) ELSE full[x]
    BY <1>2, <1>9, <1>f
  <1>13. ~ Terminated(code[b])
    <2>1. Early(co[b]) <=> Early(full[b])
      BY <1>2, <1>7, <1>11, <1>12, RetractEnds
    <2> QED
      BY <1>1, <1>2, <1>7, <1>10, <1>11, <2>1, NotEarly
  <1>14. StandsFor(ret) = Null /\ Expected(Top) = Null
    <2>1. PICK f \in Functions(ast) : n = Append(f, ast[f].arity)
      BY <1>1, <1>2, FunctionsMakeTheProgram
    <2>2. f \in DOMAIN ast /\ ast[f].kind = "function"
      BY DEF Functions, OfKind
    <2>3. ast[f].arity >= 1 /\ ast[f].arity \in Nat
      BY <2>2, StatementsAreWhole, ProgramsAreTrees, TreePositions
    <2>4. ast[f].arity \in 1..ast[f].arity
      BY <2>3
    <2>5. After(ast, n) = Null
      BY <2>1, <2>2, <2>4, CleanLeads, AfterOf
    <2>6. Expected(Top) = After(ast, n)
      BY <1>0, <1>1, ListPlace
    <2> QED
      BY <1>r, <2>5, <2>6, Stands
  <1>15. ASSUME NEW x \in Blocks(ast), x # ret PROVE BlockFits(left, full, x)
    <2>1. BlockFits(left, code, x)
      BY <1>8 DEF FlowNow, FlowParts
    <2>2. CASE x = b
      <3>1. full[b] = Append(code[b], Br(ret))
        BY <1>2, <1>7, <1>10, <1>11
      <3>2. BlockFits(left, full, cur)
        BY <1>1, <1>2, <1>6, <1>7, <1>8, <1>13, <1>14, <1>b, <3>1, BranchOut
      <3> QED
        BY <1>b, <2>2, <3>2
    <2>3. CASE x # b
      BY <1>10, <1>11, <1>15, <2>1, <2>3 DEF BlockFits
    <2> QED
      BY <2>2, <2>3
  <1>16. ASSUME NEW x \in Blocks(ast) PROVE BlockFits({}, co, x)
    <2>1. CASE x = ret
      BY <1>9, <1>11, <1>12, <1>14, <2>1, FitsReturn DEF BlockFits
    <2>2. CASE x # ret /\ x \in left
      <3>1. Ready(Opened(full[x]), x, StandsFor(ret)) /\ full[x] \in Seq(Instr)
        BY <1>11, <1>14, <1>15, <2>2 DEF BlockFits
      <3>2. FitsAll(Ret2Alloca(full[x], ret), x)
        BY <1>7, <3>1, RetractFits
      <3> QED
        BY <1>12, <2>2, <3>2 DEF BlockFits
    <2>3. CASE x # ret /\ x \notin left
      BY <1>12, <1>15, <2>3 DEF BlockFits
    <2> QED
      BY <2>1, <2>2, <2>3
  <1>17. Left(fs, parentbb) = {}
    BY <1>6 DEF Left
  <1>18. ASSUME NEW k \in 1..2 PROVE Waits(fs[k], {}, co)
    <2>1. k \in DOMAIN frames /\ k - 1 <= 1
      BY <1>6
    <2>2. frames[k].node \in DOMAIN ast /\ Len(frames[k].node) <= 1
      BY <2>1, FrameIn
    <2> QED
      BY <1>6, <2>2, WaitsOutside
  <1>19. \A r \in Rets(ast) : parentbb[r] # Null => Passed(ast, fs, r)
    <2> SUFFICES ASSUME NEW r \in Rets(ast), parentbb[r] # Null PROVE Passed(ast, fs, r)
      OBVIOUS
    <2>1. Passed(ast, frames, r) /\ r \in DOMAIN ast
      BY DEF FlowNow, FlowParts, Rets, OfKind
    <2> QED
      BY <1>1, <1>5, <2>1, PassedStays
  <1>20. PICK ins : ins = inserted \cup {ret}
    OBVIOUS
  <1>21. EntriesAreInserted(fs, ins)
    BY <1>1, <1>5, <1>20, EntriesAfterReturn DEF FlowNow, FlowParts
  <1>22. FlowParts(fs, ins, co, ret, parentbb)
    BY <1>6, <1>16, <1>17, <1>18, <1>19, <1>21 DEF FlowParts
  <1> QED
    BY <1>1, <1>4, <1>20, <1>22 DEF FlowNext

(***************************************************************************)
(* From the begin of gen to its end.                                       *)
(***************************************************************************)
FlowInv ==
  /\ phase = "init" => /\ \A b \in Blocks(ast) : code[b] = <<>>
                       /\ \A r \in Rets(ast) : parentbb[r] = Null
  /\ phase = "gen" => FlowNow
  /\ phase = "generated" => /\ \A b \in Blocks(ast) : FitsAll(code[b], b)
                            /\ \A f \in Functions(ast) : <<"entry", f>> \in inserted

(* The place that a block stands for depends on the syntax tree only.      *)
LEMMA SameFits ==
  ASSUME ast' = ast
  PROVE  /\ \A b : StandsFor(b)' = StandsFor(b)
         /\ \A is, b : FitsAll(is, b)' = FitsAll(is, b)
         /\ \A is, b, x : Ready(is, b, x)' = Ready(is, b, x)
         /\ \A is, b, e : Asks(is, b, e)' = Asks(is, b, e)
  <1>1. \A b : StandsFor(b)' = StandsFor(b)
    BY DEF StandsFor
  <1>2. \A i : Straight(i)' = Straight(i)
    BY DEF Straight
  <1>3. \A is, k : Clear(is, k)' = Clear(is, k)
    BY <1>2 DEF Clear
  <1>4. \A is, b, k : Reaches(is, b, k)' = Reaches(is, b, k)
    BY <1>1 DEF Reaches
  <1>5. \A is, b, k : FitsSimple(is, b, k)' = FitsSimple(is, b, k)
    BY <1>1, <1>3, <1>4 DEF FitsSimple
  <1>6. \A is, k : FitsCondition(is, k)' = FitsCondition(is, k)
    BY <1>1 DEF FitsCondition
  <1>7. \A is, b, k : Fits(is, b, k)' = Fits(is, b, k)
    BY <1>5, <1>6 DEF Fits
  <1>8. \A is, b : FitsAll(is, b)' = FitsAll(is, b)
    BY <1>7 DEF FitsAll
  <1>9. \A is, b, x : Ready(is, b, x)' = Ready(is, b, x)
    BY <1>3, <1>4, <1>8 DEF Ready
  <1>10. \A is, b, e : Asks(is, b, e)' = Asks(is, b, e)
    BY <1>8 DEF Asks
  <1> QED
    BY <1>1, <1>8, <1>9, <1>10

LEMMA SameFlowNow ==
  ASSUME ast' = ast, FlowNext
  PROVE  FlowNow'
  <1>1. \A fs, pb : Left(fs, pb)' = Left(fs, pb)
    BY DEF Left
  <1>2. \A left, co, b : BlockFits(left, co, b)' = BlockFits(left, co, b)
    BY SameFits DEF BlockFits
  <1>3. \A f : LastKid(f)' = LastKid(f)
    BY DEF LastKid
  <1>4. \A f : Expected(f)' = Expected(f)
    BY <1>3 DEF Expected
  <1>5. \A f, x : Ended(f, x)' = Ended(f, x)
    BY <1>3 DEF Ended
  <1>6. \A f, left, co, c : Alive(f, left, co, c)' = Alive(f, left, co, c)
    BY <1>4, SameFits DEF Alive
  <1>7. \A f, left, co, c : Over(f, left, co, c)' = Over(f, left, co, c)
    BY <1>5 DEF Over
  <1>8. \A f, left, co : Waits(f, left, co)' = Waits(f, left, co)
    BY SameFits DEF Waits
  <1>9. \A fs, ins : EntriesAreInserted(fs, ins)' = EntriesAreInserted(fs, ins)
    BY DEF EntriesAreInserted
  <1>10. \A fs, ins, co, c, pb : FlowParts(fs, ins, co, c, pb)' = FlowParts(fs, ins, co, c, pb)
    BY <1>1, <1>2, <1>6, <1>7, <1>8, <1>9 DEF FlowParts
  <1> QED
    BY <1>10 DEF FlowNow, FlowNext

LEMMA BeginGenFlow ==
  ASSUME ast \in Programs, FlowInv, BeginGen
  PROVE  FlowNext
  <1>1. /\ frames' = <<Frame(Root)>>
        /\ UNCHANGED <<ast, cur, code, inserted, parentbb>>
        /\ \A b \in Blocks(ast) : code[b] = <<>>
        /\ \A r \in Rets(ast) : parentbb[r] = Null
    BY DEF BeginGen, Keep, FlowInv
  <1>2. PICK g : g = Frame(Root)
    OBVIOUS
  <1>3. g.node = Root /\ g.step = 1
    BY <1>2 DEF Frame
  <1>4. PICK fs : fs = frames'
    OBVIOUS
  <1>5. DOMAIN fs = {1} /\ Len(fs) = 1 /\ fs[1] = g /\ ~ (Len(fs) >= 3)
    BY <1>1, <1>2, <1>4
  <1>6. Left(fs, parentbb) = {}
    BY <1>5 DEF Left
  <1>7. \A b \in Blocks(ast) : BlockFits({}, code, b)
    BY <1>1, FitsEmpty DEF BlockFits
  <1>8. Root \in DOMAIN ast /\ Root \in Seq(Nat) /\ Len(Root) = 0 /\ ast[Root].kind = "program"
    BY ProgramsAreTrees, FunctionsMakeTheProgram DEF IsTree, Root
  <1>9. Waits(g, {}, code)
    BY <1>3, <1>8, WaitsOutside
  <1>10. EntriesAreInserted(fs, inserted)
    <2> SUFFICES ASSUME NEW x \in Functions(ast) PROVE Awaits(ast, g, x)
      BY <1>5 DEF EntriesAreInserted
    <2>1. x \in DOMAIN ast /\ x \in Seq(Nat) /\ Len(x) = 1
      BY FunctionsMakeTheProgram, ProgramsAreTrees, TreePositions DEF Functions, OfKind
    <2>2. IsStrictPrefix(Root, x)
      BY <1>8, <2>1 DEF IsStrictPrefix, IsPrefix, Root
    <2>3. PICK c \in 1..ast[Root].arity : Append(Root, c) \in DOMAIN ast /\ IsPrefix(Append(Root, c), x)
      BY <1>8, <2>1, <2>2, ProgramsAreTrees, TreeStep
    <2>4. /\ Turns(ast, Root) \in Seq(1..ast[Root].arity) /\ Len(Turns(ast, Root)) = ast[Root].arity
          /\ Turns(ast, Root)[c] = c
      BY <1>8, TurnsAreChildren
    <2>5. c \in DOMAIN Turns(ast, Root) /\ c >= 1
      BY <2>4
    <2> QED
      BY <1>3, <2>3, <2>4, <2>5 DEF Awaits, Kid
  <1>11. FlowParts(fs, inserted, code, cur, parentbb)
    BY <1>1, <1>5, <1>6, <1>7, <1>9, <1>10 DEF FlowParts
  <1> QED
    BY <1>1, <1>4, <1>11 DEF FlowNext

LEMMA EndGenFlow ==
  ASSUME ast \in Programs, FlowNow, EndGen
  PROVE  FlowInv'
  <1>1. frames = <<>> /\ phase' = "generated" /\ UNCHANGED <<ast, code, inserted>>
    BY DEF EndGen, Keep
  <1>2. DOMAIN frames = {} /\ ~ (Len(frames) >= 3)
    BY <1>1
  <1>3. Left(frames, parentbb) = {}
    BY <1>2 DEF Left
  <1>4. \A b \in Blocks(ast) : FitsAll(code[b], b)
    BY <1>3 DEF FlowNow, FlowParts, BlockFits
  <1>5. \A f \in Functions(ast) : <<"entry", f>> \in inserted
    BY <1>2 DEF FlowNow, FlowParts, EntriesAreInserted
  <1> QED
    BY <1>1, <1>4, <1>5, SameFits DEF FlowInv

LEMMA FlowSame ==
  ASSUME FlowInv, ast' = ast, code' = code, inserted' = inserted, parentbb' = parentbb,
         phase' = phase, frames' = frames, cur' = cur
  PROVE  FlowInv'
  <1>1. FlowNow => FlowNow'
    <2>1. FlowNow => FlowNext
      BY DEF FlowNow, FlowNext
    <2> QED
      BY <2>1, SameFlowNow
  <1> QED
    BY <1>1, SameFits DEF FlowInv

(* One step of generation, of a program whose jumps end then branches.     *)
LEMMA FlowStep ==
  ASSUME ast \in Programs, IsClean(ast), BindingInv, PhaseInv, GenInv, BlockInv, BlockInv', FlowInv,
         GenStep
  PROVE  FlowInv'
  <1>1. ASSUME phase = "gen", phase' = phase, ast' = ast,
               BlocksNow /\ FlowNow /\ ~ SomeEarly(ast, code') => FlowNext
        PROVE  FlowInv'
    <2>1. ~ SomeEarly(ast, code')
      <3>1. EarlyIsBlamed(ast, code')
        BY <1>1 DEF BlockInv
      <3> QED
        BY <3>1 DEF EarlyIsBlamed, IsClean
    <2>2. FlowNow
      BY <1>1 DEF FlowInv
    <2>3. FlowNext
      BY <1>1, <2>1, <2>2, NowOfInv
    <2> QED
      BY <1>1, <2>3, SameFlowNow DEF FlowInv
  <1>2. CASE BindJumps
    <2>1. ast' = ast
      BY <1>2 DEF BindJumps, BindingNext, Expand, InitLoop, InitOther, CallBack
    <2> QED
      BY <1>2, <2>1, FlowSame DEF BindJumps, genVars
  <1>3. CASE BeginGen
    <2>1. FlowNext /\ ast' = ast /\ phase' = "gen"
      BY <1>3, BeginGenFlow DEF BeginGen, Keep
    <2> QED
      BY <2>1, SameFlowNow DEF FlowInv
  <1>4. CASE EndGen
    <2>1. FlowNow
      BY <1>4 DEF FlowInv, EndGen
    <2> QED
      BY <1>4, <2>1, EndGenFlow
  <1>5. CASE StrayJump
    BY <1>5 DEF StrayJump, Keep, FlowInv
  <1>6. CASE GenChildren \/ GenFunction \/ EndFunction \/ GenBlock
    <2>1. phase = "gen" /\ phase' = phase /\ ast' = ast
      BY <1>6 DEF GenChildren, GenFunction, EndFunction, GenBlock, At, Keep
    <2>2. BlocksNow /\ FlowNow => FlowNext
      BY <1>6, GenChildrenFlow, GenFunctionFlow, EndFunctionFlow, GenBlockFlow
    <2> QED
      BY <1>1, <2>1, <2>2
  <1>7. CASE EndBlock \/ GenExpression \/ GenRet
    <2>1. phase = "gen" /\ phase' = phase /\ ast' = ast
      BY <1>7 DEF EndBlock, GenExpression, GenRet, At, Keep
    <2>2. BlocksNow /\ FlowNow /\ ~ SomeEarly(ast, code') => FlowNext
      BY <1>7, EndBlockFlow, GenExpressionFlow, GenRetFlow
    <2> QED
      BY <1>1, <2>1, <2>2
  <1>8. CASE GenJump
    <2>1. phase = "gen" /\ phase' = phase /\ ast' = ast
      BY <1>8 DEF GenJump, Keep
    <2>2. stack = <<>> /\ JumpsBindInnermost
      BY <2>1, InvMeansInnermost DEF PhaseInv
    <2>3. BlocksNow /\ FlowNow => FlowNext
      BY <1>8, <2>2, GenJumpFlow
    <2> QED
      BY <1>1, <2>1, <2>3
  <1>9. CASE GenThen \/ GenElse \/ EndElse \/ EndThen
    <2>1. phase = "gen" /\ phase' = phase /\ ast' = ast
      BY <1>9 DEF GenThen, GenElse, EndElse, EndThen, At, Keep
    <2>2. BlocksNow /\ FlowNow /\ ~ SomeEarly(ast, code') => FlowNext
      BY <1>9, GenThenFlow, GenElseFlow, EndElseFlow, EndThenFlow
    <2> QED
      BY <1>1, <2>1, <2>2
  <1>10. CASE GenForInit \/ GenForBody \/ GenForNext \/ EndFor
    <2>1. phase = "gen" /\ phase' = phase /\ ast' = ast
      BY <1>10 DEF GenForInit, GenForBody, GenForNext, EndFor, At, Keep
    <2>2. BlocksNow /\ FlowNow /\ ~ SomeEarly(ast, code') => FlowNext
      BY <1>10, GenForInitFlow, GenForBodyFlow, GenForNextFlow, EndForFlow
    <2> QED
      BY <1>1, <2>1, <2>2
  <1>11. CASE GenWhileBody \/ EndWhile
    <2>1. phase = "gen" /\ phase' = phase /\ ast' = ast
      BY <1>11 DEF GenWhileBody, EndWhile, At, Keep
    <2>2. BlocksNow /\ FlowNow /\ ~ SomeEarly(ast, code') => FlowNext
      BY <1>11, GenWhileBodyFlow, EndWhileFlow
    <2> QED
      BY <1>1, <2>1, <2>2
  <1> QED
    BY <1>2, <1>3, <1>4, <1>5, <1>6, <1>7, <1>8, <1>9, <1>10, <1>11 DEF GenStep

(***************************************************************************)
(* What is true of the generated code is true while it is executed.        *)
(***************************************************************************)
LEMMA ExecutionGenerates == ExecSpec => Spec
  <1>1. ExecInit => Init
    BY DEF ExecInit
  <1>2. [ExecNext]_execVars => [Next]_vars
    <2> SUFFICES ASSUME [ExecNext]_execVars PROVE [Next]_vars
      OBVIOUS
    <2>1. CASE Generate
      BY <2>1 DEF Generate, Next
    <2>2. CASE Call \/ RunEval \/ RunStore \/ RunBr \/ RunCondBr
      BY <2>2 DEF Call, RunEval, RunStore, RunBr, RunCondBr
    <2>3. CASE Returned \/ UNCHANGED execVars
      BY <2>3 DEF Returned, execVars
    <2> QED
      BY <2>1, <2>2, <2>3 DEF ExecNext
  <1> QED
    BY <1>1, <1>2, PTL DEF ExecSpec, Spec

(* Only generation changes what is generated.                              *)
LEMMA StepKinds ==
  ASSUME [ExecNext]_execVars
  PROVE  /\ (GenStep /\ UNCHANGED runVars) \/ UNCHANGED vars
         /\ fun' = fun
  <1>1. CASE Generate
    BY <1>1 DEF Generate, runVars
  <1>2. CASE Call \/ RunEval \/ RunStore \/ RunBr \/ RunCondBr
    BY <1>2 DEF Call, RunEval, RunStore, RunBr, RunCondBr
  <1>3. CASE Returned \/ UNCHANGED execVars
    BY <1>3 DEF Returned, execVars, runVars
  <1> QED
    BY <1>1, <1>2, <1>3 DEF ExecNext

LEMMA GenKeepsTree ==
  ASSUME GenStep \/ UNCHANGED vars
  PROVE  ast' = ast
  <1>1. CASE UNCHANGED vars
    BY <1>1 DEF vars
  <1>2. CASE BindJumps
    BY <1>2 DEF BindJumps, BindingNext, Expand, InitLoop, InitOther, CallBack
  <1>3. CASE GenStep /\ ~ BindJumps
    BY <1>3 DEF GenStep, BeginGen, GenChildren, GenFunction, EndFunction, GenBlock, EndBlock,
           GenExpression, GenRet, GenJump, StrayJump, GenThen, GenElse, EndElse, EndThen,
           GenForInit, GenForBody, GenForNext, EndFor, GenWhileBody, EndWhile, EndGen, Keep
  <1> QED
    BY <1>1, <1>2, <1>3

LEMMA GenIsNotOver ==
  ASSUME GenStep
  PROVE  phase \in {"init", "gen"}
  BY DEF GenStep, BindJumps, BeginGen, GenChildren, GenFunction, EndFunction, GenBlock, EndBlock,
           GenExpression, GenRet, GenJump, StrayJump, GenThen, GenElse, EndElse, EndThen,
           GenForInit, GenForBody, GenForNext, EndFor, GenWhileBody, EndWhile, EndGen, At

CleanInv == IsClean(ast) /\ fun \in Functions(ast)

LEMMA CleanInvariance == ExecSpec => []CleanInv
  <1>1. ExecInit => CleanInv
    BY DEF ExecInit, CleanInv
  <1>2. CleanInv /\ [ExecNext]_execVars => CleanInv'
    BY StepKinds, GenKeepsTree DEF CleanInv
  <1> QED
    BY <1>1, <1>2, PTL DEF ExecSpec

LEMMA FlowInvariance == ExecSpec => []FlowInv
  <1>1. ExecInit => FlowInv
    BY DEF ExecInit, Init, FlowInv
  <1>2. CleanInv /\ BindingInv /\ PhaseInv /\ GenInv /\ BlockInv /\ BlockInv' /\ FlowInv
          /\ [ExecNext]_execVars => FlowInv'
    <2> SUFFICES ASSUME CleanInv, BindingInv, PhaseInv, GenInv, BlockInv, BlockInv', FlowInv,
                        [ExecNext]_execVars
                 PROVE  FlowInv'
      OBVIOUS
    <2>1. CASE GenStep
      BY <2>1, FlowStep DEF CleanInv, BindingInv
    <2>2. CASE UNCHANGED vars
      BY <2>2, FlowSame DEF vars, genVars
    <2> QED
      BY <2>1, <2>2, StepKinds
  <1> QED
    BY <1>1, <1>2, ExecutionGenerates, CleanInvariance, CodeGenImplementsBinding, BindingInvariance,
       PhaseInvariance, GenInvariance, BlockInvariance, PTL DEF ExecSpec

(***************************************************************************)
(* The call.  Before an instruction that is not the first of its block the *)
(* one before it has just been executed.                                   *)
(***************************************************************************)
Follows(i, o) == i.op \in {"eval", "store"} /\ (i.op = "eval" => o \in Outcomes(ast, i.at))

RunInv ==
  pc # Null =>
    /\ phase = "generated"
    /\ pc[1] \in inserted
    /\ pc[2] \in 1..Len(code[pc[1]])
    /\ pc = <<pc[1], pc[2]>>
    /\ pc[2] > 1 => Follows(code[pc[1]][pc[2] - 1], outcome)

(* What is known of the code when it is executed.                          *)
CodeInv ==
  phase = "generated" =>
    /\ ast \in Programs
    /\ code \in Codes /\ inserted \subseteq Blocks(ast)
    /\ \A b \in inserted :
         /\ FitsAll(code[b], b)
         /\ WellFormedBlock(code[b])
         /\ \A c \in Targets(code[b]) : c \in inserted
    /\ \A f \in Functions(ast) : <<"entry", f>> \in inserted

LEMMA CodeInvariance == ExecSpec => []CodeInv
  <1>1. CleanInv /\ BindingInv /\ GenInv /\ FlowInv /\ WellFormedExactlyWhen /\ TargetsAreInserted
          => CodeInv
    <2> SUFFICES ASSUME CleanInv, BindingInv, GenInv, FlowInv, WellFormedExactlyWhen,
                        TargetsAreInserted, phase = "generated"
                 PROVE  /\ ast \in Programs
                        /\ code \in Codes /\ inserted \subseteq Blocks(ast)
                        /\ \A b \in inserted :
                             /\ FitsAll(code[b], b)
                             /\ WellFormedBlock(code[b])
                             /\ \A c \in Targets(code[b]) : c \in inserted
                        /\ \A f \in Functions(ast) : <<"entry", f>> \in inserted
      BY DEF CodeInv
    <2>1. ast \in Programs /\ code \in Codes /\ inserted \subseteq Blocks(ast)
      BY DEF BindingInv, GenInv, Codes
    <2>2. \A b \in inserted : FitsAll(code[b], b)
      BY <2>1 DEF FlowInv
    <2>3. \A f \in Functions(ast) : <<"entry", f>> \in inserted
      BY DEF FlowInv
    <2>4. \A j \in Jumps(ast) : EndsThenBranch(ast, j)
      BY DEF CleanInv, IsClean
    <2>5. \A b \in inserted : WellFormedBlock(code[b])
      BY <2>4 DEF WellFormedExactlyWhen
    <2>6. \A b \in inserted : \A c \in Targets(code[b]) : c \in inserted
      BY DEF TargetsAreInserted
    <2> QED
      BY <2>1, <2>2, <2>3, <2>5, <2>6
  <1> QED
    BY <1>1, ExecutionGenerates, CleanInvariance, CodeGenImplementsBinding, BindingInvariance,
       GenInvariance, FlowInvariance, WellFormedIffJumpsEndThen, BranchesAreInserted, PTL

(* A block is left through its last instruction.                           *)
LEMMA GoesOnInside ==
  ASSUME NEW is \in Seq(Instr), WellFormedBlock(is), NEW k \in 1..Len(is), ~ IsTerminator(is[k])
  PROVE  k + 1 \in 1..Len(is)
  <1>1. PICK m \in Nat : m = Len(is)
    OBVIOUS
  <1>2. is # <<>> => Last(is) = is[m]
    BY <1>1 DEF Last
  <1>3. k # m
    BY <1>2 DEF WellFormedBlock, Terminated
  <1> QED
    BY <1>1, <1>3

(* Every block of the generated code has a first instruction.              *)
LEMMA BlocksAreFilled ==
  ASSUME CodeInv, phase = "generated", NEW b \in inserted
  PROVE  code[b] \in Seq(Instr) /\ 1 \in 1..Len(code[b])
  <1>1. code[b] \in Seq(Instr) /\ code[b] # <<>>
    BY DEF CodeInv, Codes, WellFormedBlock, Terminated
  <1>2. PICK m \in Nat : m = Len(code[b])
    BY <1>1
  <1>3. m # 0
    BY <1>1, <1>2
  <1>4. 1 \in 1..m
    BY <1>3
  <1> QED
    BY <1>1, <1>2, <1>4

(***************************************************************************)
(* The instruction executed: it fits, and it does what the source comes to *)
(* at this place.                                                          *)
(***************************************************************************)
Arrived == IF pc[2] = 1 THEN StandsFor(pc[1])
           ELSE Successor(ast, code[pc[1]][pc[2] - 1].at, outcome)

LEMMA InstructionFits ==
  ASSUME CodeInv, RunInv, pc # Null
  PROVE  /\ comesTo = Arrived
         /\ \/ /\ Instruction.op \in {"eval", "store"}
               /\ Instruction.at \in DOMAIN ast
               /\ Instruction.op = "store" <=> IsReturned(ast, Instruction.at)
            \/ Instruction.op \in {"br", "condbr", "ret"}
         /\ comesTo = LeadsTo(Instruction)
  <1>1. PICK b : b = pc[1]
    OBVIOUS
  <1>2. PICK k : k = pc[2]
    OBVIOUS
  <1>3. PICK is : is = code[b]
    OBVIOUS
  <1>4. /\ phase = "generated" /\ b \in inserted /\ k \in 1..Len(is)
        /\ k > 1 => Follows(is[k - 1], outcome)
    BY <1>1, <1>2, <1>3 DEF RunInv
  <1>5. Fits(is, b, k)
    BY <1>3, <1>4 DEF CodeInv, FitsAll
  <1>6. Instruction = is[k]
    BY <1>1, <1>2, <1>3 DEF Instruction
  <1>7. comesTo = LeadsTo(is[k])
    BY <1>6 DEF comesTo
  <1>8. Arrived = IF k = 1 THEN StandsFor(b) ELSE Successor(ast, is[k - 1].at, outcome)
    BY <1>1, <1>2, <1>3 DEF Arrived
  <1>9. k \in Nat /\ (k # 1 => k > 1)
    BY <1>4
  <1>10. CASE FitsSimple(is, b, k)
    <2>1. Arrived = Reaches(is, b, k)
      BY <1>8, <1>10 DEF FitsSimple, Clear, Straight, Reaches, Successor
    <2>2. CASE is[k].op \in {"eval", "store"} /\ is[k].at = Reaches(is, b, k)
               /\ is[k].at \in DOMAIN ast /\ (is[k].op = "store" <=> IsReturned(ast, is[k].at))
      <3>1. LeadsTo(is[k]) = is[k].at
        BY <2>2 DEF LeadsTo
      <3> QED
        BY <1>6, <1>7, <2>1, <2>2, <3>1
    <2>3. CASE is[k].op = "br" /\ StandsFor(is[k].to) = Reaches(is, b, k)
      <3>1. LeadsTo(is[k]) = StandsFor(is[k].to)
        BY <2>3 DEF LeadsTo
      <3> QED
        BY <1>6, <1>7, <2>1, <2>3, <3>1
    <2>4. CASE is[k].op = "ret" /\ Reaches(is, b, k) = Null
      <3>1. LeadsTo(is[k]) = Null
        BY <2>4 DEF LeadsTo
      <3> QED
        BY <1>6, <1>7, <2>1, <2>4, <3>1
    <2> QED
      BY <1>10, <2>2, <2>3, <2>4 DEF FitsSimple
  <1>11. CASE FitsCondition(is, k)
    <2>1. /\ k > 1 /\ is[k].op = "condbr" /\ is[k - 1].op = "eval"
          /\ IsCondition(ast, is[k - 1].at)
          /\ StandsFor(is[k].then) = Taken(ast, is[k - 1].at)
          /\ StandsFor(is[k].else) = NotTaken(ast, is[k - 1].at)
      BY <1>11 DEF FitsCondition
    <2>2. k # 1
      BY <1>9, <2>1
    <2>3. outcome \in BOOLEAN
      BY <1>4, <2>1 DEF Follows, Outcomes
    <2>4. Arrived = IF outcome THEN Taken(ast, is[k - 1].at) ELSE NotTaken(ast, is[k - 1].at)
      BY <1>8, <2>1, <2>2 DEF Successor
    <2>5. LeadsTo(is[k]) = StandsFor(IF outcome THEN is[k].then ELSE is[k].else)
      BY <2>1 DEF LeadsTo
    <2>6. LeadsTo(is[k]) = Arrived
      BY <2>1, <2>3, <2>4, <2>5
    <2> QED
      BY <1>6, <1>7, <2>1, <2>6
  <1> QED
    BY <1>5, <1>10, <1>11 DEF Fits

ArrivedInv ==
  pc # Null =>
    /\ comesTo = Arrived
    /\ comesTo = LeadsTo(Instruction)
    /\ \/ /\ Instruction.op \in {"eval", "store"}
          /\ Instruction.at \in DOMAIN ast
          /\ Instruction.op = "store" <=> IsReturned(ast, Instruction.at)
       \/ Instruction.op \in {"br", "condbr", "ret"}

(***************************************************************************)
(* Execution leaves the code alone.  It goes on in the block, after what   *)
(* it has just executed, or at the begin of another block.                 *)
(***************************************************************************)
GoesOn ==
  /\ pc' = <<pc[1], pc[2] + 1>>
  /\ pc[1] \in inserted
  /\ pc[2] + 1 \in 1..Len(code[pc[1]])
  /\ Follows(Instruction, outcome')

Branches ==
  \E b \in inserted : pc' = <<b, 1>>

LEMMA RunSteps ==
  ASSUME CodeInv, RunInv, CleanInv, Call \/ RunEval \/ RunStore \/ RunBr \/ RunCondBr
  PROVE  /\ phase = "generated"
         /\ UNCHANGED vars
         /\ (RunEval \/ RunStore) => GoesOn
         /\ (Call \/ RunBr \/ RunCondBr) => Branches /\ UNCHANGED <<fun, outcome, result>>
  <1>1. phase = "generated"
    BY DEF Call, RunEval, RunStore, RunBr, RunCondBr, Running, RunInv
  <1>2. UNCHANGED vars
    BY DEF Call, RunEval, RunStore, RunBr, RunCondBr
  <1>3. Call => Branches /\ UNCHANGED <<fun, outcome, result>>
    BY DEF Call, Branches, CodeInv, CleanInv
  <1>4. ASSUME RunEval \/ RunStore PROVE GoesOn
    <2>1. pc # Null /\ Instruction.op \in {"eval", "store"} /\ pc' = <<pc[1], pc[2] + 1>>
          /\ (Instruction.op = "eval" => outcome' \in Outcomes(ast, Instruction.at))
      BY <1>4 DEF RunEval, RunStore, Running, Advance
    <2>2. PICK is : is = code[pc[1]]
      OBVIOUS
    <2>3. pc[1] \in inserted /\ pc[2] \in 1..Len(is) /\ Instruction = is[pc[2]]
      BY <2>1, <2>2 DEF RunInv, Instruction
    <2>4. is \in Seq(Instr) /\ WellFormedBlock(is)
      BY <1>1, <2>2, <2>3, BlocksAreFilled DEF CodeInv
    <2>5. ~ IsTerminator(is[pc[2]])
      BY <2>1, <2>3 DEF IsTerminator
    <2>6. pc[2] + 1 \in 1..Len(is)
      BY <2>3, <2>4, <2>5, GoesOnInside
    <2> QED
      BY <2>1, <2>2, <2>3, <2>6 DEF GoesOn, Follows
  <1>5. ASSUME RunBr \/ RunCondBr PROVE Branches /\ UNCHANGED <<fun, outcome, result>>
    <2>1. PICK is : is = code[pc[1]]
      OBVIOUS
    <2>2. PICK k : k = pc[2]
      OBVIOUS
    <2>3. PICK i : i = Instruction
      OBVIOUS
    <2>4. pc # Null /\ pc[1] \in inserted /\ k \in 1..Len(is) /\ i = is[k]
      BY <1>5, <2>1, <2>2, <2>3 DEF RunBr, RunCondBr, Running, RunInv, Instruction
    <2>5. is \in Seq(Instr) /\ \A c \in Targets(is) : c \in inserted
      BY <1>1, <2>1, <2>4, BlocksAreFilled DEF CodeInv
    <2>6. \A c \in To(i) : c \in inserted
      BY <2>4, <2>5, TargetsOf
    <2>7. CASE RunBr
      <3>1. i.op = "br" /\ pc' = <<i.to, 1>>
        BY <2>3, <2>7 DEF RunBr, Running
      <3>2. i.to \in inserted
        BY <2>6, <3>1 DEF To
      <3> QED
        BY <2>7, <3>1, <3>2 DEF Branches, RunBr
    <2>8. CASE RunCondBr
      <3>1. i.op = "condbr" /\ pc' = <<IF outcome THEN i.then ELSE i.else, 1>>
        BY <2>3, <2>8 DEF RunCondBr, Running
      <3>2. i.then \in inserted /\ i.else \in inserted
        BY <2>6, <3>1 DEF To
      <3> QED
        BY <2>8, <3>1, <3>2 DEF Branches, RunCondBr
    <2> QED
      BY <1>5, <2>7, <2>8
  <1> QED
    BY <1>1, <1>2, <1>3, <1>4, <1>5

LEMMA RunInvariance == ExecSpec => []RunInv
  <1>1. ExecInit => RunInv
    BY DEF ExecInit, RunInv
  <1>2. CodeInv /\ CleanInv /\ RunInv /\ [ExecNext]_execVars => RunInv'
    <2> SUFFICES ASSUME CodeInv, CleanInv, RunInv, [ExecNext]_execVars PROVE RunInv'
      OBVIOUS
    <2>1. CASE Generate
      <3>1. phase # "generated" /\ pc' = pc
        BY <2>1, GenIsNotOver DEF Generate, runVars
      <3> QED
        BY <3>1 DEF RunInv
    <2>2. CASE RunEval \/ RunStore
      <3>1. phase = "generated" /\ UNCHANGED vars /\ GoesOn
        BY <2>2, RunSteps
      <3>2. phase' = "generated" /\ code' = code /\ inserted' = inserted /\ ast' = ast
        BY <3>1 DEF vars, genVars
      <3>3. PICK b : b = pc[1]
        OBVIOUS
      <3>4. PICK k : k = pc[2]
        OBVIOUS
      <3>5. pc' = <<b, k + 1>> /\ b \in inserted /\ k + 1 \in 1..Len(code[b])
            /\ Follows(code[b][k], outcome')
        BY <3>1, <3>3, <3>4 DEF GoesOn, Instruction
      <3>6. pc # Null
        BY <2>2 DEF RunEval, RunStore, Running
      <3>7. k \in Nat
        BY <3>4, <3>6 DEF RunInv
      <3>8. pc'[1] = b /\ pc'[2] = k + 1 /\ (k + 1) - 1 = k
        BY <3>5, <3>7
      <3>9. Follows(code[b][k], outcome)'
        <4>1. PICK i : i = code[b][k]
          OBVIOUS
        <4>2. i = code'[b][k] /\ Follows(i, outcome')
          BY <3>2, <3>5, <4>1
        <4> QED
          BY <3>2, <3>5 DEF Follows
      <3> QED
        BY <3>2, <3>5, <3>8, <3>9 DEF RunInv
    <2>3. CASE Call \/ RunBr \/ RunCondBr
      <3>1. phase = "generated" /\ UNCHANGED vars /\ Branches
        BY <2>3, RunSteps
      <3>2. phase' = "generated" /\ code' = code /\ inserted' = inserted
        BY <3>1 DEF vars, genVars
      <3>3. PICK b \in inserted : pc' = <<b, 1>>
        BY <3>1 DEF Branches
      <3>4. 1 \in 1..Len(code[b])
        BY <3>1, BlocksAreFilled
      <3> QED
        BY <3>2, <3>3, <3>4 DEF RunInv
    <2>4. CASE Returned \/ UNCHANGED execVars
      BY <2>4 DEF Returned, execVars, vars, genVars, runVars, RunInv, Follows
    <2> QED
      BY <2>1, <2>2, <2>3, <2>4 DEF ExecNext
  <1> QED
    BY <1>1, <1>2, CodeInvariance, CleanInvariance, PTL DEF ExecSpec

LEMMA ArrivedInvariance == ExecSpec => []ArrivedInv
  <1>1. CodeInv /\ RunInv => ArrivedInv
    BY InstructionFits DEF ArrivedInv
  <1> QED
    BY <1>1, CodeInvariance, RunInvariance, PTL

(***************************************************************************)
(* The refinement: an evaluation is a step of the source, and anything     *)
(* else that execution or generation does is none.                         *)
(***************************************************************************)
LEMMA SourceStutters ==
  ASSUME UNCHANGED <<ast, fun, outcome, result>>, comesTo' = comesTo
  PROVE  UNCHANGED Source!flowVars
  BY DEF Source!flowVars

(* The call does not end by chance.                                        *)
LEMMA StillRuns ==
  ASSUME CodeInv, RunInv, CleanInv, Call \/ RunEval \/ RunStore \/ RunBr \/ RunCondBr
  PROVE  pc' # Null
  <1>1. phase = "generated" /\ ((RunEval \/ RunStore) => GoesOn)
        /\ ((Call \/ RunBr \/ RunCondBr) => Branches)
    BY RunSteps
  <1>2. ast \in Programs /\ inserted \subseteq Blocks(ast)
        /\ \A b \in inserted : code[b] \in Seq(Instr)
    BY <1>1, BlocksAreFilled DEF CodeInv
  <1>3. \E b \in Blocks(ast), k \in Nat : pc' = <<b, k>>
    <2>1. CASE RunEval \/ RunStore
      <3>1. PICK b \in inserted : b = pc[1]
        BY <1>1, <2>1 DEF GoesOn
      <3>2. pc' = <<b, pc[2] + 1>> /\ pc[2] + 1 \in 1..Len(code[b])
        BY <1>1, <2>1, <3>1 DEF GoesOn
      <3>3. pc[2] + 1 \in Nat
        BY <1>2, <3>2
      <3> QED
        BY <1>2, <3>2, <3>3
    <2>2. CASE Call \/ RunBr \/ RunCondBr
      BY <1>1, <1>2, <2>2 DEF Branches
    <2> QED
      BY <2>1, <2>2
  <1> QED
    BY <1>2, <1>3, NullIsNoPlace

(* Where a block of the function begins.                                   *)
LEMMA EntryArrives ==
  ASSUME CleanInv, Call, ArrivedInv', pc' # Null
  PROVE  comesTo' = comesTo
  <1>1. pc = Null /\ pc' = <<<<"entry", fun>>, 1>> /\ fun' = fun /\ ast' = ast
    BY DEF Call, vars
  <1>2. comesTo = Begin(ast, Body(ast, fun))
    BY <1>1 DEF comesTo
  <1>3. pc'[1] = <<"entry", fun>> /\ pc'[2] = 1
    BY <1>1
  <1> QED
    BY <1>1, <1>2, <1>3 DEF ArrivedInv, Arrived, StandsFor

LEMMA BranchArrives ==
  ASSUME RunBr \/ RunCondBr, ArrivedInv, ArrivedInv', pc' # Null
  PROVE  comesTo' = comesTo
  <1>1. ast' = ast /\ outcome' = outcome
    BY DEF RunBr, RunCondBr, vars
  <1>2. comesTo = LeadsTo(Instruction)
    BY DEF RunBr, RunCondBr, Running, ArrivedInv
  <1>3. \A b : StandsFor(b)' = StandsFor(b)
    BY <1>1, SameFits
  <1>4. PICK b : b = pc'[1]
    OBVIOUS
  <1>5. pc'[2] = 1 /\ comesTo = StandsFor(b)
    <2>1. CASE RunBr
      <3>1. Instruction.op = "br" /\ pc' = <<Instruction.to, 1>>
        BY <2>1 DEF RunBr, Running
      <3> QED
        BY <1>2, <1>4, <3>1 DEF LeadsTo
    <2>2. CASE RunCondBr
      <3>1. Instruction.op = "condbr"
            /\ pc' = <<IF outcome THEN Instruction.then ELSE Instruction.else, 1>>
        BY <2>2 DEF RunCondBr, Running
      <3> QED
        BY <1>2, <1>4, <3>1 DEF LeadsTo
    <2> QED
      BY <2>1, <2>2
  <1>6. comesTo' = StandsFor(pc[1])'
    BY <1>5 DEF ArrivedInv, Arrived
  <1>7. StandsFor(pc[1])' = StandsFor(b)
    BY <1>1, <1>4 DEF StandsFor
  <1> QED
    BY <1>5, <1>6, <1>7

LEMMA EvaluationArrives ==
  ASSUME CodeInv, CleanInv, RunInv, ArrivedInv, ArrivedInv', pc' # Null, RunEval \/ RunStore
  PROVE  Source!Evaluate
  <1>1. PICK e : e = Instruction.at
    OBVIOUS
  <1>2. pc # Null /\ Instruction.op \in {"eval", "store"}
    BY DEF RunEval, RunStore, Running
  <1>3. comesTo = e /\ e \in DOMAIN ast /\ (Instruction.op = "store" <=> IsReturned(ast, e))
    BY <1>1, <1>2 DEF ArrivedInv, LeadsTo
  <1>4. UNCHANGED vars /\ GoesOn /\ phase = "generated"
    BY RunSteps
  <1>5. ast' = ast /\ code' = code
    BY <1>4 DEF vars, genVars
  <1>6. fun' = fun
    BY DEF RunEval, RunStore
  <1>7. e # Null
    BY <1>3, <1>4, NullIsNoNode DEF CodeInv
  <1>8. pc[2] \in Nat
    BY <1>2 DEF RunInv
  <1>9. PICK b : b = pc[1]
    OBVIOUS
  <1>10. PICK k \in Nat : k = pc[2]
    BY <1>8
  <1>11. pc' = <<b, k + 1>> /\ k \in 1..Len(code[b])
    BY <1>2, <1>4, <1>9, <1>10 DEF GoesOn, RunInv
  <1>12. pc'[1] = b /\ pc'[2] = k + 1 /\ (k + 1) - 1 = k /\ k + 1 # 1
    BY <1>11
  <1>13. e = code'[b][k].at
    BY <1>1, <1>5, <1>9, <1>10 DEF Instruction
  <1>14. comesTo' = Successor(ast, e, outcome')
    <2>1. comesTo' = Arrived'
      BY DEF ArrivedInv
    <2>2. Arrived' = Successor(ast, e, outcome)'
      BY <1>5, <1>12, <1>13 DEF Arrived
    <2>3. Successor(ast, e, outcome)' = Successor(ast, e, outcome')
      BY <1>5 DEF Successor, Taken, NotTaken, Begin, After, IsCondition
    <2> QED
      BY <2>1, <2>2, <2>3
  <1>15. outcome' \in Outcomes(ast, e)
    <2>1. CASE RunEval
      BY <1>1, <2>1 DEF RunEval
    <2>2. CASE RunStore
      <3>1. outcome' = Null /\ IsReturned(ast, e)
        BY <1>3, <2>2 DEF RunStore, Running
      <3>2. ~ IsCondition(ast, e)
        BY <3>1 DEF IsReturned, IsCondition
      <3> QED
        BY <3>1, <3>2 DEF Outcomes
    <2> QED
      BY <2>1, <2>2
  <1>16. result' = IF IsReturned(ast, e) THEN e ELSE result
    <2>1. CASE RunEval
      BY <1>3, <2>1 DEF RunEval, Running
    <2>2. CASE RunStore
      BY <1>1, <1>3, <2>2 DEF RunStore, Running
    <2> QED
      BY <2>1, <2>2
  <1> QED
    BY <1>3, <1>5, <1>6, <1>7, <1>14, <1>15, <1>16 DEF Source!Evaluate

LEMMA SourceBegins ==
  ASSUME ExecInit
  PROVE  Source!FlowInit
  BY ProgramsAreTrees DEF ExecInit, Init, BindingInit, comesTo, Source!FlowInit

(***************************************************************************)
(* For every program whose jumps end then branches, whatever the           *)
(* conditions come out as: the code that is generated for a function       *)
(* evaluates the expressions that the source evaluates, in its order, and  *)
(* returns what the source returns.                                        *)
(***************************************************************************)
THEOREM ExecutionImplementsSource == ExecSpec => ImplementsSource
  <1>1. ExecInit => Source!FlowInit
    BY SourceBegins
  <1>2. CodeInv /\ CleanInv /\ RunInv /\ ArrivedInv /\ ArrivedInv' /\ [ExecNext]_execVars
          => [Source!Evaluate]_Source!flowVars
    <2> SUFFICES ASSUME CodeInv, CleanInv, RunInv, ArrivedInv, ArrivedInv', [ExecNext]_execVars
                 PROVE  Source!Evaluate \/ UNCHANGED Source!flowVars
      OBVIOUS
    <2>1. CASE Generate
      <3>1. phase # "generated" /\ ast' = ast /\ UNCHANGED runVars
        BY <2>1, GenIsNotOver, GenKeepsTree DEF Generate
      <3>2. pc = Null /\ pc' = Null /\ UNCHANGED <<ast, fun, outcome, result>>
        BY <3>1 DEF RunInv, runVars
      <3>3. comesTo' = comesTo
        BY <3>2 DEF comesTo, Begin, Body
      <3> QED
        BY <3>2, <3>3, SourceStutters
    <2>2. CASE Call \/ RunBr \/ RunCondBr
      <3>1. UNCHANGED <<ast, fun, outcome, result>>
        BY <2>2 DEF Call, RunBr, RunCondBr, vars
      <3>2. comesTo' = comesTo
        BY <2>2, StillRuns, EntryArrives, BranchArrives
      <3> QED
        BY <3>1, <3>2, SourceStutters
    <2>3. CASE RunEval \/ RunStore
      BY <2>3, StillRuns, EvaluationArrives
    <2>4. CASE Returned \/ UNCHANGED execVars
      <3>1. UNCHANGED execVars
        BY <2>4 DEF Returned
      <3>2. UNCHANGED <<ast, fun, outcome, result>> /\ pc' = pc /\ code' = code
        BY <3>1 DEF execVars, vars, genVars, runVars
      <3>3. comesTo' = comesTo
        BY <3>2 DEF comesTo, Instruction, LeadsTo, StandsFor, Begin, After, Body
      <3> QED
        BY <3>2, <3>3, SourceStutters
    <2> QED
      BY <2>1, <2>2, <2>3, <2>4 DEF ExecNext
  <1> QED
    BY <1>1, <1>2, CodeInvariance, CleanInvariance, RunInvariance, ArrivedInvariance, PTL
       DEF ExecSpec, ImplementsSource, Source!FlowSpec

=============================================================================
