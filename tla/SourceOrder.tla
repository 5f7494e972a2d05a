---------------------------- MODULE SourceOrder -----------------------------
(***************************************************************************)
(* In which order the expressions of a function of the source language are *)
(* evaluated, stated on its syntax tree.  This is the meaning that the     *)
(* node classes and the grammar in parser.hpp give to if, for, while,      *)
(* break, continue and return; there are no blocks and no branches in it.  *)
(***************************************************************************)
EXTENDS LoopBinding

ParentOf(n) == Front(n)
Child(n, i) == Append(n, i)

InnermostLoop(t, j) ==
  CHOOSE l \in LoopsAround(t, j) : \A m \in LoopsAround(t, j) : Len(m) <= Len(l)

(***************************************************************************)
(* Where control goes when the statement n is reached ("begin"), and when  *)
(* it is over without a jump ("after"): to an expression, or to Null.      *)
(***************************************************************************)
Points(t) == {"begin", "after"} \X DOMAIN t

(* From the point c, when it is known where control goes from those ahead. *)
Onward(t, to, c) ==
  LET n == c[2]
      p == ParentOf(n)
      i == Last(n)
      k == IF c[1] = "begin" THEN t[n].kind ELSE t[p].kind
  IN
  IF c[1] = "begin" THEN
    CASE k \in {"if", "while"}       -> Child(n, 1)
      [] k = "for"                   -> to[<<"begin", Child(n, 1)>>]
      [] k \in {"block", "compound"} -> IF t[n].arity = 0 THEN to[<<"after", n>>]
                                        ELSE to[<<"begin", Child(n, 1)>>]
      [] k = "ret"                   -> IF t[n].arity = 0 THEN Null ELSE Child(n, 1)
      [] k = "break"                 -> to[<<"after", InnermostLoop(t, n)>>]
      [] k = "continue"              ->
           LET l == InnermostLoop(t, n)
           IN  IF t[l].kind = "for" THEN Child(l, 3) ELSE Child(l, 1)
      [] OTHER                       -> n
  ELSE
    CASE k \in {"program", "function", "ret"} -> Null
      [] k \in {"block", "compound"}          -> IF i < t[p].arity
                                                 THEN to[<<"begin", Child(p, i + 1)>>]
                                                 ELSE to[<<"after", p>>]
      [] k = "while"                          -> Child(p, 1)
      [] k = "for" /\ i = 4                   -> Child(p, 3)
      [] k = "for" /\ i \in {1, 3}            -> Child(p, 2)
      [] OTHER                                -> to[<<"after", p>>]

GoesTo(t) == LET to[c \in Points(t)] == Onward(t, to, c) IN to

Begin(t, n) == GoesTo(t)[<<"begin", n>>]
After(t, n) == GoesTo(t)[<<"after", n>>]

(* e is the condition of an if, for or while.                              *)
IsCondition(t, e) ==
  \/ t[ParentOf(e)].kind \in {"if", "while"} /\ Last(e) = 1
  \/ t[ParentOf(e)].kind = "for" /\ Last(e) = 2

IsReturned(t, e) == t[ParentOf(e)].kind = "ret"

Outcomes(t, e) == IF IsCondition(t, e) THEN BOOLEAN ELSE {Null}

(* The branches of a condition: taken when it holds, and otherwise.        *)
Taken(t, e) ==
  Begin(t, Child(ParentOf(e), IF t[ParentOf(e)].kind = "for" THEN 4 ELSE 2))

NotTaken(t, e) ==
  LET p == ParentOf(e)
  IN  IF t[p].kind = "if" /\ t[p].arity = 3 THEN Begin(t, Child(p, 3)) ELSE After(t, p)

Successor(t, e, o) ==
  IF ~ IsCondition(t, e) THEN After(t, e)
  ELSE IF o THEN Taken(t, e) ELSE NotTaken(t, e)

Body(t, f) == Child(f, t[f].arity)

=============================================================================
