------------------------------- MODULE Syntax -------------------------------
(***************************************************************************)
(* Builders for the trees of the MC modules.                               *)
(***************************************************************************)
EXTENDS Naturals, Sequences

(* The tree with the given label at the root and the subtrees kids.        *)
Tree(kind, name, kids) ==
  [p \in {<<>>} \cup UNION {{<<i>> \o q : q \in DOMAIN kids[i]} : i \in DOMAIN kids} |->
     IF p = <<>>
     THEN [kind |-> kind, arity |-> Len(kids), name |-> name]
     ELSE kids[Head(p)][Tail(p)]]

Leaf(kind) == Tree(kind, "", <<>>)

Program(functions) == Tree("program", "", functions)

(***************************************************************************)
(* The lists of at most N statements.  From(n, G) is the set of statements *)
(* that count as n, where G[k].one holds those that count as k < n, and    *)
(* G[k].lists the lists whose statements count as k together.              *)
(***************************************************************************)
Lists(N, From(_, _)) ==
  LET G[n \in 0..N] ==
        IF n = 0
        THEN [one |-> {}, lists |-> {<<>>}]
        ELSE LET L == [k \in 0..(n - 1) |-> G[k]]
                 new == From(n, L)
             IN  [one   |-> new,
                  lists |-> {<<s>> : s \in new} \cup
                            UNION {{<<s>> \o f : s \in L[k].one, f \in L[n - k].lists}
                                   : k \in 1..(n - 1)}]
  IN  UNION {G[n].lists : n \in 0..N}

=============================================================================
