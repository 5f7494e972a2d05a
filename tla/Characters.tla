----------------------------- MODULE Characters -----------------------------
(***************************************************************************)
(* The characters of source texts and what can be made of them.            *)
(*                                                                         *)
(* A character stands for its class, and the letters "e", "i" and "k" for  *)
(* whole words: else, if, and any other keyword.  A longer run of letters  *)
(* is an identifier.                                                       *)
(***************************************************************************)
EXTENDS Naturals, SequencesExt

Letters    == {"a", "e", "i", "k"}
Digits     == {"1"}
Blanks     == {" "}
Operators  == {"+", "-", "*", "/", "=", "<", ">", "!", ","}
Delimiters == {"(", ")", "{", "}", "[", "]"}
Newline    == "\n"
Quote      == "\""
Nul        == "NUL"

WordChars   == Letters \cup {"_"} \cup Digits
NumberChars == Letters \cup {"."} \cup Digits

Alphabet ==
  WordChars \cup NumberChars \cup Blanks \cup Operators \cup Delimiters
  \cup {";", ":", Newline, Quote, "@"}

(***************************************************************************)
(* The tables of token kinds.                                              *)
(***************************************************************************)
Punctuation ==
  [x \in Delimiters \cup {";", ":"} |->
     CASE x = "(" -> "left_paren"          [] x = ")" -> "right_paren"
       [] x = "{" -> "begin_block"         [] x = "}" -> "end_block"
       [] x = "[" -> "left_square_bracket" [] x = "]" -> "right_square_bracket"
       [] x = ";" -> "semicolon"           [] x = ":" -> "colon"]

(* The kind of a lone ! is never assigned: a token_kind that is made       *)
(* without a value is the first of the enumeration, lt.                    *)
Unset == "lt"

Single ==
  [x \in Operators |->
     CASE x = "+" -> "add" [] x = "-" -> "sub"    [] x = "*" -> "mul"
       [] x = "/" -> "div" [] x = "=" -> "assign" [] x = "<" -> "lt"
       [] x = ">" -> "gt"  [] x = "," -> "comma"  [] x = "!" -> Unset]

Double ==
  [p \in {<<"+", "+">>, <<"-", "-">>, <<"=", "=">>, <<"<", "=">>,
          <<">", "=">>, <<"!", "=">>} |->
     CASE p[1] = "+" -> "increment" [] p[1] = "-" -> "decrement"
       [] p[1] = "=" -> "eq"        [] p[1] = "<" -> "le"
       [] p[1] = ">" -> "ge"        [] p[1] = "!" -> "neq"]

Keywords ==
  [w \in {<<"e">>, <<"i">>, <<"k">>} |->
     CASE w = <<"e">> -> "else_stmt" [] w = <<"i">> -> "if_stmt"
       [] w = <<"k">> -> "keyword"]

(***************************************************************************)
(* Lexemes, as a grammar would give them: the kind of a whole word of the  *)
(* language, and "none" for all other texts.                               *)
(***************************************************************************)
Over(S, w) == ToSet(w) \subseteq S

Inner(w) == IF Head(w) = Quote THEN SubSeq(w, 2, Len(w) - 1) ELSE w

KindOf(w) ==
  CASE Len(w) = 1 /\ w[1] \in DOMAIN Punctuation -> Punctuation[w[1]]
    [] Len(w) = 1 /\ w[1] \in Operators -> Single[w[1]]
    [] w \in DOMAIN Double -> Double[w]
    [] w[1] \in Digits /\ Over(NumberChars, w) ->
         IF "." \in ToSet(w) THEN "double_literal" ELSE "integer_literal"
    [] w[1] \in WordChars \ Digits /\ Over(WordChars, w) ->
         IF w \in DOMAIN Keywords THEN Keywords[w] ELSE "symbol"
    [] /\ Len(w) > 1 /\ w[1] = Quote /\ Last(w) = Quote
       /\ Quote \notin ToSet(Inner(w)) -> "string_literal"
    [] IsPrefix(<<"/", "/">>, w) /\ Newline \notin ToSet(w) -> "comment"
    (* else, blanks, if                                                    *)
    [] /\ Len(w) > 2 /\ w[1] = "e" /\ Last(w) = "i"
       /\ Over(Blanks, SubSeq(w, 2, Len(w) - 1)) -> "else_if_stmt"
    [] OTHER -> "none"

(* The ends of the lexemes of s that start at i.  An else if has to be     *)
(* followed by a blank or the end.                                         *)
LexemeEnds(s, i) ==
  {e \in (i + 1)..Len(s) :
     LET k == KindOf(SubSeq(s, i + 1, e))
     IN  /\ k # "none"
         /\ k = "else_if_stmt" => e = Len(s) \/ s[e + 1] \in Blanks}

(* The longest lexemes of s behind each place, from left to right, without *)
(* those of the kinds in left.                                             *)
LexemeAt(s, i, left) ==
  LET e == Max(LexemeEnds(s, i))
      k == KindOf(SubSeq(s, i + 1, e))
  IN  IF k \in left THEN <<>> ELSE <<[kind |-> k, from |-> i, to |-> e]>>

LexemesFrom(s, left) ==
  LET from[i \in 0..Len(s)] ==
        IF i = Len(s) THEN <<>>
        ELSE IF LexemeEnds(s, i) = {} THEN from[i + 1]
        ELSE LexemeAt(s, i, left) \o from[Max(LexemeEnds(s, i))]
  IN  from

AllLexemes(s) == LexemesFrom(s, {})[0]

Lexemes(s) == LexemesFrom(s, {"comment"})[0]

(* No comment runs to the end of s, and every quote in s belongs to a      *)
(* comment or to a string.                                                 *)
Closed(s) ==
  LET L == AllLexemes(s)
  IN  /\ \A i \in DOMAIN L : L[i].kind = "comment" => L[i].to < Len(s)
      /\ \A j \in DOMAIN s : s[j] = Quote =>
           \E i \in DOMAIN L : L[i].from < j /\ j <= L[i].to

(* The last character shows that nothing goes on.                          *)
EndsClearly(s) ==
  s # <<>> /\ Last(s) \notin Blanks \cup Operators \cup WordChars

=============================================================================
