------------------------------ MODULE MCParser ------------------------------
(***************************************************************************)
(* Sentences of the grammar and near misses for Parser, and the properties *)
(* that compare the two.                                                   *)
(***************************************************************************)
EXTENDS Parser

CONSTANTS
  ShortSize,    \* every sequence of tokens of this length is tried
  SentenceSize, \* and every expression of this length
  ListSize,     \* statement lists that count as many, of any statements
  PairSize,     \* and of expression statements only
  DeepSize,     \* such lists with an else if; the others are tried as they are
  LongSize,     \* expressions of this length, tried as they are
  Sample        \* the inputs with what is expected of them

G == INSTANCE Grammar

Body(list) == G!AFunction(G!Nothing, <<>>, list)

(***************************************************************************)
(* The sentences.                                                          *)
(***************************************************************************)
ExpressionBodies(size) ==
  {Body(G!Listed(e.text \o <<"semicolon">>, <<e.tree>>)) : e \in G!ExpressionsUpTo(size)}

JustX == {s \in G!Simples : s.tree = G!X.tree}

StatementBodies ==
  {Body(b) : b \in G!StatementsUpTo(ListSize, G!Simples)
                   \cup G!StatementsUpTo(PairSize, JustX)
                   \cup {d \in G!StatementsUpTo(DeepSize, JustX) : "else_if_stmt" \in ToSet(d.text)}}

Heads == {G!AFunction(a, r, G!Nothing) : a \in G!ArgumentsUpTo(2), r \in G!ReturnTypes}

F0 == Body(G!Nothing)

OneFunction == ExpressionBodies(SentenceSize) \cup StatementBodies \cup Heads

Programs ==
  {G!AProgram(G!One(f)) : f \in OneFunction}
  \cup {G!AProgram(G!Joined(G!One(f), <<>>, G!One(F0))) : f \in Heads}
  \cup {G!AProgram(G!Nothing)}

(* Sentences of the comment only.                                          *)
CommentPrograms ==
  {G!AProgram(G!One(Body(b))) :
     b \in G!StatementsUpTo(ListSize, {G!ConstX})
          \cup {G!Listed(e.text \o <<"semicolon">>, <<e.tree>>) : e \in G!IndexedCalls(SentenceSize)}}

(* These are long; they are tried as they are.                             *)
DeepPrograms ==
  {G!AProgram(G!One(f)) :
     f \in ExpressionBodies(LongSize)
          \cup {Body(b) : b \in G!StatementsUpTo(DeepSize, JustX)}}

Texts(programs) == {p.text : p \in programs}

Beginnings(texts) == UNION {Prefixes(t) : t \in texts} \ {<<>>}

(***************************************************************************)
(* The inputs: the sentences, these without one token, what they begin     *)
(* with, and all short sequences as an expression statement, as arguments  *)
(* and as return type.                                                     *)
(***************************************************************************)
ExpressionTokens ==
  {"symbol", "integer_literal", "add", "sub", "mul", "lt", "eq", "left_paren", "right_paren",
   "left_square_bracket", "right_square_bracket", "comma", "increment"}

HeadTokens == {"symbol", "colon", "type_specifier", "comma"}

Around(before, w, after) == G!Framed(before \o w \o after)

Begin == <<"function", "symbol", "left_paren">>

ShortTexts ==
  {Around(Begin \o <<"right_paren", "begin_block">>, w, <<"semicolon", "end_block">>) :
     w \in SeqOf(ExpressionTokens, ShortSize)}
  \cup {Around(Begin, w, <<"right_paren", "begin_block", "end_block">>) :
          w \in SeqOf(HeadTokens, ShortSize)}
  \cup {Around(Begin \o <<"right_paren">>, w, <<"begin_block", "end_block">>) :
          w \in SeqOf(HeadTokens, 3)}

Without(t, i) == SubSeq(t, 1, i - 1) \o SubSeq(t, i + 1, Len(t))

NearMisses(texts) == UNION {{Without(t, i) : i \in 2..(Len(t) - 1)} : t \in texts}

CutOff(begun) == {Append(w, "eof") : w \in {v \in begun : Last(v) # "eof"}}

(***************************************************************************)
(* With each input comes what the grammar says of it: the trees it gives   *)
(* to the text (one or none), and the number of tokens that a sentence of  *)
(* any length begins with as well, not counting those of the comment only. *)
(***************************************************************************)
Expected ==
  LET programs == Programs
      comment  == CommentPrograms
      texts    == Texts(programs \cup comment)
      begun    == Beginnings(Texts(programs))
      others   == (ShortTexts \cup NearMisses(Texts(programs)) \cup CutOff(begun)) \ texts
      (* where a statement may begin, and so an expression of any length   *)
      starts   == {Front(w) : w \in {v \in begun : Last(v) \in {"for", "end_block"}}}
      inner    == G!BegunUpTo(ShortSize)
      Fits(t)  ==
        LET whole == {n \in 1..Len(t) : SubSeq(t, 1, n) \in begun}
        IN  Cardinality(whole \cup
              UNION {{n \in (k + 1)..Len(t) : SubSeq(t, k + 1, n) \in inner} :
                       k \in {h \in whole : SubSeq(t, 1, h) \in starts}})
  IN  {[text |-> p.text, trees |-> {p.kids}, fits |-> Len(p.text)] :
         p \in programs \cup DeepPrograms}
      \cup {[text |-> p.text, trees |-> {p.kids}, fits |-> Fits(p.text)] : p \in comment}
      \cup {[text |-> t, trees |-> {}, fits |-> Fits(t)] : t \in others}

MCInputs == {x.text : x \in Sample}

(* A program with <=.                                                      *)
LessOrEqual ==
  {[text |-> Around(Begin \o <<"right_paren", "begin_block">>, <<"symbol", k, "symbol">>,
                    <<"semicolon", "end_block">>),
    trees |-> {}, fits |-> 0] : k \in {"lt", "le", "gt", "ge"}}

---------------------------------------------------------------------------
VARIABLE expected

MCInit ==
  /\ expected \in Sample
  /\ tokens = expected.text
  /\ AtBof

MCNext == Next /\ UNCHANGED expected

MCSpec == MCInit /\ [][MCNext]_<<vars, expected>>

(***************************************************************************)
(* What is parsed is a program, and the tree is the one that the grammar   *)
(* gives it.                                                               *)
(***************************************************************************)
Nameless(f) == [p \in DOMAIN f |-> [f[p] EXCEPT !.name = 0]]

TreeIsTheGrammars ==
  phase = "parsed" => [i \in DOMAIN functions |-> Nameless(functions[i])] \in expected.trees

(***************************************************************************)
(* What the comment has and the parser does not take: a name after "const" *)
(* (parser.hpp:67, 70), and an index behind a call (lines 63, 82 and 90).  *)
(***************************************************************************)
NotTaken ==
  \/ tokens[tokitr] = "constdecl" /\ Peek(tokitr) = "symbol"
  \/ tokens[tokitr] = "right_paren" /\ Peek(tokitr) = "left_square_bracket"

(***************************************************************************)
(* The error is at the last token that fits: some sentence goes on after   *)
(* it, and none with the token that follows.  So what is rejected is not a *)
(* program, with the two exceptions above.                                 *)
(***************************************************************************)
VerdictFollowsGrammar ==
  phase = "failed" => /\ tokitr = expected.fits
                      /\ expected.trees # {} => NotTaken

=============================================================================
