---------------------------- MODULE MCTokenizer -----------------------------
(***************************************************************************)
(* Short texts for Tokenizer.                                              *)
(***************************************************************************)
EXTENDS Diagnostics

CONSTANTS
  AnySize,     \* length of the texts over characters of every kind
  WordSize     \* length of the texts about else and if

(* One of each class, and what the operators are composed of.              *)
Various == {"a", "1", ".", " ", "/", "=", "+", ";", Newline, Quote}

(* The operators alone.                                                    *)
OperatorPairs == {<<x, y, ";">> : x \in Operators, y \in Operators}

(* else, followed by blanks, lines and words.                              *)
AfterElse == {" ", "i", "a", "(", Newline}

MCSources ==
  SeqOf(Various, AnySize)
  \cup OperatorPairs
  \cup {<<x, y>> : x \in {"1", "_", "@"}, y \in Delimiters \cup {":", "_"}}
  \cup {<<"e">> \o w : w \in SeqOf(AfterElse, WordSize)}
  \cup {<<x, "e", " ", "i", y>> : x \in {"a", " ", "}"}, y \in {" ", "(", "k"}}

(* Behind the buffer: a letter, a blank, what can follow an operator, an   *)
(* end of line.                                                            *)
MCBeyond == {"a", " ", "=", "/", "+", Newline}

=============================================================================
