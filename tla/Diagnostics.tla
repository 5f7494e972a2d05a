---------------------------- MODULE Diagnostics -----------------------------
(***************************************************************************)
(* util::printErrorSourceLine: what is shown of the source for an error at *)
(* position p, which every Compiler::Error takes from a token.  Screen     *)
(* columns count from 0.                                                   *)
(***************************************************************************)
EXTENDS Tokenizer

NewlinesBefore(p) == {i \in 0..(Size - 1) : i < p /\ source[i + 1] = Newline}

LinePos(p) == Cardinality(NewlinesBefore(p))

(* Where there is no newline before p the index stays 0.                   *)
NewLineIndex(p) == Max(NewlinesBefore(p) \cup {0})

(* Faulty variant of IndentLen: not set back at a newline.                 *)
IndentLenKept(p) == p

IndentLen(p) ==
  IF NewlinesBefore(p) = {} THEN p ELSE p - (NewLineIndex(p) + 1)

(* The indices of the characters in the excerpt, up to the next newline.   *)
Excerpt(p) ==
  {i \in (NewLineIndex(p) + 1)..(Size - 1) :
     \A j \in (NewLineIndex(p) + 1)..i : source[j + 1] # Newline}

DigitsOf(n) == Cardinality({k \in 0..(n - 1) : 10^k <= n})

(* The line number and " | " stand before the excerpt, but not before the  *)
(* caret, which has one column for each character in front of it.          *)
Gutter(p)      == DigitsOf(LinePos(p) + 1) + 3
Column(p, i)   == Gutter(p) + i - (NewLineIndex(p) + 1)
CaretColumn(p) == IndentLen(p)

-----------------------------------------------------------------------------
(***************************************************************************)
(* The excerpt for an error at a token shows the line the token ends on,   *)
(* with its number, all of the token that is on that line, and nothing of  *)
(* another line; only the first character of the source is never shown.    *)
(* The caret stands to the left of the token's position, by the width of   *)
(* the gutter, and by one less on the first line, which is shown shifted.  *)
(***************************************************************************)
LastLineOf(l) ==
  {i \in l.from..(l.to - 1) : Newline \notin ToSet(SubSeq(source, i + 1, l.to))}

ExcerptsShowTheToken ==
  pc = "done" /\ InBounds =>
    \A k \in DOMAIN Scanned :
      LET l == Lexemes(source)[k]  p == Scanned[k].at
          Newlines == {i \in 0..(l.to - 1) : source[i + 1] = Newline}
          Line == LinePos(p) + 1
      IN  /\ Line = 1 + Cardinality(Newlines)
          /\ LastLineOf(l) \ {0} \subseteq Excerpt(p)
          /\ \A i \in Excerpt(p) : NewlinesBefore(i) = Newlines
          /\ 0 \notin Excerpt(p)
          /\ CaretColumn(p) + Gutter(p) = Column(p, p) + (IF Line = 1 THEN 1 ELSE 0)

=============================================================================
