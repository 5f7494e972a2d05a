----------------------------- MODULE Tokenizer ------------------------------
(***************************************************************************)
(* Tokennizer::tokenize (tokenizer.cpp) over the cursor of TextReader      *)
(* (text.hpp).  The loops over single characters are steps of their own:   *)
(* whether they end is one of the questions.                               *)
(*                                                                         *)
(* The characters are those of module Characters.                          *)
(*                                                                         *)
(* The buffer has exactly the size of the source, and some reads go one    *)
(* past its end.  What they see is any character of Beyond, each time      *)
(* anew, but for one bound, OneOverread.                                   *)
(***************************************************************************)
EXTENDS Characters

CONSTANTS
  Sources,      \* the source texts
  Beyond        \* the characters that may lie behind the buffer

ASSUME SourcesAreTexts == \A s \in Sources : s \in Seq(Alphabet)
ASSUME BeyondAreCharacters == Beyond \subseteq Alphabet

VARIABLES
  source,   \* the text
  cur,      \* TextReader::cur, counted from 0
  pc,       \* the loop that tokenize is in
  c,        \* the character last read
  buffer,   \* valueBuffer
  tokens

vars == <<source, cur, pc, c, buffer, tokens>>

Size == Len(source)

(* Faulty variant of Advanced: without the test for the end.               *)
AdvancedAlways(k) == cur + k

(* operator++ stops at the end.                                            *)
Advanced(k) == IF cur + k > Size THEN Size ELSE cur + k

(* bufferPtr[i], which is out of bounds at i = Size.                       *)
At(i) == IF i < Size THEN {source[i + 1]} ELSE Beyond

(* operator* and the loop's end test look at the size, operator+ looks too *)
(* far by one.                                                             *)
Here  == IF cur >= Size THEN Nul ELSE source[cur + 1]
Ahead == IF cur + 1 > Size THEN {Nul} ELSE At(cur + 1)

Token(kind, value, at) == [kind |-> kind, value |-> value, at |-> at]

(* Faulty variant of Emplace: the position is that of the first token.     *)
EmplaceAtBof(kind, value) == tokens' = Append(tokens, Token(kind, value, 0))

Emplace(kind, value) == tokens' = Append(tokens, Token(kind, value, cur))

Init ==
  /\ source \in Sources
  /\ cur = 0
  /\ pc = "skipws"
  /\ c = Nul
  /\ buffer = <<>>
  /\ tokens = <<Token("bof", <<>>, 0)>>

(* Only blanks are skipped here, and the test reads the buffer at cur.     *)
SkipBlanks ==
  /\ pc = "skipws"
  /\ \E x \in At(cur) :
       IF x \in Blanks
       THEN cur' = Advanced(1) /\ UNCHANGED pc
       ELSE pc' = "next" /\ UNCHANGED cur
  /\ UNCHANGED <<source, c, buffer, tokens>>

(* The loop of tokenize: the next character decides.                       *)
On(S) == pc = "next" /\ cur < Size /\ Here \in S

(* Faulty variant of SkipOne: blanks are skipped at once.                  *)
SkipMany ==
  /\ On(Blanks \cup {".", Newline, "@"})
  /\ cur' = Advanced(1)
  /\ pc' = "skipws"
  /\ UNCHANGED <<source, c, buffer, tokens>>

(* Neither token nor comment: one character is skipped.                    *)
SkipOne ==
  /\ On(Blanks \cup {".", Newline, "@"})
  /\ cur' = Advanced(1)
  /\ UNCHANGED <<source, pc, c, buffer, tokens>>

ReadPunctuation ==
  /\ On(DOMAIN Punctuation)
  /\ Emplace(Punctuation[Here], <<>>)
  /\ cur' = Advanced(1)
  /\ UNCHANGED <<source, pc, c, buffer>>

(* The reader has gone on to the second character when the token is made.  *)
ReadOperator ==
  /\ On(Operators)
  /\ \E x \in Ahead :
       /\ ~ (Here = "/" /\ x = "/")
       /\ IF <<Here, x>> \in DOMAIN Double
          THEN /\ tokens' = Append(tokens, Token(Double[<<Here, x>>], <<>>, Advanced(1)))
               /\ cur' = Advanced(2)
          ELSE /\ Emplace(Single[Here], <<>>)
               /\ cur' = Advanced(1)
  /\ UNCHANGED <<source, pc, c, buffer>>

(***************************************************************************)
(* Comments run up to a newline, which is left to the main loop.           *)
(***************************************************************************)
BeginComment ==
  /\ On({"/"})
  /\ "/" \in Ahead
  /\ pc' = "comment"
  /\ cur' = Advanced(1)
  /\ UNCHANGED <<source, c, buffer, tokens>>

SkipComment ==
  /\ pc = "comment"
  /\ IF Here # Newline
     THEN cur' = Advanced(1) /\ UNCHANGED pc
     ELSE pc' = "next" /\ UNCHANGED cur
  /\ UNCHANGED <<source, c, buffer, tokens>>

(***************************************************************************)
(* Numbers: digits, letters and points.                                    *)
(***************************************************************************)
BeginNumber ==
  /\ On(Digits)
  /\ pc' = "number"
  /\ buffer' = <<>>
  /\ UNCHANGED <<source, cur, c, tokens>>

ReadNumber ==
  /\ pc = "number"
  /\ IF Here \in NumberChars
     THEN /\ buffer' = Append(buffer, Here)
          /\ cur' = Advanced(1)
          /\ UNCHANGED <<pc, tokens>>
     ELSE /\ Emplace(IF "." \in ToSet(buffer) THEN "double_literal" ELSE "integer_literal",
                     buffer)
          /\ pc' = "next"
          /\ buffer' = <<>>
          /\ UNCHANGED cur
  /\ UNCHANGED <<source, c>>

(***************************************************************************)
(* Strings: up to the next quote.  Past the end the code appends zeroes    *)
(* without end; the model leaves the buffer as it is.                      *)
(***************************************************************************)
BeginString ==
  /\ On({Quote})
  /\ pc' = "string"
  /\ buffer' = <<>>
  /\ cur' = Advanced(1)
  /\ UNCHANGED <<source, c, tokens>>

(* Faulty variant of ReadString: the closing quote is left unread.         *)
ReadStringNoSkip ==
  /\ pc = "string"
  /\ IF Here # Quote
     THEN /\ cur' = Advanced(1)
          /\ buffer' = IF Here = Nul THEN buffer ELSE Append(buffer, Here)
          /\ UNCHANGED <<pc, tokens>>
     ELSE /\ Emplace("string_literal", buffer)
          /\ pc' = "next" /\ buffer' = <<>>
          /\ UNCHANGED cur
  /\ UNCHANGED <<source, c>>

ReadString ==
  /\ pc = "string"
  /\ cur' = Advanced(1)
  /\ IF Here # Quote
     THEN /\ buffer' = IF Here = Nul THEN buffer ELSE Append(buffer, Here)
          /\ UNCHANGED <<pc, tokens>>
     ELSE /\ tokens' = Append(tokens, Token("string_literal", buffer, Advanced(1)))
          /\ pc' = "next" /\ buffer' = <<>>
  /\ UNCHANGED <<source, c>>

(***************************************************************************)
(* Words.  The loop reads the buffer at the cursor, also at the end, where *)
(* the cursor stays and the word grows for as long as letters are read.    *)
(* The model lets it grow by one.                                          *)
(***************************************************************************)
OneOverread == cur = Size => c' \notin WordChars

BeginWord ==
  /\ On(WordChars \ Digits)
  /\ pc' = "word"
  /\ buffer' = <<>>
  /\ c' = Here
  /\ UNCHANGED <<source, cur, tokens>>

ReadWord ==
  /\ pc = "word" /\ c \in WordChars
  /\ buffer' = Append(buffer, c)
  /\ cur' = Advanced(1)
  /\ c' \in At(cur')
  /\ OneOverread
  /\ UNCHANGED <<source, pc, tokens>>

(* setSpaceSepStr: the word between blanks around i, or after the blanks   *)
(* at i; its first index and the one after it.  At the end of the text the *)
(* test for a blank reads past it; either way no keyword follows.          *)
IsBlankAt(i) == source[i + 1] \in Blanks

WordStart(i) ==
  IF i < Size /\ IsBlankAt(i)
  THEN CHOOSE s \in i..Size : /\ s < Size => ~ IsBlankAt(s)
                              /\ \A j \in i..(s - 1) : IsBlankAt(j)
  ELSE CHOOSE s \in 0..i : /\ s > 0 => IsBlankAt(s - 1)
                           /\ \A j \in s..(i - 1) : ~ IsBlankAt(j)

WordEnd(s) ==
  CHOOSE e \in s..Size : /\ e < Size => IsBlankAt(e)
                         /\ \A j \in s..(e - 1) : ~ IsBlankAt(j)

(* Faulty variant of NextWord: only the character at the cursor is looked  *)
(* at.                                                                     *)
NextWordHere == IF cur < Size THEN <<source[cur + 1]>> ELSE <<>>

NextWord == SubSeq(source, WordStart(cur) + 1, WordEnd(WordStart(cur)))

EndWord ==
  /\ pc = "word" /\ c \notin WordChars
  /\ IF buffer = <<"e">> /\ NextWord = <<"i">>
     THEN /\ Emplace("else_if_stmt", <<>>)
          /\ cur' = WordEnd(WordStart(cur))
          /\ pc' = "skipws"
     ELSE /\ IF buffer \in DOMAIN Keywords
             THEN Emplace(Keywords[buffer], <<>>)
             ELSE Emplace("symbol", buffer)
          /\ pc' = "next"
          /\ UNCHANGED cur
  /\ c' = Nul /\ buffer' = <<>>
  /\ UNCHANGED source

EndOfText ==
  /\ pc = "next" /\ cur = Size
  /\ Emplace("eof", <<>>)
  /\ pc' = "done"
  /\ UNCHANGED <<source, cur, c, buffer>>

(* The tokens go to the parser.                                            *)
Stop == pc = "done" /\ UNCHANGED vars

Next ==
  \/ SkipBlanks
  \/ SkipOne
  \/ ReadPunctuation
  \/ ReadOperator
  \/ BeginComment
  \/ SkipComment
  \/ BeginNumber
  \/ ReadNumber
  \/ BeginString
  \/ ReadString
  \/ BeginWord
  \/ ReadWord
  \/ EndWord
  \/ EndOfText
  \/ Stop

Spec == Init /\ [][Next]_vars

(* tokenize runs on one thread.                                            *)
FairSpec == Spec /\ WF_vars(Next)

-----------------------------------------------------------------------------
(***************************************************************************)
(* Properties                                                              *)
(***************************************************************************)

TypeOK ==
  /\ cur \in 0..Size
  /\ pc \in {"skipws", "next", "comment", "number", "string", "word", "done"}
  /\ c \in Alphabet \cup {Nul}
  /\ \A i \in DOMAIN buffer : buffer[i] \in Alphabet
  /\ \A i \in DOMAIN tokens : tokens[i].at \in 0..cur

(***************************************************************************)
(* At the end the tokens are the lexemes of the text, the longest ones     *)
(* from left to right, with their kinds and values.                        *)
(***************************************************************************)
InBounds == EndsClearly(source)

Scanned == SubSeq(tokens, 2, Len(tokens) - 1)

HaveValue == {"symbol", "integer_literal", "double_literal", "string_literal"}

TokensAreLongestLexemes ==
  pc = "done" /\ InBounds =>
    LET L == Lexemes(source)
    IN  /\ Len(Scanned) = Len(L)
        /\ \A i \in DOMAIN L :
             /\ Scanned[i].kind = L[i].kind
             /\ Scanned[i].value =
                  IF L[i].kind \in HaveValue
                  THEN Inner(SubSeq(source, L[i].from + 1, L[i].to)) ELSE <<>>

(***************************************************************************)
(* The position of a token, from which the excerpt in an error message is  *)
(* cut, lies on the line the token ends on, not before its beginning and   *)
(* not after its end.                                                      *)
(***************************************************************************)
PositionsAreOnTheToken ==
  pc = "done" /\ InBounds =>
    \A i \in DOMAIN Scanned :
      LET l == Lexemes(source)[i]
      IN  /\ Scanned[i].at \in l.from..l.to
          /\ Newline \notin ToSet(SubSeq(source, Scanned[i].at + 1, l.to))

(***************************************************************************)
(* The buffer is read out of bounds only if the text is empty or ends with *)
(* a blank, an operator or a word.                                         *)
(***************************************************************************)
ReadsBeyond ==
  \/ pc = "skipws" /\ cur = Size
  \/ pc = "next" /\ cur + 1 = Size /\ Here \in Operators
  \/ pc = "word" /\ c \in WordChars /\ cur + 1 >= Size
  \/ pc = "word" /\ cur = Size

ReadsStayInBounds == InBounds => ~ ReadsBeyond

(***************************************************************************)
(* A text whose strings are closed and whose comments end with a newline   *)
(* is tokenized to the end.  (Of a text that ends within one of them the   *)
(* loop never comes out.)                                                  *)
(***************************************************************************)
ClosedTextsEnd == InBounds /\ Closed(source) ~> pc = "done"

=============================================================================
