-------------------------- MODULE Tokenizer_proof ---------------------------
(***************************************************************************)
(* For all source texts and all that may lie behind the buffer: the        *)
(* variables of the tokenizer stay well typed, and a text that does not    *)
(* end with a blank, an operator or a word is read within its bounds, its  *)
(* tokens are its longest lexemes, and the excerpts in error messages show *)
(* them.                                                                   *)
(***************************************************************************)
EXTENDS Diagnostics, TLAPS, WellFoundedInduction, FiniteSetTheorems, SequenceTheorems

(***************************************************************************)
(* The words around a blank.                                               *)
(***************************************************************************)
LEMMA Least ==
  ASSUME NEW T, T \subseteq Nat, T # {}
  PROVE  \E n \in T : \A m \in T : n <= m
  <1>1. PICK n \in T : \A m \in T : ~ (<<m, n>> \in OpToRel(<, Nat))
    BY NatLessThanWellFounded, WFMin
  <1>2. \A m \in T : ~ (m < n)
    BY <1>1 DEF OpToRel
  <1> QED
    BY <1>2, SMT

LEMMA WordEndExists ==
  ASSUME source \in Seq(Alphabet), NEW s \in 0..Size
  PROVE  /\ WordEnd(s) \in s..Size
         /\ WordEnd(s) < Size => IsBlankAt(WordEnd(s))
         /\ \A j \in s..(WordEnd(s) - 1) : ~ IsBlankAt(j)
  <1> DEFINE T == {e \in s..Size : e < Size => IsBlankAt(e)}
  <1>1. Size \in Nat
    BY DEF Size
  <1>2. T \subseteq Nat /\ Size \in T
    BY <1>1
  <1>3. PICK e \in T : \A m \in T : e <= m
    BY <1>2, Least
  <1>4. \A j \in s..(e - 1) : ~ IsBlankAt(j)
    BY <1>1, <1>3
  <1> QED
    BY <1>3, <1>4 DEF WordEnd

(* From a blank the next word starts behind the blanks.                    *)
LEMMA WordStartAfterBlanks ==
  ASSUME source \in Seq(Alphabet), NEW i \in 0..Size, i < Size, IsBlankAt(i)
  PROVE  /\ WordStart(i) \in i..Size
         /\ WordStart(i) < Size => ~ IsBlankAt(WordStart(i))
         /\ \A j \in i..(WordStart(i) - 1) : IsBlankAt(j)
  <1> DEFINE T == {s \in i..Size : s < Size => ~ IsBlankAt(s)}
  <1>1. Size \in Nat
    BY DEF Size
  <1>2. T \subseteq Nat /\ Size \in T
    BY <1>1
  <1>3. PICK s \in T : \A m \in T : s <= m
    BY <1>2, Least
  <1>4. \A j \in i..(s - 1) : IsBlankAt(j)
    BY <1>1, <1>3
  <1> QED
    BY <1>3, <1>4 DEF WordStart

(* Elsewhere the word around i starts behind the last blank before i.      *)
LEMMA WordStartBehindBlank ==
  ASSUME source \in Seq(Alphabet), NEW i \in 0..Size, ~ (i < Size /\ IsBlankAt(i))
  PROVE  /\ WordStart(i) \in 0..i
         /\ \A j \in WordStart(i)..(i - 1) : ~ IsBlankAt(j)
  <1> DEFINE T == {d \in 0..i : d < i => IsBlankAt(i - d - 1)}
  <1>1. Size \in Nat
    BY DEF Size
  <1>2. T \subseteq Nat /\ i \in T
    BY <1>1
  <1>3. PICK d \in T : \A m \in T : d <= m
    BY <1>2, Least
  <1>4. i - d \in 0..i /\ (i - d > 0 => IsBlankAt(i - d - 1))
    BY <1>1, <1>3
  <1>5. ASSUME NEW j \in (i - d)..(i - 1)
        PROVE  ~ IsBlankAt(j)
    <2>1. i - j - 1 \in 0..(d - 1) /\ i - (i - j - 1) - 1 = j
      BY <1>1, <1>3, <1>5
    <2>2. d \in Nat /\ ~ (d <= i - j - 1)
      BY <1>1, <1>3, <2>1
    <2>3. i - j - 1 \notin T
      BY <1>3, <2>2, Zenon
    <2> QED
      BY <1>1, <1>3, <2>1, <2>3
  <1>6. \E s \in 0..i : /\ s > 0 => IsBlankAt(s - 1)
                        /\ \A j \in s..(i - 1) : ~ IsBlankAt(j)
    BY <1>4, <1>5
  <1> QED
    BY <1>6 DEF WordStart

LEMMA WordStartExists ==
  ASSUME source \in Seq(Alphabet), NEW i \in 0..Size
  PROVE  LET s == WordStart(i)
         IN  /\ s \in 0..Size
             /\ s < i => \A j \in s..(i - 1) : ~ IsBlankAt(j)
  <1>1. Size \in Nat
    BY DEF Size
  <1> QED
    BY <1>1, WordStartAfterBlanks, WordStartBehindBlank

(* The cursor does not go back behind a keyword that is looked at.         *)
LEMMA NextWordIsAhead ==
  ASSUME source \in Seq(Alphabet), NEW i \in 0..Size
  PROVE  /\ WordStart(i) \in 0..Size
         /\ WordEnd(WordStart(i)) \in i..Size
         /\ WordStart(i) <= WordEnd(WordStart(i))
  <1> DEFINE s == WordStart(i)
             e == WordEnd(s)
  <1>1. Size \in Nat
    BY DEF Size
  <1>2. s \in 0..Size /\ (s < i => \A j \in s..(i - 1) : ~ IsBlankAt(j))
    BY WordStartExists
  <1>3. e \in s..Size /\ (e < Size => IsBlankAt(e))
    BY <1>2, WordEndExists
  <1> HIDE DEF s, e
  <1>4. e >= i
    <2>1. SUFFICES ASSUME e < i PROVE FALSE
      BY <1>1, <1>2, <1>3
    <2>2. IsBlankAt(e) /\ s < i /\ e \in s..(i - 1)
      BY <1>1, <1>2, <1>3, <2>1
    <2> QED
      BY <1>2, <2>2
  <1> QED
    BY <1>1, <1>2, <1>3, <1>4 DEF s, e

(***************************************************************************)
(* Type correctness.                                                       *)
(***************************************************************************)
Kinds ==
  {"bof", "eof", "symbol", "string_literal", "double_literal", "integer_literal", "else_if_stmt"}
  \cup {Punctuation[x] : x \in DOMAIN Punctuation}
  \cup {Single[x] : x \in DOMAIN Single}
  \cup {Double[p] : p \in DOMAIN Double}
  \cup {Keywords[w] : w \in DOMAIN Keywords}

Tokens == [kind : Kinds, value : Seq(Alphabet), at : Nat]

TypeInv ==
  /\ source \in Seq(Alphabet)
  /\ cur \in 0..Size
  /\ pc \in {"skipws", "next", "comment", "number", "string", "word", "done"}
  /\ c \in Alphabet \cup {Nul}
  /\ buffer \in Seq(Alphabet)
  /\ tokens \in Seq(Tokens)
  /\ \A i \in 1..Len(tokens) : tokens[i].at <= cur

LEMMA CharactersRead ==
  ASSUME TypeInv
  PROVE  /\ Size \in Nat
         /\ \A i \in Nat : At(i) \subseteq Alphabet
         /\ cur < Size => Here = source[cur + 1] /\ Here \in Alphabet
         /\ cur >= Size => Here = Nul
         /\ Advanced(1) \in cur..Size
         /\ cur < Size => Advanced(1) = cur + 1
         /\ Advanced(2) \in Advanced(1)..Size
  BY BeyondAreCharacters DEF TypeInv, Size, At, Here, Advanced

LEMMA NulIsNoCharacter == Nul \notin Alphabet
  BY DEF Nul, Alphabet, WordChars, NumberChars, Letters, Digits, Blanks, Operators, Delimiters,
         Newline, Quote

LEMMA ClassesAreCharacters ==
  /\ WordChars \subseteq Alphabet
  /\ NumberChars \subseteq Alphabet
  BY DEF Alphabet

LEMMA TokenPositions ==
  ASSUME TypeInv, NEW i \in 1..Len(tokens)
  PROVE  tokens[i].at <= cur /\ tokens[i].at \in Nat
  <1>1. tokens \in Seq(Tokens) /\ tokens[i].at <= cur
    BY DEF TypeInv
  <1>2. tokens[i] \in Tokens
    BY <1>1
  <1>3. \A t \in Tokens : t.at \in Nat
    BY DEF Tokens
  <1> QED
    BY <1>1, <1>2, <1>3

(* A token more, while the cursor does not go back.                        *)
LEMMA TokenMore ==
  ASSUME TypeInv, source' = source, cur' \in cur..Size,
         NEW k \in Kinds, NEW v \in Seq(Alphabet), NEW a \in 0..cur',
         tokens' = Append(tokens, Token(k, v, a))
  PROVE  /\ tokens' \in Seq(Tokens)
         /\ \A i \in 1..Len(tokens') : tokens'[i].at <= cur'
  <1>1. Size \in Nat /\ cur \in Nat /\ cur' \in Nat /\ cur <= cur'
    BY DEF TypeInv, Size
  <1>2. Token(k, v, a) \in Tokens /\ Token(k, v, a).at = a
    BY <1>1 DEF Token, Tokens
  <1> DEFINE t == Token(k, v, a)
  <1> HIDE DEF t
  <1>3. tokens \in Seq(Tokens) /\ t \in Tokens /\ t.at = a /\ tokens' = Append(tokens, t)
    BY <1>2 DEF TypeInv, t
  <1>4. tokens' \in Seq(Tokens) /\ Len(tokens') = Len(tokens) + 1
    BY <1>3
  <1>5. ASSUME NEW i \in 1..Len(tokens')
        PROVE  tokens'[i].at <= cur'
    <2>1. CASE i = Len(tokens) + 1
      <3>1. tokens'[i] = t
        BY <1>3, <2>1
      <3> QED
        BY <3>1, <1>1, <1>3
    <2>2. CASE i # Len(tokens) + 1
      <3>1. i \in 1..Len(tokens) /\ tokens'[i] = tokens[i]
        BY <1>3, <1>4, <2>2
      <3>2. tokens[i].at <= cur /\ tokens[i].at \in Nat
        BY <3>1, TokenPositions
      <3> QED
        BY <3>1, <3>2, <1>1
    <2> QED
      BY <2>1, <2>2
  <1> QED
    BY <1>4, <1>5

(* No token more.                                                          *)
LEMMA SameTokens ==
  ASSUME TypeInv, source' = source, cur' \in cur..Size, tokens' = tokens
  PROVE  /\ tokens' \in Seq(Tokens)
         /\ \A i \in 1..Len(tokens') : tokens'[i].at <= cur'
  <1>1. Size \in Nat /\ cur \in Nat /\ cur' \in Nat /\ cur <= cur'
    BY DEF TypeInv, Size
  <1>2. \A i \in 1..Len(tokens) : tokens[i].at <= cur /\ tokens[i].at \in Nat
    BY TokenPositions
  <1> QED
    BY <1>1, <1>2 DEF TypeInv

LEMMA KindsAreKinds ==
  /\ {"bof", "eof", "symbol", "string_literal", "double_literal", "integer_literal",
      "else_if_stmt"} \subseteq Kinds
  /\ \A x \in DOMAIN Punctuation : Punctuation[x] \in Kinds
  /\ \A x \in Operators : Single[x] \in Kinds
  /\ \A p \in DOMAIN Double : Double[p] \in Kinds
  /\ \A w \in DOMAIN Keywords : Keywords[w] \in Kinds
  <1>1. Operators = DOMAIN Single
    BY DEF Single
  <1> QED
    BY <1>1, Zenon DEF Kinds

LEMMA TypeInvInit == Init => TypeInv
  <1> SUFFICES ASSUME Init PROVE TypeInv
    OBVIOUS
  <1>1. source \in Seq(Alphabet) /\ Len(source) \in Nat
    BY SourcesAreTexts DEF Init
  <1>2. <<>> \in Seq(Alphabet)
    OBVIOUS
  <1> DEFINE t == Token("bof", <<>>, 0)
  <1>3. t \in Tokens /\ t.at = 0
    BY <1>2, KindsAreKinds DEF Token, Tokens
  <1>4. tokens = <<t>>
    BY DEF Init
  <1> HIDE DEF t
  <1>5. tokens \in Seq(Tokens) /\ \A i \in 1..Len(tokens) : tokens[i].at <= 0
    BY <1>3, <1>4
  <1> QED
    BY <1>1, <1>2, <1>5 DEF Init, TypeInv, Size

LEMMA TypeInvNext ==
  ASSUME TypeInv, Next
  PROVE  TypeInv'
  <1> USE CharactersRead, ClassesAreCharacters, KindsAreKinds
  <1>1. cur \in 0..Size /\ <<>> \in Seq(Alphabet)
    BY DEF TypeInv
  <1>2. CASE SkipBlanks
    <2>1. cur' \in cur..Size
      BY <1>1, <1>2 DEF SkipBlanks
    <2> QED
      BY <1>1, <1>2, <2>1, SameTokens DEF SkipBlanks, TypeInv, Size
  <1>3. CASE SkipOne
    <2>1. cur' \in cur..Size
      BY <1>1, <1>3 DEF SkipOne
    <2> QED
      BY <1>1, <1>3, <2>1, SameTokens DEF SkipOne, TypeInv, Size
  <1>4. CASE ReadPunctuation
    <2>1. Here \in DOMAIN Punctuation /\ cur' \in cur..Size
      BY <1>1, <1>4 DEF ReadPunctuation, On
    <2>2. Punctuation[Here] \in Kinds /\ cur \in 0..cur'
      BY <1>1, <2>1, KindsAreKinds
    <2>3. tokens' = Append(tokens, Token(Punctuation[Here], <<>>, cur)) /\ source' = source
      BY <1>4 DEF ReadPunctuation, Emplace
    <2>4. tokens' \in Seq(Tokens) /\ \A i \in 1..Len(tokens') : tokens'[i].at <= cur'
      BY <1>1, <2>1, <2>2, <2>3, TokenMore
    <2> QED
      BY <1>1, <1>4, <2>1, <2>4 DEF ReadPunctuation, TypeInv, Size
  <1>5. CASE ReadOperator
    <2>1. Here \in Operators /\ source' = source
      BY <1>5 DEF ReadOperator, On
    <2>2. PICK x \in Ahead :
             IF <<Here, x>> \in DOMAIN Double
             THEN /\ tokens' = Append(tokens, Token(Double[<<Here, x>>], <<>>, Advanced(1)))
                  /\ cur' = Advanced(2)
             ELSE /\ Emplace(Single[Here], <<>>)
                  /\ cur' = Advanced(1)
      BY <1>5 DEF ReadOperator
    <2>3. /\ cur' \in cur..Size
          /\ tokens' \in Seq(Tokens)
          /\ \A i \in 1..Len(tokens') : tokens'[i].at <= cur'
      <3>1. CASE <<Here, x>> \in DOMAIN Double
        <4>1. cur' \in cur..Size /\ Advanced(1) \in 0..cur'
          BY <1>1, <2>2, <3>1
        <4>2. Double[<<Here, x>>] \in Kinds
          BY <3>1, KindsAreKinds
        <4>3. tokens' = Append(tokens, Token(Double[<<Here, x>>], <<>>, Advanced(1)))
          BY <2>2, <3>1
        <4> QED
          BY <1>1, <2>1, <4>1, <4>2, <4>3, TokenMore
      <3>2. CASE <<Here, x>> \notin DOMAIN Double
        <4>1. cur' \in cur..Size /\ cur \in 0..cur'
          BY <1>1, <2>2, <3>2
        <4>2. Single[Here] \in Kinds
          BY <2>1, KindsAreKinds
        <4>3. tokens' = Append(tokens, Token(Single[Here], <<>>, cur))
          BY <2>2, <3>2 DEF Emplace
        <4> QED
          BY <1>1, <2>1, <4>1, <4>2, <4>3, TokenMore
      <3> QED
        BY <3>1, <3>2
    <2> QED
      BY <1>1, <1>5, <2>3 DEF ReadOperator, TypeInv, Size
  <1>6. CASE BeginComment
    <2>1. cur' \in cur..Size
      BY <1>1, <1>6 DEF BeginComment
    <2> QED
      BY <1>1, <1>6, <2>1, SameTokens DEF BeginComment, TypeInv, Size
  <1>7. CASE SkipComment
    <2>1. cur' \in cur..Size
      BY <1>1, <1>7 DEF SkipComment
    <2> QED
      BY <1>1, <1>7, <2>1, SameTokens DEF SkipComment, TypeInv, Size
  <1>8. CASE BeginNumber
    <2>1. cur' \in cur..Size
      BY <1>1, <1>8 DEF BeginNumber
    <2> QED
      BY <1>1, <1>8, <2>1, SameTokens DEF BeginNumber, TypeInv, Size
  <1>9. CASE ReadNumber
    <2>1. source' = source /\ c' = c
      BY <1>9 DEF ReadNumber
    <2>2. CASE Here \in NumberChars
      <3>1. cur' \in cur..Size /\ tokens' = tokens /\ pc' = pc
        BY <1>1, <1>9, <2>2 DEF ReadNumber
      <3>2. buffer' \in Seq(Alphabet)
        <4>1. buffer' = Append(buffer, Here)
          BY <1>9, <2>2 DEF ReadNumber
        <4>2. Here \in Alphabet /\ buffer \in Seq(Alphabet)
          BY <2>2 DEF TypeInv
        <4> QED
          BY <4>1, <4>2
      <3> QED
        BY <1>1, <2>1, <3>1, <3>2, SameTokens DEF TypeInv, Size
    <2>3. CASE Here \notin NumberChars
      <3>1. cur' = cur /\ pc' = "next" /\ buffer' = <<>>
        BY <1>9, <2>3 DEF ReadNumber
      <3>2. PICK k \in Kinds : tokens' = Append(tokens, Token(k, buffer, cur))
        BY <1>9, <2>3, KindsAreKinds DEF ReadNumber, Emplace
      <3>3. buffer \in Seq(Alphabet) /\ cur' \in cur..Size /\ cur \in 0..cur'
        BY <1>1, <3>1 DEF TypeInv
      <3>4. tokens' \in Seq(Tokens) /\ \A i \in 1..Len(tokens') : tokens'[i].at <= cur'
        BY <2>1, <3>2, <3>3, TokenMore
      <3> QED
        BY <1>1, <2>1, <3>1, <3>4 DEF TypeInv, Size
    <2> QED
      BY <2>2, <2>3
  <1>10. CASE BeginString
    <2>1. cur' \in cur..Size
      BY <1>1, <1>10 DEF BeginString
    <2> QED
      BY <1>1, <1>10, <2>1, SameTokens DEF BeginString, TypeInv, Size
  <1>11. CASE ReadString
    <2>1. source' = source /\ c' = c /\ cur' \in cur..Size /\ cur' = Advanced(1)
      BY <1>11 DEF ReadString
    <2>2. CASE Here # Quote
      <3>1. tokens' = tokens /\ pc' = pc
        BY <1>11, <2>2 DEF ReadString
      <3>2. Here = Nul \/ Here \in Alphabet
        BY <1>1
      <3>3. buffer' \in Seq(Alphabet)
        <4>1. buffer' = IF Here = Nul THEN buffer ELSE Append(buffer, Here)
          BY <1>11, <2>2 DEF ReadString
        <4>2. buffer \in Seq(Alphabet)
          BY DEF TypeInv
        <4> QED
          BY <3>2, <4>1, <4>2
      <3> QED
        BY <1>1, <2>1, <3>1, <3>3, SameTokens DEF TypeInv, Size
    <2>3. CASE Here = Quote
      <3>1. pc' = "next" /\ buffer' = <<>>
        BY <1>11, <2>3 DEF ReadString
      <3>2. tokens' = Append(tokens, Token("string_literal", buffer, Advanced(1)))
        BY <1>11, <2>3 DEF ReadString
      <3>3. buffer \in Seq(Alphabet) /\ Advanced(1) \in 0..cur' /\ "string_literal" \in Kinds
        BY <1>1, <2>1, KindsAreKinds DEF TypeInv
      <3>4. tokens' \in Seq(Tokens) /\ \A i \in 1..Len(tokens') : tokens'[i].at <= cur'
        BY <2>1, <3>2, <3>3, TokenMore
      <3> QED
        BY <1>1, <2>1, <3>1, <3>4 DEF TypeInv, Size
    <2> QED
      BY <2>2, <2>3
  <1>12. CASE BeginWord
    <2>1. cur' \in cur..Size /\ c' \in Alphabet
      BY <1>1, <1>12 DEF BeginWord, On
    <2> QED
      BY <1>1, <1>12, <2>1, SameTokens DEF BeginWord, TypeInv, Size
  <1>13. CASE ReadWord
    <2>1. cur' \in cur..Size /\ cur' \in Nat
      BY <1>1, <1>13 DEF ReadWord
    <2>2. At(cur) \subseteq Alphabet
      BY <1>1
    <2>3. c' \in Alphabet
      BY <1>13, <2>1, BeyondAreCharacters DEF ReadWord, At, TypeInv, Size
    <2>4. buffer' \in Seq(Alphabet)
      BY <1>13 DEF ReadWord, TypeInv
    <2> QED
      BY <1>1, <1>13, <2>1, <2>3, <2>4, SameTokens DEF ReadWord, TypeInv, Size
  <1>14. CASE EndWord
    <2>1. source' = source /\ c' = Nul /\ buffer' = <<>>
      BY <1>14 DEF EndWord
    <2>2. PICK k \in Kinds, v \in Seq(Alphabet) : tokens' = Append(tokens, Token(k, v, cur))
      <3>1. buffer \in Seq(Alphabet)
        BY DEF TypeInv
      <3> QED
        BY <1>1, <1>14, <3>1, KindsAreKinds DEF EndWord, Emplace
    <2>3. cur' \in cur..Size /\ pc' \in {"skipws", "next"}
      <3>1. WordEnd(WordStart(cur)) \in cur..Size
        BY <1>1, NextWordIsAhead DEF TypeInv
      <3>2. \/ cur' = WordEnd(WordStart(cur)) /\ pc' = "skipws"
            \/ cur' = cur /\ pc' = "next"
        BY <1>14 DEF EndWord
      <3> QED
        BY <1>1, <3>1, <3>2
    <2>4. cur \in 0..cur'
      BY <1>1, <2>3
    <2>5. tokens' \in Seq(Tokens) /\ \A i \in 1..Len(tokens') : tokens'[i].at <= cur'
      BY <2>1, <2>2, <2>3, <2>4, TokenMore
    <2> QED
      BY <1>1, <2>1, <2>3, <2>5 DEF TypeInv, Size
  <1>15. CASE EndOfText
    <2>1. /\ source' = source /\ cur' \in cur..Size /\ cur \in 0..cur' /\ "eof" \in Kinds
          /\ tokens' = Append(tokens, Token("eof", <<>>, cur))
      BY <1>1, <1>15, KindsAreKinds DEF EndOfText, Emplace
    <2>2. tokens' \in Seq(Tokens) /\ \A i \in 1..Len(tokens') : tokens'[i].at <= cur'
      BY <1>1, <2>1, TokenMore
    <2> QED
      BY <1>1, <1>15, <2>1, <2>2 DEF EndOfText, TypeInv, Size
  <1>16. CASE Stop
    <2>1. cur' \in cur..Size
      BY <1>1, <1>16 DEF Stop, vars
    <2> QED
      BY <1>1, <1>16, <2>1, SameTokens DEF Stop, vars, TypeInv, Size
  <1> QED
    BY <1>2, <1>3, <1>4, <1>5, <1>6, <1>7, <1>8, <1>9, <1>10, <1>11, <1>12, <1>13, <1>14,
       <1>15, <1>16 DEF Next

(***************************************************************************)
(* The variables of the tokenizer stay well typed.                         *)
(***************************************************************************)
THEOREM TokenizerTypeCorrect == Spec => []TypeOK
  <1>1. Init => TypeInv
    BY TypeInvInit
  <1>2. TypeInv /\ [Next]_vars => TypeInv'
    <2>1. ASSUME TypeInv, UNCHANGED vars
          PROVE  TypeInv'
      BY <2>1 DEF TypeInv, vars, Size
    <2> QED
      BY <2>1, TypeInvNext
  <1>3. TypeInv => TypeOK
    <2>1. ASSUME TypeInv
          PROVE  TypeOK
      <3>1. \A i \in DOMAIN tokens : tokens[i].at \in 0..cur
        <4>1. DOMAIN tokens = 1..Len(tokens) /\ cur \in Nat
          BY <2>1, CharactersRead DEF TypeInv
        <4> QED
          BY <2>1, <4>1, TokenPositions
      <3>2. \A i \in DOMAIN buffer : buffer[i] \in Alphabet
        BY <2>1 DEF TypeInv
      <3> QED
        BY <2>1, <3>1, <3>2 DEF TypeInv, TypeOK
    <2> QED
      BY <2>1
  <1> QED
    BY <1>1, <1>2, <1>3, PTL DEF Spec

(***************************************************************************)
(* Reads.  In a text that ends clearly the loop of skipws and that over a  *)
(* word are never at the end, and the latter has read the character at the *)
(* cursor.                                                                 *)
(***************************************************************************)
NeverAtTheEnd ==
  InBounds =>
    /\ pc \in {"skipws", "word"} => cur < Size
    /\ pc = "word" /\ c \in WordChars => c = source[cur + 1]

LEMMA LastIsNone ==
  ASSUME TypeInv, InBounds
  PROVE  Size > 0 /\ source[Size] \notin Blanks \cup Operators \cup WordChars
  <1>1. source # <<>> /\ Last(source) = source[Size]
    BY DEF InBounds, EndsClearly, Last, Size
  <1>2. Size # 0 /\ Size \in Nat
    BY <1>1 DEF TypeInv, Size
  <1> QED
    BY <1>1, <1>2 DEF InBounds, EndsClearly

(* The word that follows is the keyword if.                                *)
LEMMA NextWordIsIf ==
  ASSUME TypeInv, NextWord = <<"i">>
  PROVE  LET s == WordStart(cur)  e == WordEnd(s)
         IN  s \in Nat /\ e = s + 1 /\ e \in cur..Size /\ source[e] = "i"
  <1> DEFINE s == WordStart(cur)
             e == WordEnd(s)
             w == SubSeq(source, s + 1, e)
  <1>1. Size \in Nat /\ s \in 0..Size /\ e \in cur..Size /\ s <= e /\ cur \in 0..Size
    BY NextWordIsAhead, CharactersRead DEF TypeInv
  <1> HIDE DEF s, e
  <1>2. source \in Seq(Alphabet) /\ Len(source) = Size
    BY DEF TypeInv, Size
  <1>3. s + 1 \in 1..(Len(source) + 1) /\ e \in s..Len(source)
    BY <1>1, <1>2
  <1>4. Len(w) = e - s /\ \A j \in 1..(e - s) : w[j] = source[s + j]
    BY <1>1, <1>2, <1>3, SubSeqProperties
  <1>5. w = <<"i">>
    BY DEF NextWord, s, e
  <1> HIDE DEF w
  <1>6. Len(w) = 1 /\ w[1] = "i"
    BY <1>5
  <1>7. s \in Nat /\ e \in Nat
    BY <1>1
  <1>8. e - s = 1 /\ s + 1 = e
    <2>1. e - s = 1
      BY <1>4, <1>6, Zenon
    <2> QED
      BY <1>7, <2>1
  <1>9. w[1] = source[s + 1]
    BY <1>4, <1>8
  <1> QED
    BY <1>1, <1>6, <1>7, <1>8, <1>9 DEF s, e

(* It is not the end of the text.                                          *)
LEMMA IfIsNotLast ==
  ASSUME TypeInv, InBounds, NextWord = <<"i">>
  PROVE  WordEnd(WordStart(cur)) < Size
  <1>1. PICK e : e = WordEnd(WordStart(cur))
    OBVIOUS
  <1>2. e \in cur..Size /\ source[e] = "i" /\ Size \in Nat /\ cur \in Nat
    BY <1>1, NextWordIsIf, CharactersRead DEF TypeInv
  <1>3. "i" \in WordChars
    BY DEF WordChars, Letters
  <1>4. e # Size
    BY <1>2, <1>3, LastIsNone
  <1> QED
    BY <1>1, <1>2, <1>4

LEMMA NeverAtTheEndNext ==
  ASSUME TypeInv, NeverAtTheEnd, Next
  PROVE  NeverAtTheEnd'
  <1>1. SUFFICES ASSUME InBounds
                 PROVE  /\ pc' \in {"skipws", "word"} => cur' < Size
                        /\ pc' = "word" /\ c' \in WordChars => c' = source[cur' + 1]
    BY DEF Next, NeverAtTheEnd, InBounds, Size, Stop, vars, SkipBlanks, SkipOne, ReadPunctuation,
           ReadOperator, BeginComment, SkipComment, BeginNumber, ReadNumber, BeginString,
           ReadString, BeginWord, ReadWord, EndWord, EndOfText
  <1>2. Size \in Nat /\ cur \in 0..Size
    BY CharactersRead DEF TypeInv
  <1>3. /\ pc \in {"skipws", "word"} => cur < Size
        /\ pc = "word" /\ c \in WordChars => c = source[cur + 1]
    BY <1>1 DEF NeverAtTheEnd
  <1>4. source[Size] \notin Blanks \cup Operators \cup WordChars
    BY <1>1, LastIsNone
  <1>5. CASE SkipBlanks
    <2>1. cur < Size /\ At(cur) = {source[cur + 1]}
      BY <1>3, <1>5 DEF SkipBlanks, At
    <2>2. CASE source[cur + 1] \in Blanks
      <3>1. cur + 1 # Size /\ cur' = Advanced(1) /\ pc' = "skipws"
        BY <1>4, <1>5, <2>1, <2>2 DEF SkipBlanks
      <3>2. cur' < Size
        BY <1>2, <2>1, <3>1, CharactersRead
      <3> QED
        BY <3>1, <3>2
    <2>3. CASE source[cur + 1] \notin Blanks
      BY <1>5, <2>1, <2>3 DEF SkipBlanks
    <2> QED
      BY <2>2, <2>3
  <1>6. CASE BeginWord
    BY <1>2, <1>6, CharactersRead DEF BeginWord, On
  <1>7. CASE ReadWord
    <2>1. cur < Size /\ c = source[cur + 1] /\ c \in WordChars
      BY <1>3, <1>7 DEF ReadWord
    <2>2. cur + 1 # Size
      BY <1>4, <2>1
    <2>3. cur' = cur + 1 /\ cur' < Size
      BY <1>2, <1>7, <2>1, <2>2, CharactersRead DEF ReadWord
    <2>4. c' = source[cur' + 1]
      BY <1>7, <2>3 DEF ReadWord, At
    <2> QED
      BY <2>3, <2>4
  <1>8. CASE EndWord
    <2>1. \/ NextWord = <<"i">> /\ cur' = WordEnd(WordStart(cur)) /\ pc' = "skipws"
          \/ cur' = cur /\ pc' = "next"
      BY <1>8 DEF EndWord
    <2> QED
      BY <1>1, <2>1, IfIsNotLast
  <1>9. CASE \/ SkipOne \/ ReadPunctuation \/ ReadOperator \/ EndOfText \/ Stop
    BY <1>3, <1>9 DEF SkipOne, ReadPunctuation, ReadOperator, EndOfText, Stop, vars, On
  <1>10. CASE \/ BeginComment \/ SkipComment \/ BeginNumber \/ ReadNumber
              \/ BeginString \/ ReadString
    BY <1>10 DEF BeginComment, SkipComment, BeginNumber, ReadNumber, BeginString, ReadString
  <1> QED
    BY <1>5, <1>6, <1>7, <1>8, <1>9, <1>10 DEF Next

(***************************************************************************)
(* The buffer is read out of bounds only if the text is empty or ends with *)
(* a blank, an operator or a word, whatever lies behind it.                *)
(***************************************************************************)
THEOREM TokenizerStaysInBounds == Spec => []ReadsStayInBounds
  <1>1. Init => TypeInv /\ NeverAtTheEnd
    <2>1. ASSUME Init
          PROVE  TypeInv /\ NeverAtTheEnd
      <3>1. TypeInv
        BY <2>1, TypeInvInit
      <3> QED
        BY <2>1, <3>1, LastIsNone DEF Init, NeverAtTheEnd
    <2> QED
      BY <2>1
  <1>2. TypeInv /\ NeverAtTheEnd /\ [Next]_vars => (TypeInv /\ NeverAtTheEnd)'
    <2>1. ASSUME TypeInv, NeverAtTheEnd, UNCHANGED vars
          PROVE  (TypeInv /\ NeverAtTheEnd)'
      BY <2>1 DEF TypeInv, NeverAtTheEnd, InBounds, vars, Size
    <2> QED
      BY <2>1, TypeInvNext, NeverAtTheEndNext
  <1>3. TypeInv /\ NeverAtTheEnd => ReadsStayInBounds
    <2>1. SUFFICES ASSUME TypeInv, NeverAtTheEnd, InBounds
                   PROVE  ~ ReadsBeyond
      BY DEF ReadsStayInBounds
    <2>2. Size \in Nat /\ cur \in 0..Size
      BY <2>1, CharactersRead DEF TypeInv
    <2>3. Size > 0 /\ source[Size] \notin Blanks \cup Operators \cup WordChars
      BY <2>1, LastIsNone
    <2>4. ~ (pc = "next" /\ cur + 1 = Size /\ Here \in Operators)
      BY <2>2, <2>3 DEF Here
    <2>5. ~ (pc = "word" /\ c \in WordChars /\ cur + 1 >= Size)
      BY <2>1, <2>2, <2>3 DEF NeverAtTheEnd
    <2> QED
      BY <2>1, <2>2, <2>4, <2>5 DEF ReadsBeyond, NeverAtTheEnd
  <1> QED
    BY <1>1, <1>2, <1>3, PTL DEF Spec

(***************************************************************************)
(* The longest lexemes from left to right.  LexemesFrom is a recursive     *)
(* function: what it yields at a place is made of what it yields behind    *)
(* that place, so that a function that conforms to the definition exists   *)
(* (were there none from some last place on, one place more could be       *)
(* added), and the one that is chosen can be unfolded.                     *)
(***************************************************************************)
(* One step of LexemesFrom, given what it yields for the places behind.    *)
Unfold(s, left, g, i) ==
  IF i = Len(s) THEN <<>>
  ELSE IF LexemeEnds(s, i) = {} THEN g[i + 1]
  ELSE LexemeAt(s, i, left) \o g[Max(LexemeEnds(s, i))]

LEMMA LongestEnd ==
  ASSUME NEW s \in Seq(Alphabet), NEW i \in 0..Len(s), LexemeEnds(s, i) # {}
  PROVE  /\ Max(LexemeEnds(s, i)) \in LexemeEnds(s, i)
         /\ Max(LexemeEnds(s, i)) \in (i + 1)..Len(s)
         /\ \A e \in LexemeEnds(s, i) : e <= Max(LexemeEnds(s, i))
  <1> DEFINE E == LexemeEnds(s, i)
             T == {Len(s) - e : e \in E}
  <1>1. E \subseteq (i + 1)..Len(s) /\ Len(s) \in Nat
    BY DEF LexemeEnds
  <1> HIDE DEF E
  <1>2. T \subseteq Nat /\ T # {}
    BY <1>1 DEF E
  <1>3. PICK t \in T : \A m \in T : t <= m
    BY <1>2, Least
  <1>4. PICK x \in E : t = Len(s) - x
    BY <1>3
  <1>5. ASSUME NEW y \in E PROVE x >= y
    <2>1. t <= Len(s) - y
      BY <1>3
    <2> QED
      BY <1>1, <1>4, <2>1
  <1>6. Max(E) \in E /\ \A y \in E : Max(E) >= y
    BY <1>5 DEF Max
  <1> QED
    BY <1>1, <1>6 DEF E

(* It looks at places behind only.                                         *)
LEMMA UnfoldLooksAhead ==
  ASSUME NEW s \in Seq(Alphabet), NEW left, NEW g, NEW h, NEW i \in 0..Len(s),
         \A j \in (i + 1)..Len(s) : g[j] = h[j]
  PROVE  Unfold(s, left, g, i) = Unfold(s, left, h, i)
  <1>1. CASE i = Len(s)
    BY <1>1 DEF Unfold
  <1>2. CASE i # Len(s) /\ LexemeEnds(s, i) = {}
    <2>1. i + 1 \in (i + 1)..Len(s)
      BY <1>2
    <2> QED
      BY <1>2, <2>1 DEF Unfold
  <1>3. CASE i # Len(s) /\ LexemeEnds(s, i) # {}
    BY <1>3, LongestEnd DEF Unfold
  <1> QED
    BY <1>1, <1>2, <1>3

LEMMA LexemesExist ==
  ASSUME NEW s \in Seq(Alphabet), NEW left
  PROVE  \E g : g = [i \in 0..Len(s) |-> Unfold(s, left, g, i)]
  <1> DEFINE n == Len(s)
             T == {k \in 0..n : \E g : g = [i \in k..n |-> Unfold(s, left, g, i)]}
  <1>1. n \in Nat
    OBVIOUS
  <1> HIDE DEF n
  <1>2. n \in T
    <2> DEFINE g == [i \in n..n |-> <<>>]
    <2>1. \A i \in n..n : Unfold(s, left, g, i) = <<>>
      BY <1>1 DEF Unfold, n
    <2>2. g = [i \in n..n |-> Unfold(s, left, g, i)]
      BY <2>1
    <2> QED
      BY <1>1, <2>2
  <1>3. PICK k \in T : \A m \in T : k <= m
    <2>1. T \subseteq 0..n
      OBVIOUS
    <2> HIDE DEF T
    <2>2. T \subseteq Nat /\ T # {}
      BY <1>1, <1>2, <2>1
    <2> QED
      BY <2>2, Least
  <1>4. PICK g : g = [i \in k..n |-> Unfold(s, left, g, i)]
    BY <1>3
  <1>5. ASSUME k # 0 PROVE FALSE
    <2> DEFINE j == k - 1
               h == [i \in j..n |-> IF i = j THEN Unfold(s, left, g, j) ELSE g[i]]
    <2>1. k \in 1..n /\ j \in 0..n /\ ~ (k <= j)
      BY <1>1, <1>3, <1>5
    <2>2. \A i \in k..n : h[i] = g[i]
      BY <1>1, <2>1
    <2> HIDE DEF j
    <2>3. ASSUME NEW i \in j..n PROVE h[i] = Unfold(s, left, h, i)
      <3> HIDE DEF h
      <3>1. i \in 0..Len(s) /\ \A m \in (i + 1)..Len(s) : h[m] = g[m]
        BY <1>1, <2>1, <2>2 DEF n, j
      <3>2. Unfold(s, left, h, i) = Unfold(s, left, g, i)
        BY <3>1, UnfoldLooksAhead
      <3>3. CASE i = j
        <4>1. h[j] = Unfold(s, left, g, j)
          BY <1>1, <2>1 DEF h
        <4> QED
          BY <3>2, <3>3, <4>1
      <3>4. CASE i # j
        <4>1. i \in k..n
          BY <1>1, <2>1, <3>4 DEF j
        <4>2. g[i] = Unfold(s, left, g, i)
          BY <1>4, <4>1
        <4> QED
          BY <2>2, <3>2, <4>1, <4>2
      <3> QED
        BY <3>3, <3>4
    <2>4. h = [i \in j..n |-> Unfold(s, left, h, i)]
      BY <2>3
    <2>5. j \in T
      BY <2>1, <2>4
    <2> QED
      BY <1>3, <2>1, <2>5
  <1> QED
    BY <1>4, <1>5 DEF n

(* LexemesFrom conforms to its recursive definition.                       *)
LEMMA LexemesUnfold ==
  ASSUME NEW s \in Seq(Alphabet), NEW left, NEW i \in 0..Len(s)
  PROVE  LexemesFrom(s, left)[i] = Unfold(s, left, LexemesFrom(s, left), i)
  <1>1. LexemesFrom(s, left) = CHOOSE g : g = [j \in 0..Len(s) |-> Unfold(s, left, g, j)]
    BY DEF LexemesFrom, Unfold
  <1>2. LexemesFrom(s, left) = [j \in 0..Len(s) |-> Unfold(s, left, LexemesFrom(s, left), j)]
    BY <1>1, LexemesExist
  <1> QED
    BY <1>2

(***************************************************************************)
(* The kinds of texts, by their first character.                           *)
(***************************************************************************)
LEMMA ClassesApart ==
  /\ DOMAIN Punctuation \cap (Operators \cup WordChars \cup {Quote}) = {}
  /\ Operators \cap (WordChars \cup {Quote}) = {} /\ "/" \in Operators
  /\ Quote \notin WordChars /\ "e" \in WordChars \ Digits /\ Digits \subseteq WordChars
  /\ Blanks \cap (DOMAIN Punctuation \cup Operators \cup NumberChars \cup WordChars) = {}
  /\ Newline \notin Operators \cup WordChars \cup {"/"}
  /\ Nul \notin NumberChars \cup {Quote, Newline}
  BY DEF Punctuation, Delimiters, Operators, WordChars, NumberChars, Letters, Digits, Quote,
         Blanks, Newline, Nul

LEMMA DoubleIsOfOperators ==
  ASSUME NEW w \in Seq(Alphabet), w \in DOMAIN Double
  PROVE  Len(w) = 2 /\ w[1] \in Operators /\ w[2] \in {"+", "-", "="}
  <1>1. w \in {<<"+", "+">>, <<"-", "-">>, <<"=", "=">>, <<"<", "=">>, <<">", "=">>, <<"!", "=">>}
    BY DEF Double
  <1>2. PICK x \in Operators, y \in {"+", "-", "="} : w = <<x, y>>
    BY <1>1 DEF Operators
  <1> QED
    BY <1>2

IsNumber(w) == w[1] \in Digits /\ Over(NumberChars, w)
IsWord(w) == w[1] \in WordChars \ Digits /\ Over(WordChars, w)
IsString(w) ==
  /\ Len(w) > 1 /\ w[1] = Quote /\ Last(w) = Quote
  /\ Quote \notin ToSet(Inner(w))
IsComment(w) == IsPrefix(<<"/", "/">>, w) /\ Newline \notin ToSet(w)
IsElseIf(w) ==
  /\ Len(w) > 2 /\ w[1] = "e" /\ Last(w) = "i"
  /\ Over(Blanks, SubSeq(w, 2, Len(w) - 1))

LEMMA CommentBegins ==
  ASSUME NEW w \in Seq(Alphabet), IsPrefix(<<"/", "/">>, w)
  PROVE  Len(w) >= 2 /\ w[1] = "/" /\ w[2] = "/"
  <1>1. Len(w) >= 2 /\ Len(w) \in Nat
    BY DEF IsPrefix
  <1>2. SubSeq(<<"/", "/">>, 1, 2) = SubSeq(w, 1, 2)
    BY DEF IsPrefix
  <1>3. SubSeq(w, 1, 2)[1] = w[1] /\ SubSeq(w, 1, 2)[2] = w[2]
    BY <1>1
  <1>4. SubSeq(<<"/", "/">>, 1, 2)[1] = "/" /\ SubSeq(<<"/", "/">>, 1, 2)[2] = "/"
    OBVIOUS
  <1> QED
    BY <1>1, <1>2, <1>3, <1>4

LEMMA ElseIfIsNoWord ==
  ASSUME NEW w \in Seq(Alphabet), IsElseIf(w)
  PROVE  w[2] \in Blanks /\ ~ IsWord(w)
  <1> DEFINE v == SubSeq(w, 2, Len(w) - 1)
  <1>1. Len(w) > 2 /\ Len(w) \in Nat
    BY DEF IsElseIf
  <1>2. Len(v) = Len(w) - 2 /\ v[1] = w[2] /\ v \in Seq(Alphabet)
    BY <1>1
  <1>3. 1 \in DOMAIN v
    BY <1>1, <1>2
  <1>4. v[1] \in Blanks
    BY <1>3 DEF IsElseIf, Over, ToSet
  <1>5. 2 \in DOMAIN w
    BY <1>1
  <1>6. w[2] \in ToSet(w)
    BY <1>5 DEF ToSet
  <1> QED
    BY <1>2, <1>4, <1>6, ClassesApart DEF IsWord, Over

LEMMA KindByGuards ==
  ASSUME NEW w \in Seq(Alphabet), w # <<>>
  PROVE  KindOf(w) =
           IF Len(w) = 1 /\ w[1] \in DOMAIN Punctuation THEN Punctuation[w[1]]
           ELSE IF Len(w) = 1 /\ w[1] \in Operators THEN Single[w[1]]
           ELSE IF w \in DOMAIN Double THEN Double[w]
           ELSE IF IsNumber(w)
                THEN IF "." \in ToSet(w) THEN "double_literal" ELSE "integer_literal"
           ELSE IF IsWord(w) THEN IF w \in DOMAIN Keywords THEN Keywords[w] ELSE "symbol"
           ELSE IF IsString(w) THEN "string_literal"
           ELSE IF IsComment(w) THEN "comment"
           ELSE IF IsElseIf(w) THEN "else_if_stmt"
           ELSE "none"
  <1>1. IsComment(w) => Len(w) >= 2 /\ w[1] = "/" /\ w[2] = "/"
    BY CommentBegins DEF IsComment
  <1>2. IsElseIf(w) => ~ IsWord(w) /\ w[1] = "e" /\ Len(w) > 2
    BY ElseIfIsNoWord DEF IsElseIf
  <1>3. w \in DOMAIN Double => Len(w) = 2 /\ w[1] \in Operators /\ w[2] \in {"+", "-", "="}
    BY DoubleIsOfOperators
  <1>4. /\ IsNumber(w) => w[1] \in Digits
        /\ IsWord(w) => w[1] \in WordChars \ Digits
        /\ IsString(w) => w[1] = Quote
    BY DEF IsNumber, IsWord, IsString
  <1> QED
    BY <1>1, <1>2, <1>3, <1>4, ClassesApart
    DEF KindOf, IsNumber, IsWord, IsString, IsComment, IsElseIf

(***************************************************************************)
(* Parts of a text.                                                        *)
(***************************************************************************)
LEMMA Slice ==
  ASSUME NEW s \in Seq(Alphabet), NEW i \in Nat, NEW e \in (i + 1)..Len(s)
  PROVE  LET w == SubSeq(s, i + 1, e)
         IN  /\ w \in Seq(Alphabet) /\ w # <<>> /\ Len(w) = e - i
             /\ \A k \in 1..(e - i) : w[k] = s[i + k]
             /\ w[1] = s[i + 1] /\ Last(w) = s[e]
  <1> DEFINE w == SubSeq(s, i + 1, e)
  <1>1. w \in Seq(Alphabet) /\ Len(w) = e - i /\ \A k \in 1..(e - i) : w[k] = s[i + k]
    OBVIOUS
  <1> HIDE DEF w
  <1>2. w # <<>> /\ w[1] = s[i + 1] /\ w[e - i] = s[e]
    BY <1>1
  <1> QED
    BY <1>1, <1>2 DEF Last, w

LEMMA InSlice ==
  ASSUME NEW s \in Seq(Alphabet), NEW i \in Nat, NEW e \in i..Len(s), NEW x
  PROVE  x \in ToSet(SubSeq(s, i + 1, e)) <=> \E j \in (i + 1)..e : s[j] = x
  <1> DEFINE w == SubSeq(s, i + 1, e)
  <1>1. Len(w) = e - i /\ \A k \in 1..(e - i) : w[k] = s[i + k]
    OBVIOUS
  <1>2. DOMAIN w = 1..(e - i)
    OBVIOUS
  <1> HIDE DEF w
  <1>3. ASSUME NEW k \in 1..(e - i) PROVE w[k] = s[i + k] /\ i + k \in (i + 1)..e
    BY <1>1
  <1>4. ASSUME NEW j \in (i + 1)..e PROVE w[j - i] = s[j] /\ j - i \in 1..(e - i)
    <2>1. j - i \in 1..(e - i) /\ i + (j - i) = j
      OBVIOUS
    <2>2. w[j - i] = s[i + (j - i)]
      BY <1>1, <2>1
    <2> QED
      BY <2>1, <2>2
  <1>5. x \in ToSet(w) <=> \E k \in 1..(e - i) : w[k] = x
    BY <1>2 DEF ToSet
  <1> QED
    BY <1>3, <1>4, <1>5 DEF w

LEMMA SliceOver ==
  ASSUME NEW s \in Seq(Alphabet), NEW i \in Nat, NEW e \in i..Len(s), NEW S
  PROVE  Over(S, SubSeq(s, i + 1, e)) <=> \A j \in (i + 1)..e : s[j] \in S
  BY InSlice DEF Over

(* The middle of a text.                                                   *)
LEMMA InnerSlice ==
  ASSUME NEW s \in Seq(Alphabet), NEW i \in Nat, NEW e \in (i + 1)..Len(s), e > i + 1
  PROVE  LET w == SubSeq(s, i + 1, e)
         IN  SubSeq(w, 2, Len(w) - 1) = SubSeq(s, i + 2, e - 1)
  <1> DEFINE w == SubSeq(s, i + 1, e)
             u == SubSeq(w, 2, Len(w) - 1)
             v == SubSeq(s, i + 2, e - 1)
  <1>1. w \in Seq(Alphabet) /\ Len(w) = e - i /\ \A k \in 1..(e - i) : w[k] = s[i + k]
    OBVIOUS
  <1>2. v \in Seq(Alphabet) /\ Len(v) = e - i - 2 /\ \A k \in 1..(e - i - 2) : v[k] = s[i + 1 + k]
    OBVIOUS
  <1> HIDE DEF w, v
  <1>3. u \in Seq(Alphabet) /\ Len(u) = e - i - 2 /\ \A k \in 1..(e - i - 2) : u[k] = w[1 + k]
    BY <1>1
  <1> HIDE DEF u
  <1>4. ASSUME NEW k \in 1..(e - i - 2) PROVE u[k] = v[k]
    <2>1. 1 + k \in 1..(e - i) /\ i + (1 + k) = i + 1 + k
      OBVIOUS
    <2>2. w[1 + k] = s[i + (1 + k)]
      BY <1>1, <2>1
    <2> QED
      BY <1>2, <1>3, <2>1, <2>2
  <1>5. u = v
    BY <1>2, <1>3, <1>4, SeqEqual
  <1> QED
    BY <1>5 DEF u, v, w

LEMMA GreatestIsMax ==
  ASSUME NEW E, E \subseteq Nat, NEW e \in E, \A x \in E : x <= e
  PROVE  Max(E) = e
  <1>1. Max(E) \in E /\ \A x \in E : Max(E) >= x
    BY DEF Max
  <1>2. Max(E) \in Nat /\ e \in Nat /\ Max(E) >= e /\ Max(E) <= e
    BY <1>1
  <1> QED
    BY <1>2

(***************************************************************************)
(* The lexemes of the source from a place on.                              *)
(***************************************************************************)
Rest(i) == LexemesFrom(source, {"comment"})[i]

Lexeme ==
  [kind : UNION {{KindOf(SubSeq(source, i + 1, e)) : i \in Nat} : e \in Nat},
   from : Nat, to : Nat]

LEMMA RestIsSeq ==
  ASSUME source \in Seq(Alphabet), NEW i \in 0..Size
  PROVE  Rest(i) \in Seq(Lexeme)
  <1> DEFINE T == {d \in 0..Size : Rest(Size - d) \notin Seq(Lexeme)}
  <1>1. Size = Len(source) /\ Size \in Nat
    BY DEF Size
  <1>2. ASSUME T # {} PROVE FALSE
    <2>1. T \subseteq Nat
      BY <1>1
    <2>2. PICK d \in T : \A m \in T : d <= m
      BY <1>2, <2>1, Least
    <2>3. PICK k : k = Size - d
      OBVIOUS
    <2>4. k \in 0..Len(source) /\ k \in 0..Size /\ d = Size - k /\ Rest(k) \notin Seq(Lexeme)
      BY <1>1, <2>2, <2>3
    <2>5. ASSUME NEW e \in (k + 1)..Size PROVE Rest(e) \in Seq(Lexeme)
      <3>1. Size - e \in 0..Size /\ ~ (d <= Size - e) /\ Size - (Size - e) = e
        BY <1>1, <2>4, <2>5
      <3>2. Size - e \notin T
        BY <2>2, <3>1
      <3> QED
        BY <3>1, <3>2
    <2>6. Rest(k) = Unfold(source, {"comment"}, LexemesFrom(source, {"comment"}), k)
      BY <2>4, LexemesUnfold DEF Rest
    <2>7. CASE k = Size
      BY <1>1, <2>4, <2>6, <2>7 DEF Unfold
    <2>8. CASE k # Size /\ LexemeEnds(source, k) = {}
      <3>1. k + 1 \in (k + 1)..Size
        BY <1>1, <2>4, <2>8
      <3> QED
        BY <1>1, <2>4, <2>5, <2>6, <2>8, <3>1 DEF Unfold, Rest
    <2>9. CASE k # Size /\ LexemeEnds(source, k) # {}
      <3>1. PICK e : e = Max(LexemeEnds(source, k))
        OBVIOUS
      <3>2. e \in (k + 1)..Size
        BY <1>1, <2>4, <2>9, <3>1, LongestEnd
      <3>3. LexemeAt(source, k, {"comment"}) \in Seq(Lexeme)
        <4>1. k \in Nat /\ e \in Nat
          BY <2>4, <3>2
        <4>2. [kind |-> KindOf(SubSeq(source, k + 1, e)), from |-> k, to |-> e] \in Lexeme
          <5>1. KindOf(SubSeq(source, k + 1, e)) \in {KindOf(SubSeq(source, x + 1, e)) : x \in Nat}
            BY <4>1, Zenon
          <5> QED
            BY <4>1, <5>1 DEF Lexeme
        <4> QED
          BY <3>1, <4>2 DEF LexemeAt
      <3>4. Rest(e) \in Seq(Lexeme)
        BY <2>5, <3>2
      <3>5. Rest(k) = LexemeAt(source, k, {"comment"}) \o Rest(e)
        BY <1>1, <2>6, <2>9, <3>1 DEF Unfold, Rest
      <3> QED
        BY <2>4, <3>3, <3>4, <3>5
    <2> QED
      BY <2>7, <2>8, <2>9
  <1>3. Size - i \in 0..Size /\ Size - (Size - i) = i
    BY <1>1
  <1>4. Size - i \notin T
    BY <1>2
  <1> QED
    BY <1>3, <1>4

(* Nothing starts at i.                                                    *)
LEMMA NoLexeme ==
  ASSUME source \in Seq(Alphabet), NEW i \in 0..Size, i < Size, LexemeEnds(source, i) = {}
  PROVE  Rest(i) = Rest(i + 1)
  <1>1. Len(source) = Size /\ i # Size /\ Size \in Nat
    BY DEF Size
  <1>2. i \in 0..Len(source) /\ i # Len(source)
    BY <1>1
  <1> QED
    BY <1>2, LexemesUnfold DEF Unfold, Rest

(* The longest lexeme that starts at i ends at e.                          *)
LEMMA NextLexeme ==
  ASSUME source \in Seq(Alphabet), NEW i \in 0..Size, NEW e \in LexemeEnds(source, i),
         \A x \in LexemeEnds(source, i) : x <= e,
         NEW k, k = KindOf(SubSeq(source, i + 1, e))
  PROVE  Rest(i) = IF k = "comment" THEN Rest(e)
                   ELSE <<[kind |-> k, from |-> i, to |-> e]>> \o Rest(e)
  <1>1. Len(source) = Size /\ Size \in Nat
    BY DEF Size
  <1>2. LexemeEnds(source, i) \subseteq (i + 1)..Size
    BY <1>1 DEF LexemeEnds
  <1>3. e \in 0..Size /\ i \in 0..Len(source) /\ i # Len(source)
    BY <1>1, <1>2
  <1>4. Max(LexemeEnds(source, i)) = e
    <2>1. LexemeEnds(source, i) \subseteq Nat
      BY <1>2
    <2> QED
      BY <2>1, GreatestIsMax
  <1>5. Rest(i) = LexemeAt(source, i, {"comment"}) \o Rest(e)
    BY <1>3, <1>4, LexemesUnfold DEF Unfold, Rest
  <1>6. Rest(e) \in Seq(Lexeme)
    BY <1>3, RestIsSeq
  <1>7. LexemeAt(source, i, {"comment"}) =
          IF k = "comment" THEN <<>> ELSE <<[kind |-> k, from |-> i, to |-> e]>>
    BY <1>4 DEF LexemeAt
  <1> QED
    BY <1>5, <1>6, <1>7, ConcatEmptySeq

(***************************************************************************)
(* The lexemes that start at i, by the character there.                    *)
(***************************************************************************)
Part(i, e) == SubSeq(source, i + 1, e)

NumberAt(i, e) == source[i + 1] \in Digits /\ \A j \in (i + 1)..e : source[j] \in NumberChars
WordAt(i, e) ==
  source[i + 1] \in WordChars \ Digits /\ \A j \in (i + 1)..e : source[j] \in WordChars
StringAt(i, e) ==
  /\ e > i + 1 /\ source[i + 1] = Quote /\ source[e] = Quote
  /\ \A j \in (i + 2)..(e - 1) : source[j] # Quote
CommentAt(i, e) ==
  /\ e >= i + 2 /\ source[i + 1] = "/" /\ source[i + 2] = "/"
  /\ \A j \in (i + 1)..e : source[j] # Newline
ElseIfAt(i, e) ==
  /\ e > i + 2 /\ source[i + 1] = "e" /\ source[e] = "i"
  /\ \A j \in (i + 2)..(e - 1) : source[j] \in Blanks

LEMMA FirstTwo ==
  ASSUME NEW w \in Seq(Alphabet), Len(w) >= 2
  PROVE  SubSeq(w, 1, 2) = <<w[1], w[2]>>
  <1> DEFINE u == SubSeq(w, 1, 2)
             v == <<w[1], w[2]>>
  <1>1. u \in Seq(Alphabet) /\ Len(u) = 2 /\ u[1] = w[1] /\ u[2] = w[2]
    OBVIOUS
  <1>2. v \in Seq(Alphabet) /\ Len(v) = 2 /\ v[1] = w[1] /\ v[2] = w[2]
    OBVIOUS
  <1> HIDE DEF u, v
  <1>3. \A k \in 1..2 : u[k] = v[k]
    <2>1. \A k \in 1..2 : k = 1 \/ k = 2
      OBVIOUS
    <2> QED
      BY <1>1, <1>2, <2>1
  <1>4. u = v
    BY <1>1, <1>2, <1>3, SeqEqual
  <1> QED
    BY <1>4 DEF u, v

LEMMA OneCharacter ==
  ASSUME NEW w \in Seq(Alphabet), Len(w) = 1
  PROVE  w = <<w[1]>>
  OBVIOUS

LEMMA GuardsAt ==
  ASSUME source \in Seq(Alphabet), NEW i \in Nat, NEW e \in (i + 1)..Size
  PROVE  LET w == Part(i, e)
         IN  /\ w \in Seq(Alphabet) /\ w # <<>> /\ Len(w) = e - i
             /\ w[1] = source[i + 1] /\ (e > i + 1 => w[2] = source[i + 2])
             /\ IsNumber(w) <=> NumberAt(i, e)
             /\ IsWord(w) <=> WordAt(i, e)
             /\ IsString(w) <=> StringAt(i, e)
             /\ IsComment(w) <=> CommentAt(i, e)
             /\ IsElseIf(w) <=> ElseIfAt(i, e)
  <1> DEFINE w == Part(i, e)
  <1>0. Size = Len(source) /\ Size \in Nat
    BY DEF Size
  <1>1. /\ w \in Seq(Alphabet) /\ w # <<>> /\ Len(w) = e - i
        /\ \A k \in 1..(e - i) : w[k] = source[i + k]
        /\ w[1] = source[i + 1] /\ Last(w) = source[e]
    BY <1>0, Slice DEF Part
  <1>2. e > i + 1 => w[2] = source[i + 2]
    BY <1>1
  <1>3. e \in i..Len(source)
    BY <1>0
  <1>4. /\ Over(NumberChars, w) <=> \A j \in (i + 1)..e : source[j] \in NumberChars
        /\ Over(WordChars, w) <=> \A j \in (i + 1)..e : source[j] \in WordChars
        /\ Newline \notin ToSet(w) <=> \A j \in (i + 1)..e : source[j] # Newline
    BY <1>3, SliceOver, InSlice DEF Part
  <1>5. IsNumber(w) <=> NumberAt(i, e)
    BY <1>1, <1>4 DEF IsNumber, NumberAt
  <1>6. IsWord(w) <=> WordAt(i, e)
    BY <1>1, <1>4 DEF IsWord, WordAt
  <1>7. IsComment(w) <=> CommentAt(i, e)
    <2>1. IsPrefix(<<"/", "/">>, w) <=> e >= i + 2 /\ w[1] = "/" /\ w[2] = "/"
      <3>1. CASE e >= i + 2
        <4>1. SubSeq(w, 1, 2) = <<w[1], w[2]>>
          <5>1. Len(w) >= 2
            BY <1>1, <3>1
          <5> QED
            BY <1>1, <5>1, FirstTwo
        <4>2. SubSeq(<<"/", "/">>, 1, 2) = <<"/", "/">>
          <5>1. "/" \in Alphabet
            BY DEF Alphabet, Operators
          <5>2. PICK v : v = <<"/", "/">>
            OBVIOUS
          <5>3. v \in Seq(Alphabet) /\ Len(v) = 2 /\ v[1] = "/" /\ v[2] = "/"
            BY <5>1, <5>2
          <5>4. Len(v) >= 2
            BY <5>3
          <5>5. SubSeq(v, 1, 2) = <<v[1], v[2]>>
            BY <5>3, <5>4, FirstTwo
          <5> QED
            BY <5>2, <5>3, <5>5
        <4>3. Len(<<"/", "/">>) = 2 /\ 2 <= Len(w)
          BY <1>1, <3>1
        <4> QED
          BY <3>1, <4>1, <4>2, <4>3 DEF IsPrefix
      <3>2. CASE ~ (e >= i + 2)
        BY <1>1, <3>2, CommentBegins
      <3> QED
        BY <3>1, <3>2
    <2> QED
      BY <1>1, <1>2, <1>4, <2>1 DEF IsComment, CommentAt
  <1>8. ASSUME e > i + 1
        PROVE  SubSeq(w, 2, Len(w) - 1) = SubSeq(source, i + 2, e - 1)
    BY <1>0, <1>8, InnerSlice DEF Part
  <1>9. ASSUME e > i + 1
        PROVE  /\ Over(Blanks, SubSeq(w, 2, Len(w) - 1)) <=>
                    \A j \in (i + 2)..(e - 1) : source[j] \in Blanks
               /\ Quote \notin ToSet(SubSeq(w, 2, Len(w) - 1)) <=>
                    \A j \in (i + 2)..(e - 1) : source[j] # Quote
    <2>1. PICK a \in Nat : a = i + 1
      OBVIOUS
    <2>2. e - 1 \in a..Len(source) /\ a + 1 = i + 2
      BY <1>0, <1>9, <2>1
    <2>3. /\ Over(Blanks, SubSeq(source, a + 1, e - 1)) <=>
               \A j \in (a + 1)..(e - 1) : source[j] \in Blanks
          /\ Quote \notin ToSet(SubSeq(source, a + 1, e - 1)) <=>
               \A j \in (a + 1)..(e - 1) : source[j] # Quote
      BY <2>2, SliceOver, InSlice
    <2> QED
      BY <1>8, <1>9, <2>2, <2>3
  <1>10. IsString(w) <=> StringAt(i, e)
    <2>1. Head(w) = w[1] /\ (Len(w) > 1 <=> e > i + 1)
      BY <1>1
    <2> QED
      BY <1>1, <1>9, <2>1 DEF IsString, StringAt, Inner
  <1>11. IsElseIf(w) <=> ElseIfAt(i, e)
    <2>1. Len(w) > 2 <=> e > i + 2
      BY <1>1
    <2> QED
      BY <1>1, <1>9, <2>1 DEF IsElseIf, ElseIfAt
  <1> QED
    BY <1>1, <1>2, <1>5, <1>6, <1>7, <1>10, <1>11

LEMMA KindAt ==
  ASSUME source \in Seq(Alphabet), NEW i \in Nat, NEW e \in (i + 1)..Size
  PROVE  KindOf(Part(i, e)) =
           IF e = i + 1 /\ source[i + 1] \in DOMAIN Punctuation THEN Punctuation[source[i + 1]]
           ELSE IF e = i + 1 /\ source[i + 1] \in Operators THEN Single[source[i + 1]]
           ELSE IF Part(i, e) \in DOMAIN Double THEN Double[Part(i, e)]
           ELSE IF NumberAt(i, e)
                THEN IF "." \in ToSet(Part(i, e)) THEN "double_literal" ELSE "integer_literal"
           ELSE IF WordAt(i, e)
                THEN IF Part(i, e) \in DOMAIN Keywords THEN Keywords[Part(i, e)] ELSE "symbol"
           ELSE IF StringAt(i, e) THEN "string_literal"
           ELSE IF CommentAt(i, e) THEN "comment"
           ELSE IF ElseIfAt(i, e) THEN "else_if_stmt"
           ELSE "none"
  <1>1. PICK w : w = Part(i, e)
    OBVIOUS
  <1>2. /\ w \in Seq(Alphabet) /\ w # <<>> /\ Len(w) = e - i
        /\ w[1] = source[i + 1]
        /\ IsNumber(w) <=> NumberAt(i, e)
        /\ IsWord(w) <=> WordAt(i, e)
        /\ IsString(w) <=> StringAt(i, e)
        /\ IsComment(w) <=> CommentAt(i, e)
        /\ IsElseIf(w) <=> ElseIfAt(i, e)
    BY <1>1, GuardsAt
  <1>3. Len(w) = 1 <=> e = i + 1
    BY <1>2
  <1> QED
    BY <1>1, <1>2, <1>3, KindByGuards

(***************************************************************************)
(* No lexeme starts with a blank, a point, a newline or a strange          *)
(* character.                                                              *)
(***************************************************************************)
EndsAt(i) == LexemeEnds(source, i)

LEMMA EndsHaveKinds ==
  ASSUME source \in Seq(Alphabet), NEW i \in Nat, NEW e
  PROVE  e \in EndsAt(i) <=>
           /\ e \in (i + 1)..Size
           /\ KindOf(Part(i, e)) # "none"
           /\ KindOf(Part(i, e)) = "else_if_stmt" => e = Size \/ source[e + 1] \in Blanks
  BY DEF EndsAt, LexemeEnds, Part, Size

Starts(x, i) == i < Size /\ source[i + 1] = x

LEMMA SkippedIsNone ==
  ASSUME source \in Seq(Alphabet), NEW i \in Nat,
         NEW x \in Blanks \cup {".", Newline, "@"}, Starts(x, i)
  PROVE  EndsAt(i) = {}
  <1>1. x \notin DOMAIN Punctuation \cup Operators \cup Digits \cup WordChars \cup {Quote, "/", "e"}
    BY DEF Blanks, Newline, Punctuation, Delimiters, Operators, Digits, WordChars, Letters, Quote
  <1> SUFFICES ASSUME NEW e \in (i + 1)..Size PROVE KindOf(Part(i, e)) = "none"
    BY EndsHaveKinds
  <1>2. Part(i, e) \notin DOMAIN Double
    <2>1. Part(i, e) \in Seq(Alphabet) /\ Part(i, e)[1] = x
      BY GuardsAt DEF Starts
    <2> QED
      BY <1>1, <2>1, DoubleIsOfOperators
  <1>3. /\ ~ NumberAt(i, e) /\ ~ WordAt(i, e) /\ ~ StringAt(i, e) /\ ~ CommentAt(i, e)
        /\ ~ ElseIfAt(i, e)
    BY <1>1 DEF Starts, NumberAt, WordAt, StringAt, CommentAt, ElseIfAt
  <1> QED
    BY <1>1, <1>2, <1>3, KindAt DEF Starts

(* Punctuation.                                                            *)
LEMMA PunctuationEnds ==
  ASSUME source \in Seq(Alphabet), NEW i \in Nat, NEW x \in DOMAIN Punctuation, Starts(x, i)
  PROVE  /\ EndsAt(i) = {i + 1}
         /\ KindOf(Part(i, i + 1)) = Punctuation[x]
  <1>0. Size \in Nat
    BY DEF Size
  <1>1. x \notin Operators \cup WordChars \cup {Quote, "/", "e"}
    BY DEF Punctuation, Delimiters, Operators, Digits, WordChars, Letters, Quote
  <1>2. Punctuation[x] \notin {"none", "else_if_stmt"}
    BY DEF Punctuation, Delimiters
  <1>3. i + 1 \in (i + 1)..Size
    BY <1>0 DEF Starts
  <1>4. KindOf(Part(i, i + 1)) = Punctuation[x]
    BY <1>3, KindAt DEF Starts
  <1>5. ASSUME NEW e \in (i + 1)..Size, e # i + 1 PROVE KindOf(Part(i, e)) = "none"
    <2>1. Part(i, e) \notin DOMAIN Double
      <3>1. Part(i, e) \in Seq(Alphabet) /\ Part(i, e)[1] = x
        BY GuardsAt DEF Starts
      <3> QED
        BY <1>1, <3>1, DoubleIsOfOperators
    <2>2. /\ ~ NumberAt(i, e) /\ ~ WordAt(i, e) /\ ~ StringAt(i, e) /\ ~ CommentAt(i, e)
          /\ ~ ElseIfAt(i, e)
      BY <1>1, ClassesApart DEF Starts, NumberAt, WordAt, StringAt, CommentAt, ElseIfAt
    <2> QED
      BY <1>5, <2>1, <2>2, KindAt
  <1>6. i + 1 \in EndsAt(i)
    BY <1>2, <1>3, <1>4, EndsHaveKinds
  <1>7. \A e \in EndsAt(i) : e = i + 1
    BY <1>5, EndsHaveKinds
  <1> QED
    BY <1>4, <1>6, <1>7

(* Operators: the longest is of two characters if these are one, and of    *)
(* one otherwise, unless it starts a comment.                              *)
LEMMA OperatorEnds ==
  ASSUME source \in Seq(Alphabet), NEW i \in Nat, NEW x \in Operators, Starts(x, i),
         NEW y, Starts(y, i + 1), ~ (x = "/" /\ y = "/")
  PROVE  IF <<x, y>> \in DOMAIN Double
         THEN /\ i + 2 \in EndsAt(i) /\ \A e \in EndsAt(i) : e <= i + 2
              /\ KindOf(Part(i, i + 2)) = Double[<<x, y>>]
              /\ Double[<<x, y>>] # "comment"
         ELSE /\ i + 1 \in EndsAt(i) /\ \A e \in EndsAt(i) : e <= i + 1
              /\ KindOf(Part(i, i + 1)) = Single[x]
              /\ Single[x] # "comment"
  <1>0. Size \in Nat
    BY DEF Size
  <1>1. x \notin DOMAIN Punctuation \cup WordChars \cup {Quote, "e"}
    BY DEF Punctuation, Delimiters, Operators, Digits, WordChars, Letters, Quote
  <1>2. i + 1 \in (i + 1)..Size /\ i + 2 \in (i + 1)..Size
    BY <1>0 DEF Starts
  <1>3. Single[x] \notin {"none", "else_if_stmt", "comment"}
    BY DEF Single, Operators, Unset
  <1>4. \A p \in DOMAIN Double : Double[p] \notin {"none", "else_if_stmt", "comment"}
    BY DEF Double
  <1>5. KindOf(Part(i, i + 1)) = Single[x]
    BY <1>1, <1>2, KindAt DEF Starts
  <1>6. Part(i, i + 2) = <<x, y>>
    <2>1. PICK w : w = Part(i, i + 2)
      OBVIOUS
    <2>2. w \in Seq(Alphabet) /\ Len(w) = i + 2 - i /\ w[1] = x /\ w[2] = y
      <3>1. (i + 1) + 1 = i + 2 /\ i + 2 > i + 1
        OBVIOUS
      <3>2. /\ w \in Seq(Alphabet) /\ Len(w) = i + 2 - i
            /\ w[1] = source[i + 1] /\ w[2] = source[i + 2]
        <4>1. PICK e \in (i + 1)..Size : e = i + 2
          BY <1>2
        <4>2. /\ Part(i, e) \in Seq(Alphabet) /\ Len(Part(i, e)) = e - i
              /\ Part(i, e)[1] = source[i + 1] /\ (e > i + 1 => Part(i, e)[2] = source[i + 2])
          BY GuardsAt
        <4>3. e > i + 1
          BY <4>1
        <4> QED
          BY <2>1, <4>1, <4>2, <4>3
      <3> QED
        BY <3>1, <3>2 DEF Starts
    <2>3. Len(w) = 2 /\ SubSeq(w, 1, Len(w)) = w
      BY <2>2, SubSeqFull
    <2> QED
      BY <2>1, <2>2, <2>3, FirstTwo
  <1>7. ASSUME NEW e \in (i + 1)..Size, e # i + 1, Part(i, e) \notin DOMAIN Double
        PROVE  KindOf(Part(i, e)) = "none"
    <2>1. /\ ~ NumberAt(i, e) /\ ~ WordAt(i, e) /\ ~ StringAt(i, e) /\ ~ CommentAt(i, e)
          /\ ~ ElseIfAt(i, e)
      <3>1. (i + 1) + 1 = i + 2
        OBVIOUS
      <3> QED
        BY <1>1, <3>1, ClassesApart
        DEF Starts, NumberAt, WordAt, StringAt, CommentAt, ElseIfAt
    <2> QED
      BY <1>7, <2>1, KindAt
  <1>8. ASSUME NEW e \in (i + 1)..Size, Part(i, e) \in DOMAIN Double
        PROVE  e = i + 2
    <2>1. Part(i, e) \in Seq(Alphabet) /\ Len(Part(i, e)) = e - i
      BY GuardsAt
    <2>2. Len(Part(i, e)) = 2
      BY <1>8, <2>1, DoubleIsOfOperators
    <2>3. e \in Int /\ i \in Int
      BY <1>0
    <2>4. e - i = 2
      BY <2>1, <2>2, Zenon
    <2> QED
      BY <2>3, <2>4
  <1>9. CASE <<x, y>> \in DOMAIN Double
    <2>1. KindOf(Part(i, i + 2)) = Double[<<x, y>>]
      BY <1>1, <1>2, <1>6, <1>9, KindAt DEF Starts
    <2>2. i + 2 \in EndsAt(i)
      BY <1>2, <1>4, <1>9, <2>1, EndsHaveKinds
    <2>3. ASSUME NEW e \in EndsAt(i) PROVE e <= i + 2
      <3>1. e \in (i + 1)..Size /\ (e = i + 1 \/ e = i + 2)
        BY <1>7, <1>8, EndsHaveKinds
      <3> QED
        BY <3>1
    <2> QED
      BY <1>4, <1>9, <2>1, <2>2, <2>3
  <1>10. CASE <<x, y>> \notin DOMAIN Double
    <2>1. i + 1 \in EndsAt(i)
      BY <1>2, <1>3, <1>5, EndsHaveKinds
    <2>2. ASSUME NEW e \in EndsAt(i) PROVE e <= i + 1
      <3>1. e \in (i + 1)..Size /\ KindOf(Part(i, e)) # "none"
        BY EndsHaveKinds
      <3>2. e = i + 1 \/ (e = i + 2 /\ Part(i, e) \in DOMAIN Double)
        BY <1>7, <1>8, <3>1
      <3> QED
        BY <1>6, <1>10, <3>1, <3>2
    <2> QED
      BY <1>3, <1>5, <1>10, <2>1, <2>2
  <1> QED
    BY <1>9, <1>10

(* A comment up to a newline.                                              *)
LEMMA CommentEnds ==
  ASSUME source \in Seq(Alphabet), NEW i \in Nat, NEW e \in (i + 1)..Size,
         CommentAt(i, e), e < Size, source[e + 1] = Newline
  PROVE  /\ e \in EndsAt(i) /\ \A x \in EndsAt(i) : x <= e
         /\ KindOf(Part(i, e)) = "comment"
  <1>0. Size \in Nat /\ e \in Nat
    BY DEF Size
  <1>1. /\ source[i + 1] = "/" /\ source[i + 2] = "/" /\ e >= i + 2
        /\ "/" \notin DOMAIN Punctuation \cup WordChars \cup {Quote, "e"}
        /\ "/" \in Operators /\ Single["/"] = "div"
    BY ClassesApart
    DEF CommentAt, Punctuation, Delimiters, Operators, Digits, WordChars, Letters, Quote, Single
  <1>2. ASSUME NEW x \in (i + 1)..Size, x > i + 1
        PROVE  /\ Part(i, x) \notin DOMAIN Double /\ ~ NumberAt(i, x) /\ ~ WordAt(i, x)
               /\ ~ StringAt(i, x) /\ ~ ElseIfAt(i, x)
    <2>1. Part(i, x) \in Seq(Alphabet) /\ Part(i, x)[2] = "/"
      BY <1>1, <1>2, GuardsAt
    <2>2. Part(i, x) \notin DOMAIN Double
      BY <2>1, DoubleIsOfOperators
    <2> QED
      BY <1>1, <2>2, ClassesApart DEF NumberAt, WordAt, StringAt, ElseIfAt
  <1>3. ASSUME NEW x \in (i + 1)..Size, x > i + 1
        PROVE  KindOf(Part(i, x)) = IF CommentAt(i, x) THEN "comment" ELSE "none"
    <2>1. x # i + 1
      BY <1>3
    <2>2. /\ Part(i, x) \notin DOMAIN Double /\ ~ NumberAt(i, x) /\ ~ WordAt(i, x)
          /\ ~ StringAt(i, x) /\ ~ ElseIfAt(i, x)
      BY <1>2, <1>3
    <2> QED
      BY <2>1, <2>2, KindAt
  <1>4. KindOf(Part(i, e)) = "comment"
    <2>1. e > i + 1
      BY <1>0, <1>1
    <2> QED
      BY <1>3, <2>1
  <1>5. e \in EndsAt(i)
    BY <1>4, EndsHaveKinds
  <1>6. ASSUME NEW x \in EndsAt(i) PROVE x <= e
    <2>1. x \in (i + 1)..Size /\ KindOf(Part(i, x)) # "none"
      BY EndsHaveKinds
    <2>2. SUFFICES ASSUME x > e PROVE FALSE
      BY <1>0, <2>1
    <2>3. x > i + 1 /\ e + 1 \in (i + 1)..x
      BY <1>0, <1>1, <2>1, <2>2
    <2>4. CommentAt(i, x)
      BY <1>3, <2>1, <2>3
    <2> QED
      BY <2>3, <2>4 DEF CommentAt
  <1> QED
    BY <1>4, <1>5, <1>6

(* A number up to what cannot be in one.                                   *)
LEMMA NumberEnds ==
  ASSUME source \in Seq(Alphabet), NEW i \in Nat, NEW e \in (i + 1)..Size,
         NumberAt(i, e), e = Size \/ source[e + 1] \notin NumberChars
  PROVE  /\ e \in EndsAt(i) /\ \A x \in EndsAt(i) : x <= e
         /\ KindOf(Part(i, e)) =
              IF "." \in ToSet(Part(i, e)) THEN "double_literal" ELSE "integer_literal"
  <1>0. Size \in Nat /\ e \in Nat
    BY DEF Size
  <1>1. /\ source[i + 1] \in Digits
        /\ source[i + 1] \notin DOMAIN Punctuation \cup Operators \cup {Quote, "/", "e"}
    BY DEF NumberAt, Punctuation, Delimiters, Operators, Digits, Quote
  <1>2. ASSUME NEW x \in (i + 1)..Size
        PROVE  KindOf(Part(i, x)) =
                 IF NumberAt(i, x)
                 THEN IF "." \in ToSet(Part(i, x)) THEN "double_literal" ELSE "integer_literal"
                 ELSE "none"
    <2>1. Part(i, x) \notin DOMAIN Double
      <3>1. Part(i, x) \in Seq(Alphabet) /\ Part(i, x)[1] = source[i + 1]
        BY GuardsAt
      <3> QED
        BY <1>1, <3>1, DoubleIsOfOperators
    <2>2. ~ WordAt(i, x) /\ ~ StringAt(i, x) /\ ~ CommentAt(i, x) /\ ~ ElseIfAt(i, x)
      BY <1>1 DEF WordAt, StringAt, CommentAt, ElseIfAt
    <2> QED
      BY <1>1, <2>1, <2>2, KindAt
  <1>3. e \in EndsAt(i)
    <2>1. KindOf(Part(i, e)) \notin {"none", "else_if_stmt"}
      BY <1>2
    <2> QED
      BY <2>1, EndsHaveKinds
  <1>4. ASSUME NEW x \in EndsAt(i) PROVE x <= e
    <2>1. x \in (i + 1)..Size /\ KindOf(Part(i, x)) # "none"
      BY EndsHaveKinds
    <2>2. SUFFICES ASSUME x > e PROVE FALSE
      BY <1>0, <2>1
    <2>3. e + 1 \in (i + 1)..x /\ e # Size
      BY <1>0, <2>1, <2>2
    <2>4. NumberAt(i, x)
      BY <1>2, <2>1
    <2> QED
      BY <2>3, <2>4 DEF NumberAt
  <1> QED
    BY <1>2, <1>3, <1>4

(* A string.                                                               *)
LEMMA StringEnds ==
  ASSUME source \in Seq(Alphabet), NEW i \in Nat, NEW e \in (i + 1)..Size, StringAt(i, e)
  PROVE  /\ e \in EndsAt(i) /\ \A x \in EndsAt(i) : x <= e
         /\ KindOf(Part(i, e)) = "string_literal"
  <1>0. Size \in Nat /\ e \in Nat
    BY DEF Size
  <1>1. /\ source[i + 1] = Quote
        /\ Quote \notin DOMAIN Punctuation \cup Operators \cup WordChars \cup {"/", "e"}
    BY DEF StringAt, Punctuation, Delimiters, Operators, Digits, WordChars, Letters, Quote
  <1>2. ASSUME NEW x \in (i + 1)..Size
        PROVE  KindOf(Part(i, x)) = IF StringAt(i, x) THEN "string_literal" ELSE "none"
    <2>1. Part(i, x) \notin DOMAIN Double
      <3>1. Part(i, x) \in Seq(Alphabet) /\ Part(i, x)[1] = source[i + 1]
        BY GuardsAt
      <3> QED
        BY <1>1, <3>1, DoubleIsOfOperators
    <2>2. ~ NumberAt(i, x) /\ ~ WordAt(i, x) /\ ~ CommentAt(i, x) /\ ~ ElseIfAt(i, x)
      BY <1>1, ClassesApart DEF NumberAt, WordAt, CommentAt, ElseIfAt
    <2> QED
      BY <1>1, <2>1, <2>2, KindAt
  <1>3. e \in EndsAt(i)
    BY <1>2, EndsHaveKinds
  <1>4. ASSUME NEW x \in EndsAt(i) PROVE x <= e
    <2>1. x \in (i + 1)..Size /\ KindOf(Part(i, x)) # "none"
      BY EndsHaveKinds
    <2>2. SUFFICES ASSUME x > e PROVE FALSE
      BY <1>0, <2>1
    <2>3. e \in (i + 2)..(x - 1)
      BY <1>0, <2>1, <2>2 DEF StringAt
    <2>4. StringAt(i, x)
      BY <1>2, <2>1
    <2> QED
      BY <2>3, <2>4 DEF StringAt
  <1> QED
    BY <1>2, <1>3, <1>4

(* What starts with a letter or _ is a word or else, blanks, if.           *)
ElseIfEnd(i, x) == ElseIfAt(i, x) /\ (x = Size \/ source[x + 1] \in Blanks)

LEMMA WordKinds ==
  ASSUME source \in Seq(Alphabet), NEW i \in Nat, NEW x \in (i + 1)..Size,
         source[i + 1] \in WordChars \ Digits
  PROVE  KindOf(Part(i, x)) =
           IF WordAt(i, x)
           THEN IF Part(i, x) \in DOMAIN Keywords THEN Keywords[Part(i, x)] ELSE "symbol"
           ELSE IF ElseIfAt(i, x) THEN "else_if_stmt" ELSE "none"
  <1>1. source[i + 1] \notin DOMAIN Punctuation \cup Operators \cup Digits \cup {Quote, "/"}
    BY ClassesApart DEF Quote
  <1>2. Part(i, x) \notin DOMAIN Double
    <2>1. Part(i, x) \in Seq(Alphabet) /\ Part(i, x)[1] = source[i + 1]
      BY GuardsAt
    <2> QED
      BY <1>1, <2>1, DoubleIsOfOperators
  <1>3. ~ NumberAt(i, x) /\ ~ StringAt(i, x) /\ ~ CommentAt(i, x)
    BY <1>1 DEF NumberAt, StringAt, CommentAt
  <1> QED
    BY <1>1, <1>2, <1>3, KindAt

LEMMA WordEnds ==
  ASSUME source \in Seq(Alphabet), NEW i \in Nat, NEW e \in (i + 1)..Size,
         WordAt(i, e), e = Size \/ source[e + 1] \notin WordChars,
         \A x \in (i + 1)..Size : ~ ElseIfEnd(i, x)
  PROVE  /\ e \in EndsAt(i) /\ \A x \in EndsAt(i) : x <= e
         /\ KindOf(Part(i, e)) =
              IF Part(i, e) \in DOMAIN Keywords THEN Keywords[Part(i, e)] ELSE "symbol"
         /\ KindOf(Part(i, e)) # "comment"
  <1>0. Size \in Nat /\ e \in Nat
    BY DEF Size
  <1>1. source[i + 1] \in WordChars \ Digits
    BY DEF WordAt
  <1>2. \A w \in DOMAIN Keywords : Keywords[w] \notin {"none", "else_if_stmt", "comment"}
    BY DEF Keywords
  <1>3. KindOf(Part(i, e)) =
          IF Part(i, e) \in DOMAIN Keywords THEN Keywords[Part(i, e)] ELSE "symbol"
    BY <1>1, WordKinds
  <1>4. KindOf(Part(i, e)) \notin {"none", "else_if_stmt", "comment"}
    BY <1>2, <1>3
  <1>5. e \in EndsAt(i)
    BY <1>4, EndsHaveKinds
  <1>6. ASSUME NEW x \in EndsAt(i) PROVE x <= e
    <2>1. /\ x \in (i + 1)..Size /\ KindOf(Part(i, x)) # "none"
          /\ KindOf(Part(i, x)) = "else_if_stmt" => x = Size \/ source[x + 1] \in Blanks
      BY EndsHaveKinds
    <2>2. SUFFICES ASSUME x > e PROVE FALSE
      BY <1>0, <2>1
    <2>3. e + 1 \in (i + 1)..x /\ e # Size
      BY <1>0, <2>1, <2>2
    <2>4. ~ WordAt(i, x)
      BY <2>3 DEF WordAt
    <2> QED
      BY <1>1, <2>1, <2>4, WordKinds DEF ElseIfEnd
  <1> QED
    BY <1>3, <1>4, <1>5, <1>6

LEMMA ElseIfEnds ==
  ASSUME source \in Seq(Alphabet), NEW i \in Nat, NEW e \in (i + 1)..Size, ElseIfEnd(i, e)
  PROVE  /\ e \in EndsAt(i) /\ \A x \in EndsAt(i) : x <= e
         /\ KindOf(Part(i, e)) = "else_if_stmt"
  <1>0. Size \in Nat /\ e \in Nat
    BY DEF Size
  <1>1. /\ source[i + 1] \in WordChars \ Digits /\ source[i + 2] \in Blanks
        /\ i + 2 \in (i + 1)..(e - 1)
        /\ source[e] = "i" /\ "i" \notin Blanks
    <2>1. /\ source[i + 1] = "e" /\ source[e] = "i" /\ e > i + 2
          /\ \A j \in (i + 2)..(e - 1) : source[j] \in Blanks
      BY DEF ElseIfEnd, ElseIfAt
    <2>2. i + 2 \in (i + 1)..(e - 1) /\ i + 2 \in (i + 2)..(e - 1)
      BY <1>0, <2>1
    <2>3. "i" \notin Blanks
      BY DEF Blanks
    <2> QED
      BY <2>1, <2>2, <2>3, ClassesApart
  <1>2. ASSUME NEW x \in (i + 1)..Size, x > i + 1 PROVE ~ WordAt(i, x)
    <2>1. i + 2 \in (i + 1)..x
      BY <1>2
    <2> QED
      BY <1>1, <2>1, ClassesApart DEF WordAt
  <1>3. KindOf(Part(i, e)) = "else_if_stmt"
    BY <1>0, <1>1, <1>2, WordKinds DEF ElseIfEnd
  <1>4. e \in EndsAt(i)
    BY <1>3, EndsHaveKinds DEF ElseIfEnd
  <1>5. ASSUME NEW x \in EndsAt(i) PROVE x <= e
    <2>1. x \in (i + 1)..Size /\ KindOf(Part(i, x)) # "none"
      BY EndsHaveKinds
    <2>2. SUFFICES ASSUME x > e PROVE FALSE
      BY <1>0, <2>1
    <2>3. e \in (i + 2)..(x - 1) /\ x > i + 1
      BY <1>0, <1>1, <2>1, <2>2
    <2>4. ElseIfAt(i, x)
      BY <1>1, <1>2, <2>1, <2>3, WordKinds
    <2> QED
      BY <1>1, <2>3, <2>4 DEF ElseIfAt
  <1> QED
    BY <1>3, <1>4, <1>5

(***************************************************************************)
(* What has been scanned: the tokens are those of the lexemes D, and after *)
(* D the lexemes go on with those from i on.                               *)
(***************************************************************************)
TokenOf(t, l) ==
  /\ l.from \in Nat /\ l.to \in (l.from + 1)..Size
  /\ t.kind = l.kind
  /\ t.value = IF l.kind \in HaveValue THEN Inner(Part(l.from, l.to)) ELSE <<>>
  /\ t.at \in l.from..l.to
  /\ Newline \notin ToSet(SubSeq(source, t.at + 1, l.to))

Told(ts, i, D) ==
  /\ Rest(0) = D \o Rest(i)
  /\ \A k \in 1..Len(D) : TokenOf(ts[k + 1], D[k])

(* The lexeme in progress starts at i.                                     *)
InProgress(p, cu, ch, bu, i) ==
  /\ p \in {"skipws", "next", "done"} => cu = i
  /\ p = "done" => i = Size
  /\ p = "comment" =>
       /\ i < cu /\ i + 2 <= Size /\ source[i + 1] = "/" /\ source[i + 2] = "/"
       /\ \A j \in (i + 1)..cu : source[j] # Newline
  /\ p = "number" =>
       /\ i < Size /\ source[i + 1] \in Digits
       /\ \A j \in (i + 1)..cu : source[j] \in NumberChars
       /\ bu = Part(i, cu)
  /\ p = "string" =>
       /\ i < cu /\ source[i + 1] = Quote
       /\ \A j \in (i + 2)..cu : source[j] # Quote
       /\ bu = Part(i + 1, cu)
  /\ p = "word" =>
       /\ i < Size /\ source[i + 1] \in WordChars \ Digits
       /\ \A j \in (i + 1)..cu : source[j] \in WordChars
       /\ bu = Part(i, cu)
       /\ cu < Size /\ ch = source[cu + 1]

Count(p) == IF p = "done" THEN 2 ELSE 1

ScannedTo(p, cu, ch, bu, ts, i, D) ==
  /\ Told(ts, i, D)
  /\ Len(ts) = Len(D) + Count(p)
  /\ InProgress(p, cu, ch, bu, i)

Scan(p, cu, ch, bu, ts) ==
  \E i \in 0..cu : \E D \in Seq(Lexeme) : ScannedTo(p, cu, ch, bu, ts, i, D)

LexInv == InBounds => Scan(pc, cur, c, buffer, tokens)

(***************************************************************************)
(* A token more, of the longest lexeme from i on: then the scan stands     *)
(* behind that lexeme.                                                     *)
(***************************************************************************)
LexemeOf(i, e) == [kind |-> KindOf(Part(i, e)), from |-> i, to |-> e]

LEMMA ScanMore ==
  ASSUME TypeInv, NEW i \in 0..Size, NEW D \in Seq(Lexeme), Told(tokens, i, D),
         Len(tokens) = Len(D) + 1,
         NEW e \in EndsAt(i), \A x \in EndsAt(i) : x <= e, KindOf(Part(i, e)) # "comment",
         NEW t, TokenOf(t, LexemeOf(i, e)),
         NEW p \in {"skipws", "next"}, NEW ch, NEW bu
  PROVE  Scan(p, e, ch, bu, Append(tokens, t))
  <1> DEFINE l == LexemeOf(i, e)
             E == Append(D, l)
             ts == Append(tokens, t)
  <1>0. Size = Len(source) /\ Size \in Nat /\ source \in Seq(Alphabet) /\ tokens \in Seq(Tokens)
    BY DEF Size, TypeInv
  <1>1. e \in (i + 1)..Size
    BY <1>0 DEF EndsAt, LexemeEnds
  <1>2. Rest(i) = <<l>> \o Rest(e)
    <2>1. PICK k : k = KindOf(SubSeq(source, i + 1, e))
      OBVIOUS
    <2>2. k # "comment" /\ l = [kind |-> k, from |-> i, to |-> e]
      BY <2>1 DEF Part, LexemeOf
    <2>3. Rest(i) = IF k = "comment" THEN Rest(e)
                    ELSE <<[kind |-> k, from |-> i, to |-> e]>> \o Rest(e)
      BY <1>0, <2>1, NextLexeme DEF EndsAt
    <2> QED
      BY <2>2, <2>3
  <1>3. l \in Lexeme
    <2>1. i \in Nat /\ e \in Nat
      BY <1>1
    <2>2. KindOf(SubSeq(source, i + 1, e)) \in {KindOf(SubSeq(source, x + 1, e)) : x \in Nat}
      BY <2>1, Zenon
    <2> QED
      BY <2>1, <2>2 DEF Lexeme, LexemeOf, Part
  <1> HIDE DEF l
  <1>4. E \in Seq(Lexeme) /\ Len(E) = Len(D) + 1 /\ E[Len(D) + 1] = l
        /\ \A m \in 1..Len(D) : E[m] = D[m]
    BY <1>3
  <1>5. Rest(0) = E \o Rest(e)
    <2>1. Rest(e) \in Seq(Lexeme)
      BY <1>0, <1>1, RestIsSeq
    <2>2. <<l>> \in Seq(Lexeme) /\ E = D \o <<l>>
      BY <1>3
    <2>3. (D \o <<l>>) \o Rest(e) = D \o (<<l>> \o Rest(e))
      BY <2>1, <2>2, ConcatAssociative
    <2> QED
      BY <1>2, <2>2, <2>3 DEF Told
  <1>6. PICK n \in Nat : n = Len(D)
    OBVIOUS
  <1>7. /\ Len(ts) = n + 2 /\ ts[n + 2] = t
        /\ \A m \in 1..n : ts[m + 1] = tokens[m + 1]
    BY <1>0, <1>6
  <1> HIDE DEF E, ts
  <1>8. ASSUME NEW m \in 1..Len(E) PROVE TokenOf(ts[m + 1], E[m])
    <2>1. CASE m = n + 1
      <3>1. ts[m + 1] = t /\ E[m] = l
        BY <1>4, <1>6, <1>7, <2>1
      <3> QED
        BY <3>1 DEF l
    <2>2. CASE m # n + 1
      <3>1. m \in 1..n
        BY <1>4, <1>6, <2>2
      <3>2. ts[m + 1] = tokens[m + 1] /\ E[m] = D[m]
        BY <1>4, <1>6, <1>7, <3>1
      <3> QED
        BY <1>6, <3>1, <3>2 DEF Told
    <2> QED
      BY <2>1, <2>2
  <1>9. Told(ts, e, E) /\ Len(ts) = Len(E) + 1
    BY <1>4, <1>5, <1>6, <1>7, <1>8 DEF Told
  <1>10. InProgress(p, e, ch, bu, e) /\ Count(p) = 1
    BY DEF InProgress, Count
  <1>11. ScannedTo(p, e, ch, bu, ts, e, E)
    BY <1>9, <1>10 DEF ScannedTo
  <1>12. e \in 0..e
    BY <1>0, <1>1
  <1> QED
    BY <1>4, <1>11, <1>12 DEF Scan, ts

(* The scan goes on to e without a token.                                  *)
LEMMA ScanOn ==
  ASSUME TypeInv, NEW i \in 0..Size, NEW D \in Seq(Lexeme), Told(tokens, i, D),
         Len(tokens) = Len(D) + 1, NEW e \in i..Size, Rest(i) = Rest(e),
         NEW p \in {"skipws", "next"}, NEW ch, NEW bu
  PROVE  Scan(p, e, ch, bu, tokens)
  <1>1. InProgress(p, e, ch, bu, e) /\ Count(p) = 1
    BY DEF InProgress, Count
  <1>2. Told(tokens, e, D)
    BY DEF Told
  <1>3. ScannedTo(p, e, ch, bu, tokens, e, D)
    BY <1>1, <1>2 DEF ScannedTo
  <1>4. e \in 0..e
    OBVIOUS
  <1> QED
    BY <1>3, <1>4 DEF Scan

(* The lexeme in progress goes on.                                         *)
LEMMA ScanStays ==
  ASSUME TypeInv, NEW cu \in 0..Size, NEW i \in 0..cu, NEW D \in Seq(Lexeme),
         Told(tokens, i, D), Len(tokens) = Len(D) + 1,
         NEW p, p # "done", NEW ch, NEW bu, InProgress(p, cu, ch, bu, i)
  PROVE  Scan(p, cu, ch, bu, tokens)
  <1>1. Count(p) = 1
    BY DEF Count
  <1>2. ScannedTo(p, cu, ch, bu, tokens, i, D)
    BY <1>1 DEF ScannedTo
  <1> QED
    BY <1>2 DEF Scan

LEMMA TokenIs ==
  ASSUME TypeInv, NEW i \in Nat, NEW e \in (i + 1)..Size,
         NEW v, v = IF KindOf(Part(i, e)) \in HaveValue THEN Inner(Part(i, e)) ELSE <<>>,
         NEW a \in i..e, \A j \in (a + 1)..e : source[j] # Newline
  PROVE  TokenOf(Token(KindOf(Part(i, e)), v, a), LexemeOf(i, e))
  <1>1. Size = Len(source) /\ Size \in Nat /\ source \in Seq(Alphabet)
    BY DEF Size, TypeInv
  <1>2. Newline \notin ToSet(SubSeq(source, a + 1, e))
    BY <1>1, InSlice
  <1>3. LexemeOf(i, e).kind = KindOf(Part(i, e)) /\ LexemeOf(i, e).from = i /\ LexemeOf(i, e).to = e
    BY DEF LexemeOf
  <1> DEFINE t == Token(KindOf(Part(i, e)), v, a)
  <1>4. t.kind = KindOf(Part(i, e)) /\ t.value = v /\ t.at = a
    BY DEF Token
  <1> HIDE DEF t
  <1> QED
    BY <1>2, <1>3, <1>4 DEF TokenOf, t

(* Where the scan stands.                                                  *)
LEMMA Standing ==
  ASSUME TypeInv, InBounds, Scan(pc, cur, c, buffer, tokens), pc # "done"
  PROVE  \E i \in 0..cur : \E D \in Seq(Lexeme) :
           /\ Told(tokens, i, D) /\ Len(tokens) = Len(D) + 1
           /\ InProgress(pc, cur, c, buffer, i)
  <1>1. PICK i \in 0..cur : \E D \in Seq(Lexeme) : ScannedTo(pc, cur, c, buffer, tokens, i, D)
    BY DEF Scan
  <1>2. PICK D \in Seq(Lexeme) : ScannedTo(pc, cur, c, buffer, tokens, i, D)
    BY <1>1
  <1>3. Count(pc) = 1
    BY DEF Count
  <1>4. Told(tokens, i, D) /\ Len(tokens) = Len(D) + 1 /\ InProgress(pc, cur, c, buffer, i)
    BY <1>2, <1>3 DEF ScannedTo
  <1> QED
    BY <1>4

(* Between two lexemes it stands at the cursor.                            *)
LEMMA StandingBetween ==
  ASSUME TypeInv, InBounds, Scan(pc, cur, c, buffer, tokens), pc \in {"skipws", "next"}
  PROVE  \E D \in Seq(Lexeme) : Told(tokens, cur, D) /\ Len(tokens) = Len(D) + 1
  <1>1. PICK i \in 0..cur : \E D \in Seq(Lexeme) :
           /\ Told(tokens, i, D) /\ Len(tokens) = Len(D) + 1
           /\ InProgress(pc, cur, c, buffer, i)
    BY Standing
  <1> QED
    BY <1>1 DEF InProgress

LEMMA ScanSkips ==
  ASSUME TypeInv, InBounds, Scan(pc, cur, c, buffer, tokens), pc \in {"skipws", "next"},
         NEW x \in Blanks \cup {".", Newline, "@"}, Starts(x, cur)
  PROVE  Scan(pc, cur + 1, c, buffer, tokens)
  <1>0. Size \in Nat /\ cur \in 0..Size /\ source \in Seq(Alphabet) /\ cur < Size
    BY CharactersRead DEF TypeInv, Starts
  <1>1. PICK D \in Seq(Lexeme) : Told(tokens, cur, D) /\ Len(tokens) = Len(D) + 1
    BY StandingBetween
  <1>2. EndsAt(cur) = {}
    <2>1. cur \in Nat
      BY <1>0
    <2> QED
      BY <1>0, <2>1, SkippedIsNone
  <1>3. Rest(cur) = Rest(cur + 1)
    BY <1>0, <1>2, NoLexeme DEF EndsAt
  <1>4. PICK e \in cur..Size : e = cur + 1
    BY <1>0
  <1> QED
    BY <1>0, <1>1, <1>3, <1>4, ScanOn

LEMMA SkipBlanksScans ==
  ASSUME TypeInv, NeverAtTheEnd, InBounds, Scan(pc, cur, c, buffer, tokens), SkipBlanks
  PROVE  Scan(pc', cur', c', buffer', tokens')
  <1>0. Size \in Nat /\ cur \in 0..Size /\ cur < Size /\ pc = "skipws"
    BY CharactersRead DEF TypeInv, NeverAtTheEnd, SkipBlanks
  <1>1. c' = c /\ buffer' = buffer /\ tokens' = tokens
    BY DEF SkipBlanks
  <1>2. PICK x : x = source[cur + 1]
    OBVIOUS
  <1>3. At(cur) = {x}
    BY <1>0, <1>2 DEF At
  <1>4. CASE x \in Blanks
    <2>1. cur' = cur + 1 /\ pc' = pc
      BY <1>0, <1>3, <1>4, CharactersRead DEF SkipBlanks
    <2>2. Starts(x, cur)
      BY <1>0, <1>2 DEF Starts
    <2> QED
      BY <1>0, <1>1, <1>4, <2>1, <2>2, ScanSkips
  <1>5. CASE x \notin Blanks
    <2>1. cur' = cur /\ pc' = "next"
      BY <1>3, <1>5 DEF SkipBlanks
    <2>2. PICK D \in Seq(Lexeme) : Told(tokens, cur, D) /\ Len(tokens) = Len(D) + 1
      BY <1>0, StandingBetween
    <2>3. cur \in cur..Size
      BY <1>0
    <2>4. Scan("next", cur, c', buffer', tokens)
      BY <1>0, <2>2, <2>3, ScanOn
    <2> QED
      BY <1>1, <2>1, <2>4
  <1> QED
    BY <1>4, <1>5

LEMMA OnStarts ==
  ASSUME TypeInv, NEW S, On(S)
  PROVE  Starts(Here, cur) /\ Here \in S /\ pc = "next" /\ Advanced(1) = cur + 1
  BY CharactersRead DEF On, Starts

LEMMA SkipOneScans ==
  ASSUME TypeInv, InBounds, Scan(pc, cur, c, buffer, tokens), SkipOne
  PROVE  Scan(pc', cur', c', buffer', tokens')
  <1>1. On(Blanks \cup {".", Newline, "@"})
    BY DEF SkipOne
  <1>2. PICK x \in Blanks \cup {".", Newline, "@"} : Starts(x, cur)
    BY <1>1, OnStarts
  <1>3. cur' = cur + 1 /\ UNCHANGED <<pc, c, buffer, tokens>> /\ pc = "next"
    BY <1>1, OnStarts DEF SkipOne
  <1> QED
    BY <1>2, <1>3, ScanSkips

LEMMA ReadPunctuationScans ==
  ASSUME TypeInv, InBounds, Scan(pc, cur, c, buffer, tokens), ReadPunctuation
  PROVE  Scan(pc', cur', c', buffer', tokens')
  <1>0. Size \in Nat /\ cur \in 0..Size /\ cur \in Nat /\ source \in Seq(Alphabet)
    BY CharactersRead DEF TypeInv
  <1>1. On(DOMAIN Punctuation)
    BY DEF ReadPunctuation
  <1>2. PICK x \in DOMAIN Punctuation : x = Here /\ Starts(x, cur)
    BY <1>1, OnStarts
  <1>3. /\ cur' = cur + 1 /\ pc' = "next"
        /\ tokens' = Append(tokens, Token(Punctuation[x], <<>>, cur))
    BY <1>1, <1>2, OnStarts DEF ReadPunctuation, Emplace
  <1>4. PICK D \in Seq(Lexeme) : Told(tokens, cur, D) /\ Len(tokens) = Len(D) + 1
    BY <1>1, OnStarts, StandingBetween
  <1>5. PICK e : e = cur + 1
    OBVIOUS
  <1>6. /\ e \in EndsAt(cur) /\ \A y \in EndsAt(cur) : y <= e
        /\ KindOf(Part(cur, e)) = Punctuation[x]
    <2>1. EndsAt(cur) = {cur + 1} /\ KindOf(Part(cur, cur + 1)) = Punctuation[x]
      BY <1>0, <1>2, PunctuationEnds
    <2> QED
      BY <1>0, <1>5, <2>1
  <1>7. e \in (cur + 1)..Size /\ cur \in cur..e
    BY <1>0, <1>2, <1>5 DEF Starts
  <1>8. Punctuation[x] \notin HaveValue \cup {"comment"}
    BY DEF Punctuation, Delimiters, HaveValue
  <1>9. \A j \in (cur + 1)..e : source[j] # Newline
    <2>1. x # Newline
      BY DEF Punctuation, Delimiters, Newline
    <2>2. \A j \in (cur + 1)..e : j = cur + 1
      BY <1>0, <1>5
    <2> QED
      BY <1>2, <2>1, <2>2 DEF Starts
  <1>10. TokenOf(Token(Punctuation[x], <<>>, cur), LexemeOf(cur, e))
    <2>1. <<>> = IF KindOf(Part(cur, e)) \in HaveValue THEN Inner(Part(cur, e)) ELSE <<>>
      BY <1>6, <1>8
    <2>2. TokenOf(Token(KindOf(Part(cur, e)), <<>>, cur), LexemeOf(cur, e))
      BY <1>0, <1>7, <1>9, <2>1, TokenIs
    <2> QED
      BY <1>6, <2>2
  <1>11. Scan("next", e, c', buffer', Append(tokens, Token(Punctuation[x], <<>>, cur)))
    <2>1. KindOf(Part(cur, e)) # "comment"
      BY <1>6, <1>8
    <2> QED
      BY <1>0, <1>4, <1>6, <1>10, <2>1, ScanMore
  <1> QED
    BY <1>3, <1>5, <1>11

(* In a text that ends clearly a character stands behind an operator.      *)
LEMMA AheadIsNext ==
  ASSUME TypeInv, InBounds, On(Operators)
  PROVE  /\ cur + 1 < Size /\ Ahead = {source[cur + 2]}
         /\ Advanced(1) = cur + 1 /\ Advanced(2) = cur + 2
         /\ \A y \in Ahead : Starts(y, cur + 1)
  <1>0. Size \in Nat /\ cur \in 0..Size
    BY CharactersRead DEF TypeInv
  <1>1. Starts(Here, cur) /\ Here \in Operators
    BY OnStarts
  <1>2. cur + 1 # Size
    BY <1>1, LastIsNone DEF Starts
  <1>3. cur + 1 < Size
    BY <1>0, <1>1, <1>2 DEF Starts
  <1>4. (cur + 1) + 1 = cur + 2
    BY <1>0
  <1> QED
    BY <1>0, <1>3, <1>4 DEF Ahead, At, Advanced, Starts

LEMMA ReadOperatorScans ==
  ASSUME TypeInv, InBounds, Scan(pc, cur, c, buffer, tokens), ReadOperator
  PROVE  Scan(pc', cur', c', buffer', tokens')
  <1>0. Size \in Nat /\ cur \in 0..Size /\ cur \in Nat /\ source \in Seq(Alphabet)
    BY CharactersRead DEF TypeInv
  <1>1. On(Operators)
    BY DEF ReadOperator
  <1>2. PICK x \in Operators : x = Here /\ Starts(x, cur)
    BY <1>1, OnStarts
  <1>3. PICK y \in Ahead :
          /\ ~ (x = "/" /\ y = "/")
          /\ IF <<x, y>> \in DOMAIN Double
             THEN /\ tokens' = Append(tokens, Token(Double[<<x, y>>], <<>>, Advanced(1)))
                  /\ cur' = Advanced(2)
             ELSE /\ Emplace(Single[x], <<>>)
                  /\ cur' = Advanced(1)
    BY <1>2 DEF ReadOperator
  <1>4. Starts(y, cur + 1) /\ cur + 1 < Size /\ Advanced(1) = cur + 1 /\ Advanced(2) = cur + 2
    BY <1>1, AheadIsNext
  <1>5. pc' = "next" /\ pc = "next"
    BY <1>1 DEF ReadOperator, On
  <1>6. PICK D \in Seq(Lexeme) : Told(tokens, cur, D) /\ Len(tokens) = Len(D) + 1
    BY <1>5, StandingBetween
  <1>7. source[cur + 1] = x /\ source[cur + 2] = y
    <2>1. (cur + 1) + 1 = cur + 2
      BY <1>0
    <2> QED
      BY <1>2, <1>4, <2>1 DEF Starts
  <1>8. IF <<x, y>> \in DOMAIN Double
        THEN /\ cur + 2 \in EndsAt(cur) /\ \A e \in EndsAt(cur) : e <= cur + 2
             /\ KindOf(Part(cur, cur + 2)) = Double[<<x, y>>]
             /\ Double[<<x, y>>] # "comment"
        ELSE /\ cur + 1 \in EndsAt(cur) /\ \A e \in EndsAt(cur) : e <= cur + 1
             /\ KindOf(Part(cur, cur + 1)) = Single[x]
             /\ Single[x] # "comment"
    BY <1>0, <1>2, <1>3, <1>4, OperatorEnds
  <1>9. CASE <<x, y>> \in DOMAIN Double
    <2>1. PICK k : k = Double[<<x, y>>]
      OBVIOUS
    <2>2. PICK e : e = cur + 2
      OBVIOUS
    <2>3. PICK a : a = cur + 1
      OBVIOUS
    <2>4. tokens' = Append(tokens, Token(k, <<>>, a)) /\ cur' = e
      BY <1>3, <1>4, <1>9, <2>1, <2>2, <2>3
    <2>5. /\ e \in EndsAt(cur) /\ \A z \in EndsAt(cur) : z <= e
          /\ KindOf(Part(cur, e)) = k /\ k # "comment"
      BY <1>8, <1>9, <2>1, <2>2
    <2>6. e \in (cur + 1)..Size /\ a \in cur..e
      BY <1>0, <1>4, <2>2, <2>3
    <2>7. k \notin HaveValue
      <3>1. \A p \in DOMAIN Double : Double[p] \notin HaveValue
        BY DEF Double, HaveValue
      <3> QED
        BY <1>9, <2>1, <3>1
    <2>8. \A j \in (a + 1)..e : source[j] # Newline
      <3>1. y # Newline
        <4>1. PICK p \in {<<"+", "+">>, <<"-", "-">>, <<"=", "=">>, <<"<", "=">>, <<">", "=">>,
                          <<"!", "=">>} : p = <<x, y>>
          BY <1>9 DEF Double
        <4>2. p[2] = y /\ p[2] \in {"+", "-", "="}
          BY <4>1
        <4> QED
          BY <4>2 DEF Newline
      <3>2. \A j \in (a + 1)..e : j = cur + 2
        BY <1>0, <2>2, <2>3
      <3> QED
        BY <1>7, <3>1, <3>2
    <2>9. TokenOf(Token(k, <<>>, a), LexemeOf(cur, e))
      <3>1. <<>> = IF KindOf(Part(cur, e)) \in HaveValue THEN Inner(Part(cur, e)) ELSE <<>>
        BY <2>5, <2>7
      <3>2. TokenOf(Token(KindOf(Part(cur, e)), <<>>, a), LexemeOf(cur, e))
        BY <1>0, <2>6, <2>8, <3>1, TokenIs
      <3> QED
        BY <2>5, <3>2
    <2>10. Scan("next", e, c', buffer', Append(tokens, Token(k, <<>>, a)))
      BY <1>0, <1>6, <2>5, <2>9, ScanMore
    <2> QED
      BY <1>5, <2>4, <2>10
  <1>10. CASE <<x, y>> \notin DOMAIN Double
    <2>1. PICK k : k = Single[x]
      OBVIOUS
    <2>2. PICK e : e = cur + 1
      OBVIOUS
    <2>4. tokens' = Append(tokens, Token(k, <<>>, cur)) /\ cur' = e
      BY <1>3, <1>4, <1>10, <2>1, <2>2 DEF Emplace
    <2>5. /\ e \in EndsAt(cur) /\ \A z \in EndsAt(cur) : z <= e
          /\ KindOf(Part(cur, e)) = k /\ k # "comment"
      BY <1>8, <1>10, <2>1, <2>2
    <2>6. e \in (cur + 1)..Size /\ cur \in cur..e
      BY <1>0, <1>4, <2>2
    <2>7. k \notin HaveValue
      BY <2>1 DEF Single, Operators, Unset, HaveValue
    <2>8. \A j \in (cur + 1)..e : source[j] # Newline
      <3>1. x # Newline
        BY DEF Operators, Newline
      <3>2. \A j \in (cur + 1)..e : j = cur + 1
        BY <1>0, <2>2
      <3> QED
        BY <1>7, <3>1, <3>2
    <2>9. TokenOf(Token(k, <<>>, cur), LexemeOf(cur, e))
      <3>1. <<>> = IF KindOf(Part(cur, e)) \in HaveValue THEN Inner(Part(cur, e)) ELSE <<>>
        BY <2>5, <2>7
      <3>2. TokenOf(Token(KindOf(Part(cur, e)), <<>>, cur), LexemeOf(cur, e))
        BY <1>0, <2>6, <2>8, <3>1, TokenIs
      <3> QED
        BY <2>5, <3>2
    <2>10. Scan("next", e, c', buffer', Append(tokens, Token(k, <<>>, cur)))
      BY <1>0, <1>6, <2>5, <2>9, ScanMore
    <2> QED
      BY <1>5, <2>4, <2>10
  <1> QED
    BY <1>9, <1>10

(***************************************************************************)
(* Comments.                                                               *)
(***************************************************************************)
LEMMA BeginCommentScans ==
  ASSUME TypeInv, InBounds, Scan(pc, cur, c, buffer, tokens), BeginComment
  PROVE  Scan(pc', cur', c', buffer', tokens')
  <1>0. Size \in Nat /\ cur \in 0..Size /\ cur \in Nat
    BY CharactersRead DEF TypeInv
  <1>1. On({"/"}) /\ "/" \in Ahead
    BY DEF BeginComment
  <1>2. On(Operators)
    BY <1>1 DEF On, Operators
  <1>3. cur + 1 < Size /\ source[cur + 2] = "/" /\ Advanced(1) = cur + 1 /\ source[cur + 1] = "/"
    BY <1>1, <1>2, AheadIsNext, OnStarts DEF Starts
  <1>4. PICK D \in Seq(Lexeme) : Told(tokens, cur, D) /\ Len(tokens) = Len(D) + 1
    BY <1>1, OnStarts, StandingBetween
  <1>5. PICK e \in 0..Size : e = cur + 1
    BY <1>0, <1>3
  <1>6. cur' = e /\ pc' = "comment" /\ c' = c /\ buffer' = buffer /\ tokens' = tokens
    BY <1>3, <1>5 DEF BeginComment
  <1>7. InProgress("comment", e, c, buffer, cur)
    <2>1. \A j \in (cur + 1)..e : source[j] # Newline
      <3>1. \A j \in (cur + 1)..e : j = cur + 1
        BY <1>0, <1>5
      <3> QED
        BY <1>3, <3>1, ClassesApart
    <2>2. cur < e /\ cur + 2 <= Size
      BY <1>0, <1>3, <1>5
    <2> QED
      BY <1>3, <2>1, <2>2 DEF InProgress
  <1>8. cur \in 0..e
    BY <1>0, <1>5
  <1>9. Scan("comment", e, c, buffer, tokens)
    BY <1>4, <1>7, <1>8, ScanStays
  <1> QED
    BY <1>6, <1>9

LEMMA SkipCommentScans ==
  ASSUME TypeInv, InBounds, Scan(pc, cur, c, buffer, tokens), SkipComment
  PROVE  Scan(pc', cur', c', buffer', tokens')
  <1>0. Size \in Nat /\ cur \in 0..Size /\ cur \in Nat /\ source \in Seq(Alphabet)
    BY CharactersRead DEF TypeInv
  <1>1. pc = "comment" /\ c' = c /\ buffer' = buffer /\ tokens' = tokens
    BY DEF SkipComment
  <1>2. PICK i \in 0..cur : \E D \in Seq(Lexeme) :
           /\ Told(tokens, i, D) /\ Len(tokens) = Len(D) + 1
           /\ InProgress(pc, cur, c, buffer, i)
    BY <1>1, Standing
  <1>3. PICK D \in Seq(Lexeme) :
           /\ Told(tokens, i, D) /\ Len(tokens) = Len(D) + 1
           /\ InProgress(pc, cur, c, buffer, i)
    BY <1>2
  <1>4. /\ i < cur /\ i + 2 <= Size /\ source[i + 1] = "/" /\ source[i + 2] = "/"
        /\ \A j \in (i + 1)..cur : source[j] # Newline
    BY <1>1, <1>3 DEF InProgress
  <1>5. CASE Here # Newline
    <2>1. cur' = Advanced(1) /\ pc' = "comment"
      BY <1>1, <1>5 DEF SkipComment
    <2>2. PICK e \in cur..Size : e = Advanced(1)
      BY CharactersRead
    <2>3. \A j \in (i + 1)..e : source[j] # Newline
      <3>1. CASE cur < Size
        <4>1. e = cur + 1 /\ source[cur + 1] # Newline
          BY <1>5, <2>2, <3>1, CharactersRead
        <4>2. \A j \in (i + 1)..e : j \in (i + 1)..cur \/ j = cur + 1
          BY <1>0, <4>1
        <4> QED
          BY <1>4, <4>1, <4>2
      <3>2. CASE ~ (cur < Size)
        <4>1. e = cur
          BY <1>0, <2>2, <3>2
        <4> QED
          BY <1>4, <4>1
      <3> QED
        BY <3>1, <3>2
    <2>4. e \in 0..Size /\ i \in 0..e /\ i < e
      BY <1>0, <1>4, <2>2
    <2>5. InProgress("comment", e, c, buffer, i)
      BY <1>4, <2>3, <2>4 DEF InProgress
    <2>6. Scan("comment", e, c, buffer, tokens)
      BY <1>3, <2>4, <2>5, ScanStays
    <2> QED
      BY <1>1, <2>1, <2>2, <2>6
  <1>6. CASE Here = Newline
    <2>1. cur' = cur /\ pc' = "next"
      BY <1>6 DEF SkipComment
    <2>2. cur < Size /\ source[cur + 1] = Newline
      BY <1>0, <1>6, CharactersRead DEF Newline, Nul
    <2>3. cur >= i + 2
      <3>1. cur # i + 1
        <4>1. i + 2 = (i + 1) + 1
          BY <1>0
        <4> QED
          BY <1>4, <2>2, <4>1, ClassesApart
      <3> QED
        BY <1>0, <1>4, <3>1
    <2>4. CommentAt(i, cur) /\ i \in Nat /\ cur \in (i + 1)..Size
      BY <1>0, <1>4, <2>3 DEF CommentAt
    <2>5. cur \in EndsAt(i) /\ (\A z \in EndsAt(i) : z <= cur) /\ KindOf(Part(i, cur)) = "comment"
      BY <1>0, <2>2, <2>4, CommentEnds
    <2>6. Rest(i) = Rest(cur)
      <3>1. i \in 0..Size
        BY <1>0
      <3>2. PICK k : k = KindOf(SubSeq(source, i + 1, cur))
        OBVIOUS
      <3>3. k = "comment"
        BY <2>5, <3>2 DEF Part
      <3>4. Rest(i) = IF k = "comment" THEN Rest(cur)
                      ELSE <<[kind |-> k, from |-> i, to |-> cur]>> \o Rest(cur)
        BY <1>0, <2>5, <3>1, <3>2, NextLexeme DEF EndsAt
      <3> QED
        BY <3>3, <3>4
    <2>7. i \in 0..Size /\ cur \in i..Size
      BY <1>0
    <2>8. Scan("next", cur, c, buffer, tokens)
      BY <1>3, <2>6, <2>7, ScanOn
    <2> QED
      BY <1>1, <2>1, <2>8
  <1> QED
    BY <1>5, <1>6

(***************************************************************************)
(* Numbers and strings.                                                    *)
(***************************************************************************)
LEMMA PartGrows ==
  ASSUME source \in Seq(Alphabet), NEW i \in Nat, NEW e \in i..Size, e < Size
  PROVE  Append(Part(i, e), source[e + 1]) = Part(i, e + 1)
  <1> DEFINE u == Part(i, e)
             v == Part(i, e + 1)
             w == Append(u, source[e + 1])
  <1>0. Size = Len(source) /\ Size \in Nat /\ e \in Nat /\ e - i \in Nat
    BY DEF Size
  <1>1. u \in Seq(Alphabet) /\ Len(u) = e - i /\ \A k \in 1..(e - i) : u[k] = source[i + k]
    BY <1>0 DEF Part
  <1>2. /\ v \in Seq(Alphabet) /\ Len(v) = (e - i) + 1
        /\ \A k \in 1..((e - i) + 1) : v[k] = source[i + k]
    BY <1>0 DEF Part
  <1>3. source[e + 1] \in Alphabet
    BY <1>0
  <1> HIDE DEF u, v
  <1>4. PICK n \in Nat : n = e - i /\ e + 1 = i + (n + 1)
    BY <1>0
  <1>5. PICK x \in Alphabet : x = source[e + 1]
    BY <1>3
  <1>6. w = Append(u, x) /\ u \in Seq(Alphabet) /\ Len(u) = n
    BY <1>1, <1>4, <1>5
  <1> HIDE DEF w
  <1>7. /\ w \in Seq(Alphabet) /\ Len(w) = n + 1 /\ w[n + 1] = x
        /\ \A k \in 1..n : w[k] = u[k]
    BY <1>6
  <1>8. ASSUME NEW k \in 1..(n + 1) PROVE w[k] = v[k]
    <2>1. CASE k = n + 1
      <3>1. v[k] = source[i + (n + 1)]
        BY <1>2, <1>4, <2>1
      <3> QED
        BY <1>4, <1>5, <1>7, <2>1, <3>1
    <2>2. CASE k # n + 1
      <3>1. k \in 1..n
        BY <2>2
      <3> QED
        BY <1>1, <1>2, <1>4, <1>7, <3>1
    <2> QED
      BY <2>1, <2>2
  <1>9. w = v
    BY <1>2, <1>4, <1>7, <1>8, SeqEqual
  <1> QED
    BY <1>9 DEF u, v, w

LEMMA PartIsEmpty ==
  ASSUME source \in Seq(Alphabet), NEW i \in 0..Size
  PROVE  Part(i, i) = <<>>
  BY DEF Part, Size

(* The value of a lexeme that is no string is all of it.                   *)
LEMMA InnerIsAll ==
  ASSUME source \in Seq(Alphabet), NEW i \in Nat, NEW e \in (i + 1)..Size, source[i + 1] # Quote
  PROVE  Inner(Part(i, e)) = Part(i, e)
  <1>1. PICK w : w = Part(i, e)
    OBVIOUS
  <1>2. w \in Seq(Alphabet) /\ w # <<>> /\ w[1] # Quote
    BY <1>1, GuardsAt
  <1>3. Head(w) = w[1]
    BY <1>2
  <1> QED
    BY <1>1, <1>2, <1>3 DEF Inner

LEMMA BeginNumberScans ==
  ASSUME TypeInv, InBounds, Scan(pc, cur, c, buffer, tokens), BeginNumber
  PROVE  Scan(pc', cur', c', buffer', tokens')
  <1>0. Size \in Nat /\ cur \in 0..Size /\ source \in Seq(Alphabet)
    BY CharactersRead DEF TypeInv
  <1>1. On(Digits)
    BY DEF BeginNumber
  <1>2. Starts(Here, cur) /\ Here \in Digits /\ pc = "next"
    BY <1>1, OnStarts
  <1>3. PICK D \in Seq(Lexeme) : Told(tokens, cur, D) /\ Len(tokens) = Len(D) + 1
    BY <1>2, StandingBetween
  <1>4. InProgress("number", cur, c, <<>>, cur)
    <2>1. Part(cur, cur) = <<>>
      BY <1>0, PartIsEmpty
    <2>2. \A j \in (cur + 1)..cur : source[j] \in NumberChars
      BY <1>0
    <2> QED
      BY <1>2, <2>1, <2>2 DEF InProgress, Starts
  <1>5. Scan("number", cur, c, <<>>, tokens)
    <2>1. cur \in 0..cur
      BY <1>0
    <2> QED
      BY <1>0, <1>3, <1>4, <2>1, ScanStays
  <1> QED
    BY <1>5 DEF BeginNumber

LEMMA ReadNumberScans ==
  ASSUME TypeInv, InBounds, Scan(pc, cur, c, buffer, tokens), ReadNumber
  PROVE  Scan(pc', cur', c', buffer', tokens')
  <1>0. Size \in Nat /\ cur \in 0..Size /\ cur \in Nat /\ source \in Seq(Alphabet)
    BY CharactersRead DEF TypeInv
  <1>1. pc = "number"
    BY DEF ReadNumber
  <1>2. PICK i \in 0..cur : \E D \in Seq(Lexeme) :
           /\ Told(tokens, i, D) /\ Len(tokens) = Len(D) + 1
           /\ InProgress(pc, cur, c, buffer, i)
    BY <1>1, Standing
  <1>3. PICK D \in Seq(Lexeme) :
           /\ Told(tokens, i, D) /\ Len(tokens) = Len(D) + 1
           /\ InProgress(pc, cur, c, buffer, i)
    BY <1>2
  <1>4. /\ i < Size /\ source[i + 1] \in Digits
        /\ \A j \in (i + 1)..cur : source[j] \in NumberChars
        /\ buffer = Part(i, cur) /\ i \in Nat
    BY <1>1, <1>3 DEF InProgress
  <1>5. CASE Here \in NumberChars
    <2>1. cur < Size /\ Here = source[cur + 1] /\ Advanced(1) = cur + 1
      BY <1>0, <1>5, CharactersRead, ClassesApart
    <2>2. PICK e \in 0..Size : e = cur + 1
      BY <1>0, <2>1
    <2>3. buffer' = Part(i, e)
      <3>1. cur \in i..Size
        BY <1>0
      <3> QED
        BY <1>0, <1>4, <1>5, <2>1, <2>2, <3>1, PartGrows DEF ReadNumber
    <2>4. \A j \in (i + 1)..e : source[j] \in NumberChars
      <3>1. \A j \in (i + 1)..e : j \in (i + 1)..cur \/ j = cur + 1
        BY <1>0, <2>2
      <3> QED
        BY <1>4, <1>5, <2>1, <3>1
    <2>5. InProgress("number", e, c, buffer', i)
      BY <1>4, <2>3, <2>4 DEF InProgress
    <2>6. i \in 0..e
      BY <1>0, <2>2
    <2>7. Scan("number", e, c, buffer', tokens)
      BY <1>3, <2>5, <2>6, ScanStays
    <2>8. cur' = e /\ pc' = "number" /\ tokens' = tokens /\ c' = c
      BY <1>1, <1>5, <2>1, <2>2 DEF ReadNumber
    <2> QED
      BY <2>7, <2>8
  <1>6. CASE Here \notin NumberChars
    <2>1. cur # i
      <3>1. Digits \subseteq NumberChars
        BY DEF NumberChars
      <3> QED
        BY <1>4, <1>6, <3>1, CharactersRead
    <2>2. cur \in (i + 1)..Size /\ cur \in i..cur
      BY <1>0, <2>1
    <2>3. NumberAt(i, cur) /\ (cur = Size \/ source[cur + 1] \notin NumberChars)
      <3>1. cur < Size => source[cur + 1] \notin NumberChars
        BY <1>6, CharactersRead
      <3> QED
        BY <1>0, <1>4, <3>1 DEF NumberAt
    <2>4. PICK k : k = IF "." \in ToSet(buffer) THEN "double_literal" ELSE "integer_literal"
      OBVIOUS
    <2>5. cur \in EndsAt(i) /\ (\A z \in EndsAt(i) : z <= cur) /\ KindOf(Part(i, cur)) = k
      BY <1>0, <1>4, <2>2, <2>3, <2>4, NumberEnds
    <2>6. k # "comment" /\ k \in HaveValue
      BY <2>4 DEF HaveValue
    <2>7. buffer = IF KindOf(Part(i, cur)) \in HaveValue THEN Inner(Part(i, cur)) ELSE <<>>
      <3>1. source[i + 1] # Quote
        BY <1>4, ClassesApart
      <3>2. Inner(Part(i, cur)) = Part(i, cur)
        BY <1>0, <1>4, <2>2, <3>1, InnerIsAll
      <3> QED
        BY <1>4, <2>5, <2>6, <3>2
    <2>8. \A j \in (cur + 1)..cur : source[j] # Newline
      BY <1>0
    <2>9. TokenOf(Token(k, buffer, cur), LexemeOf(i, cur))
      <3>1. TokenOf(Token(KindOf(Part(i, cur)), buffer, cur), LexemeOf(i, cur))
        BY <1>4, <2>2, <2>7, <2>8, TokenIs
      <3> QED
        BY <2>5, <3>1
    <2>10. Scan("next", cur, c', buffer', Append(tokens, Token(k, buffer, cur)))
      <3>1. i \in 0..Size /\ KindOf(Part(i, cur)) # "comment"
        BY <1>0, <2>5, <2>6
      <3> QED
        BY <1>3, <2>5, <2>9, <3>1, ScanMore
    <2>11. /\ cur' = cur /\ pc' = "next"
           /\ tokens' = Append(tokens, Token(k, buffer, cur))
      BY <1>6, <2>4 DEF ReadNumber, Emplace
    <2> QED
      BY <2>10, <2>11
  <1> QED
    BY <1>5, <1>6

LEMMA BeginStringScans ==
  ASSUME TypeInv, InBounds, Scan(pc, cur, c, buffer, tokens), BeginString
  PROVE  Scan(pc', cur', c', buffer', tokens')
  <1>0. Size \in Nat /\ cur \in 0..Size /\ source \in Seq(Alphabet)
    BY CharactersRead DEF TypeInv
  <1>1. On({Quote})
    BY DEF BeginString
  <1>2. Starts(Quote, cur) /\ pc = "next" /\ Advanced(1) = cur + 1
    BY <1>1, OnStarts
  <1>3. PICK D \in Seq(Lexeme) : Told(tokens, cur, D) /\ Len(tokens) = Len(D) + 1
    BY <1>2, StandingBetween
  <1>4. PICK e \in 0..Size : e = cur + 1
    BY <1>0, <1>2 DEF Starts
  <1>5. InProgress("string", e, c, <<>>, cur)
    <2>1. Part(cur + 1, e) = <<>>
      BY <1>0, <1>4, PartIsEmpty
    <2>2. \A j \in (cur + 2)..e : source[j] # Quote
      BY <1>0, <1>4
    <2>3. cur < e
      BY <1>0, <1>4
    <2> QED
      BY <1>2, <2>1, <2>2, <2>3 DEF InProgress, Starts
  <1>6. cur \in 0..e
    BY <1>0, <1>4
  <1>7. Scan("string", e, c, <<>>, tokens)
    BY <1>3, <1>5, <1>6, ScanStays
  <1> QED
    BY <1>2, <1>4, <1>7 DEF BeginString

LEMMA ReadStringScans ==
  ASSUME TypeInv, InBounds, Scan(pc, cur, c, buffer, tokens), ReadString
  PROVE  Scan(pc', cur', c', buffer', tokens')
  <1>0. Size \in Nat /\ cur \in 0..Size /\ cur \in Nat /\ source \in Seq(Alphabet)
    BY CharactersRead DEF TypeInv
  <1>1. pc = "string" /\ c' = c /\ cur' = Advanced(1)
    BY DEF ReadString
  <1>2. PICK i \in 0..cur : \E D \in Seq(Lexeme) :
           /\ Told(tokens, i, D) /\ Len(tokens) = Len(D) + 1
           /\ InProgress(pc, cur, c, buffer, i)
    BY <1>1, Standing
  <1>3. PICK D \in Seq(Lexeme) :
           /\ Told(tokens, i, D) /\ Len(tokens) = Len(D) + 1
           /\ InProgress(pc, cur, c, buffer, i)
    BY <1>2
  <1>4. /\ i < cur /\ source[i + 1] = Quote
        /\ \A j \in (i + 2)..cur : source[j] # Quote
        /\ buffer = Part(i + 1, cur) /\ i \in Nat
    BY <1>1, <1>3 DEF InProgress
  <1>5. CASE cur = Size
    <2>1. Here = Nul /\ Here # Quote /\ Advanced(1) = cur
      BY <1>0, <1>5, CharactersRead, ClassesApart
    <2>2. cur' = cur /\ pc' = pc /\ buffer' = buffer /\ tokens' = tokens
      BY <1>1, <2>1 DEF ReadString
    <2> QED
      BY <1>1, <2>2
  <1>6. CASE cur # Size /\ source[cur + 1] # Quote
    <2>1. cur < Size /\ Here = source[cur + 1] /\ Here # Nul /\ Advanced(1) = cur + 1
      BY <1>0, <1>6, CharactersRead, NulIsNoCharacter
    <2>2. PICK e \in 0..Size : e = cur + 1
      BY <1>0, <2>1
    <2>3. buffer' = Part(i + 1, e)
      <3>1. PICK a \in Nat : a = i + 1
        BY <1>4
      <3>2. cur \in a..Size
        BY <1>0, <1>4, <3>1
      <3>3. Append(Part(a, cur), source[cur + 1]) = Part(a, cur + 1)
        BY <1>0, <2>1, <3>2, PartGrows
      <3> QED
        BY <1>4, <1>6, <2>1, <2>2, <3>1, <3>3 DEF ReadString
    <2>4. \A j \in (i + 2)..e : source[j] # Quote
      <3>1. \A j \in (i + 2)..e : j \in (i + 2)..cur \/ j = cur + 1
        BY <1>0, <1>4, <2>2
      <3> QED
        BY <1>4, <1>6, <3>1
    <2>5. i < e /\ i \in 0..e
      BY <1>0, <1>4, <2>2
    <2>6. InProgress("string", e, c, buffer', i)
      BY <1>4, <2>3, <2>4, <2>5 DEF InProgress
    <2>7. Scan("string", e, c, buffer', tokens)
      BY <1>3, <2>5, <2>6, ScanStays
    <2>8. cur' = e /\ pc' = "string" /\ tokens' = tokens
      BY <1>1, <1>6, <2>1, <2>2 DEF ReadString
    <2> QED
      BY <1>1, <2>7, <2>8
  <1>7. CASE cur # Size /\ source[cur + 1] = Quote
    <2>1. cur < Size /\ Here = Quote /\ Advanced(1) = cur + 1
      BY <1>0, <1>7, CharactersRead
    <2>2. PICK e : e = cur + 1
      OBVIOUS
    <2>3. e \in (i + 1)..Size /\ e \in i..e /\ e > i + 1
      BY <1>0, <1>4, <2>1, <2>2
    <2>4. StringAt(i, e)
      <3>1. \A j \in (i + 2)..(e - 1) : j \in (i + 2)..cur
        BY <1>0, <2>2
      <3> QED
        BY <1>4, <1>7, <2>2, <2>3, <3>1 DEF StringAt
    <2>5. e \in EndsAt(i) /\ (\A z \in EndsAt(i) : z <= e) /\ KindOf(Part(i, e)) = "string_literal"
      BY <1>0, <1>4, <2>3, <2>4, StringEnds
    <2>6. Inner(Part(i, e)) = buffer
      <3>1. PICK w : w = Part(i, e)
        OBVIOUS
      <3>2. w \in Seq(Alphabet) /\ w # <<>> /\ w[1] = Quote
        BY <1>0, <1>4, <2>3, <3>1, GuardsAt
      <3>3. Head(w) = Quote
        BY <3>2
      <3>4. SubSeq(w, 2, Len(w) - 1) = SubSeq(source, i + 2, e - 1)
        <4>1. e \in (i + 1)..Len(source)
          BY <2>3 DEF Size
        <4> QED
          BY <1>0, <1>4, <2>3, <3>1, <4>1, InnerSlice DEF Part
      <3>5. e - 1 = cur /\ i + 2 = (i + 1) + 1
        BY <1>0, <2>2
      <3> QED
        BY <1>4, <3>1, <3>3, <3>4, <3>5 DEF Inner, Part
    <2>7. buffer = IF KindOf(Part(i, e)) \in HaveValue THEN Inner(Part(i, e)) ELSE <<>>
      BY <2>5, <2>6 DEF HaveValue
    <2>8. \A j \in (e + 1)..e : source[j] # Newline
      BY <2>3
    <2>9. TokenOf(Token("string_literal", buffer, e), LexemeOf(i, e))
      <3>1. TokenOf(Token(KindOf(Part(i, e)), buffer, e), LexemeOf(i, e))
        BY <1>4, <2>3, <2>7, <2>8, TokenIs
      <3> QED
        BY <2>5, <3>1
    <2>10. Scan("next", e, c, buffer', Append(tokens, Token("string_literal", buffer, e)))
      <3>1. i \in 0..Size /\ KindOf(Part(i, e)) # "comment"
        BY <1>0, <2>5
      <3> QED
        BY <1>3, <2>5, <2>9, <3>1, ScanMore
    <2>11. /\ cur' = e /\ pc' = "next"
           /\ tokens' = Append(tokens, Token("string_literal", buffer, e))
      BY <1>1, <2>1, <2>2 DEF ReadString
    <2> QED
      BY <1>1, <2>10, <2>11
  <1> QED
    BY <1>5, <1>6, <1>7

(***************************************************************************)
(* Words.                                                                  *)
(***************************************************************************)
LEMMA BeginWordScans ==
  ASSUME TypeInv, InBounds, Scan(pc, cur, c, buffer, tokens), BeginWord
  PROVE  Scan(pc', cur', c', buffer', tokens')
  <1>0. Size \in Nat /\ cur \in 0..Size /\ source \in Seq(Alphabet)
    BY CharactersRead DEF TypeInv
  <1>1. On(WordChars \ Digits)
    BY DEF BeginWord
  <1>2. Starts(Here, cur) /\ Here \in WordChars \ Digits /\ pc = "next"
    BY <1>1, OnStarts
  <1>3. PICK D \in Seq(Lexeme) : Told(tokens, cur, D) /\ Len(tokens) = Len(D) + 1
    BY <1>2, StandingBetween
  <1>4. PICK x : x = source[cur + 1]
    OBVIOUS
  <1>5. InProgress("word", cur, x, <<>>, cur)
    <2>1. Part(cur, cur) = <<>>
      BY <1>0, PartIsEmpty
    <2>2. \A j \in (cur + 1)..cur : source[j] \in WordChars
      BY <1>0
    <2> QED
      BY <1>2, <1>4, <2>1, <2>2 DEF InProgress, Starts
  <1>6. Scan("word", cur, x, <<>>, tokens)
    <2>1. cur \in 0..cur
      BY <1>0
    <2> QED
      BY <1>0, <1>3, <1>5, <2>1, ScanStays
  <1> QED
    BY <1>2, <1>4, <1>6 DEF BeginWord, Starts

LEMMA ReadWordScans ==
  ASSUME TypeInv, InBounds, Scan(pc, cur, c, buffer, tokens), ReadWord
  PROVE  Scan(pc', cur', c', buffer', tokens')
  <1>0. Size \in Nat /\ cur \in 0..Size /\ cur \in Nat /\ source \in Seq(Alphabet)
    BY CharactersRead DEF TypeInv
  <1>1. pc = "word" /\ c \in WordChars
    BY DEF ReadWord
  <1>2. PICK i \in 0..cur : \E D \in Seq(Lexeme) :
           /\ Told(tokens, i, D) /\ Len(tokens) = Len(D) + 1
           /\ InProgress(pc, cur, c, buffer, i)
    BY <1>1, Standing
  <1>3. PICK D \in Seq(Lexeme) :
           /\ Told(tokens, i, D) /\ Len(tokens) = Len(D) + 1
           /\ InProgress(pc, cur, c, buffer, i)
    BY <1>2
  <1>4. /\ i < Size /\ source[i + 1] \in WordChars \ Digits
        /\ \A j \in (i + 1)..cur : source[j] \in WordChars
        /\ buffer = Part(i, cur) /\ i \in Nat
        /\ cur < Size /\ c = source[cur + 1]
    BY <1>1, <1>3 DEF InProgress
  <1>5. cur + 1 # Size
    BY <1>1, <1>4, LastIsNone
  <1>6. PICK e \in 0..Size : e = cur + 1 /\ e < Size
    BY <1>0, <1>4, <1>5
  <1>7. cur' = e
    BY <1>4, <1>6, CharactersRead DEF ReadWord
  <1>8. c' = source[e + 1]
    BY <1>6, <1>7 DEF ReadWord, At
  <1>9. buffer' = Part(i, e)
    <2>1. cur \in i..Size
      BY <1>0
    <2> QED
      BY <1>0, <1>4, <1>6, <2>1, PartGrows DEF ReadWord
  <1>10. \A j \in (i + 1)..e : source[j] \in WordChars
    <2>1. \A j \in (i + 1)..e : j \in (i + 1)..cur \/ j = cur + 1
      BY <1>0, <1>6
    <2> QED
      BY <1>1, <1>4, <2>1
  <1>11. InProgress("word", e, c', buffer', i)
    BY <1>4, <1>6, <1>8, <1>9, <1>10 DEF InProgress
  <1>12. i \in 0..e
    BY <1>0, <1>6
  <1>13. Scan("word", e, c', buffer', tokens)
    BY <1>3, <1>11, <1>12, ScanStays
  <1> QED
    BY <1>1, <1>7, <1>13 DEF ReadWord

(* The word is else, and if follows.                                       *)
LEMMA ElseIfFollows ==
  ASSUME TypeInv, InBounds, NEW i \in Nat, cur = i + 1, cur < Size,
         source[i + 1] = "e", source[cur + 1] \notin WordChars, NextWord = <<"i">>
  PROVE  LET e == WordEnd(WordStart(cur))
         IN  e \in (cur + 1)..Size /\ ElseIfEnd(i, e) /\ \A j \in (cur + 1)..e : source[j] # Newline
  <1>1. PICK s : s = WordStart(cur)
    OBVIOUS
  <1>2. PICK e : e = WordEnd(s)
    OBVIOUS
  <1>3. Size \in Nat /\ cur \in 0..Size /\ source \in Seq(Alphabet)
    BY CharactersRead DEF TypeInv
  <1>4. s \in Nat /\ e = s + 1 /\ e \in cur..Size /\ source[e] = "i"
    BY <1>1, <1>2, NextWordIsIf
  <1>5. e < Size
    BY <1>1, <1>2, IfIsNotLast
  <1>6. IsBlankAt(e)
    <2>1. s \in 0..Size
      BY <1>3, <1>4
    <2> QED
      BY <1>2, <1>3, <1>5, <2>1, WordEndExists
  <1>7. "i" \in WordChars /\ "i" \notin Blanks /\ "i" # Newline /\ Newline \notin Blanks
    BY DEF WordChars, Letters, Blanks, Newline
  <1>8. IsBlankAt(cur)
    <2>1. SUFFICES ASSUME ~ IsBlankAt(cur) PROVE FALSE
      OBVIOUS
    <2>2. s \in 0..cur
      BY <1>1, <1>3, <2>1, WordStartBehindBlank
    <2>3. e # cur
      BY <1>6, <2>1
    <2>4. e = cur + 1
      BY <1>3, <1>4, <2>2, <2>3
    <2> QED
      BY <1>4, <1>7, <2>4
  <1>9. s \in cur..Size /\ \A j \in cur..(s - 1) : IsBlankAt(j)
    BY <1>1, <1>3, <1>8, WordStartAfterBlanks
  <1>10. s # cur
    BY <1>4, <1>7, <1>8 DEF IsBlankAt
  <1>11. e > i + 2 /\ e \in (cur + 1)..Size
    BY <1>3, <1>4, <1>9, <1>10
  <1>12. ASSUME NEW j \in (i + 2)..(e - 1) PROVE source[j] \in Blanks
    <2>1. PICK k : k = j - 1
      OBVIOUS
    <2>2. k \in cur..(s - 1) /\ k + 1 = j
      BY <1>3, <1>4, <2>1
    <2> QED
      BY <1>9, <2>2 DEF IsBlankAt
  <1>13. ElseIfEnd(i, e)
    BY <1>4, <1>6, <1>11, <1>12 DEF ElseIfEnd, ElseIfAt, IsBlankAt
  <1>14. ASSUME NEW j \in (cur + 1)..e PROVE source[j] # Newline
    <2>1. j \in (i + 2)..(e - 1) \/ j = e
      BY <1>3, <1>4, <1>14
    <2> QED
      BY <1>4, <1>7, <1>12, <2>1
  <1> QED
    BY <1>1, <1>2, <1>11, <1>13, <1>14

(* Where else, blanks, if starts, the word that ends at the cursor is else *)
(* and the next one if.                                                    *)
LEMMA FollowsElseIf ==
  ASSUME TypeInv, NEW i \in Nat, i < cur, cur < Size,
         \A j \in (i + 1)..cur : source[j] \in WordChars,
         NEW x \in (i + 1)..Size, ElseIfEnd(i, x)
  PROVE  Part(i, cur) = <<"e">> /\ NextWord = <<"i">>
  <1>1. Size \in Nat /\ cur \in 0..Size /\ source \in Seq(Alphabet) /\ Len(source) = Size
    BY CharactersRead DEF TypeInv, Size
  <1>2. /\ x > i + 2 /\ source[i + 1] = "e" /\ source[x] = "i"
        /\ \A j \in (i + 2)..(x - 1) : source[j] \in Blanks
        /\ x = Size \/ source[x + 1] \in Blanks
    BY DEF ElseIfEnd, ElseIfAt
  <1>3. cur = i + 1
    <2>1. i + 2 \in (i + 2)..(x - 1)
      BY <1>1, <1>2
    <2>2. source[i + 2] \notin WordChars
      BY <1>2, <2>1, ClassesApart
    <2>3. i + 2 \notin (i + 1)..cur
      BY <2>2
    <2> QED
      BY <1>1, <2>3
  <1>4. Part(i, cur) = <<"e">>
    <2>1. PICK w : w = Part(i, cur)
      OBVIOUS
    <2>2. w \in Seq(Alphabet) /\ Len(w) = cur - i /\ w[1] = source[i + 1]
      <3>1. cur \in (i + 1)..Size
        BY <1>1
      <3> QED
        BY <1>1, <2>1, <3>1, GuardsAt
    <2>3. Len(w) = 1 /\ w[1] = "e"
      BY <1>1, <1>2, <1>3, <2>2
    <2>4. w = <<w[1]>>
      BY <2>2, <2>3, OneCharacter
    <2> QED
      BY <2>1, <2>3, <2>4
  <1>5. \A j \in cur..(x - 2) : IsBlankAt(j)
    <2>1. ASSUME NEW j \in cur..(x - 2) PROVE IsBlankAt(j)
      <3>1. j + 1 \in (i + 2)..(x - 1)
        BY <1>1, <1>3
      <3> QED
        BY <1>2, <3>1 DEF IsBlankAt
    <2> QED
      BY <2>1
  <1>6. PICK m \in 0..Size : m = x - 1 /\ m + 1 = x /\ m > cur
    BY <1>1, <1>2, <1>3
  <1>7. ~ IsBlankAt(m) /\ \A j \in cur..(m - 1) : IsBlankAt(j)
    <2>1. "i" \notin Blanks
      BY DEF Blanks
    <2>2. x - 2 = m - 1
      BY <1>1, <1>6
    <2> QED
      BY <1>2, <1>5, <1>6, <2>1, <2>2 DEF IsBlankAt
  <1>8. WordStart(cur) = m
    <2>1. IsBlankAt(cur)
      BY <1>1, <1>6, <1>7
    <2>2. PICK s : s = WordStart(cur)
      OBVIOUS
    <2>3. s \in cur..Size /\ (s < Size => ~ IsBlankAt(s)) /\ \A j \in cur..(s - 1) : IsBlankAt(j)
      BY <1>1, <2>1, <2>2, WordStartAfterBlanks
    <2>4. ~ (s < m)
      BY <1>1, <1>6, <1>7, <2>3
    <2>5. ~ (m < s)
      BY <1>1, <1>6, <1>7, <2>3
    <2> QED
      BY <1>1, <1>6, <2>2, <2>3, <2>4, <2>5
  <1>9. WordEnd(m) = x
    <2>1. PICK e : e = WordEnd(m)
      OBVIOUS
    <2>2. e \in m..Size /\ (e < Size => IsBlankAt(e)) /\ \A j \in m..(e - 1) : ~ IsBlankAt(j)
      BY <1>1, <2>1, WordEndExists
    <2>3. e # m
      BY <1>1, <1>6, <1>7, <2>2
    <2>4. ~ (x < e)
      <3>1. SUFFICES ASSUME x < e PROVE FALSE
        OBVIOUS
      <3>2. x \in m..(e - 1) /\ x # Size
        BY <1>1, <1>6, <2>2, <3>1
      <3> QED
        BY <1>2, <2>2, <3>2 DEF IsBlankAt
    <2> QED
      BY <1>1, <1>6, <2>1, <2>2, <2>3, <2>4
  <1>10. NextWord = <<"i">>
    <2>1. NextWord = Part(m, x)
      BY <1>8, <1>9 DEF NextWord, Part
    <2>2. PICK w : w = Part(m, x)
      OBVIOUS
    <2>3. w \in Seq(Alphabet) /\ Len(w) = x - m /\ w[1] = source[m + 1]
      <3>1. x \in (m + 1)..Size /\ m \in Nat
        BY <1>1, <1>6
      <3> QED
        BY <1>1, <2>2, <3>1, GuardsAt
    <2>4. Len(w) = 1 /\ w[1] = "i"
      BY <1>1, <1>2, <1>6, <2>3
    <2>5. w = <<w[1]>>
      BY <2>3, <2>4, OneCharacter
    <2> QED
      BY <2>1, <2>2, <2>4, <2>5
  <1> QED
    BY <1>4, <1>10

LEMMA EndWordScans ==
  ASSUME TypeInv, InBounds, Scan(pc, cur, c, buffer, tokens), EndWord
  PROVE  Scan(pc', cur', c', buffer', tokens')
  <1>0. Size \in Nat /\ cur \in 0..Size /\ cur \in Nat /\ source \in Seq(Alphabet)
    BY CharactersRead DEF TypeInv
  <1>1. pc = "word" /\ c \notin WordChars
    BY DEF EndWord
  <1>2. PICK i \in 0..cur : \E D \in Seq(Lexeme) :
           /\ Told(tokens, i, D) /\ Len(tokens) = Len(D) + 1
           /\ InProgress(pc, cur, c, buffer, i)
    BY <1>1, Standing
  <1>3. PICK D \in Seq(Lexeme) :
           /\ Told(tokens, i, D) /\ Len(tokens) = Len(D) + 1
           /\ InProgress(pc, cur, c, buffer, i)
    BY <1>2
  <1>4. /\ i < Size /\ source[i + 1] \in WordChars \ Digits
        /\ \A j \in (i + 1)..cur : source[j] \in WordChars
        /\ buffer = Part(i, cur) /\ i \in Nat
        /\ cur < Size /\ source[cur + 1] \notin WordChars
    BY <1>1, <1>3 DEF InProgress
  <1>5. i < cur /\ cur \in (i + 1)..Size /\ i \in 0..Size
    <2>1. cur # i
      BY <1>4
    <2> QED
      BY <1>0, <2>1
  <1>6. CASE buffer = <<"e">> /\ NextWord = <<"i">>
    <2>1. cur = i + 1 /\ source[i + 1] = "e"
      <3>1. Len(Part(i, cur)) = cur - i /\ Part(i, cur)[1] = source[i + 1]
        BY <1>0, <1>4, <1>5, GuardsAt
      <3>2. Len(<<"e">>) = 1 /\ <<"e">>[1] = "e"
        OBVIOUS
      <3>3. cur - i = 1 /\ source[i + 1] = "e"
        BY <1>4, <1>6, <3>1, <3>2
      <3> QED
        BY <1>0, <3>3
    <2>2. PICK e : e = WordEnd(WordStart(cur))
      OBVIOUS
    <2>3. e \in (cur + 1)..Size /\ ElseIfEnd(i, e) /\ \A j \in (cur + 1)..e : source[j] # Newline
      BY <1>4, <1>6, <2>1, <2>2, ElseIfFollows
    <2>4. e \in (i + 1)..Size /\ cur \in i..e
      BY <1>0, <2>3
    <2>5. e \in EndsAt(i) /\ (\A x \in EndsAt(i) : x <= e) /\ KindOf(Part(i, e)) = "else_if_stmt"
      BY <1>0, <1>4, <2>3, <2>4, ElseIfEnds
    <2>6. TokenOf(Token("else_if_stmt", <<>>, cur), LexemeOf(i, e))
      <3>1. <<>> = IF KindOf(Part(i, e)) \in HaveValue THEN Inner(Part(i, e)) ELSE <<>>
        BY <2>5 DEF HaveValue
      <3>2. TokenOf(Token(KindOf(Part(i, e)), <<>>, cur), LexemeOf(i, e))
        BY <1>4, <2>3, <2>4, <3>1, TokenIs
      <3> QED
        BY <2>5, <3>2
    <2>7. Scan("skipws", e, c', buffer', Append(tokens, Token("else_if_stmt", <<>>, cur)))
      <3>1. KindOf(Part(i, e)) # "comment"
        BY <2>5
      <3> QED
        BY <1>3, <1>5, <2>5, <2>6, <3>1, ScanMore
    <2>8. /\ cur' = e /\ pc' = "skipws"
          /\ tokens' = Append(tokens, Token("else_if_stmt", <<>>, cur))
      BY <1>6, <2>2 DEF EndWord, Emplace
    <2> QED
      BY <2>7, <2>8
  <1>7. CASE ~ (buffer = <<"e">> /\ NextWord = <<"i">>)
    <2>1. \A x \in (i + 1)..Size : ~ ElseIfEnd(i, x)
      BY <1>4, <1>5, <1>7, FollowsElseIf
    <2>2. WordAt(i, cur)
      BY <1>4 DEF WordAt
    <2>3. PICK k : k = IF buffer \in DOMAIN Keywords THEN Keywords[buffer] ELSE "symbol"
      OBVIOUS
    <2>4. /\ cur \in EndsAt(i) /\ \A x \in EndsAt(i) : x <= cur
          /\ KindOf(Part(i, cur)) = k /\ k # "comment"
      BY <1>0, <1>4, <1>5, <2>1, <2>2, <2>3, WordEnds
    <2>5. PICK v : v = IF k = "symbol" THEN buffer ELSE <<>>
      OBVIOUS
    <2>6. \A w \in DOMAIN Keywords : Keywords[w] # "symbol" /\ Keywords[w] \notin HaveValue
      BY DEF Keywords, HaveValue
    <2>7. v = IF KindOf(Part(i, cur)) \in HaveValue THEN Inner(Part(i, cur)) ELSE <<>>
      <3>1. source[i + 1] # Quote
        BY <1>4, ClassesApart
      <3>2. Inner(Part(i, cur)) = buffer
        BY <1>0, <1>4, <1>5, <3>1, InnerIsAll
      <3>3. k \in HaveValue <=> k = "symbol"
        BY <2>3, <2>6 DEF HaveValue
      <3> QED
        BY <2>4, <2>5, <3>2, <3>3
    <2>8. TokenOf(Token(k, v, cur), LexemeOf(i, cur))
      <3>1. cur \in i..cur /\ \A j \in (cur + 1)..cur : source[j] # Newline
        BY <1>0
      <3>2. TokenOf(Token(KindOf(Part(i, cur)), v, cur), LexemeOf(i, cur))
        BY <1>4, <1>5, <2>7, <3>1, TokenIs
      <3> QED
        BY <2>4, <3>2
    <2>9. Scan("next", cur, c', buffer', Append(tokens, Token(k, v, cur)))
      <3>1. KindOf(Part(i, cur)) # "comment"
        BY <2>4
      <3> QED
        BY <1>3, <1>5, <2>4, <2>8, <3>1, ScanMore
    <2>10. /\ cur' = cur /\ pc' = "next"
           /\ tokens' = Append(tokens, Token(k, v, cur))
      <3>1. CASE buffer \in DOMAIN Keywords
        BY <1>7, <2>3, <2>5, <2>6, <3>1 DEF EndWord, Emplace
      <3>2. CASE buffer \notin DOMAIN Keywords
        BY <1>7, <2>3, <2>5, <3>2 DEF EndWord, Emplace
      <3> QED
        BY <3>1, <3>2
    <2> QED
      BY <2>9, <2>10
  <1> QED
    BY <1>6, <1>7

(***************************************************************************)
(* Beginning and end.                                                      *)
(***************************************************************************)
LEMMA LexInvInit ==
  ASSUME Init, TypeInv
  PROVE  LexInv
  <1>1. /\ cur = 0 /\ pc = "skipws" /\ tokens = <<Token("bof", <<>>, 0)>>
        /\ source \in Seq(Alphabet) /\ Size \in Nat
    BY CharactersRead DEF Init, TypeInv
  <1>2. PICK D : D = <<>>
    OBVIOUS
  <1>3. D \in Seq(Lexeme) /\ Len(D) = 0
    BY <1>2
  <1>4. 0 \in 0..Size /\ 0 \in 0..0
    BY <1>1
  <1>5. Rest(0) = D \o Rest(0)
    BY <1>1, <1>2, <1>4, RestIsSeq, ConcatEmptySeq
  <1>6. Len(tokens) = 1
    BY <1>1
  <1>7. Told(tokens, 0, D)
    BY <1>3, <1>5 DEF Told
  <1>8. InProgress("skipws", 0, c, buffer, 0) /\ Count("skipws") = 1
    BY DEF InProgress, Count
  <1>9. ScannedTo("skipws", 0, c, buffer, tokens, 0, D)
    BY <1>3, <1>6, <1>7, <1>8 DEF ScannedTo
  <1>10. Scan("skipws", 0, c, buffer, tokens)
    BY <1>3, <1>4, <1>9 DEF Scan
  <1> QED
    BY <1>1, <1>10 DEF LexInv

LEMMA EndOfTextScans ==
  ASSUME TypeInv, InBounds, Scan(pc, cur, c, buffer, tokens), EndOfText
  PROVE  Scan(pc', cur', c', buffer', tokens')
  <1>0. Size \in Nat /\ cur \in 0..Size /\ tokens \in Seq(Tokens)
    BY CharactersRead DEF TypeInv
  <1>1. pc = "next" /\ cur = Size
    BY DEF EndOfText
  <1>2. PICK D \in Seq(Lexeme) : Told(tokens, cur, D) /\ Len(tokens) = Len(D) + 1
    BY <1>1, StandingBetween
  <1>3. PICK t : t = Token("eof", <<>>, cur)
    OBVIOUS
  <1>4. PICK ts : ts = Append(tokens, t)
    OBVIOUS
  <1>5. PICK n \in Nat : n = Len(D)
    OBVIOUS
  <1>6. Len(ts) = n + 2 /\ \A k \in 1..n : ts[k + 1] = tokens[k + 1]
    BY <1>0, <1>2, <1>4, <1>5
  <1>7. Told(ts, cur, D)
    BY <1>2, <1>5, <1>6 DEF Told
  <1>8. InProgress("done", cur, c, buffer, cur) /\ Count("done") = 2
    BY <1>1 DEF InProgress, Count
  <1>9. ScannedTo("done", cur, c, buffer, ts, cur, D)
    BY <1>5, <1>6, <1>7, <1>8 DEF ScannedTo
  <1>10. cur \in 0..cur
    BY <1>0
  <1>11. Scan("done", cur, c, buffer, ts)
    BY <1>9, <1>10 DEF Scan
  <1> QED
    BY <1>3, <1>4, <1>11 DEF EndOfText, Emplace

LEMMA NextScans ==
  ASSUME TypeInv, NeverAtTheEnd, InBounds, Scan(pc, cur, c, buffer, tokens), Next
  PROVE  source' = source /\ Scan(pc', cur', c', buffer', tokens')
  <1>1. CASE SkipBlanks
    BY <1>1, SkipBlanksScans DEF SkipBlanks
  <1>2. CASE SkipOne
    BY <1>2, SkipOneScans DEF SkipOne
  <1>3. CASE ReadPunctuation
    BY <1>3, ReadPunctuationScans DEF ReadPunctuation
  <1>4. CASE ReadOperator
    BY <1>4, ReadOperatorScans DEF ReadOperator
  <1>5. CASE BeginComment
    BY <1>5, BeginCommentScans DEF BeginComment
  <1>6. CASE SkipComment
    BY <1>6, SkipCommentScans DEF SkipComment
  <1>7. CASE BeginNumber
    BY <1>7, BeginNumberScans DEF BeginNumber
  <1>8. CASE ReadNumber
    BY <1>8, ReadNumberScans DEF ReadNumber
  <1>9. CASE BeginString
    BY <1>9, BeginStringScans DEF BeginString
  <1>10. CASE ReadString
    BY <1>10, ReadStringScans DEF ReadString
  <1>11. CASE BeginWord
    BY <1>11, BeginWordScans DEF BeginWord
  <1>12. CASE ReadWord
    BY <1>12, ReadWordScans DEF ReadWord
  <1>13. CASE EndWord
    BY <1>13, EndWordScans DEF EndWord
  <1>14. CASE EndOfText
    BY <1>14, EndOfTextScans DEF EndOfText
  <1>15. CASE Stop
    BY <1>15 DEF Stop, vars
  <1> QED
    BY <1>1, <1>2, <1>3, <1>4, <1>5, <1>6, <1>7, <1>8, <1>9, <1>10, <1>11, <1>12, <1>13,
       <1>14, <1>15 DEF Next

LEMMA SourceStays ==
  ASSUME [Next]_vars
  PROVE  source' = source
  BY DEF Next, vars, Stop, SkipBlanks, SkipOne, ReadPunctuation, ReadOperator, BeginComment,
         SkipComment, BeginNumber, ReadNumber, BeginString, ReadString, BeginWord, ReadWord,
         EndWord, EndOfText

LEMMA LexInvNext ==
  ASSUME TypeInv, NeverAtTheEnd, LexInv, [Next]_vars
  PROVE  LexInv'
  <1>1. source' = source
    BY SourceStays
  <1>2. SUFFICES ASSUME InBounds PROVE Scan(pc', cur', c', buffer', tokens')
    <2>1. Lexeme' = Lexeme /\ \A i : Rest(i)' = Rest(i)
      BY <1>1 DEF Lexeme, Rest
    <2>2. \A t, l : TokenOf(t, l)' <=> TokenOf(t, l)
      BY <1>1 DEF TokenOf, Part, Size
    <2>3. ASSUME NEW i, NEW D PROVE Told(tokens, i, D)' <=> Told(tokens', i, D)
      BY <2>1, <2>2 DEF Told
    <2>4. ASSUME NEW i
          PROVE  InProgress(pc, cur, c, buffer, i)' <=> InProgress(pc', cur', c', buffer', i)
      BY <1>1 DEF InProgress, Part, Size
    <2>5. ASSUME NEW i, NEW D
          PROVE  ScannedTo(pc, cur, c, buffer, tokens, i, D)'
                   <=> ScannedTo(pc', cur', c', buffer', tokens', i, D)
      BY <2>3, <2>4 DEF ScannedTo, Count
    <2>6. Scan(pc', cur', c', buffer', tokens') => Scan(pc, cur, c, buffer, tokens)'
      BY <2>1, <2>5 DEF Scan
    <2> QED
      BY <1>1, <2>6 DEF LexInv, InBounds
  <1>3. Scan(pc, cur, c, buffer, tokens)
    BY <1>2 DEF LexInv
  <1>4. CASE Next
    BY <1>2, <1>3, <1>4, NextScans
  <1>5. CASE UNCHANGED vars
    BY <1>3, <1>5 DEF vars
  <1> QED
    BY <1>4, <1>5

LEMMA TextIsScanned == Spec => [](TypeInv /\ LexInv)
  <1>1. Init => TypeInv /\ NeverAtTheEnd /\ LexInv
    <2>1. ASSUME Init
          PROVE  TypeInv /\ NeverAtTheEnd /\ LexInv
      <3>1. TypeInv
        BY <2>1, TypeInvInit
      <3>2. NeverAtTheEnd
        BY <2>1, <3>1, LastIsNone DEF Init, NeverAtTheEnd
      <3> QED
        BY <2>1, <3>1, <3>2, LexInvInit
    <2> QED
      BY <2>1
  <1>2. TypeInv /\ NeverAtTheEnd /\ LexInv /\ [Next]_vars
          => (TypeInv /\ NeverAtTheEnd /\ LexInv)'
    <2>1. ASSUME TypeInv, NeverAtTheEnd, LexInv, [Next]_vars
          PROVE  TypeInv' /\ NeverAtTheEnd' /\ LexInv'
      <3>1. LexInv'
        BY <2>1, LexInvNext
      <3>2. CASE Next
        BY <2>1, <3>1, <3>2, TypeInvNext, NeverAtTheEndNext
      <3>3. CASE UNCHANGED vars
        BY <2>1, <3>1, <3>3 DEF TypeInv, NeverAtTheEnd, InBounds, vars, Size
      <3> QED
        BY <2>1, <3>2, <3>3
    <2> QED
      BY <2>1
  <1> QED
    BY <1>1, <1>2, PTL DEF Spec

(* At the end the tokens between the first and the last are those of the   *)
(* lexemes.                                                                *)
LEMMA AllScanned ==
  ASSUME TypeInv, LexInv, InBounds, pc = "done"
  PROVE  /\ Lexemes(source) \in Seq(Lexeme)
         /\ Scanned \in Seq(Tokens)
         /\ Len(Scanned) = Len(Lexemes(source))
         /\ \A k \in 1..Len(Lexemes(source)) : TokenOf(Scanned[k], Lexemes(source)[k])
  <1>0. Size \in Nat /\ cur \in 0..Size /\ tokens \in Seq(Tokens) /\ source \in Seq(Alphabet)
    BY CharactersRead DEF TypeInv
  <1>1. Scan("done", cur, c, buffer, tokens)
    BY DEF LexInv
  <1>2. PICK i \in 0..cur : \E D \in Seq(Lexeme) : ScannedTo("done", cur, c, buffer, tokens, i, D)
    BY <1>1 DEF Scan
  <1>3. PICK D \in Seq(Lexeme) : ScannedTo("done", cur, c, buffer, tokens, i, D)
    BY <1>2
  <1>4. i = Size /\ Len(tokens) = Len(D) + 2 /\ Told(tokens, Size, D)
    BY <1>3 DEF ScannedTo, InProgress, Count
  <1>5. Rest(Size) = <<>>
    <2>1. Size \in 0..Len(source) /\ Size = Len(source)
      BY <1>0 DEF Size
    <2> QED
      BY <1>0, <2>1, LexemesUnfold DEF Unfold, Rest
  <1>6. Lexemes(source) = D
    <2>1. Rest(0) = D
      BY <1>4, <1>5, ConcatEmptySeq DEF Told
    <2> QED
      BY <2>1 DEF Lexemes, Rest
  <1>7. PICK n \in Nat : n = Len(D)
    OBVIOUS
  <1>8. Len(tokens) = n + 2 /\ Scanned = SubSeq(tokens, 2, n + 1)
    <2>1. Len(tokens) = n + 2
      BY <1>4, <1>7
    <2>2. Len(tokens) - 1 = n + 1
      BY <2>1
    <2> QED
      BY <2>1, <2>2 DEF Scanned
  <1>9. /\ Scanned \in Seq(Tokens) /\ Len(Scanned) = n
        /\ \A k \in 1..n : Scanned[k] = tokens[k + 1]
    <2>1. 2 \in 1..(Len(tokens) + 1) /\ n + 1 \in 1..Len(tokens)
      BY <1>8
    <2>2. PICK u : u = SubSeq(tokens, 2, n + 1)
      OBVIOUS
    <2>3. u \in Seq(Tokens) /\ Len(u) = n /\ \A k \in 1..n : u[k] = tokens[k + 1]
      BY <1>0, <1>8, <2>1, <2>2
    <2> QED
      BY <1>8, <2>2, <2>3
  <1>10. \A k \in 1..n : TokenOf(Scanned[k], D[k])
    BY <1>4, <1>7, <1>9 DEF Told
  <1> QED
    BY <1>6, <1>7, <1>9, <1>10

(***************************************************************************)
(* At the end the tokens are the lexemes of the text, the longest ones     *)
(* from left to right, with their kinds and values (tokenize and the       *)
(* helpers of TextReader), whatever lies behind the buffer.                *)
(***************************************************************************)
THEOREM TokensAreTheLexemes == Spec => []TokensAreLongestLexemes
  <1>1. TypeInv /\ LexInv => TokensAreLongestLexemes
    <2>1. SUFFICES ASSUME TypeInv, LexInv, pc = "done", InBounds
                   PROVE  LET L == Lexemes(source)
                          IN  /\ Len(Scanned) = Len(L)
                              /\ \A i \in DOMAIN L :
                                   /\ Scanned[i].kind = L[i].kind
                                   /\ Scanned[i].value =
                                        IF L[i].kind \in HaveValue
                                        THEN Inner(SubSeq(source, L[i].from + 1, L[i].to)) ELSE <<>>
      BY DEF TokensAreLongestLexemes
    <2>2. PICK L : L = Lexemes(source)
      OBVIOUS
    <2>3. /\ L \in Seq(Lexeme) /\ Len(Scanned) = Len(L)
          /\ \A k \in 1..Len(L) : TokenOf(Scanned[k], L[k])
      BY <2>1, <2>2, AllScanned
    <2>4. DOMAIN L = 1..Len(L)
      BY <2>3
    <2> QED
      BY <2>2, <2>3, <2>4 DEF TokenOf, Part
  <1> QED
    BY <1>1, TextIsScanned, PTL

(***************************************************************************)
(* The position of a token lies on the line the token ends on, not before  *)
(* its beginning and not after its end (the cursor that Emplace records).  *)
(***************************************************************************)
THEOREM PositionsAreRight == Spec => []PositionsAreOnTheToken
  <1>1. TypeInv /\ LexInv => PositionsAreOnTheToken
    <2>1. SUFFICES ASSUME TypeInv, LexInv, pc = "done", InBounds
                   PROVE  \A i \in DOMAIN Scanned :
                            LET l == Lexemes(source)[i]
                            IN  /\ Scanned[i].at \in l.from..l.to
                                /\ Newline \notin ToSet(SubSeq(source, Scanned[i].at + 1, l.to))
      BY DEF PositionsAreOnTheToken
    <2>2. /\ Scanned \in Seq(Tokens) /\ Len(Scanned) = Len(Lexemes(source))
          /\ \A k \in 1..Len(Lexemes(source)) : TokenOf(Scanned[k], Lexemes(source)[k])
      BY <2>1, AllScanned
    <2>3. DOMAIN Scanned = 1..Len(Lexemes(source))
      BY <2>2
    <2> QED
      BY <2>2, <2>3 DEF TokenOf
  <1> QED
    BY <1>1, TextIsScanned, PTL

(***************************************************************************)
(* The excerpt.  The line of a position begins behind the last newline     *)
(* before it.                                                              *)
(***************************************************************************)
LEMMA LastNewline ==
  ASSUME source \in Seq(Alphabet), NEW p \in 0..Size
  PROVE  LET m == NewLineIndex(p)
         IN  /\ m \in Nat /\ (m = 0 \/ m \in NewlinesBefore(p))
             /\ \A x \in NewlinesBefore(p) : x <= m
             /\ NewlinesBefore(p) = {} => m = 0
  <1> DEFINE E == NewlinesBefore(p) \cup {0}
             T == {p - x : x \in E}
  <1>0. Size \in Nat /\ Size = Len(source)
    BY DEF Size
  <1>1. E \subseteq 0..p /\ 0 \in E
    BY <1>0 DEF NewlinesBefore
  <1>2. PICK N : N = NewlinesBefore(p)
    OBVIOUS
  <1> HIDE DEF E
  <1>3. T \subseteq Nat /\ T # {}
    BY <1>0, <1>1
  <1>4. PICK t \in T : \A y \in T : t <= y
    BY <1>3, Least
  <1>5. PICK x \in E : t = p - x
    BY <1>4
  <1>6. ASSUME NEW y \in E PROVE x >= y
    <2>1. t <= p - y
      BY <1>4
    <2> QED
      BY <1>0, <1>1, <1>5, <2>1
  <1>7. Max(E) \in E /\ \A y \in E : Max(E) >= y
    BY <1>6 DEF Max
  <1>8. PICK m : m = Max(E)
    OBVIOUS
  <1>9. m \in E /\ m \in Nat /\ \A y \in E : y <= m
    <2>1. m \in E /\ \A y \in E : m >= y
      BY <1>7, <1>8, Zenon
    <2>2. m \in 0..p /\ \A y \in E : y \in 0..p
      BY <1>1, <2>1
    <2> QED
      BY <1>0, <2>1, <2>2
  <1>10. NewLineIndex(p) = m
    BY <1>8 DEF NewLineIndex, E
  <1> QED
    BY <1>9, <1>10 DEF E

LEMMA LineNumbers ==
  ASSUME source \in Seq(Alphabet), NEW p \in 0..Size
  PROVE  /\ LinePos(p) \in Nat /\ (LinePos(p) = 0 <=> NewlinesBefore(p) = {})
         /\ Gutter(p) \in Nat
  <1>1. Size \in Nat
    BY DEF Size
  <1>2. IsFiniteSet(NewlinesBefore(p))
    <2>1. IsFiniteSet(0..(Size - 1))
      BY <1>1, FS_Interval
    <2>2. NewlinesBefore(p) \subseteq 0..(Size - 1)
      BY DEF NewlinesBefore
    <2> QED
      BY <2>1, <2>2, FS_Subset
  <1>3. LinePos(p) \in Nat /\ (LinePos(p) = 0 <=> NewlinesBefore(p) = {})
    BY <1>2, FS_CardinalityType, FS_EmptySet DEF LinePos
  <1>4. PICK n \in Nat : n = LinePos(p) + 1
    BY <1>3
  <1>5. DigitsOf(n) \in Nat
    <2> DEFINE K == {k \in 0..(n - 1) : 10^k <= n}
    <2>1. IsFiniteSet(0..(n - 1))
      BY FS_Interval
    <2>2. K \subseteq 0..(n - 1)
      OBVIOUS
    <2> HIDE DEF K
    <2>3. Cardinality(K) \in Nat
      BY <2>1, <2>2, FS_Subset, FS_CardinalityType
    <2> QED
      BY <2>3 DEF K, DigitsOf
  <1> QED
    BY <1>3, <1>4, <1>5 DEF Gutter

(* The excerpt for a position on a token of which nothing behind it is on  *)
(* another line.                                                           *)
LEMMA ExcerptOfToken ==
  ASSUME source \in Seq(Alphabet), NEW f \in Nat, NEW to \in (f + 1)..Size, NEW p \in f..to,
         \A j \in (p + 1)..to : source[j] # Newline
  PROVE  LET Newlines == {i \in 0..(to - 1) : source[i + 1] = Newline}
         IN  /\ NewlinesBefore(p) = Newlines
             /\ {i \in f..(to - 1) : Newline \notin ToSet(SubSeq(source, i + 1, to))} \ {0}
                  \subseteq Excerpt(p)
             /\ \A i \in Excerpt(p) : NewlinesBefore(i) = Newlines
             /\ 0 \notin Excerpt(p)
             /\ CaretColumn(p) + Gutter(p) = Column(p, p) + (IF LinePos(p) = 0 THEN 1 ELSE 0)
  <1> DEFINE Newlines == {i \in 0..(to - 1) : source[i + 1] = Newline}
  <1>0. Size \in Nat /\ Size = Len(source) /\ p \in 0..Size /\ to \in Nat
    BY DEF Size
  <1>1. NewlinesBefore(p) = Newlines
    <2>1. ASSUME NEW i \in NewlinesBefore(p) PROVE i \in Newlines
      BY <1>0 DEF NewlinesBefore
    <2>2. ASSUME NEW i \in Newlines PROVE i \in NewlinesBefore(p)
      <3>1. i \in 0..(Size - 1) /\ source[i + 1] = Newline /\ i + 1 \notin (p + 1)..to
        BY <1>0
      <3>2. i < p
        BY <1>0, <3>1
      <3> QED
        BY <3>1, <3>2 DEF NewlinesBefore
    <2> QED
      BY <2>1, <2>2
  <1> HIDE DEF Newlines
  <1>2. PICK m \in Nat : /\ m = NewLineIndex(p) /\ (m = 0 \/ m \in NewlinesBefore(p))
                         /\ \A x \in NewlinesBefore(p) : x <= m
                         /\ NewlinesBefore(p) = {} => m = 0
    BY <1>0, LastNewline
  <1>3. m \in NewlinesBefore(p) => m < p /\ m < Size /\ source[m + 1] = Newline
    BY <1>0 DEF NewlinesBefore
  <1>4. ASSUME NEW i \in f..(to - 1), Newline \notin ToSet(SubSeq(source, i + 1, to)), i # 0
        PROVE  i \in Excerpt(p)
    <2>1. \A j \in (i + 1)..to : source[j] # Newline
      <3>1. to \in i..Len(source) /\ i \in Nat
        BY <1>0
      <3> QED
        BY <1>0, <1>4, <3>1, InSlice
    <2>2. i >= m + 1
      <3>1. CASE m = 0
        BY <1>4, <3>1
      <3>2. CASE m # 0
        <4>1. m < p /\ source[m + 1] = Newline
          BY <1>2, <1>3, <3>2
        <4>2. m + 1 \notin (i + 1)..to
          BY <2>1, <4>1
        <4> QED
          BY <1>0, <4>1, <4>2
      <3> QED
        BY <3>1, <3>2
    <2>3. ASSUME NEW j \in (m + 1)..i PROVE source[j + 1] # Newline
      <3>1. j \in 0..(Size - 1) /\ j \notin NewlinesBefore(p)
        BY <1>0, <1>2
      <3>2. j < p => source[j + 1] # Newline
        BY <3>1 DEF NewlinesBefore
      <3>3. ~ (j < p) => j + 1 \in (p + 1)..to
        BY <1>0, <1>4, <3>1
      <3> QED
        BY <3>2, <3>3
    <2>4. i \in (m + 1)..(Size - 1)
      BY <1>0, <2>2
    <2> QED
      BY <1>2, <2>3, <2>4 DEF Excerpt
  <1>5. ASSUME NEW i \in Excerpt(p) PROVE NewlinesBefore(i) = NewlinesBefore(p)
    <2>1. i \in (m + 1)..(Size - 1) /\ \A j \in (m + 1)..i : source[j + 1] # Newline
      BY <1>2 DEF Excerpt
    <2>2. ASSUME NEW x \in NewlinesBefore(i) PROVE x \in NewlinesBefore(p)
      <3>1. x \in 0..(Size - 1) /\ x < i /\ source[x + 1] = Newline
        BY DEF NewlinesBefore
      <3>2. x <= m
        <4>1. x \notin (m + 1)..i
          BY <2>1, <3>1
        <4> QED
          BY <1>0, <2>1, <3>1, <4>1
      <3>3. x < p
        <4>1. CASE m \in NewlinesBefore(p)
          BY <1>0, <1>3, <3>1, <3>2, <4>1
        <4>2. CASE m \notin NewlinesBefore(p)
          <5>1. x = 0
            BY <1>2, <3>1, <3>2, <4>2
          <5>2. p # 0
            <6>1. SUFFICES ASSUME p = 0 PROVE FALSE
              OBVIOUS
            <6>2. 1 \in (p + 1)..to
              BY <1>0, <6>1
            <6> QED
              BY <3>1, <5>1, <6>2
          <5> QED
            BY <1>0, <5>1, <5>2
        <4> QED
          BY <4>1, <4>2
      <3> QED
        BY <3>1, <3>3 DEF NewlinesBefore
    <2>3. ASSUME NEW x \in NewlinesBefore(p) PROVE x \in NewlinesBefore(i)
      <3>1. x \in 0..(Size - 1) /\ source[x + 1] = Newline /\ x <= m
        BY <1>2 DEF NewlinesBefore
      <3>2. x < i
        BY <1>0, <2>1, <3>1
      <3> QED
        BY <3>1, <3>2 DEF NewlinesBefore
    <2> QED
      BY <2>2, <2>3
  <1>6. 0 \notin Excerpt(p)
    <2>1. 0 \notin (m + 1)..(Size - 1)
      OBVIOUS
    <2> QED
      BY <1>2, <2>1 DEF Excerpt
  <1>7. CaretColumn(p) + Gutter(p) = Column(p, p) + (IF LinePos(p) = 0 THEN 1 ELSE 0)
    <2>1. PICK g \in Nat : g = Gutter(p)
      BY <1>0, LineNumbers
    <2>2. LinePos(p) = 0 <=> NewlinesBefore(p) = {}
      BY <1>0, LineNumbers
    <2>3. Column(p, p) = g + p - (m + 1)
      BY <1>2, <2>1 DEF Column
    <2>4. CASE NewlinesBefore(p) = {}
      <3>1. CaretColumn(p) = p /\ m = 0
        BY <1>2, <2>4 DEF CaretColumn, IndentLen
      <3> QED
        BY <1>0, <2>1, <2>2, <2>3, <2>4, <3>1
    <2>5. CASE NewlinesBefore(p) # {}
      <3>1. CaretColumn(p) = p - (m + 1)
        BY <1>2, <2>5 DEF CaretColumn, IndentLen
      <3> QED
        BY <1>0, <2>1, <2>2, <2>3, <2>5, <3>1
    <2> QED
      BY <2>4, <2>5
  <1> QED
    BY <1>1, <1>4, <1>5, <1>6, <1>7 DEF Newlines

(***************************************************************************)
(* The excerpt of an error message (printErrorSourceLine) shows the line   *)
(* its token ends on, and all of the token that is on it, and the caret    *)
(* stands where the width of the gutter puts it, for every token of every  *)
(* source text.                                                            *)
(***************************************************************************)
THEOREM ExcerptsShowTokens == Spec => []ExcerptsShowTheToken
  <1>1. TypeInv /\ LexInv => ExcerptsShowTheToken
    <2>1. SUFFICES ASSUME TypeInv, LexInv, pc = "done", InBounds, NEW k \in DOMAIN Scanned
                   PROVE  LET l == Lexemes(source)[k]  p == Scanned[k].at
                              Newlines == {i \in 0..(l.to - 1) : source[i + 1] = Newline}
                              Line == LinePos(p) + 1
                          IN  /\ Line = 1 + Cardinality(Newlines)
                              /\ LastLineOf(l) \ {0} \subseteq Excerpt(p)
                              /\ \A i \in Excerpt(p) : NewlinesBefore(i) = Newlines
                              /\ 0 \notin Excerpt(p)
                              /\ CaretColumn(p) + Gutter(p) =
                                   Column(p, p) + (IF Line = 1 THEN 1 ELSE 0)
      BY DEF ExcerptsShowTheToken
    <2>2. TokenOf(Scanned[k], Lexemes(source)[k])
      <3>1. /\ Scanned \in Seq(Tokens) /\ Len(Scanned) = Len(Lexemes(source))
            /\ \A j \in 1..Len(Lexemes(source)) : TokenOf(Scanned[j], Lexemes(source)[j])
        BY <2>1, AllScanned
      <3> QED
        BY <2>1, <3>1
    <2>3. PICK l : l = Lexemes(source)[k]
      OBVIOUS
    <2>4. PICK p : p = Scanned[k].at
      OBVIOUS
    <2>5. /\ l.from \in Nat /\ l.to \in (l.from + 1)..Size /\ p \in l.from..l.to
          /\ Newline \notin ToSet(SubSeq(source, p + 1, l.to))
      BY <2>2, <2>3, <2>4 DEF TokenOf
    <2>6. PICK f \in Nat : f = l.from
      BY <2>5
    <2>7. PICK to \in (f + 1)..Size : to = l.to
      BY <2>5, <2>6
    <2>8. /\ source \in Seq(Alphabet) /\ Size \in Nat /\ Size = Len(source)
          /\ p \in f..to /\ p \in 0..Size
      BY <2>1, <2>5, <2>6, <2>7 DEF TypeInv, Size
    <2>9. \A j \in (p + 1)..to : source[j] # Newline
      <3>1. p \in Nat /\ to \in p..Len(source) /\ Newline \notin ToSet(SubSeq(source, p + 1, to))
        BY <2>5, <2>7, <2>8
      <3> QED
        BY <2>8, <3>1, InSlice
    <2>10. PICK N : N = {i \in 0..(to - 1) : source[i + 1] = Newline}
      OBVIOUS
    <2>11. /\ NewlinesBefore(p) = N
           /\ {i \in f..(to - 1) : Newline \notin ToSet(SubSeq(source, i + 1, to))} \ {0}
                \subseteq Excerpt(p)
           /\ \A i \in Excerpt(p) : NewlinesBefore(i) = N
           /\ 0 \notin Excerpt(p)
           /\ CaretColumn(p) + Gutter(p) = Column(p, p) + (IF LinePos(p) = 0 THEN 1 ELSE 0)
      BY <2>8, <2>9, <2>10, ExcerptOfToken
    <2>12. LinePos(p) \in Nat
      BY <2>8, LineNumbers
    <2>13. LinePos(p) + 1 = 1 + Cardinality(N) /\ (LinePos(p) + 1 = 1 <=> LinePos(p) = 0)
      <3>1. PICK n \in Nat : n = LinePos(p)
        BY <2>12
      <3>2. Cardinality(N) = n
        BY <2>11, <3>1 DEF LinePos
      <3> QED
        BY <3>1, <3>2
    <2>14. LastLineOf(l) \ {0} \subseteq Excerpt(p)
      BY <2>6, <2>7, <2>11 DEF LastLineOf
    <2> QED
      BY <2>3, <2>4, <2>7, <2>10, <2>11, <2>13, <2>14
  <1> QED
    BY <1>1, TextIsScanned, PTL
=============================================================================
