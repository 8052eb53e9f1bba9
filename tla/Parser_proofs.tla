---------------------------- MODULE Parser_proofs ----------------------------
(***************************************************************************)
(* The lexer and the parser, for every set of texts and all limits of the  *)
(* tables.  In three parts: what Lexer::next() does to the position, the   *)
(* line and the column; that the tables are not overrun, and what they     *)
(* hold is where the source says; and that the tokens fetched are the      *)
(* whole text, none of them passed over.                                   *)
(***************************************************************************)
EXTENDS Parser, WellFoundedInduction, FiniteSetTheorems, TLAPS

---------------------------------------------------------------------------
(***************************************************************************)
(* Runs of characters.                                                     *)
(***************************************************************************)
\* The least-number principle, for sets.
LEMMA LeastElement ==
  ASSUME NEW T \in SUBSET Nat, T # {}
  PROVE  \E x \in T : \A y \in T : x <= y
<1> DEFINE R == {ss \in Nat \X Nat : ss[1] < ss[2]}
<1>1. IsWellFoundedOn(R, Nat)
  BY NatLessThanWellFounded, Zenon DEF OpToRel
<1>2. PICK x \in T : \A y \in T : <<y, x>> \notin R
  BY <1>1, WFMin
<1>3. \A y \in T : <<y, x>> \notin R => x <= y
  OBVIOUS
<1> QED BY <1>2, <1>3

\* Every run of characters ends, at the end of the text if not before: the
\* loops of skipWhitespace, lexNumber and lexWord stay within the text.
LEMMA RunEnds ==
  ASSUME NEW s \in Seq(Chars), NEW p \in 1 .. (Len(s) + 1), NEW S
  PROVE  /\ EndOfRun(s, p, S) \in p .. (Len(s) + 1)
         /\ \A i \in p .. (EndOfRun(s, p, S) - 1) : s[i] \in S
         /\ EndOfRun(s, p, S) > Len(s) \/ s[EndOfRun(s, p, S)] \notin S
<1> DEFINE Ends == {q \in p .. (Len(s) + 1) : q > Len(s) \/ s[q] \notin S}
           Run(q) == /\ \A i \in p .. (q - 1) : s[i] \in S
                     /\ q > Len(s) \/ s[q] \notin S
<1>0. Len(s) \in Nat
  OBVIOUS
<1>1. Ends \in SUBSET Nat /\ Len(s) + 1 \in Ends
  BY <1>0
<1>2. PICK q \in Ends : \A r \in Ends : q <= r
  BY <1>1, LeastElement
<1>3. \A i \in p .. (q - 1) : i \in p .. (Len(s) + 1) /\ i \notin Ends
  BY <1>0, <1>2
<1>4. q \in p .. (Len(s) + 1) /\ Run(q)
  BY <1>3
<1> QED BY <1>4 DEF EndOfRun

(***************************************************************************)
(* Lines and columns.                                                      *)
(***************************************************************************)
Newlines(s, p)  == {i \in 1 .. (p - 1) : s[i] = "\n"}
LineStart(s, p) == {i \in 1 .. (p - 1) : \A j \in i .. (p - 1) : s[j] # "\n"}

\* The line and the column of a position are numbers.
LEMMA PlacesFinite ==
  ASSUME NEW s, NEW p \in Nat
  PROVE  /\ IsFiniteSet(Newlines(s, p)) /\ IsFiniteSet(LineStart(s, p))
         /\ LineOf(s, p) \in Nat /\ ColOf(s, p) \in Nat
<1>1. IsFiniteSet(1 .. (p - 1))
  BY FS_Interval
<1>2. IsFiniteSet(Newlines(s, p)) /\ IsFiniteSet(LineStart(s, p))
  BY <1>1, FS_Subset DEF Newlines, LineStart
<1>3. Cardinality(Newlines(s, p)) \in Nat /\ Cardinality(LineStart(s, p)) \in Nat
  BY <1>2, FS_CardinalityType
<1>4. LineOf(s, p) = 1 + Cardinality(Newlines(s, p)) /\ ColOf(s, p) = 1 + Cardinality(LineStart(s, p))
  BY DEF LineOf, ColOf, Newlines, LineStart
<1> QED BY <1>2, <1>3, <1>4

\* Within a line the line stays and the column counts characters.
LEMMA SameLine ==
  ASSUME NEW s, NEW p \in Nat \ {0}, NEW q \in Nat, p <= q,
         \A i \in p .. (q - 1) : s[i] # "\n"
  PROVE  /\ LineOf(s, q) = LineOf(s, p)
         /\ ColOf(s, q) = ColOf(s, p) + (q - p)
<1>1. Newlines(s, q) = Newlines(s, p)
  BY DEF Newlines
<1>2. LineOf(s, q) = LineOf(s, p)
  BY <1>1 DEF LineOf, Newlines
<1>3. LineStart(s, q) = LineStart(s, p) \cup (p .. (q - 1))
  <2>1. ASSUME NEW i \in LineStart(s, q) PROVE i \in LineStart(s, p) \cup (p .. (q - 1))
    BY <2>1 DEF LineStart
  <2>2. ASSUME NEW i \in LineStart(s, p) PROVE i \in LineStart(s, q)
    BY <2>2 DEF LineStart
  <2>3. ASSUME NEW i \in p .. (q - 1) PROVE i \in LineStart(s, q)
    BY <2>3 DEF LineStart
  <2> QED BY <2>1, <2>2, <2>3
<1>4. LineStart(s, p) \cap (p .. (q - 1)) = {}
  BY DEF LineStart
<1>5. IsFiniteSet(p .. (q - 1)) /\ Cardinality(p .. (q - 1)) = q - p
  <2>1. CASE p = q
    BY <2>1, FS_Interval
  <2>2. CASE p < q
    BY <2>2, FS_Interval
  <2> QED BY <2>1, <2>2
<1>6. Cardinality(LineStart(s, q)) = Cardinality(LineStart(s, p)) + (q - p)
  <2>1. IsFiniteSet(LineStart(s, p)) /\ Cardinality(LineStart(s, p)) \in Nat
    BY PlacesFinite, FS_CardinalityType
  <2>2. Cardinality(LineStart(s, p) \cap (p .. (q - 1))) = 0
    BY <1>4, FS_EmptySet
  <2>3. Cardinality(LineStart(s, p) \cup (p .. (q - 1))) =
          Cardinality(LineStart(s, p)) + Cardinality(p .. (q - 1))
            - Cardinality(LineStart(s, p) \cap (p .. (q - 1)))
    BY <2>1, <1>5, FS_Union
  <2> QED BY <2>1, <2>2, <2>3, <1>3, <1>5
<1>7. ColOf(s, q) = 1 + Cardinality(LineStart(s, q)) /\ ColOf(s, p) = 1 + Cardinality(LineStart(s, p))
  BY DEF ColOf, LineStart
<1>8. Cardinality(LineStart(s, p)) \in Nat
  BY PlacesFinite, FS_CardinalityType
<1> QED BY <1>2, <1>6, <1>7, <1>8

\* Behind a line end comes the first column of the next line.
LEMMA NewLine ==
  ASSUME NEW s, NEW p \in Nat \ {0}, s[p] = "\n"
  PROVE  LineOf(s, p + 1) = LineOf(s, p) + 1 /\ ColOf(s, p + 1) = 1
<1>1. Newlines(s, p + 1) = Newlines(s, p) \cup {p} /\ p \notin Newlines(s, p)
  BY DEF Newlines
<1>2. Cardinality(Newlines(s, p + 1)) = Cardinality(Newlines(s, p)) + 1
  BY <1>1, PlacesFinite, FS_AddElement
<1>3. LineOf(s, p + 1) = 1 + Cardinality(Newlines(s, p + 1)) /\ LineOf(s, p) = 1 + Cardinality(Newlines(s, p))
  BY DEF LineOf, Newlines
<1>4. LineStart(s, p + 1) = {}
  <2> SUFFICES ASSUME NEW i \in LineStart(s, p + 1) PROVE FALSE
    OBVIOUS
  <2>1. i \in 1 .. p /\ p \in i .. ((p + 1) - 1)
    BY DEF LineStart
  <2> QED BY <2>1 DEF LineStart
<1>5. ColOf(s, p + 1) = 1
  <2>1. ColOf(s, p + 1) = 1 + Cardinality(LineStart(s, p + 1))
    BY DEF ColOf, LineStart
  <2> QED BY <2>1, <1>4, FS_EmptySet
<1>6. Cardinality(Newlines(s, p)) \in Nat
  BY PlacesFinite, FS_CardinalityType
<1> QED BY <1>2, <1>3, <1>5, <1>6

(***************************************************************************)
(* Lexemes.                                                                *)
(***************************************************************************)
\* What is true of whatever begins at p: it is not empty unless the text ends,
\* it stays within the text, only a Newline holds a line end, and a Comment
\* goes on up to one.
LexemeOK(s, p, x) ==
  /\ x.kind \in TokenKind
  /\ x.to \in p .. (Len(s) + 1) /\ x.next \in x.to .. (Len(s) + 1)
  /\ x.kind = "Eof" <=> p > Len(s)
  /\ x.kind = "Eof" => x.next = p
  /\ x.kind # "Eof" => x.to > p
  /\ x.kind = "Newline" => x.next = p + 1 /\ s[p] = "\n"
  /\ x.kind # "Newline" => \A i \in p .. (x.next - 1) : s[i] # "\n"
  /\ x.kind = "Comment" => x.next > Len(s) \/ s[x.next] = "\n"

\* The tests of next() exclude each other: a character is of one class.
LEMMA CharsApart ==
  /\ "\n" \notin Letters /\ "\n" \notin Digits /\ "\n" \notin Blanks
  /\ Letters \cap Digits = {}
  /\ "\n" \in Chars /\ "\n" # Colon
  /\ Letters \cap Marks = {} /\ Digits \cap Marks = {}
  /\ \A a \in {Comma, Colon, Semicolon, "-", "\n"} :  a \in Marks
  /\ Comma # Colon /\ Comma # Semicolon /\ Colon # Semicolon
  /\ \A a \in {Comma, Colon, Semicolon} : a # "-" /\ a # "\n"
  /\ Colon \notin Blanks
<1>1. /\ Comma # Colon /\ Comma # Semicolon /\ Colon # Semicolon
      /\ "-" \notin Digits /\ "-" # "\n" /\ "\n" \notin Digits /\ "\n" \notin Blanks
      /\ Comma # "-" /\ Colon # "-" /\ Semicolon # "-"
      /\ Comma # "\n" /\ Colon # "\n" /\ Semicolon # "\n"
      /\ Comma \notin Digits /\ Colon \notin Digits /\ Semicolon \notin Digits
      /\ Colon \notin Blanks
  BY Zenon DEF Comma, Colon, Semicolon, Digits, Blanks
<1> QED BY <1>1, LexerAssumption DEF Marks, Chars

\* lexWord, and the label lookahead behind it, stay within the line.
LEMMA WordOK ==
  ASSUME NEW s \in Seq(Chars), NEW p \in 1 .. Len(s), s[p] \in Letters
  PROVE  LexemeOK(s, p, LexWord(s, p))
<1> DEFINE q    == EndOfRun(s, p, Letters \cup Digits)
           gap  == {" ", "\t"}
           peek == EndOfRun(s, q, gap)
<1>0. Len(s) \in Nat
  OBVIOUS
<1>1. /\ q \in p .. (Len(s) + 1)
      /\ \A i \in p .. (q - 1) : s[i] \in Letters \cup Digits
      /\ q > Len(s) \/ s[q] \notin Letters \cup Digits
  BY RunEnds
<1>2. q > p
  BY <1>0, <1>1
<1>3. /\ peek \in q .. (Len(s) + 1)
      /\ \A i \in q .. (peek - 1) : s[i] # "\n"
  <2>0. "\n" \notin gap
    OBVIOUS
  <2>1. q \in 1 .. (Len(s) + 1)
    BY <1>0, <1>1
  <2> HIDE DEF q, gap
  <2> QED BY <2>0, <2>1, RunEnds
<1>4. /\ peek <= Len(s) /\ s[peek] = Colon => LexWord(s, p) = Lexeme("Label", q, peek + 1)
      /\ ~(peek <= Len(s) /\ s[peek] = Colon) =>
             \E k \in {"Register", "Mnemonic", "Unknown"} : LexWord(s, p) = Lexeme(k, q, q)
  BY DEF LexWord
<1> HIDE DEF q, gap, peek
<1>5. p \in Int /\ q \in Int /\ peek \in Int
  BY <1>0, <1>1, <1>3
<1>6. CASE peek <= Len(s) /\ s[peek] = Colon
  <2>1. LexWord(s, p) = Lexeme("Label", q, peek + 1)
    BY <1>4, <1>6
  <2>2. ASSUME NEW i \in p .. ((peek + 1) - 1) PROVE s[i] # "\n"
    <3>1. CASE i \in p .. (q - 1)
      BY <3>1, <1>1, CharsApart
    <3>2. CASE i \in q .. (peek - 1)
      BY <3>2, <1>3
    <3>3. CASE i = peek
      BY <3>3, <1>6, CharsApart
    <3> QED BY <1>5, <2>2, <3>1, <3>2, <3>3
  <2> QED BY <2>1, <2>2, <1>0, <1>1, <1>2, <1>3, <1>6 DEF Lexeme, LexemeOK, TokenKind
<1>7. CASE ~(peek <= Len(s) /\ s[peek] = Colon)
  <2>1. PICK k \in {"Register", "Mnemonic", "Unknown"} : LexWord(s, p) = Lexeme(k, q, q)
    BY <1>4, <1>7
  <2>2. \A i \in p .. (q - 1) : s[i] # "\n"
    BY <1>1, CharsApart
  <2> QED BY <2>1, <2>2, <1>0, <1>1, <1>2 DEF Lexeme, LexemeOK, TokenKind
<1> QED BY <1>6, <1>7

\* lexNumber takes the sign, which need not have digits behind it, and digits.
LEMMA NumberOK ==
  ASSUME NEW s \in Seq(Chars), NEW p \in 1 .. Len(s), s[p] \in Digits \cup {"-"}
  PROVE  LexemeOK(s, p, LexNumber(s, p))
<1> DEFINE b == IF s[p] = "-" THEN p + 1 ELSE p
           q == EndOfRun(s, b, Digits)
<1>0. Len(s) \in Nat /\ b \in 1 .. (Len(s) + 1) /\ b \in {p, p + 1}
  OBVIOUS
<1>1. /\ q \in b .. (Len(s) + 1)
      /\ \A i \in b .. (q - 1) : s[i] \in Digits
      /\ q > Len(s) \/ s[q] \notin Digits
  <2> HIDE DEF b
  <2> QED BY <1>0, RunEnds
<1>2. q > p
  BY <1>0, <1>1
<1>3. \A i \in p .. (q - 1) : s[i] # "\n"
  <2> SUFFICES ASSUME NEW i \in p .. (q - 1) PROVE s[i] # "\n"
    OBVIOUS
  <2> QED BY <1>0, <1>1, CharsApart
<1>4. LexNumber(s, p) = Lexeme("Immediate", q, q)
  BY DEF LexNumber
<1> HIDE DEF q
<1> QED BY <1>0, <1>1, <1>2, <1>3, <1>4 DEF Lexeme, LexemeOK, TokenKind

\* A comment goes on up to the line end, which is left for the next token.
LEMMA CommentOK ==
  ASSUME NEW s \in Seq(Chars), NEW p \in 1 .. Len(s), s[p] = Semicolon
  PROVE  LexemeOK(s, p, LexComment(s, p))
<1> DEFINE q == EndOfRun(s, p, Chars \ {"\n"})
<1>0. Len(s) \in Nat
  OBVIOUS
<1>1. /\ q \in p .. (Len(s) + 1)
      /\ \A i \in p .. (q - 1) : s[i] \in Chars \ {"\n"}
      /\ q > Len(s) \/ s[q] \notin Chars \ {"\n"}
  BY RunEnds
<1>2. q > p
  <2>1. s[p] \in Chars \ {"\n"}
    BY CharsApart
  <2> HIDE DEF q
  <2> QED BY <2>1, <1>0, <1>1
<1>3. LexComment(s, p) = Lexeme("Comment", q, q)
  BY DEF LexComment
<1> HIDE DEF q
<1>4. q > Len(s) \/ s[q] = "\n"
  BY <1>0, <1>1
<1> QED BY <1>0, <1>1, <1>2, <1>3, <1>4 DEF Lexeme, LexemeOK, TokenKind

\* Every branch of next() behaves so, and every character has a branch.
LEMMA LexemesOK ==
  ASSUME NEW s \in Seq(Chars), NEW p \in 1 .. (Len(s) + 1)
  PROVE  LexemeOK(s, p, LexemeAt(s, p))
<1>0. Len(s) \in Nat
  OBVIOUS
<1>1. CASE p > Len(s)
  <2>1. LexemeAt(s, p) = Lexeme("Eof", p, p)
    BY <1>0, <1>1 DEF LexemeAt
  <2> QED BY <2>1, <1>0, <1>1 DEF Lexeme, LexemeOK, TokenKind
<1>2. CASE p <= Len(s)
  <2>0. p \in 1 .. Len(s)
    BY <1>0, <1>2
  <2>1. CASE s[p] = Semicolon
    <3>1. LexemeAt(s, p) = LexComment(s, p)
      BY <1>0, <1>2, <2>1, CharsApart DEF LexemeAt
    <3> QED BY <3>1, <2>0, <2>1, CommentOK
  <2>2. CASE s[p] \in Digits \cup {"-"}
    <3>1. /\ s[p] # "\n" /\ s[p] # Comma /\ s[p] # Colon /\ s[p] # Semicolon
          /\ s[p] \notin Letters
      BY <2>2, CharsApart
    <3>2. LexemeAt(s, p) = LexNumber(s, p)
      BY <1>0, <1>2, <2>2, <3>1 DEF LexemeAt
    <3> QED BY <3>2, <2>0, <2>2, NumberOK
  <2>3. CASE s[p] \in Letters
    <3>1. /\ s[p] # "\n" /\ s[p] # Comma /\ s[p] # Colon /\ s[p] # Semicolon
          /\ s[p] \notin Digits \cup {"-"}
      BY <2>3, CharsApart
    <3>2. LexemeAt(s, p) = LexWord(s, p)
      BY <1>0, <1>2, <2>3, <3>1 DEF LexemeAt
    <3> QED BY <3>2, <2>0, <2>3, WordOK
  <2>4. CASE s[p] = "\n"
    <3>1. /\ s[p] # Comma /\ s[p] # Colon /\ s[p] # Semicolon
          /\ s[p] \notin Letters /\ s[p] \notin Digits \cup {"-"}
      BY <2>4, CharsApart
    <3>2. LexemeAt(s, p) = Lexeme("Newline", p + 1, p + 1)
      BY <1>0, <1>2, <2>4, <3>1 DEF LexemeAt
    <3> QED BY <3>2, <2>4, <1>0, <1>2 DEF Lexeme, LexemeOK, TokenKind
  <2>5. CASE s[p] \notin {"\n", Semicolon, "-"} \cup Digits \cup Letters
    <3>1. \E k \in {"Comma", "Colon", "Error"} : LexemeAt(s, p) = Lexeme(k, p + 1, p + 1)
      BY <1>0, <1>2, <2>5 DEF LexemeAt
    <3> QED BY <3>1, <2>5, <1>0, <1>2 DEF Lexeme, LexemeOK, TokenKind
  <2> QED BY <2>1, <2>2, <2>3, <2>4, <2>5
<1> QED BY <1>0, <1>1, <1>2

\* The text of a token ends where the lexer goes on, but for a label, behind
\* which it passes blanks and the ':'.
EndsAt(s, kind, to, next) ==
  IF kind = "Label"
  THEN /\ next - 1 \in to .. Len(s) /\ s[next - 1] = Colon
       /\ \A i \in to .. (next - 2) : s[i] \in Blanks
  ELSE next = to

\* Nothing is skipped between a token's text and the next position.
LEMMA LexemeEnds ==
  ASSUME NEW s \in Seq(Chars), NEW p \in 1 .. (Len(s) + 1)
  PROVE  LET x == LexemeAt(s, p) IN EndsAt(s, x.kind, x.to, x.next)
<1> DEFINE x    == LexemeAt(s, p)
           q    == EndOfRun(s, p, Letters \cup Digits)
           gap  == {" ", "\t"}
           peek == EndOfRun(s, q, gap)
<1> SUFFICES EndsAt(s, x.kind, x.to, x.next)
  OBVIOUS
<1>0. Len(s) \in Nat
  OBVIOUS
<1>1. CASE p <= Len(s) /\ s[p] \in Letters /\ x = LexWord(s, p)
  <2>1. q \in 1 .. (Len(s) + 1)
    <3>1. q \in p .. (Len(s) + 1)
      BY RunEnds
    <3> HIDE DEF q
    <3> QED BY <3>1, <1>0
  <2>2. gap \subseteq Blanks
    BY Zenon DEF Blanks
  <2>3. /\ peek <= Len(s) /\ s[peek] = Colon => LexWord(s, p) = Lexeme("Label", q, peek + 1)
        /\ ~(peek <= Len(s) /\ s[peek] = Colon) =>
               \E k \in {"Register", "Mnemonic", "Unknown"} : LexWord(s, p) = Lexeme(k, q, q)
    BY DEF LexWord
  <2> HIDE DEF q, gap
  <2>4. /\ peek \in q .. (Len(s) + 1)
        /\ \A i \in q .. (peek - 1) : s[i] \in gap
    BY <2>1, RunEnds
  <2> HIDE DEF peek, x
  <2>5. CASE peek <= Len(s) /\ s[peek] = Colon
    <3>1. x.kind = "Label" /\ x.to = q /\ x.next = peek + 1
      BY <2>3, <2>5, <1>1 DEF Lexeme
    <3>2. x.next - 1 = peek /\ x.next - 2 = peek - 1
      BY <3>1, <2>1, <2>4, <1>0
    <3>3. peek \in q .. Len(s) /\ \A i \in q .. (peek - 1) : s[i] \in Blanks
      BY <2>1, <2>2, <2>4, <2>5, <1>0
    <3> QED BY <3>1, <3>2, <3>3, <2>5 DEF EndsAt
  <2>6. CASE ~(peek <= Len(s) /\ s[peek] = Colon)
    BY <2>3, <2>6, <1>1 DEF Lexeme, EndsAt
  <2> QED BY <2>5, <2>6 DEF x
<1>2. CASE ~(p <= Len(s) /\ s[p] \in Letters /\ x = LexWord(s, p))
  <2>1. \E k \in TokenKind \ {"Label"}, e \in Nat : x = Lexeme(k, e, e)
    <3>1. /\ p \in Nat /\ p + 1 \in Nat
          /\ {"Newline", "Comma", "Colon", "Error", "Comment", "Immediate", "Eof"}
                \subseteq TokenKind \ {"Label"}
      BY <1>0 DEF TokenKind
    <3>2. ASSUME p <= Len(s), s[p] = Semicolon, x = LexComment(s, p)
          PROVE  \E e \in Nat : x = Lexeme("Comment", e, e)
      <4> DEFINE e == EndOfRun(s, p, Chars \ {"\n"})
      <4>1. e \in p .. (Len(s) + 1) /\ LexComment(s, p) = Lexeme("Comment", e, e)
        BY RunEnds DEF LexComment
      <4> HIDE DEF e
      <4> QED BY <4>1, <3>2, <1>0
    <3>3. ASSUME p <= Len(s), s[p] \in Digits \cup {"-"}, x = LexNumber(s, p)
          PROVE  \E e \in Nat : x = Lexeme("Immediate", e, e)
      <4> DEFINE b == IF s[p] = "-" THEN p + 1 ELSE p
                 e == EndOfRun(s, b, Digits)
      <4>1. b \in 1 .. (Len(s) + 1) /\ LexNumber(s, p) = Lexeme("Immediate", e, e)
        BY <1>0, <3>3 DEF LexNumber
      <4> HIDE DEF b
      <4>2. e \in b .. (Len(s) + 1)
        BY <4>1, RunEnds
      <4> HIDE DEF e
      <4> QED BY <4>1, <4>2, <3>3, <1>0
    <3>4. \/ \E k \in {"Newline", "Comma", "Colon", "Error"} : x = Lexeme(k, p + 1, p + 1)
          \/ x = Lexeme("Eof", p, p)
          \/ p <= Len(s) /\ s[p] = Semicolon /\ x = LexComment(s, p)
          \/ p <= Len(s) /\ s[p] \in Digits \cup {"-"} /\ x = LexNumber(s, p)
          \/ p <= Len(s) /\ s[p] \in Letters /\ x = LexWord(s, p)
      BY <1>0 DEF LexemeAt
    <3> HIDE DEF x
    <3> QED BY <3>1, <3>2, <3>3, <3>4, <1>2
  <2> HIDE DEF x
  <2>2. EndsAt(s, x.kind, x.to, x.next)
    BY <2>1 DEF Lexeme, EndsAt
  <2> QED BY <2>2 DEF x
<1> QED BY <1>1, <1>2

(***************************************************************************)
(* Tokens.                                                                 *)
(***************************************************************************)
Aligned(s, lx)   == lx.col = ColOf(s, lx.pos)
AtLineEnd(s, lx) == lx.pos > Len(s) \/ s[lx.pos] = "\n"

\* The lexer knows its line, and its column unless a comment was read, behind
\* which nothing but the end of the line can follow.
Tidy(s, lx) ==
  /\ lx.pos \in 1 .. (Len(s) + 1) /\ lx.line \in Nat /\ lx.col \in Nat
  /\ lx.line = LineOf(s, lx.pos)
  /\ Aligned(s, lx) \/ AtLineEnd(s, lx)

\* A token t fetched by a lexer lx, which has become n.
TokenOK(s, lx, t, n) ==
  /\ t.kind \in TokenKind /\ t.line \in Nat /\ t.col \in Nat
  /\ t.text.from \in lx.pos .. (Len(s) + 1)
  /\ t.text.to \in t.text.from .. n.pos
  /\ t.kind # "Eof" => t.text.from < t.text.to
  /\ t.line = LineOf(s, t.text.from) /\ t.line = lx.line
  /\ n.line = IF t.kind = "Newline" THEN t.line + 1 ELSE t.line
  /\ Aligned(s, lx) \/ t.kind \notin {"Newline", "Eof"} => t.col = ColOf(s, t.text.from)
  /\ t.kind = "Comma" => Aligned(s, n)

\* Lexer::next() on a lexer that knows its place: the token says truly where it
\* is, and the lexer it leaves knows its place.
LEMMA NextTokenOK ==
  ASSUME NEW s \in Seq(Chars), NEW lx, Tidy(s, lx)
  PROVE  /\ Tidy(s, NextToken(s, lx).lexer)
         /\ TokenOK(s, lx, NextToken(s, lx).token, NextToken(s, lx).lexer)
<1> DEFINE p   == EndOfRun(s, lx.pos, Blanks)
           x   == LexemeAt(s, p)
           col == lx.col + (p - lx.pos)
           t   == NextToken(s, lx).token
           n   == NextToken(s, lx).lexer
<1>0. Len(s) \in Nat
  OBVIOUS
<1>1. /\ t.kind = x.kind /\ t.line = lx.line /\ t.col = col
      /\ t.text.from = p /\ t.text.to = x.to
      /\ n.pos = x.next /\ n.col = ColumnAfter(x, p, col)
      /\ n.line = lx.line + (IF x.kind = "Newline" THEN 1 ELSE 0)
  BY DEF NextToken, View
<1>2. /\ lx.pos \in 1 .. (Len(s) + 1) /\ lx.line \in Nat /\ lx.col \in Nat
      /\ lx.line = LineOf(s, lx.pos)
      /\ Aligned(s, lx) \/ AtLineEnd(s, lx)
  BY DEF Tidy
<1>3. /\ p \in lx.pos .. (Len(s) + 1)
      /\ \A i \in lx.pos .. (p - 1) : s[i] \in Blanks
  BY <1>2, RunEnds
<1>4. \A i \in lx.pos .. (p - 1) : s[i] # "\n"
  BY <1>3, CharsApart
<1>5. LexemeOK(s, p, x)
  <2>1. p \in 1 .. (Len(s) + 1)
    BY <1>0, <1>2, <1>3
  <2> HIDE DEF p
  <2> QED BY <2>1, LexemesOK
<1> HIDE DEF t, n, x, p
<1>6. /\ p \in Nat \ {0} /\ x.next \in Nat /\ x.to \in Nat /\ p <= x.to /\ x.to <= x.next
      /\ lx.pos \in Nat \ {0} /\ lx.pos <= p
  BY <1>0, <1>2, <1>3, <1>5 DEF LexemeOK
<1>7. /\ LineOf(s, p) = lx.line
      /\ ColOf(s, p) = ColOf(s, lx.pos) + (p - lx.pos)
  BY <1>2, <1>4, <1>6, SameLine
<1>8. /\ LineOf(s, p) \in Nat /\ ColOf(s, p) \in Nat
      /\ ColOf(s, lx.pos) \in Nat
  BY <1>6, PlacesFinite
<1>9. col \in Nat /\ (Aligned(s, lx) => col = ColOf(s, p))
  BY <1>2, <1>6, <1>7 DEF Aligned
\* Before a line end nothing is skipped: the next token is the line end.
<1>10. ASSUME AtLineEnd(s, lx) PROVE p = lx.pos /\ x.kind \in {"Newline", "Eof"}
  <2>1. p = lx.pos
    BY <1>0, <1>2, <1>3, <1>4, <1>6, <1>10 DEF AtLineEnd
  <2> QED BY <2>1, <1>0, <1>5, <1>6, <1>10 DEF AtLineEnd, LexemeOK
<1>11. CASE x.kind = "Newline"
  <2>1. LineOf(s, x.next) = LineOf(s, p) + 1 /\ ColOf(s, x.next) = 1
    BY <1>11, <1>5, <1>6, NewLine DEF LexemeOK
  <2>2. n.col = 1
    BY <1>1, <1>11 DEF ColumnAfter
  <2>3. Tidy(s, n)
    BY <2>1, <2>2, <1>0, <1>1, <1>2, <1>5, <1>6, <1>7, <1>11 DEF Tidy, Aligned, LexemeOK
  <2>4. TokenOK(s, lx, t, n)
    BY <1>0, <1>1, <1>2, <1>3, <1>5, <1>6, <1>7, <1>9, <1>11 DEF TokenOK, LexemeOK
  <2> QED BY <2>3, <2>4 DEF t, n
<1>12. CASE x.kind # "Newline"
  <2>1. /\ LineOf(s, x.next) = LineOf(s, p)
        /\ ColOf(s, x.next) = ColOf(s, p) + (x.next - p)
    BY <1>5, <1>6, <1>12, SameLine DEF LexemeOK
  <2>2. n.col \in Nat /\ (x.kind # "Comment" => n.col = col + (x.next - p))
    BY <1>1, <1>6, <1>9, <1>12 DEF ColumnAfter
  <2>3. x.kind # "Eof" => Aligned(s, lx)
    BY <1>2, <1>10, <1>12
  <2>4. x.kind \notin {"Comment", "Eof"} => Aligned(s, n)
    BY <2>1, <2>2, <2>3, <1>1, <1>6, <1>8, <1>9 DEF Aligned
  <2>5. x.kind \in {"Comment", "Eof"} => AtLineEnd(s, n)
    BY <1>1, <1>5 DEF AtLineEnd, LexemeOK
  <2>6. Tidy(s, n)
    BY <2>1, <2>2, <2>4, <2>5, <1>0, <1>1, <1>2, <1>5, <1>6, <1>7, <1>12 DEF Tidy, LexemeOK
  <2>7. TokenOK(s, lx, t, n)
    BY <2>3, <2>4, <1>0, <1>1, <1>2, <1>3, <1>5, <1>6, <1>7, <1>9, <1>12 DEF TokenOK, LexemeOK
  <2> QED BY <2>6, <2>7 DEF t, n
<1> QED BY <1>11, <1>12

\* Lexer::next() passes blanks, then the token's text, then, behind a label,
\* blanks and its ':', and nothing else.
LEMMA NextTokenTiles ==
  ASSUME NEW s \in Seq(Chars), NEW lx, lx.pos \in 1 .. (Len(s) + 1)
  PROVE  LET t == NextToken(s, lx).token
             n == NextToken(s, lx).lexer
         IN  /\ \A i \in lx.pos .. (t.text.from - 1) : s[i] \in Blanks
             /\ EndsAt(s, t.kind, t.text.to, n.pos)
<1> DEFINE p == EndOfRun(s, lx.pos, Blanks)
           x == LexemeAt(s, p)
           t == NextToken(s, lx).token
           n == NextToken(s, lx).lexer
<1>0. Len(s) \in Nat
  OBVIOUS
<1>1. t.kind = x.kind /\ t.text.from = p /\ t.text.to = x.to /\ n.pos = x.next
  BY DEF NextToken, View
<1>2. /\ p \in lx.pos .. (Len(s) + 1)
      /\ \A i \in lx.pos .. (p - 1) : s[i] \in Blanks
  BY RunEnds
<1> HIDE DEF p, t, n
<1>3. p \in 1 .. (Len(s) + 1)
  BY <1>0, <1>2
<1>4. EndsAt(s, x.kind, x.to, x.next)
  BY <1>3, LexemeEnds
<1> HIDE DEF x
<1>5. (\A i \in lx.pos .. (t.text.from - 1) : s[i] \in Blanks) /\ EndsAt(s, t.kind, t.text.to, n.pos)
  BY <1>1, <1>2, <1>4
<1> QED BY <1>5 DEF t, n

---------------------------------------------------------------------------
(***************************************************************************)
(* The parser, for every set of texts and all limits of the tables: the    *)
(* tables are not overrun, and what they hold is where the source says.    *)
(*                                                                         *)
(* None of the invariants is inductive as it stands: a row that is added   *)
(* is right because of the token it was made from, and that token because  *)
(* of the lexer that fetched it.  ParserInv relates the three.             *)
(***************************************************************************)
InstructionModes == {"first", "comma", "second", "end", "recover"}
Modes            == {"start", "statement", "done"} \cup InstructionModes

Instructions == [mnemonic : Views, firstOperand : Views, secondOperand : Views, line : Nat]
Labels       == [name : Views, instructionIndex : Nat]
Diagnostics  == [message : Messages, line : Nat, col : Nat, isError : BOOLEAN]

Table(table, max, S) == table \in Seq(S) /\ Len(table) <= max

Tables ==
  /\ Table(instructions, MaxInstructions, Instructions)
  /\ Table(labels, MaxLabels, Labels)
  /\ Table(diagnostics, MaxDiagnostics, Diagnostics)
  /\ mode = "start" => instructions = <<>> /\ labels = <<>>

Lexing == src \in Seq(Chars) /\ Tidy(src, lexer) /\ mode \in Modes

\* Where the token is, and that it ends before the lexer goes on.  The column
\* of a line end behind a comment is wrong, but a comma is never before one.
TokenPlaced ==
  /\ token \in [kind : TokenKind, text : Views, line : Nat, col : Nat]
  /\ token.kind = "Comma" => Aligned(src, lexer)
  /\ mode # "start" =>
       /\ token.text.from \in 1 .. (Len(src) + 1)
       /\ token.text.to \in token.text.from .. lexer.pos
       /\ token.kind # "Eof" => token.text.from < token.text.to
       /\ token.line = LineOf(src, token.text.from)
       /\ lexer.line = IF token.kind = "Newline" THEN token.line + 1 ELSE token.line
       /\ token.kind \notin LineEnds \/ mode = "second" =>
            token.col = ColOf(src, token.text.from)

OperandsOnLine(i) ==
  \A v \in OperandViews(i) : v.from >= i.mnemonic.to /\ LineOf(src, v.from) = i.line

\* The instruction being read is on the line of the token, and before it.
CurrentOK ==
  /\ current \in Instructions
  /\ mode \in InstructionModes =>
       /\ current.line = LineOf(src, current.mnemonic.from) /\ current.line = token.line
       /\ current.mnemonic.from < token.text.from /\ current.mnemonic.to <= token.text.from
       /\ OperandsOnLine(current)

\* What has been recorded is before what is being read.
Front == IF mode \in InstructionModes THEN current.mnemonic.from ELSE token.text.from

Behind ==
  /\ \A i \in DOMAIN instructions : instructions[i].mnemonic.from < Front
  /\ \A l \in DOMAIN labels : /\ labels[l].name.from < Front
                              /\ labels[l].instructionIndex <= Len(instructions)

\* The lines of the instructions recorded are above the token's, or the token
\* ends the last of them.
LinesAbove ==
  \A i \in DOMAIN instructions :
    \/ instructions[i].line < token.line
    \/ /\ mode \notin InstructionModes /\ token.kind \in LineEnds
       /\ instructions[i].line <= token.line

ParserInv ==
  /\ Tables /\ Lexing /\ TokenPlaced /\ CurrentOK /\ Behind /\ LinesAbove
  /\ PlacesTrue /\ LabelsPointForward /\ OneInstructionPerLine

(***************************************************************************)
(* The invariant holds at the start and gives the type invariant.          *)
(***************************************************************************)
\* Nothing is recorded before the first token.
LEMMA ParserInit == Init => ParserInv
<1> SUFFICES ASSUME Init PROVE ParserInv
  OBVIOUS
<1> USE DEF Init
<1>1. src \in Seq(Chars) /\ Len(src) \in Nat
  BY ParserAssumption
<1>2. Tidy(src, lexer)
  <2>1. LineOf(src, 1) = 1 /\ ColOf(src, 1) = 1
    <3>1. {i \in 1 .. (1 - 1) : src[i] = "\n"} = {}
      OBVIOUS
    <3>2. {i \in 1 .. (1 - 1) : \A j \in i .. (1 - 1) : src[j] # "\n"} = {}
      OBVIOUS
    <3> QED BY <3>1, <3>2, FS_EmptySet DEF LineOf, ColOf
  <2> QED BY <2>1, <1>1 DEF Tidy, Aligned, NewLexer
<1>3. NoText \in Views
  BY <1>1 DEF NoText, View, Views
<1>4. Tables
  BY ParserAssumption DEF Tables, Table
<1>5. Lexing
  BY <1>1, <1>2 DEF Lexing, Modes
<1>6. TokenPlaced
  BY <1>3 DEF TokenPlaced, TokenKind
<1>7. CurrentOK
  BY <1>3 DEF CurrentOK, Instructions, NewInstruction, InstructionModes
<1>8. Behind /\ LinesAbove /\ LabelsPointForward
  BY DEF Behind, LinesAbove, LabelsPointForward
<1>9. PlacesTrue /\ OneInstructionPerLine
  BY DEF PlacesTrue, OneInstructionPerLine
<1> QED BY <1>4, <1>5, <1>6, <1>7, <1>8, <1>9 DEF ParserInv

\* The invariant bounds the tables, and the indices of the labels with them.
LEMMA InvGivesTypes == ParserInv => ParserTypeOK
<1> SUFFICES ASSUME ParserInv PROVE ParserTypeOK
  OBVIOUS
<1>1. Rows(instructions, MaxInstructions, Instructions)
  BY DEF ParserInv, Tables, Table, Rows
<1>2. Rows(diagnostics, MaxDiagnostics, Diagnostics)
  BY DEF ParserInv, Tables, Table, Rows
<1>3. Rows(labels, MaxLabels, [name : Views, instructionIndex : 0 .. MaxInstructions])
  <2> SUFFICES ASSUME NEW l \in DOMAIN labels
               PROVE  labels[l] \in [name : Views, instructionIndex : 0 .. MaxInstructions]
    BY DEF ParserInv, Tables, Table, Rows
  <2>1. labels[l] \in Labels
    BY DEF ParserInv, Tables, Table
  <2>2. labels[l].instructionIndex <= Len(instructions) /\ Len(instructions) <= MaxInstructions
    BY DEF ParserInv, Behind, Tables, Table
  <2>3. Len(instructions) \in Nat
    BY DEF ParserInv, Tables, Table
  <2> QED BY <2>1, <2>2, <2>3, ParserAssumption DEF Labels
<1>4. token \in [kind : TokenKind, text : Views, line : Nat, col : Nat]
  BY DEF ParserInv, TokenPlaced
<1>5. mode \in {"start", "statement", "first", "comma", "second", "end", "recover", "done"}
  BY DEF ParserInv, Lexing, Modes, InstructionModes
<1> QED BY <1>1, <1>2, <1>3, <1>4, <1>5 DEF ParserTypeOK, Instructions, Diagnostics

(***************************************************************************)
(* What the actions have in common.                                        *)
(***************************************************************************)
\* A row is added behind the others, or dropped.
LEMMA AddRowOK ==
  ASSUME NEW S, NEW table, NEW max \in Nat, Table(table, max, S), NEW row \in S
  PROVE  /\ Table(AddRow(table, max, row), max, S)
         /\ AddRow(table, max, row) \in {table, Append(table, row)}
BY DEF AddRow, Table

\* The next token begins where the lexer is or later.
LEMMA FetchOK ==
  ASSUME ParserInv, Fetch, src' = src, mode' \in Modes \ {"start"},
         mode' = "second" => token.kind = "Comma"
  PROVE  /\ Lexing' /\ TokenPlaced'
         /\ token'.text.from \in Nat /\ token'.text.from >= lexer.pos
         /\ token'.line = lexer.line
<1>1. src \in Seq(Chars) /\ Len(src) \in Nat /\ Tidy(src, lexer)
  BY DEF ParserInv, Lexing
<1>2. token' = NextToken(src, lexer).token /\ lexer' = NextToken(src, lexer).lexer
  BY DEF Fetch
<1>3. Tidy(src, lexer') /\ TokenOK(src, lexer, token', lexer')
  BY <1>1, <1>2, NextTokenOK
<1>4. lexer.pos \in 1 .. (Len(src) + 1) /\ lexer'.pos \in 1 .. (Len(src) + 1)
  BY <1>1, <1>3 DEF Tidy
<1>5. Lexing'
  BY <1>1, <1>3 DEF Lexing, Modes
<1>6. /\ token'.text.from \in Nat /\ token'.text.from >= lexer.pos
      /\ token'.line = lexer.line
  BY <1>1, <1>3, <1>4 DEF TokenOK
<1>7. token' \in [kind : TokenKind, text : Views', line : Nat, col : Nat]
  <2>1. /\ token' = [kind |-> token'.kind, text |-> token'.text,
                     line |-> token'.line, col |-> token'.col]
        /\ token'.text = [from |-> token'.text.from, to |-> token'.text.to]
    BY <1>2 DEF NextToken, View
  <2>2. token'.text \in Views'
    BY <1>1, <1>3, <1>4, <2>1 DEF TokenOK, Views
  <2> QED BY <1>3, <2>1, <2>2 DEF TokenOK
<1>8. mode' = "second" => Aligned(src, lexer)
  BY DEF ParserInv, TokenPlaced
<1>9. TokenPlaced'
  BY <1>1, <1>3, <1>4, <1>7, <1>8 DEF TokenOK, TokenPlaced, LineEnds
<1> QED BY <1>5, <1>6, <1>9

\* A token that is looked at again is where it was.
LEMMA StayOK ==
  ASSUME ParserInv, Stay, src' = src, mode # "start", mode' \in Modes \ {"start", "second"}
  PROVE  Lexing' /\ TokenPlaced'
BY DEF ParserInv, Lexing, TokenPlaced, Stay, Views, Tidy, Aligned, AtLineEnd

\* The diagnostics of the actions are in the table's type, and at the token.
LEMMA DiagnosticOK ==
  ASSUME ParserInv, mode # "start", src' = src, NEW message \in Messages, NEW isError \in BOOLEAN,
         AddDiagnostic(message, isError),
         token.kind \notin LineEnds \/ mode = "second"
  PROVE  /\ Table(diagnostics', MaxDiagnostics, Diagnostics)
         /\ \A r \in reported' : /\ r.row.line = LineOf(src, r.about.text.from)
                                 /\ r.row.col = ColOf(src, r.about.text.from)
<1> DEFINE d == Diagnostic(message, isError)
<1>1. /\ diagnostics' = AddRow(diagnostics, MaxDiagnostics, d)
      /\ reported' = reported \cup {[row |-> d, about |-> token]}
  BY DEF AddDiagnostic
<1>2. /\ token \in [kind : TokenKind, text : Views, line : Nat, col : Nat]
      /\ token.line = LineOf(src, token.text.from) /\ token.col = ColOf(src, token.text.from)
  BY DEF ParserInv, TokenPlaced
<1>3. d \in Diagnostics /\ d.line = token.line /\ d.col = token.col
  BY <1>2 DEF Diagnostic, Diagnostics
<1> HIDE DEF d
<1>4. Table(diagnostics', MaxDiagnostics, Diagnostics)
  BY <1>1, <1>3, AddRowOK, ParserAssumption DEF ParserInv, Tables
<1>5. \A r \in reported : /\ r.row.line = LineOf(src, r.about.text.from)
                         /\ r.row.col = ColOf(src, r.about.text.from)
  BY DEF ParserInv, PlacesTrue
<1> QED BY <1>1, <1>2, <1>3, <1>4, <1>5

\* The diagnostics raised are in the table's type, and where they say.
ReportedOK ==
  \A r \in reported : /\ r.row.line = LineOf(src, r.about.text.from)
                     /\ r.row.col = ColOf(src, r.about.text.from)

DiagnosticsOK == Table(diagnostics, MaxDiagnostics, Diagnostics) /\ ReportedOK

\* The records stay right while the parser goes on.
LEMMA RecordsKept ==
  ASSUME ParserInv, UNCHANGED <<src, instructions, labels>>, DiagnosticsOK', mode' # "start",
         token.line \in Nat, token'.line \in Nat,
         mode # "start" => Front \in Nat /\ Front' \in Nat /\ Front <= Front',
         mode # "start" =>
           \/ token.line < token'.line
           \/ /\ token'.line = token.line
              /\ \/ mode \in InstructionModes
                 \/ token.kind \notin LineEnds
                 \/ mode' \notin InstructionModes /\ token'.kind = token.kind
  PROVE  /\ Tables' /\ Behind' /\ LinesAbove'
         /\ PlacesTrue' /\ LabelsPointForward' /\ OneInstructionPerLine'
<1>1. /\ instructions \in Seq(Instructions) /\ labels \in Seq(Labels)
      /\ mode = "start" => instructions = <<>> /\ labels = <<>>
  BY DEF ParserInv, Tables, Table
<1>2. /\ \A i \in DOMAIN instructions : instructions[i].mnemonic.from \in Int /\ instructions[i].line \in Nat
      /\ \A l \in DOMAIN labels : labels[l].name.from \in Int
  <2>1. \A v \in Views : v.from \in Int
    BY DEF Views
  <2>2. ASSUME NEW i \in DOMAIN instructions
        PROVE  instructions[i].mnemonic.from \in Int /\ instructions[i].line \in Nat
    <3>1. instructions[i] \in Instructions
      BY <1>1
    <3> QED BY <2>1, <3>1 DEF Instructions
  <2>3. ASSUME NEW l \in DOMAIN labels PROVE labels[l].name.from \in Int
    <3>1. labels[l] \in Labels
      BY <1>1
    <3> QED BY <2>1, <3>1 DEF Labels
  <2> QED BY <2>2, <2>3
<1>3. Tables'
  <2>1. Instructions' = Instructions /\ Labels' = Labels
    BY DEF Instructions, Labels, Views
  <2> QED BY <1>1, <2>1 DEF ParserInv, Tables, DiagnosticsOK, Table
<1>4. Behind'
  <2>1. CASE mode = "start"
    BY <2>1, <1>1 DEF Behind
  <2>2. CASE mode # "start"
    <3>1. ASSUME NEW i \in DOMAIN instructions PROVE instructions[i].mnemonic.from < Front'
      BY <2>2, <1>2 DEF ParserInv, Behind
    <3>2. ASSUME NEW l \in DOMAIN labels PROVE labels[l].name.from < Front'
      BY <2>2, <1>2 DEF ParserInv, Behind
    <3> QED BY <3>1, <3>2 DEF ParserInv, Behind
  <2> QED BY <2>1, <2>2
<1>5. LinesAbove'
  <2>1. CASE mode = "start"
    BY <2>1, <1>1 DEF LinesAbove
  <2>2. CASE mode # "start"
    BY <2>2, <1>2 DEF ParserInv, LinesAbove
  <2> QED BY <2>1, <2>2
<1>6. PlacesTrue'
  BY DEF ParserInv, PlacesTrue, DiagnosticsOK, ReportedOK
<1>7. LabelsPointForward' /\ OneInstructionPerLine'
  BY DEF ParserInv, LabelsPointForward, OneInstructionPerLine
<1> QED BY <1>3, <1>4, <1>5, <1>6, <1>7

\* Without a new diagnostic those of before stay true.
LEMMA DiagnosticsKept ==
  ASSUME ParserInv, UNCHANGED <<src, diagnostics, reported>>
  PROVE  DiagnosticsOK'
BY DEF ParserInv, Tables, PlacesTrue, DiagnosticsOK, ReportedOK, Table

\* Numbers the positions of the token and of the instruction are.
LEMMA Positions ==
  ASSUME ParserInv
  PROVE  /\ Len(src) \in Nat /\ lexer.pos \in Nat /\ lexer.line \in Nat /\ token.line \in Nat
         /\ token.text.from \in Nat /\ token.text.to \in Nat
         /\ current.mnemonic.from \in Nat /\ current.mnemonic.to \in Nat /\ current.line \in Nat
         /\ mode # "start" =>
              /\ token.text.from <= token.text.to /\ token.text.to <= lexer.pos
              /\ token.kind # "Eof" => token.text.from < token.text.to
              /\ lexer.line = IF token.kind = "Newline" THEN token.line + 1 ELSE token.line
              /\ token.line = LineOf(src, token.text.from)
<1>1. src \in Seq(Chars) /\ Len(src) \in Nat
  BY DEF ParserInv, Lexing
<1>2. lexer.pos \in Nat /\ lexer.line \in Nat
  BY <1>1 DEF ParserInv, Lexing, Tidy
<1>3. token \in [kind : TokenKind, text : Views, line : Nat, col : Nat]
  BY DEF ParserInv, TokenPlaced
<1>4. current \in Instructions
  BY DEF ParserInv, CurrentOK
<1>5. mode # "start" => token.text.to \in token.text.from .. lexer.pos
  BY DEF ParserInv, TokenPlaced
<1> QED BY <1>1, <1>2, <1>3, <1>4, <1>5, SMTT(30) DEF ParserInv, TokenPlaced, Views, Instructions

(***************************************************************************)
(* The actions.                                                            *)
(***************************************************************************)
\* Between statements the next token is fetched.
LEMMA FetchInStatement ==
  ASSUME ParserInv, mode = "start" \/ (mode = "statement" /\ token.kind # "Eof"),
         mode' = "statement", Fetch, UNCHANGED <<src, current, instructions, labels>>, DiagnosticsOK'
  PROVE  ParserInv'
<1>1. /\ Lexing' /\ TokenPlaced'
      /\ token'.text.from \in Nat /\ token'.text.from >= lexer.pos
      /\ token'.line = lexer.line
  BY FetchOK DEF Modes, InstructionModes
<1>2. CurrentOK'
  BY DEF ParserInv, CurrentOK, InstructionModes, Instructions, Views
<1>3. mode # "start" => /\ Front = token.text.from /\ Front' = token'.text.from
                        /\ Front \in Nat /\ Front <= Front'
  BY <1>1, Positions, SMTT(30) DEF Front, InstructionModes
<1>4. mode # "start" =>
        \/ token.line < token'.line
        \/ token'.line = token.line /\ token.kind \notin LineEnds
  BY <1>1, Positions DEF LineEnds
<1>5. token.line \in Nat /\ token'.line \in Nat
  BY <1>1, Positions
<1>6. /\ Tables' /\ Behind' /\ LinesAbove'
      /\ PlacesTrue' /\ LabelsPointForward' /\ OneInstructionPerLine'
  BY <1>1, <1>3, <1>4, <1>5, RecordsKept
<1> QED BY <1>1, <1>2, <1>6 DEF ParserInv

\* So it is within an instruction, of which no operand is added or the token.
LEMMA FetchInInstruction ==
  ASSUME ParserInv, mode \in InstructionModes, mode' \in InstructionModes,
         mode' = "second" => token.kind = "Comma", token.kind \notin LineEnds,
         Fetch, UNCHANGED <<src, instructions, labels>>, DiagnosticsOK',
         current' \in Instructions, current'.mnemonic = current.mnemonic,
         current'.line = current.line,
         OperandViews(current') \subseteq OperandViews(current) \cup {token.text}
  PROVE  ParserInv'
<1>0. mode # "start" /\ mode' # "start"
  BY DEF InstructionModes
<1>1. /\ Lexing' /\ TokenPlaced'
      /\ token'.text.from \in Nat /\ token'.text.from >= lexer.pos
      /\ token'.line = lexer.line
  BY <1>0, FetchOK DEF Modes
<1>2. token'.line = token.line
  BY <1>0, <1>1, Positions DEF LineEnds
<1>3. /\ current.line = LineOf(src, current.mnemonic.from) /\ current.line = token.line
      /\ current.mnemonic.from < token.text.from /\ current.mnemonic.to <= token.text.from
      /\ OperandsOnLine(current)
  BY DEF ParserInv, CurrentOK
<1>4. OperandsOnLine(current')
  <2> SUFFICES ASSUME NEW v \in OperandViews(current')
               PROVE  v.from >= current'.mnemonic.to /\ LineOf(src, v.from) = current'.line
    BY DEF OperandsOnLine
  <2>1. CASE v \in OperandViews(current)
    BY <2>1, <1>3 DEF OperandsOnLine
  <2>2. CASE v = token.text
    BY <2>2, <1>0, <1>3, Positions
  <2> QED BY <2>1, <2>2
<1>5. CurrentOK'
  <2>1. current'.mnemonic.from < token'.text.from /\ current'.mnemonic.to <= token'.text.from
    BY <1>0, <1>1, <1>3, Positions
  <2>2. OperandsOnLine(current)'
    BY <1>4 DEF OperandsOnLine
  <2>3. (current \in Instructions)'
    BY DEF Instructions, Views
  <2> QED BY <1>2, <1>3, <2>1, <2>2, <2>3 DEF CurrentOK
<1>6. Front \in Nat /\ Front' = Front
  BY Positions DEF Front
<1>7. /\ Tables' /\ Behind' /\ LinesAbove'
      /\ PlacesTrue' /\ LabelsPointForward' /\ OneInstructionPerLine'
  <2>1. token.line \in Nat /\ token'.line \in Nat
    BY <1>2, Positions
  <2> QED BY <1>0, <1>2, <1>6, <2>1, RecordsKept
<1> QED BY <1>1, <1>5, <1>7 DEF ParserInv

\* addLabel(): every instruction recorded is before the label, none to come is.
LEMMA ReadLabelOK == ParserInv /\ ReadLabel => ParserInv'
<1> SUFFICES ASSUME ParserInv, ReadLabel PROVE ParserInv'
  OBVIOUS
<1> DEFINE row == [name |-> token.text, instructionIndex |-> Len(instructions)]
<1>1. /\ mode = "statement" /\ mode' = mode /\ token.kind = "Label" /\ Fetch
      /\ labels' = AddRow(labels, MaxLabels, row)
      /\ UNCHANGED <<src, current, instructions, diagnostics, reported>>
  BY DEF ReadLabel
<1>2. /\ Lexing' /\ TokenPlaced'
      /\ token'.text.from \in Nat /\ token'.text.from >= lexer.pos
      /\ token'.line = lexer.line
  BY <1>1, FetchOK DEF Modes, InstructionModes
<1>3. /\ token.text.from < token'.text.from /\ token'.line = token.line
      /\ token.line \in Nat
  BY <1>1, <1>2, Positions, SMTT(30)
<1>4. Front = token.text.from /\ Front' = token'.text.from
  BY <1>1 DEF Front, InstructionModes
<1>5. /\ instructions \in Seq(Instructions) /\ Len(instructions) \in Nat
      /\ Table(labels, MaxLabels, Labels) /\ labels \in Seq(Labels) /\ Len(labels) \in Nat
  BY DEF ParserInv, Tables, Table
<1>6. row \in Labels
  BY <1>5 DEF Labels, ParserInv, TokenPlaced
<1>7. Table(labels', MaxLabels, Labels) /\ labels' \in {labels, Append(labels, row)}
  BY <1>1, <1>5, <1>6, AddRowOK, ParserAssumption
<1>8. \A l \in DOMAIN labels' : \/ l \in DOMAIN labels /\ labels'[l] = labels[l]
                              \/ labels'[l] = row
  <2> HIDE DEF row
  <2> QED BY <1>5, <1>6, <1>7
<1>9. /\ \A v \in Views : v.from \in Nat
      /\ \A i \in DOMAIN instructions : instructions[i].mnemonic \in Views
      /\ \A l \in DOMAIN labels : labels[l].name \in Views
  <2>1. \A i \in DOMAIN instructions : instructions[i] \in Instructions
    BY <1>5
  <2>2. \A l \in DOMAIN labels : labels[l] \in Labels
    BY <1>5
  <2> QED BY <2>1, <2>2 DEF Instructions, Labels, Views
<1>10. /\ \A i \in DOMAIN instructions : instructions[i].mnemonic.from < token.text.from
       /\ \A l \in DOMAIN labels : /\ labels[l].name.from < token.text.from
                                   /\ labels[l].instructionIndex <= Len(instructions)
  BY <1>4 DEF ParserInv, Behind
<1>11. Tables'
  <2>1. Instructions' = Instructions /\ Labels' = Labels
    BY <1>1 DEF Instructions, Labels, Views
  <2> QED BY <1>1, <1>7, <2>1 DEF ParserInv, Tables, Table
<1>12. CurrentOK'
  BY <1>1 DEF ParserInv, CurrentOK, InstructionModes, Instructions, Views
<1>13. Behind'
  <2>1. ASSUME NEW i \in DOMAIN instructions PROVE instructions[i].mnemonic.from < token'.text.from
    BY <1>2, <1>3, <1>9, <1>10, Positions
  <2>2. ASSUME NEW l \in DOMAIN labels'
        PROVE  labels'[l].name.from < token'.text.from /\ labels'[l].instructionIndex <= Len(instructions)
    BY <1>2, <1>3, <1>5, <1>8, <1>9, <1>10, Positions, SMTT(30)
  <2> QED BY <2>1, <2>2, <1>1, <1>4 DEF Behind
<1>14. LinesAbove'
  BY <1>1, <1>3 DEF ParserInv, LinesAbove, LineEnds
<1>15. PlacesTrue' /\ OneInstructionPerLine'
  BY <1>1 DEF ParserInv, PlacesTrue, OneInstructionPerLine
<1>16. LabelsPointForward'
  <2> SUFFICES ASSUME NEW l \in DOMAIN labels', NEW i \in DOMAIN instructions
               PROVE  (i <= labels'[l].instructionIndex)
                        <=> (instructions[i].mnemonic.from < labels'[l].name.from)
    BY <1>1 DEF LabelsPointForward
  <2>1. CASE l \in DOMAIN labels /\ labels'[l] = labels[l]
    BY <2>1 DEF ParserInv, LabelsPointForward
  <2>2. CASE labels'[l] = row
    BY <2>2, <1>5, <1>10
  <2> QED BY <2>1, <2>2, <1>8
<1> QED BY <1>2, <1>11, <1>12, <1>13, <1>14, <1>15, <1>16 DEF ParserInv

\* The mnemonic opens an instruction on its line, before the next token.
LEMMA ReadMnemonicOK == ParserInv /\ ReadMnemonic => ParserInv'
<1> SUFFICES ASSUME ParserInv, ReadMnemonic PROVE ParserInv'
  OBVIOUS
<1>1. /\ mode = "statement" /\ mode' = "first" /\ token.kind = "Mnemonic" /\ Fetch
      /\ current' = NewInstruction(token)
      /\ UNCHANGED <<src, instructions, labels, diagnostics, reported>>
  BY DEF ReadMnemonic, tables
<1>2. /\ Lexing' /\ TokenPlaced'
      /\ token'.text.from \in Nat /\ token'.text.from >= lexer.pos
      /\ token'.line = lexer.line
  BY <1>1, FetchOK DEF Modes, InstructionModes
<1>3. /\ token.text.from < token'.text.from /\ token.text.to <= token'.text.from
      /\ token'.line = token.line /\ token.line \in Nat
      /\ token.line = LineOf(src, token.text.from) /\ token.text.from \in Nat
  BY <1>1, <1>2, Positions
<1>4. /\ current'.mnemonic = token.text /\ current'.line = token.line
      /\ OperandViews(current') = {}
  BY <1>1 DEF NewInstruction, OperandViews
<1>5. (current \in Instructions)'
  <2>1. NoText \in Views
    BY Positions DEF NoText, View, Views
  <2> QED BY <1>1, <2>1 DEF ParserInv, TokenPlaced, NewInstruction, Instructions, Views
<1>6. CurrentOK'
  BY <1>1, <1>3, <1>4, <1>5 DEF CurrentOK, OperandsOnLine
<1>7. Front = token.text.from /\ Front' = token.text.from
  BY <1>1, <1>4 DEF Front, InstructionModes
<1>8. DiagnosticsOK'
  BY <1>1, DiagnosticsKept
<1>9. /\ Tables' /\ Behind' /\ LinesAbove'
      /\ PlacesTrue' /\ LabelsPointForward' /\ OneInstructionPerLine'
  <2>1. mode' # "start" /\ token'.line \in Nat /\ token.kind \notin LineEnds
    BY <1>1, <1>3 DEF LineEnds
  <2>2. Front \in Nat /\ Front' \in Nat /\ Front <= Front'
    BY <1>3, <1>7
  <2> QED BY <2>1, <2>2, <1>1, <1>3, <1>8, RecordsKept
<1> QED BY <1>2, <1>6, <1>9 DEF ParserInv

\* The diagnostic behind a comma has a true column, also at the end of a line.
LEMMA MissingOperandOK == ParserInv /\ MissingOperand => ParserInv'
<1> SUFFICES ASSUME ParserInv, MissingOperand PROVE ParserInv'
  OBVIOUS
<1>1. /\ mode = "second" /\ mode' = "end" /\ Stay
      /\ AddDiagnostic(ExpectedOperand, TRUE)
      /\ UNCHANGED <<src, current, instructions, labels>>
  BY DEF MissingOperand
<1>2. DiagnosticsOK'
  <2>1. Table(diagnostics', MaxDiagnostics, Diagnostics)
        /\ \A r \in reported' : /\ r.row.line = LineOf(src, r.about.text.from)
                               /\ r.row.col = ColOf(src, r.about.text.from)
    <3>1. ExpectedOperand \in Messages
      BY DEF Messages
    <3> QED BY <3>1, <1>1, DiagnosticOK
  <2> QED BY <2>1, <1>1 DEF DiagnosticsOK, ReportedOK, Table, Diagnostics
<1>3. Lexing' /\ TokenPlaced'
  BY <1>1, StayOK DEF Modes, InstructionModes
<1>4. CurrentOK'
  BY <1>1 DEF ParserInv, CurrentOK, InstructionModes, Instructions, Views, Stay, OperandsOnLine
<1>5. Front \in Nat /\ Front' = Front
  BY <1>1, Positions DEF Front, InstructionModes
<1>6. /\ Tables' /\ Behind' /\ LinesAbove'
      /\ PlacesTrue' /\ LabelsPointForward' /\ OneInstructionPerLine'
  <2>1. mode \in InstructionModes /\ mode' # "start" /\ token' = token /\ token.line \in Nat
    BY <1>1, Positions DEF InstructionModes, Stay
  <2> QED BY <2>1, <1>1, <1>2, <1>5, RecordsKept
<1> QED BY <1>3, <1>4, <1>6 DEF ParserInv

\* Eof ends the loop and changes nothing recorded.
LEMMA FinishOK == ParserInv /\ Finish => ParserInv'
<1> SUFFICES ASSUME ParserInv, Finish PROVE ParserInv'
  OBVIOUS
<1>1. /\ mode = "statement" /\ mode' = "done" /\ Stay
      /\ UNCHANGED <<src, current, instructions, labels, diagnostics, reported>>
  BY DEF Finish, tables
<1>2. DiagnosticsOK'
  BY <1>1, DiagnosticsKept
<1>3. Lexing' /\ TokenPlaced'
  BY <1>1, StayOK DEF Modes, InstructionModes
<1>4. CurrentOK'
  BY <1>1 DEF ParserInv, CurrentOK, InstructionModes, Instructions, Views
<1>5. Front \in Nat /\ Front' = Front
  BY <1>1, Positions DEF Front, InstructionModes, Stay
<1>6. /\ Tables' /\ Behind' /\ LinesAbove'
      /\ PlacesTrue' /\ LabelsPointForward' /\ OneInstructionPerLine'
  <2>1. mode' \notin InstructionModes /\ mode' # "start" /\ token' = token /\ token.line \in Nat
    BY <1>1, Positions DEF InstructionModes, Stay
  <2> QED BY <2>1, <1>1, <1>2, <1>5, RecordsKept
<1> QED BY <1>3, <1>4, <1>6 DEF ParserInv

\* The instruction read becomes the last row of its table, or is dropped.
LEMMA EndInstructionOK == ParserInv /\ EndInstruction => ParserInv'
<1> SUFFICES ASSUME ParserInv, EndInstruction PROVE ParserInv'
  OBVIOUS
<1>1. /\ mode \in InstructionModes /\ mode' = "statement" /\ token.kind \in LineEnds
      /\ instructions' = AddRow(instructions, MaxInstructions, current)
      /\ Stay /\ token' = token
      /\ UNCHANGED <<src, current, labels, diagnostics, reported>>
  BY DEF EndInstruction, OperandsRead, InstructionModes, Stay
<1>2. /\ current \in Instructions
      /\ current.line = LineOf(src, current.mnemonic.from) /\ current.line = token.line
      /\ current.mnemonic.from < token.text.from /\ OperandsOnLine(current)
  BY <1>1 DEF ParserInv, CurrentOK
<1>3. /\ Table(instructions, MaxInstructions, Instructions)
      /\ instructions \in Seq(Instructions) /\ Len(instructions) \in Nat
      /\ labels \in Seq(Labels)
  BY DEF ParserInv, Tables, Table
<1>4. /\ Table(instructions', MaxInstructions, Instructions)
      /\ instructions' \in {instructions, Append(instructions, current)}
  BY <1>1, <1>2, <1>3, AddRowOK, ParserAssumption
<1>5. /\ Len(instructions') \in Nat /\ Len(instructions) <= Len(instructions')
      /\ \A i \in DOMAIN instructions' :
           \/ i \in DOMAIN instructions /\ instructions'[i] = instructions[i]
           \/ i = Len(instructions) + 1 /\ instructions'[i] = current
  BY <1>2, <1>3, <1>4, SMTT(30)
<1>6. /\ \A i \in DOMAIN instructions : /\ instructions[i].mnemonic.from \in Nat
                                       /\ instructions[i].line \in Nat
      /\ \A l \in DOMAIN labels : labels[l].name.from \in Nat /\ labels[l].instructionIndex \in Nat
  <2>1. \A i \in DOMAIN instructions : instructions[i] \in Instructions
    BY <1>3
  <2>2. \A l \in DOMAIN labels : labels[l] \in Labels
    BY <1>3
  <2>3. \A v \in Views : v.from \in Nat
    BY Positions DEF Views
  <2> QED BY <2>1, <2>2, <2>3 DEF Instructions, Labels
<1>7. /\ Front = current.mnemonic.from /\ Front' = token.text.from
      /\ current.mnemonic.from \in Nat /\ token.text.from \in Nat /\ token.line \in Nat
  BY <1>1, Positions DEF Front, InstructionModes
<1>8. /\ \A i \in DOMAIN instructions : /\ instructions[i].mnemonic.from < current.mnemonic.from
                                       /\ instructions[i].line < token.line
      /\ \A l \in DOMAIN labels : /\ labels[l].name.from < current.mnemonic.from
                                  /\ labels[l].instructionIndex <= Len(instructions)
  BY <1>1, <1>7 DEF ParserInv, Behind, LinesAbove
<1>9. Lexing' /\ TokenPlaced'
  BY <1>1, StayOK DEF Modes, InstructionModes
<1>10. CurrentOK'
  BY <1>1, <1>2 DEF CurrentOK, InstructionModes, Instructions, Views
<1>11. Tables'
  <2>1. Instructions' = Instructions /\ Labels' = Labels
    BY <1>1 DEF Instructions, Labels, Views
  <2> QED BY <1>1, <1>4, <2>1 DEF ParserInv, Tables, Table
<1>12. Behind'
  <2>1. ASSUME NEW i \in DOMAIN instructions' PROVE instructions'[i].mnemonic.from < token.text.from
    BY <1>2, <1>5, <1>6, <1>7, <1>8
  <2>2. ASSUME NEW l \in DOMAIN labels
        PROVE  labels[l].name.from < token.text.from /\ labels[l].instructionIndex <= Len(instructions')
    BY <1>2, <1>3, <1>5, <1>6, <1>7, <1>8
  <2> QED BY <2>1, <2>2, <1>1, <1>7 DEF Behind
<1>13. LinesAbove'
  <2>1. ASSUME NEW i \in DOMAIN instructions' PROVE instructions'[i].line <= token.line
    BY <1>2, <1>5, <1>6, <1>7, <1>8
  <2> QED BY <2>1, <1>1 DEF LinesAbove, InstructionModes
<1>14. PlacesTrue'
  <2>1. ASSUME NEW i \in DOMAIN instructions'
        PROVE  instructions'[i].line = LineOf(src, instructions'[i].mnemonic.from)
    BY <1>2, <1>5 DEF ParserInv, PlacesTrue
  <2> QED BY <2>1, <1>1 DEF ParserInv, PlacesTrue
<1>15. LabelsPointForward'
  <2> SUFFICES ASSUME NEW l \in DOMAIN labels, NEW i \in DOMAIN instructions'
               PROVE  (i <= labels[l].instructionIndex)
                        <=> (instructions'[i].mnemonic.from < labels[l].name.from)
    BY <1>1 DEF LabelsPointForward
  <2>1. CASE i \in DOMAIN instructions /\ instructions'[i] = instructions[i]
    BY <2>1 DEF ParserInv, LabelsPointForward
  <2>2. CASE i = Len(instructions) + 1 /\ instructions'[i] = current
    <3>1. ~(i <= labels[l].instructionIndex)
      BY <2>2, <1>3, <1>6, <1>8
    <3>2. ~(instructions'[i].mnemonic.from < labels[l].name.from)
      BY <2>2, <1>6, <1>7, <1>8
    <3> QED BY <3>1, <3>2
  <2> QED BY <2>1, <2>2, <1>5
<1>16. OneInstructionPerLine'
  <2>1. ASSUME NEW i \in DOMAIN instructions', NEW j \in DOMAIN instructions', i < j
        PROVE  instructions'[i].line < instructions'[j].line
    <3>0. i \in DOMAIN instructions /\ instructions'[i] = instructions[i]
      BY <2>1, <1>3, <1>4, <1>5
    <3>1. CASE j \in DOMAIN instructions /\ instructions'[j] = instructions[j]
      BY <2>1, <3>0, <3>1 DEF ParserInv, OneInstructionPerLine
    <3>2. CASE instructions'[j] = current
      BY <3>0, <3>2, <1>2, <1>8
    <3> QED BY <3>1, <3>2, <1>5
  <2>2. ASSUME NEW i \in DOMAIN instructions', NEW v \in OperandViews(instructions'[i])
        PROVE  v.from >= instructions'[i].mnemonic.to /\ LineOf(src, v.from) = instructions'[i].line
    <3>1. CASE i \in DOMAIN instructions /\ instructions'[i] = instructions[i]
      BY <2>2, <3>1 DEF ParserInv, OneInstructionPerLine
    <3>2. CASE instructions'[i] = current
      BY <2>2, <3>2, <1>2 DEF OperandsOnLine
    <3> QED BY <3>1, <3>2, <1>5
  <2> QED BY <2>1, <2>2, <1>1 DEF OneInstructionPerLine
<1> QED BY <1>9, <1>10, <1>11, <1>12, <1>13, <1>14, <1>15, <1>16 DEF ParserInv

(***************************************************************************)
(* Every step keeps the invariant.                                         *)
(***************************************************************************)
\* The first token is fetched before the loop.
LEMMA StartOK == ParserInv /\ Start => ParserInv'
<1> SUFFICES ASSUME ParserInv, Start PROVE ParserInv'
  OBVIOUS
<1>1. /\ mode = "start" /\ mode' = "statement" /\ Fetch
      /\ UNCHANGED <<src, current, instructions, labels, diagnostics, reported>>
  BY DEF Start, tables
<1>2. DiagnosticsOK'
  BY <1>1, DiagnosticsKept
<1> QED BY <1>1, <1>2, FetchInStatement

\* A line end between statements takes the parser to the next line.
LEMMA SkipIgnorableOK == ParserInv /\ SkipIgnorable => ParserInv'
<1> SUFFICES ASSUME ParserInv, SkipIgnorable PROVE ParserInv'
  OBVIOUS
<1>1. /\ mode = "statement" /\ mode' = mode /\ token.kind # "Eof" /\ Fetch
      /\ UNCHANGED <<src, current, instructions, labels, diagnostics, reported>>
  BY DEF SkipIgnorable, IgnorableKinds, tables
<1> QED BY <1>1, DiagnosticsKept, FetchInStatement

\* The token that is complained about is not a line end: its column is true.
LEMMA UnexpectedTokenOK == ParserInv /\ UnexpectedToken => ParserInv'
<1> SUFFICES ASSUME ParserInv, UnexpectedToken PROVE ParserInv'
  OBVIOUS
<1>1. /\ mode = "statement" /\ mode' = mode /\ token.kind \notin LineEnds /\ Fetch
      /\ AddDiagnostic("unexpected token", FALSE)
      /\ UNCHANGED <<src, current, instructions, labels>>
  BY DEF UnexpectedToken, IgnorableKinds, LineEnds
<1>2. DiagnosticsOK'
  <2>1. "unexpected token" \in Messages
    BY DEF Messages
  <2>2. Table(diagnostics', MaxDiagnostics, Diagnostics)
        /\ \A r \in reported' : /\ r.row.line = LineOf(src, r.about.text.from)
                               /\ r.row.col = ColOf(src, r.about.text.from)
    BY <1>1, <2>1, DiagnosticOK
  <2> QED BY <2>2, <1>1 DEF DiagnosticsOK, ReportedOK, Table, Diagnostics
<1>3. token.kind # "Eof"
  BY <1>1 DEF LineEnds
<1> QED BY <1>1, <1>2, <1>3, FetchInStatement

\* An operand is a token of the instruction's line, behind the mnemonic.
LEMMA ReadOperandOK == ParserInv /\ (ReadFirstOperand \/ ReadSecondOperand) => ParserInv'
<1> SUFFICES ASSUME ParserInv, ReadFirstOperand \/ ReadSecondOperand PROVE ParserInv'
  OBVIOUS
<1>1. /\ mode \in InstructionModes /\ mode' \in InstructionModes /\ mode' # "second"
      /\ token.kind \notin LineEnds /\ Fetch
      /\ UNCHANGED <<src, instructions, labels, diagnostics, reported>>
  BY DEF ReadFirstOperand, ReadSecondOperand, FirstOperandKinds, SecondOperandKinds, LineEnds,
         InstructionModes, tables
<1>2. current \in Instructions /\ token.text \in Views
  BY DEF ParserInv, CurrentOK, TokenPlaced
<1>3. \/ current' = [current EXCEPT !.firstOperand = token.text]
      \/ current' = [current EXCEPT !.secondOperand = token.text]
  BY DEF ReadFirstOperand, ReadSecondOperand
<1>4. /\ current' \in Instructions /\ current'.mnemonic = current.mnemonic
      /\ current'.line = current.line
      /\ OperandViews(current') \subseteq OperandViews(current) \cup {token.text}
  BY <1>2, <1>3 DEF Instructions, OperandViews
<1> QED BY <1>1, <1>4, DiagnosticsKept, FetchInInstruction

\* The comma, the comment behind the operands, and what recovery skips.
LEMMA SkipInInstructionOK == ParserInv /\ (ReadComma \/ TrailingComment \/ Recover) => ParserInv'
<1> SUFFICES ASSUME ParserInv, ReadComma \/ TrailingComment \/ Recover PROVE ParserInv'
  OBVIOUS
<1>1. /\ mode \in InstructionModes /\ mode' \in InstructionModes
      /\ mode' = "second" => token.kind = "Comma"
      /\ token.kind \notin LineEnds /\ Fetch
      /\ UNCHANGED <<src, current, instructions, labels, diagnostics, reported>>
  BY DEF ReadComma, TrailingComment, Recover, OperandsRead, LineEnds, InstructionModes, tables
<1>2. current \in Instructions
  BY DEF ParserInv, CurrentOK
<1> QED BY <1>1, <1>2, DiagnosticsKept, FetchInInstruction

\* What follows the operands is complained about, and skipped with its line.
LEMMA ExpectedNewlineOK == ParserInv /\ ExpectedNewline => ParserInv'
<1> SUFFICES ASSUME ParserInv, ExpectedNewline PROVE ParserInv'
  OBVIOUS
<1>1. /\ mode \in InstructionModes /\ mode' = "recover" /\ mode # "start"
      /\ token.kind \notin LineEnds /\ Fetch
      /\ AddDiagnostic("expected newline after instruction", FALSE)
      /\ UNCHANGED <<src, current, instructions, labels>>
  BY DEF ExpectedNewline, OperandsRead, InstructionModes
<1>2. DiagnosticsOK'
  <2>1. "expected newline after instruction" \in Messages
    BY DEF Messages
  <2>2. Table(diagnostics', MaxDiagnostics, Diagnostics)
        /\ \A r \in reported' : /\ r.row.line = LineOf(src, r.about.text.from)
                               /\ r.row.col = ColOf(src, r.about.text.from)
    BY <1>1, <2>1, DiagnosticOK
  <2> QED BY <2>2, <1>1 DEF DiagnosticsOK, ReportedOK, Table, Diagnostics
<1>3. current \in Instructions /\ mode' \in InstructionModes /\ mode' # "second"
  BY <1>1 DEF ParserInv, CurrentOK, InstructionModes
<1> QED BY <1>1, <1>2, <1>3, FetchInInstruction

\* Every token parse() takes keeps the invariant.
LEMMA ParserStep == ParserInv /\ [Next]_vars => ParserInv'
<1> SUFFICES ASSUME ParserInv, [Next]_vars PROVE ParserInv'
  OBVIOUS
<1>1. CASE Start             BY <1>1, StartOK
<1>2. CASE SkipIgnorable     BY <1>2, SkipIgnorableOK
<1>3. CASE ReadLabel         BY <1>3, ReadLabelOK
<1>4. CASE ReadMnemonic      BY <1>4, ReadMnemonicOK
<1>5. CASE UnexpectedToken   BY <1>5, UnexpectedTokenOK
<1>6. CASE Finish            BY <1>6, FinishOK
<1>7. CASE ReadFirstOperand  BY <1>7, ReadOperandOK
<1>8. CASE ReadComma         BY <1>8, SkipInInstructionOK
<1>9. CASE ReadSecondOperand BY <1>9, ReadOperandOK
<1>10. CASE MissingOperand   BY <1>10, MissingOperandOK
<1>11. CASE TrailingComment  BY <1>11, SkipInInstructionOK
<1>12. CASE ExpectedNewline  BY <1>12, ExpectedNewlineOK
<1>13. CASE Recover          BY <1>13, SkipInInstructionOK
<1>14. CASE EndInstruction   BY <1>14, EndInstructionOK
<1>15. CASE UNCHANGED vars
  BY <1>15 DEF vars, tables, ParserInv, Tables, Table, Lexing, TokenPlaced, CurrentOK, Behind,
     LinesAbove, PlacesTrue, LabelsPointForward, OneInstructionPerLine, Front, Views,
     Instructions, Labels, Diagnostics, Tidy, Aligned, AtLineEnd, OperandsOnLine
<1> QED BY <1>1, <1>2, <1>3, <1>4, <1>5, <1>6, <1>7, <1>8, <1>9, <1>10, <1>11, <1>12, <1>13,
           <1>14, <1>15 DEF Next

(***************************************************************************)
(* The theorems.                                                           *)
(***************************************************************************)
\* The relation of the tables, the token and the lexer holds at every token
\* parse() takes.
THEOREM ParserInvariant == Spec => []ParserInv
BY ParserInit, ParserStep, PTL DEF Spec

\* addInstruction, addLabel and addDiagnostic never write behind the end of
\* their arrays, whatever the text and the size of the arrays.
THEOREM ParserTypesHold == Spec => []ParserTypeOK
BY ParserInvariant, InvGivesTypes, PTL

\* The line and the column of a diagnostic and the line of an instruction are
\* those of the source, for every text, although lexing a comment leaves the
\* column behind.
THEOREM PlacesStayTrue == Spec => []PlacesTrue
<1>1. ParserInv => PlacesTrue
  BY DEF ParserInv
<1> QED BY <1>1, ParserInvariant, PTL

\* The index addLabel stores divides the instructions of the result, also when
\* a table was full and rows were dropped.
THEOREM LabelsKeepPointing == Spec => []LabelsPointForward
<1>1. ParserInv => LabelsPointForward
  BY DEF ParserInv
<1> QED BY <1>1, ParserInvariant, PTL

\* An instruction ends with its line, and what is left of the line is no
\* instruction or operand.
THEOREM LinesStayApart == Spec => []OneInstructionPerLine
<1>1. ParserInv => OneInstructionPerLine
  BY DEF ParserInv
<1> QED BY <1>1, ParserInvariant, PTL

---------------------------------------------------------------------------
(***************************************************************************)
(* The tokens parse() fetches, for every set of texts and all limits of    *)
(* the tables: together they are the whole text, in order, and what they   *)
(* say is in the result or complained about.                               *)
(*                                                                         *)
(* Both are about the set of all tokens so far, of which an invariant can  *)
(* only speak if it says which of them is the last: Ordered and Handled    *)
(* do.                                                                     *)
(***************************************************************************)
(***************************************************************************)
(* Tokens follow each other.                                               *)
(***************************************************************************)
\* The token is the last of those fetched, and the lexer is right behind it.
Ordered ==
  /\ mode = "start" => tokens = {} /\ lexer.pos = 1
  /\ mode # "start" => token \in tokens /\ EndsAt(src, token.kind, token.text.to, lexer.pos)
  /\ \A u \in tokens : /\ u.text.from \in 1 .. (Len(src) + 1)
                       /\ u # token => u.text.from < token.text.from
  /\ \A u, v \in tokens : u.text.from = v.text.from => u = v

TileInv == Ordered /\ TokensTile

\* A token follows the last one before it, in this sense.
Follows(last, t) ==
  /\ last.text.to <= t.text.from
  /\ IF last.kind = "Label" THEN LabelMark(Unread(last.text.to, t.text.from))
                            ELSE Unread(last.text.to, t.text.from) = {}

Before(S, t) == {u \in S : u # t /\ u.text.from <= t.text.from}

Tiles(S, t) ==
  LET last == CHOOSE u \in Before(S, t) : \A v \in Before(S, t) : v.text.from <= u.text.from
  IN  IF Before(S, t) = {} THEN Unread(1, t.text.from) = {} ELSE Follows(last, t)

\* TokensTile, token by token.
LEMMA TileByTile == TokensTile <=> \A t \in tokens : Tiles(tokens, t)
BY DEF TokensTile, Tiles, Before, Follows

LEMMA TileByTileNext ==
  ASSUME src' = src, \A t \in tokens' : Tiles(tokens', t)
  PROVE  TokensTile'
BY src' = src DEF TokensTile, Tiles, Before, Follows, Unread, LabelMark

\* Nothing is fetched behind the end of the text: where parse() fetches, it
\* has seen a token that is not Eof, or none.
LEMMA FetchesBehindToken ==
  ASSUME ParserInv, [Next]_vars
  PROVE  /\ src' = src
         /\ \/ Fetch /\ mode' # "start" /\ (mode # "start" => token.kind # "Eof")
            \/ Stay /\ mode # "start" /\ mode' # "start"
            \/ UNCHANGED vars
<1>1. CASE UNCHANGED vars
  BY <1>1 DEF vars
<1>2. CASE Start \/ SkipIgnorable \/ ReadLabel \/ ReadMnemonic \/ UnexpectedToken
  BY <1>2 DEF Start, SkipIgnorable, ReadLabel, ReadMnemonic, UnexpectedToken, IgnorableKinds
<1>3. CASE ReadFirstOperand \/ ReadComma \/ ReadSecondOperand
  BY <1>3 DEF ReadFirstOperand, ReadComma, ReadSecondOperand, FirstOperandKinds, SecondOperandKinds
<1>4. CASE TrailingComment \/ ExpectedNewline \/ Recover
  BY <1>4 DEF TrailingComment, ExpectedNewline, Recover, LineEnds, OperandsRead
<1>5. CASE Finish \/ MissingOperand \/ EndInstruction
  BY <1>5 DEF Finish, MissingOperand, EndInstruction, OperandsRead
<1> QED BY <1>1, <1>2, <1>3, <1>4, <1>5 DEF Next

\* The token fetched begins behind the last one, and between the two are only
\* blanks and a label's ':'.
LEMMA FetchFollows ==
  ASSUME ParserInv, Ordered, Fetch, src' = src, mode # "start", token.kind # "Eof"
  PROVE  /\ token'.text.from \in 1 .. (Len(src) + 1)
         /\ token.text.from < token'.text.from
         /\ EndsAt(src, token'.kind, token'.text.to, lexer'.pos)
         /\ Follows(token, token')
<1>1. src \in Seq(Chars) /\ Len(src) \in Nat /\ Tidy(src, lexer)
  BY DEF ParserInv, Lexing
<1>2. lexer.pos \in 1 .. (Len(src) + 1)
  BY <1>1 DEF Tidy
<1>3. token' = NextToken(src, lexer).token /\ lexer' = NextToken(src, lexer).lexer
  BY DEF Fetch
<1>4. /\ \A i \in lexer.pos .. (token'.text.from - 1) : src[i] \in Blanks
      /\ EndsAt(src, token'.kind, token'.text.to, lexer'.pos)
  BY <1>1, <1>2, <1>3, NextTokenTiles
<1>5. token'.text.from \in lexer.pos .. (Len(src) + 1)
  <2>1. TokenOK(src, lexer, token', lexer')
    BY <1>1, <1>3, NextTokenOK
  <2> QED BY <2>1 DEF TokenOK
<1>6. /\ token.text.from \in Nat /\ token.text.to \in Nat
      /\ token.text.from < token.text.to /\ token.text.to <= lexer.pos
  BY Positions
<1>7. EndsAt(src, token.kind, token.text.to, lexer.pos)
  BY DEF Ordered
<1> DEFINE a == token.text.to
           b == token'.text.from
<1>8. a \in Nat /\ b \in Nat /\ lexer.pos \in Nat /\ a <= b /\ lexer.pos <= b
  BY <1>1, <1>2, <1>5, <1>6
<1>9. CASE token.kind = "Label"
  <2>1. /\ lexer.pos - 1 \in a .. Len(src) /\ src[lexer.pos - 1] = Colon
        /\ \A i \in a .. (lexer.pos - 2) : src[i] \in Blanks
    BY <1>7, <1>9 DEF EndsAt
  <2> DEFINE c == lexer.pos - 1
  <2>2. c \in a .. (b - 1) /\ src[c] \notin Blanks
    BY <2>1, <1>1, <1>8, CharsApart
  <2>3. ASSUME NEW i \in a .. (b - 1), i # c PROVE src[i] \in Blanks
    <3>1. i \in a .. (lexer.pos - 2) \/ i \in lexer.pos .. (b - 1)
      BY <2>3, <1>8
    <3> QED BY <3>1, <2>1, <1>4
  <2>4. Unread(a, b) = {c}
    BY <2>2, <2>3 DEF Unread
  <2> HIDE DEF a, b, c
  <2>5. src[c] = Colon
    BY <2>1 DEF c
  <2>6. LabelMark(Unread(a, b))
    BY <2>4, <2>5 DEF LabelMark
  <2> QED BY <2>6, <1>4, <1>5, <1>6, <1>8, <1>9, <1>1, <1>2 DEF Follows, a, b
<1>10. CASE token.kind # "Label"
  <2>1. lexer.pos = a
    BY <1>7, <1>10 DEF EndsAt
  <2>2. Unread(a, b) = {}
    BY <2>1, <1>4 DEF Unread
  <2> HIDE DEF a, b
  <2> QED BY <2>2, <1>4, <1>5, <1>6, <1>8, <1>10, <1>1, <1>2 DEF Follows, a, b
<1> QED BY <1>9, <1>10

\* Before the first token there are only blanks.
LEMMA FirstFetch ==
  ASSUME ParserInv, Ordered, Fetch, src' = src, mode = "start"
  PROVE  /\ tokens' = {token'} /\ token'.text.from \in 1 .. (Len(src) + 1)
         /\ EndsAt(src, token'.kind, token'.text.to, lexer'.pos)
         /\ Unread(1, token'.text.from) = {}
<1>1. src \in Seq(Chars) /\ Len(src) \in Nat /\ Tidy(src, lexer)
  BY DEF ParserInv, Lexing
<1>2. tokens = {} /\ lexer.pos = 1
  BY DEF Ordered
<1>3. token' = NextToken(src, lexer).token /\ lexer' = NextToken(src, lexer).lexer
  BY DEF Fetch
<1>4. /\ \A i \in lexer.pos .. (token'.text.from - 1) : src[i] \in Blanks
      /\ EndsAt(src, token'.kind, token'.text.to, lexer'.pos)
  BY <1>1, <1>2, <1>3, NextTokenTiles
<1>5. token'.text.from \in lexer.pos .. (Len(src) + 1)
  <2>1. TokenOK(src, lexer, token', lexer')
    BY <1>1, <1>3, NextTokenOK
  <2> QED BY <2>1 DEF TokenOK
<1>6. tokens' = {token'}
  BY <1>2 DEF Fetch
<1>7. Unread(1, token'.text.from) = {}
  BY <1>2, <1>4 DEF Unread
<1> QED BY <1>2, <1>4, <1>5, <1>6, <1>7

\* A token behind all others is added: it is last, the others tile as before.
LEMMA FetchTiles ==
  ASSUME ParserInv, TileInv, Fetch, src' = src, mode' # "start",
         mode # "start" => token.kind # "Eof"
  PROVE  TileInv'
<1>0. Len(src) \in Nat /\ Ordered
  BY DEF ParserInv, Lexing, TileInv
<1>1. CASE mode = "start"
  <2>1. /\ tokens' = {token'} /\ token'.text.from \in 1 .. (Len(src) + 1)
        /\ EndsAt(src, token'.kind, token'.text.to, lexer'.pos)
        /\ Unread(1, token'.text.from) = {}
    BY <1>0, <1>1, FirstFetch
  <2>2. Ordered'
    BY <2>1 DEF Ordered, EndsAt
  <2>3. Before(tokens', token') = {}
    BY <2>1 DEF Before
  <2>4. TokensTile'
    BY <2>1, <2>3 DEF TokensTile, Before, Unread
  <2> QED BY <2>2, <2>4 DEF TileInv
<1>2. CASE mode # "start"
  <2>1. /\ token'.text.from \in 1 .. (Len(src) + 1)
        /\ token.text.from < token'.text.from
        /\ EndsAt(src, token'.kind, token'.text.to, lexer'.pos)
        /\ Follows(token, token')
    BY <1>0, <1>2, FetchFollows
  <2>2. tokens' = tokens \cup {token'} /\ token \in tokens
    BY <1>2, <1>0 DEF Fetch, Ordered
  <2>3. \A u \in tokens : /\ u.text.from \in Nat /\ u.text.from <= token.text.from
                          /\ u.text.from < token'.text.from
                          /\ u # token => u.text.from < token.text.from
    BY <1>0, <2>1, <2>2 DEF Ordered
  <2>4. token'.text.from \in Nat /\ token'.text.from \notin {u.text.from : u \in tokens}
    BY <1>0, <2>1, <2>3
  <2>5. token' \notin tokens
    BY <2>4
  <2>6. Ordered'
    <3>1. \A u \in tokens' : /\ u.text.from \in 1 .. (Len(src) + 1)
                             /\ u # token' => u.text.from < token'.text.from
      BY <1>0, <2>1, <2>2, <2>3 DEF Ordered
    <3>2. \A u, v \in tokens' : u.text.from = v.text.from => u = v
      BY <1>0, <2>2, <2>4 DEF Ordered
    <3> QED BY <1>2, <2>1, <2>2, <3>1, <3>2 DEF Ordered, EndsAt
  <2>7. ASSUME NEW t \in tokens PROVE Tiles(tokens', t)
    <3>1. Before(tokens', t) = Before(tokens, t)
      <4>1. ~(token'.text.from <= t.text.from)
        BY <2>3, <2>4, <2>7
      <4> QED BY <4>1, <2>2 DEF Before
    <3>2. Tiles(tokens, t)
      BY <2>7, TileByTile DEF TileInv
    <3> QED BY <3>1, <3>2 DEF Tiles
  <2>8. Tiles(tokens', token')
    <3>1. Before(tokens', token') = tokens
      BY <2>2, <2>3, <2>4, <2>5 DEF Before
    <3>2. \A u \in tokens : (\A v \in tokens : v.text.from <= u.text.from) => u = token
      BY <2>2, <2>3
    <3>3. \A v \in tokens : v.text.from <= token.text.from
      BY <2>3
    <3>4. (CHOOSE u \in tokens : \A v \in tokens : v.text.from <= u.text.from) = token
      BY <3>2, <3>3, <2>2
    <3> QED BY <3>1, <3>4, <2>1, <2>2 DEF Tiles
  <2>9. \A t \in tokens' : Tiles(tokens', t)
    BY <2>2, <2>7, <2>8
  <2>10. TokensTile'
    BY <2>9, TileByTileNext
  <2> QED BY <2>6, <2>10 DEF TileInv
<1> QED BY <1>1, <1>2

\* Before anything is fetched there is nothing to tile.
LEMMA TileInit == Init => TileInv
BY DEF Init, TileInv, Ordered, TokensTile, NewLexer

\* Where nothing is fetched, nothing changes.
LEMMA StayTiles ==
  ASSUME TileInv, UNCHANGED <<src, lexer, token, tokens>>, mode = "start" <=> mode' = "start"
  PROVE  TileInv'
<1>1. Ordered'
  <2>1. Len(src') = Len(src) /\ EndsAt(src', token'.kind, token'.text.to, lexer'.pos)
                               = EndsAt(src, token.kind, token.text.to, lexer.pos)
    OBVIOUS
  <2> QED BY <2>1 DEF TileInv, Ordered
<1>2. \A t \in tokens' : Tiles(tokens', t)
  BY TileByTile DEF TileInv
<1>3. TokensTile'
  BY <1>2, TileByTileNext
<1> QED BY <1>1, <1>3 DEF TileInv

\* Every token parse() takes keeps the tokens in order.
LEMMA TileStep == ParserInv /\ TileInv /\ [Next]_vars => TileInv'
<1> SUFFICES ASSUME ParserInv, TileInv, [Next]_vars PROVE TileInv'
  OBVIOUS
<1>1. CASE Fetch /\ src' = src /\ mode' # "start" /\ (mode # "start" => token.kind # "Eof")
  BY <1>1, FetchTiles
<1>2. CASE Stay /\ src' = src /\ mode # "start" /\ mode' # "start"
  BY <1>2, StayTiles DEF Stay
<1>3. CASE UNCHANGED vars
  BY <1>3, StayTiles DEF vars
<1> QED BY <1>1, <1>2, <1>3, FetchesBehindToken

(***************************************************************************)
(* Tokens are handled.                                                     *)
(***************************************************************************)
Silent(t) == t.kind \in IgnorableKinds \cup {"Eof"}

\* A token is in the result, or its line has a diagnostic.
Covered(rows, names, complaints, t) ==
  \/ \E l \in DOMAIN names : names[l].name = t.text
  \/ \E i \in DOMAIN rows : PartOf(rows[i], t)
  \/ \E d \in DOMAIN complaints : complaints[d].line = t.line

CoveredNow(t) == Covered(instructions, labels, diagnostics, t)

Complained(complaints, line) == \E d \in DOMAIN complaints : complaints[d].line = line

\* Each token so far says nothing, is the one looked at, is covered, or belongs
\* to the instruction being read, none of whose operands has been set twice.
Handled ==
  /\ mode = "start" => tokens = {}
  /\ \A t \in tokens : t.text # NoText
  /\ mode = "done" => token.kind = "Eof"
  /\ mode = "first" => current.firstOperand = NoText
  /\ mode \in {"first", "comma", "second"} => current.secondOperand = NoText
  /\ HasRoom /\ mode = "recover" => Complained(diagnostics, token.line)
  /\ HasRoom => \A t \in tokens :
        \/ Silent(t) \/ t = token \/ CoveredNow(t)
        \/ mode \in InstructionModes /\ PartOf(current, t)

\* A table grows, and a row that was not dropped is in it.
LEMMA RowAdded ==
  ASSUME NEW table, NEW S, table \in Seq(S), NEW max \in Nat, NEW row \in S
  PROVE  LET more == AddRow(table, max, row)
         IN  /\ DOMAIN table \subseteq DOMAIN more /\ \A i \in DOMAIN table : more[i] = table[i]
             /\ Len(table) <= Len(more)
             /\ Len(more) < max => \E i \in DOMAIN more : more[i] = row
<1> DEFINE more == AddRow(table, max, row)
<1> SUFFICES /\ DOMAIN table \subseteq DOMAIN more /\ \A i \in DOMAIN table : more[i] = table[i]
             /\ Len(table) <= Len(more)
             /\ Len(more) < max => \E i \in DOMAIN more : more[i] = row
  OBVIOUS
<1>1. CASE Len(table) < max
  <2>1. more = Append(table, row) /\ Len(table) + 1 \in DOMAIN more
        /\ more[Len(table) + 1] = row
    BY <1>1 DEF AddRow
  <2> QED BY <2>1
<1>2. CASE ~(Len(table) < max)
  BY <1>2 DEF AddRow
<1> QED BY <1>1, <1>2

\* A table that is the same, or has a row more, covers what it covered.
Grown(table, more) ==
  DOMAIN table \subseteq DOMAIN more /\ \A i \in DOMAIN table : more[i] = table[i]

LEMMA StaysCovered ==
  ASSUME NEW rows, NEW names, NEW complaints, NEW moreRows, NEW moreNames, NEW moreComplaints,
         Grown(rows, moreRows), Grown(names, moreNames), Grown(complaints, moreComplaints),
         NEW t, Covered(rows, names, complaints, t)
  PROVE  Covered(moreRows, moreNames, moreComplaints, t)
<1>1. CASE \E l \in DOMAIN names : names[l].name = t.text
  BY <1>1 DEF Covered, Grown
<1>2. CASE \E i \in DOMAIN rows : PartOf(rows[i], t)
  BY <1>2 DEF Covered, Grown
<1>3. CASE \E d \in DOMAIN complaints : complaints[d].line = t.line
  BY <1>3 DEF Covered, Grown
<1> QED BY <1>1, <1>2, <1>3 DEF Covered

\* What every action does to the tables: they grow, so there was room if there is.
TablesGrow ==
  /\ Grown(instructions, instructions') /\ Grown(labels, labels')
  /\ Grown(diagnostics, diagnostics')
  /\ HasRoom' => HasRoom

\* Handled is kept if the token that was looked at has been dealt with, and
\* what belonged to the instruction being read still does, or is covered.
LEMMA HandledNext ==
  ASSUME Handled, TablesGrow,
         mode' # "start", mode' = "done" => token'.kind = "Eof",
         mode' = "first" => current'.firstOperand = NoText,
         mode' \in {"first", "comma", "second"} => current'.secondOperand = NoText,
         HasRoom' /\ mode' = "recover" => Complained(diagnostics', token'.line),
         tokens' \subseteq tokens \cup {token'}, tokens' \subseteq tokens \/ token'.text # NoText,
         HasRoom' /\ mode # "start" =>
             Silent(token) \/ token = token' \/ Covered(instructions', labels', diagnostics', token)
               \/ (mode' \in InstructionModes /\ PartOf(current', token)),
         HasRoom' => \A t \in tokens : mode \in InstructionModes /\ PartOf(current, t) =>
             Covered(instructions', labels', diagnostics', t)
               \/ (mode' \in InstructionModes /\ PartOf(current', t))
  PROVE  Handled'
<1>1. \A t \in tokens' : t.text # NoText
  BY DEF Handled
<1>2. ASSUME HasRoom', NEW t \in tokens'
      PROVE  \/ Silent(t) \/ t = token' \/ Covered(instructions', labels', diagnostics', t)
             \/ mode' \in InstructionModes /\ PartOf(current', t)
  <2>1. CASE t = token'
    BY <2>1
  <2>2. CASE t \in tokens
    <3>1. mode # "start"
      BY <2>2 DEF Handled
    <3>2. \/ Silent(t) \/ t = token \/ CoveredNow(t)
          \/ mode \in InstructionModes /\ PartOf(current, t)
      BY <1>2, <2>2 DEF Handled, TablesGrow
    <3>3. CASE CoveredNow(t)
      BY <3>3, StaysCovered DEF TablesGrow, CoveredNow
    <3> QED BY <1>2, <2>2, <3>1, <3>2, <3>3
  <2> QED BY <2>1, <2>2
<1>3. (HasRoom => \A t \in tokens : \/ Silent(t) \/ t = token \/ CoveredNow(t)
                                    \/ mode \in InstructionModes /\ PartOf(current, t))'
  BY <1>2 DEF CoveredNow
<1>4. (mode = "start" => tokens = {})'
  OBVIOUS
<1> QED BY <1>1, <1>3, <1>4 DEF Handled, Complained

\* A token that is fetched has a text within the source.
LEMMA FetchedText ==
  ASSUME ParserInv, Fetch
  PROVE  token'.text # NoText /\ token'.line = lexer.line
<1>1. src \in Seq(Chars) /\ Len(src) \in Nat /\ Tidy(src, lexer)
  BY DEF ParserInv, Lexing
<1>2. TokenOK(src, lexer, token', lexer')
  BY <1>1, NextTokenOK DEF Fetch
<1>3. lexer.pos \in 1 .. (Len(src) + 1)
  BY <1>1 DEF Tidy
<1>4. token'.text.from \in Nat \ {0} /\ token'.line = lexer.line
  BY <1>1, <1>2, <1>3 DEF TokenOK
<1> QED BY <1>4 DEF NoText, View

\* The tables' types, and what a row added to one of them does.
LEMMA TablesTyped ==
  ASSUME ParserInv
  PROVE  /\ instructions \in Seq(Instructions) /\ labels \in Seq(Labels)
         /\ diagnostics \in Seq(Diagnostics)
         /\ Len(instructions) \in Nat /\ Len(labels) \in Nat /\ Len(diagnostics) \in Nat
         /\ Len(instructions) <= MaxInstructions /\ Len(labels) <= MaxLabels
         /\ Len(diagnostics) <= MaxDiagnostics
         /\ MaxInstructions \in Nat /\ MaxLabels \in Nat /\ MaxDiagnostics \in Nat
         /\ current \in Instructions /\ token.text \in Views /\ token.line \in Nat /\ token.col \in Nat
<1>1. Tables /\ CurrentOK /\ TokenPlaced
  BY DEF ParserInv
<1> QED BY <1>1, ParserAssumption DEF Tables, Table, CurrentOK, TokenPlaced

LEMMA NoRowAdded ==
  ASSUME UNCHANGED tables
  PROVE  TablesGrow
BY DEF TablesGrow, tables, Grown, HasRoom

\* A diagnostic about the token is in the table if there is room behind it.
LEMMA DiagnosticAdded ==
  ASSUME ParserInv, NEW message \in Messages, NEW isError \in BOOLEAN,
         AddDiagnostic(message, isError), UNCHANGED <<instructions, labels>>
  PROVE  TablesGrow /\ (HasRoom' => Complained(diagnostics', token.line))
<1> DEFINE d == Diagnostic(message, isError)
<1>1. d \in Diagnostics /\ d.line = token.line
  BY TablesTyped DEF Diagnostic, Diagnostics
<1>2. diagnostics' = AddRow(diagnostics, MaxDiagnostics, d)
  BY DEF AddDiagnostic
<1> HIDE DEF d
<1>3. /\ DOMAIN diagnostics \subseteq DOMAIN diagnostics'
      /\ \A i \in DOMAIN diagnostics : diagnostics'[i] = diagnostics[i]
      /\ Len(diagnostics) <= Len(diagnostics')
      /\ Len(diagnostics') < MaxDiagnostics => \E i \in DOMAIN diagnostics' : diagnostics'[i] = d
  <2>1. diagnostics \in Seq(Diagnostics) /\ MaxDiagnostics \in Nat
    BY TablesTyped
  <2> QED BY <2>1, <1>1, <1>2, RowAdded
<1>4. Len(diagnostics') \in Nat
  <2>1. diagnostics' \in {diagnostics, Append(diagnostics, d)}
    BY <1>2 DEF AddRow
  <2> QED BY <2>1, <1>1, TablesTyped
<1>5. HasRoom' => HasRoom
  BY <1>3, <1>4, TablesTyped DEF HasRoom
<1>6. HasRoom' => Complained(diagnostics', token.line)
  BY <1>1, <1>3 DEF HasRoom, Complained
<1> QED BY <1>3, <1>5, <1>6 DEF TablesGrow, Grown

\* A label or an instruction is in its table if there is room behind it.
LEMMA LabelAdded ==
  ASSUME ParserInv, ReadLabel
  PROVE  /\ TablesGrow
         /\ HasRoom' => \E l \in DOMAIN labels' : labels'[l].name = token.text
<1> DEFINE row == [name |-> token.text, instructionIndex |-> Len(instructions)]
<1>1. row \in Labels /\ row.name = token.text
  BY TablesTyped DEF Labels
<1>2. labels' = AddRow(labels, MaxLabels, row) /\ UNCHANGED <<instructions, diagnostics>>
  BY DEF ReadLabel
<1> HIDE DEF row
<1>3. /\ DOMAIN labels \subseteq DOMAIN labels'
      /\ \A i \in DOMAIN labels : labels'[i] = labels[i]
      /\ Len(labels) <= Len(labels')
      /\ Len(labels') < MaxLabels => \E i \in DOMAIN labels' : labels'[i] = row
  <2>1. labels \in Seq(Labels) /\ MaxLabels \in Nat
    BY TablesTyped
  <2>2. labels' = AddRow(labels, MaxLabels, row)
    BY <1>2
  <2> QED BY <2>1, <2>2, <1>1, RowAdded
<1>4. Len(labels') \in Nat
  <2>1. labels' \in {labels, Append(labels, row)}
    BY <1>2 DEF AddRow
  <2> QED BY <2>1, <1>1, TablesTyped
<1>5. HasRoom' => HasRoom
  BY <1>2, <1>3, <1>4, TablesTyped DEF HasRoom
<1>6. HasRoom' => \E l \in DOMAIN labels' : labels'[l].name = token.text
  BY <1>1, <1>3 DEF HasRoom
<1> QED BY <1>2, <1>3, <1>5, <1>6 DEF TablesGrow, Grown

LEMMA InstructionAdded ==
  ASSUME ParserInv, EndInstruction
  PROVE  /\ TablesGrow
         /\ HasRoom' => \E i \in DOMAIN instructions' : instructions'[i] = current
<1>1. current \in Instructions
  BY TablesTyped
<1>2. /\ instructions' = AddRow(instructions, MaxInstructions, current)
      /\ UNCHANGED <<labels, diagnostics>>
  BY DEF EndInstruction
<1>3. /\ DOMAIN instructions \subseteq DOMAIN instructions'
      /\ \A i \in DOMAIN instructions : instructions'[i] = instructions[i]
      /\ Len(instructions) <= Len(instructions')
      /\ Len(instructions') < MaxInstructions =>
            \E i \in DOMAIN instructions' : instructions'[i] = current
  <2>1. instructions \in Seq(Instructions) /\ MaxInstructions \in Nat
    BY TablesTyped
  <2> QED BY <2>1, <1>1, <1>2, RowAdded
<1>4. Len(instructions') \in Nat
  <2>1. instructions' \in {instructions, Append(instructions, current)}
    BY <1>2 DEF AddRow
  <2> QED BY <2>1, <1>1, TablesTyped
<1>5. HasRoom' => HasRoom
  BY <1>2, <1>3, <1>4, TablesTyped DEF HasRoom
<1>6. HasRoom' => \E i \in DOMAIN instructions' : instructions'[i] = current
  BY <1>3 DEF HasRoom
<1> QED BY <1>2, <1>3, <1>5, <1>6 DEF TablesGrow, Grown

\* Between statements a token is dropped only if it says nothing.
LEMMA StatementHandled ==
  ASSUME ParserInv, Handled,
         Start \/ SkipIgnorable \/ ReadLabel \/ UnexpectedToken \/ Finish \/ ReadMnemonic
  PROVE  Handled'
<1>1. CASE Start \/ SkipIgnorable
  <2>1. /\ mode \in {"start", "statement"} /\ mode' = "statement" /\ Fetch /\ UNCHANGED tables
        /\ mode = "statement" => Silent(token)
    BY <1>1 DEF Start, SkipIgnorable, Silent
  <2>2. TablesGrow /\ token'.text # NoText
    BY <2>1, NoRowAdded, FetchedText
  <2> QED BY <2>1, <2>2, HandledNext DEF Fetch, InstructionModes
<1>2. CASE ReadLabel
  <2>1. mode = "statement" /\ mode' = "statement" /\ Fetch
    BY <1>2 DEF ReadLabel
  <2>2. TablesGrow /\ token'.text # NoText
    BY <1>2, <2>1, LabelAdded, FetchedText
  <2>3. HasRoom' => Covered(instructions', labels', diagnostics', token)
    BY <1>2, LabelAdded DEF Covered
  <2> QED BY <2>1, <2>2, <2>3, HandledNext DEF Fetch, InstructionModes
<1>3. CASE UnexpectedToken
  <2>1. /\ mode = "statement" /\ mode' = "statement" /\ Fetch
        /\ AddDiagnostic("unexpected token", FALSE) /\ UNCHANGED <<instructions, labels>>
    BY <1>3 DEF UnexpectedToken
  <2>2. "unexpected token" \in Messages
    BY DEF Messages
  <2>3. TablesGrow /\ (HasRoom' => Complained(diagnostics', token.line)) /\ token'.text # NoText
    BY <2>1, <2>2, DiagnosticAdded, FetchedText
  <2>4. HasRoom' => Covered(instructions', labels', diagnostics', token)
    BY <2>3 DEF Covered, Complained
  <2> QED BY <2>1, <2>3, <2>4, HandledNext DEF Fetch, InstructionModes
<1>4. CASE Finish
  <2>1. /\ mode = "statement" /\ mode' = "done" /\ token.kind = "Eof"
        /\ UNCHANGED <<token, tokens, tables>>
    BY <1>4 DEF Finish, Stay
  <2>2. TablesGrow
    BY <2>1, NoRowAdded
  <2> QED BY <2>1, <2>2, HandledNext DEF InstructionModes
<1>5. CASE ReadMnemonic
  <2>1. /\ mode = "statement" /\ mode' = "first" /\ Fetch /\ UNCHANGED tables
        /\ current' = NewInstruction(token)
    BY <1>5 DEF ReadMnemonic
  <2>2. TablesGrow /\ token'.text # NoText
    BY <2>1, NoRowAdded, FetchedText
  <2>3. /\ PartOf(current', token) /\ current'.firstOperand = NoText
        /\ current'.secondOperand = NoText
    BY <2>1 DEF NewInstruction, PartOf
  <2> QED BY <2>1, <2>2, <2>3, HandledNext DEF Fetch, InstructionModes
<1> QED BY <1>1, <1>2, <1>3, <1>4, <1>5

\* Within an instruction a token becomes a part of it, has its line complained
\* about, or says nothing.
LEMMA InstructionHandled ==
  ASSUME ParserInv, Handled,
         \/ ReadFirstOperand \/ ReadComma \/ ReadSecondOperand \/ MissingOperand
         \/ TrailingComment \/ ExpectedNewline \/ Recover \/ EndInstruction
  PROVE  Handled'
<1>0. /\ mode # "start" =>
            lexer.line = IF token.kind = "Newline" THEN token.line + 1 ELSE token.line
      /\ mode \in InstructionModes => current.line = token.line
  BY Positions DEF ParserInv, CurrentOK
<1>1. CASE ReadFirstOperand \/ ReadSecondOperand
  <2>1. /\ mode \in {"first", "second"} /\ mode' \in {"comma", "end"} /\ Fetch /\ UNCHANGED tables
        /\ \/ mode = "first" /\ current' = [current EXCEPT !.firstOperand = token.text]
           \/ /\ mode = "second" /\ mode' = "end"
              /\ current' = [current EXCEPT !.secondOperand = token.text]
    BY <1>1 DEF ReadFirstOperand, ReadSecondOperand
  <2>2. TablesGrow /\ token'.text # NoText
    BY <2>1, NoRowAdded, FetchedText
  <2>3. current \in Instructions
    BY TablesTyped
  <2>4. /\ PartOf(current', token)
        /\ mode' = "comma" => current'.secondOperand = NoText
    BY <2>1, <2>3 DEF PartOf, Handled, Instructions
  <2>5. ASSUME NEW t \in tokens, PartOf(current, t) PROVE PartOf(current', t)
    <3>1. t.text # NoText
      BY DEF Handled
    <3>2. mode = "first" => current.firstOperand = NoText
      BY DEF Handled
    <3>3. mode = "second" => current.secondOperand = NoText
      BY DEF Handled
    <3> QED BY <2>1, <2>3, <2>5, <3>1, <3>2, <3>3 DEF PartOf, Instructions
  <2>6. mode' \in InstructionModes /\ mode' \notin {"start", "done", "recover", "first", "second"}
    BY <2>1 DEF InstructionModes
  <2> QED BY <2>1, <2>2, <2>4, <2>5, <2>6, HandledNext DEF Fetch
<1>2. CASE ReadComma
  <2>1. /\ mode = "comma" /\ mode' = "second" /\ Fetch /\ UNCHANGED <<current, tables>>
        /\ token.kind = "Comma"
    BY <1>2 DEF ReadComma
  <2>2. TablesGrow /\ token'.text # NoText
    BY <2>1, NoRowAdded, FetchedText
  <2>3. PartOf(current', token) /\ mode' \in InstructionModes
    BY <2>1, <1>0 DEF PartOf, InstructionModes
  <2>4. current'.secondOperand = NoText
    BY <2>1 DEF Handled
  <2> QED BY <2>1, <2>2, <2>3, <2>4, HandledNext DEF Fetch
<1>3. CASE MissingOperand
  <2>1. /\ mode = "second" /\ mode' = "end" /\ Stay /\ UNCHANGED <<current, instructions, labels>>
        /\ AddDiagnostic(ExpectedOperand, TRUE)
    BY <1>3 DEF MissingOperand
  <2>2. ExpectedOperand \in Messages
    BY DEF Messages
  <2>3. TablesGrow
    BY <2>1, <2>2, DiagnosticAdded
  <2>4. mode' \in InstructionModes
    BY <2>1 DEF InstructionModes
  <2> QED BY <2>1, <2>3, <2>4, HandledNext DEF Stay
<1>4. CASE TrailingComment
  <2>1. /\ mode \in InstructionModes /\ mode' = "end" /\ Fetch /\ UNCHANGED <<current, tables>>
        /\ Silent(token)
    BY <1>4 DEF TrailingComment, OperandsRead, InstructionModes, Silent, IgnorableKinds
  <2>2. TablesGrow /\ token'.text # NoText
    BY <2>1, NoRowAdded, FetchedText
  <2> QED BY <2>1, <2>2, HandledNext DEF Fetch, InstructionModes
<1>5. CASE ExpectedNewline
  <2>1. /\ mode \in InstructionModes /\ mode' = "recover" /\ Fetch
        /\ UNCHANGED <<current, instructions, labels>>
        /\ AddDiagnostic("expected newline after instruction", FALSE)
        /\ token.kind # "Newline"
    BY <1>5 DEF ExpectedNewline, OperandsRead, InstructionModes, LineEnds
  <2>2. "expected newline after instruction" \in Messages
    BY DEF Messages
  <2>3. TablesGrow /\ (HasRoom' => Complained(diagnostics', token.line)) /\ token'.text # NoText
    BY <2>1, <2>2, DiagnosticAdded, FetchedText
  <2>4. token'.line = token.line
    BY <2>1, <1>0, FetchedText DEF InstructionModes
  <2>5. HasRoom' => Covered(instructions', labels', diagnostics', token)
    BY <2>3 DEF Covered, Complained
  <2> QED BY <2>1, <2>3, <2>4, <2>5, HandledNext DEF Fetch, InstructionModes
<1>6. CASE Recover
  <2>1. /\ mode = "recover" /\ mode' = "recover" /\ Fetch /\ UNCHANGED <<current, tables>>
        /\ diagnostics' = diagnostics /\ token.kind # "Newline"
    BY <1>6 DEF Recover, LineEnds, tables
  <2>2. TablesGrow /\ token'.text # NoText
    BY <2>1, NoRowAdded, FetchedText
  <2>3. token'.line = token.line
    BY <2>1, <1>0, FetchedText
  <2>4. HasRoom' => Complained(diagnostics', token.line)
    BY <2>1, <2>2 DEF Handled, TablesGrow
  <2>5. HasRoom' => Covered(instructions', labels', diagnostics', token)
    BY <2>4 DEF Covered, Complained
  <2> QED BY <2>1, <2>2, <2>3, <2>4, <2>5, HandledNext DEF Fetch, InstructionModes
<1>7. CASE EndInstruction
  <2>1. /\ mode \in InstructionModes /\ mode' = "statement" /\ Stay
    BY <1>7 DEF EndInstruction, OperandsRead, InstructionModes
  <2>2. TablesGrow /\ (HasRoom' => \E i \in DOMAIN instructions' : instructions'[i] = current)
    BY <1>7, InstructionAdded
  <2>3. ASSUME HasRoom', NEW t \in tokens, PartOf(current, t)
        PROVE  Covered(instructions', labels', diagnostics', t)
    BY <2>2, <2>3 DEF Covered
  <2> QED BY <2>1, <2>2, <2>3, HandledNext DEF Stay, InstructionModes
<1> QED BY <1>1, <1>2, <1>3, <1>4, <1>5, <1>6, <1>7

\* Every step deals with the token it drops.
LEMMA HandledStep == ParserInv /\ Handled /\ [Next]_vars => Handled'
<1> SUFFICES ASSUME ParserInv, Handled, [Next]_vars PROVE Handled'
  OBVIOUS
<1>1. CASE Start \/ SkipIgnorable \/ ReadLabel \/ UnexpectedToken \/ Finish \/ ReadMnemonic
  BY <1>1, StatementHandled
<1>2. CASE \/ ReadFirstOperand \/ ReadComma \/ ReadSecondOperand \/ MissingOperand
           \/ TrailingComment \/ ExpectedNewline \/ Recover \/ EndInstruction
  BY <1>2, InstructionHandled
<1>3. CASE UNCHANGED vars
  BY <1>3 DEF vars, tables, Handled, HasRoom, Complained, CoveredNow, Covered
<1> QED BY <1>1, <1>2, <1>3 DEF Next

LEMMA HandledInit == Init => Handled
BY DEF Init, Handled

\* At the end nothing is being read, and the last token says nothing.
LEMMA HandledIsCovered == Handled => NothingLost
BY DEF Handled, NothingLost, Silent, CoveredNow, Covered, InstructionModes

(***************************************************************************)
(* The theorems.                                                           *)
(***************************************************************************)
\* The tokens of every text, as the lexer hands them out, are the text: no
\* character but blanks and the ':' of labels is skipped, none is read twice.
THEOREM TokensCoverText == Spec => []TokensTile
<1>1. TileInv => TokensTile
  BY DEF TileInv
<1> QED BY <1>1, ParserInvariant, TileInit, TileStep, PTL DEF Spec

\* While the tables have room, parse() drops no token of any text without
\* having put it into the result or complained about its line.
THEOREM NoTokenLost == Spec => []NothingLost
BY ParserInvariant, HandledInit, HandledStep, HandledIsCovered, PTL DEF Spec
=============================================================================
