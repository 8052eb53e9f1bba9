------------------------------- MODULE Lexer -------------------------------
(***************************************************************************)
(* The lexer of the assembly parser (include/asmstudio/parse/Token.hpp and *)
(* Lexer.hpp).  A source text is a sequence of characters, which is never  *)
(* changed; the lexer keeps a position in it and the line and the column   *)
(* it believes to be at.  The text of a token is a std::string_view, a     *)
(* range of the source: [from, to) here.                                   *)
(*                                                                         *)
(* Definitions named Faulty... are slips the code could have made; nothing *)
(* uses them but the mutation runs.                                        *)
(***************************************************************************)
EXTENDS Integers, Sequences, FiniteSets, TLC

CONSTANTS
    Letters,          \* the letters in use, '_' among them
    Others,           \* characters no token begins with
    KnownMnemonics,   \* the instruction words, sequences of letters
    SizeBits          \* the width of std::size_t

Digits == {"0", "1", "2", "3", "4", "5", "6", "7", "8", "9"}
Blanks == {" ", "\t", "\r"}
Comma == ","
Colon == ":"
Semicolon == ";"
Marks  == {Comma, Colon, Semicolon, "-", "\n"}
Chars  == Letters \cup Digits \cup Blanks \cup Marks \cup Others

ASSUME LexerAssumption ==
    /\ \A S \in {Letters, Others} : S \cap (Digits \cup Blanks \cup Marks) = {}
    /\ Letters \cap Others = {}
    /\ KnownMnemonics \subseteq Seq(Letters)
    /\ SizeBits \in Nat \ {0}

TokenKind == {"Label", "Mnemonic", "Register", "Immediate", "Comma", "Colon",
              "Newline", "Comment", "Unknown", "Eof", "Error"}

View(from, to) == [from |-> from, to |-> to]
NoText == View(0, 0)

\* The first position from p on whose character is not in S.
EndOfRun(src, p, S) ==
    CHOOSE q \in p..(Len(src) + 1) :
        /\ \A i \in p..(q - 1) : src[i] \in S
        /\ q > Len(src) \/ src[q] \notin S

DigitValue(c) ==
    CHOOSE d \in 0..9 : <<"0", "1", "2", "3", "4", "5", "6", "7", "8", "9">>[d + 1] = c

\* The number the digits of [from, to) are, computed in size_t.
RegisterNumber(src, from, to) ==
    LET num[q \in from..to] ==
            IF q = from THEN 0
                        ELSE (num[q - 1] * 10 + DigitValue(src[q - 1])) % 2^SizeBits
    IN  num[to]

IsRegister(src, from, to) ==
    /\ to - from >= 2 /\ src[from] = "r"
    /\ \A i \in (from + 1)..(to - 1) : src[i] \in Digits
    /\ RegisterNumber(src, from + 1, to) <= 15

IsMnemonic(src, from, to) == SubSeq(src, from, to - 1) \in KnownMnemonics

(***************************************************************************)
(* What begins at p: the kind of the token, where its text ends and where  *)
(* the lexer goes on.  The two differ for a label only, whose ':' is       *)
(* consumed with it.                                                       *)
(***************************************************************************)
Lexeme(kind, to, next) == [kind |-> kind, to |-> to, next |-> next]

LexWord(src, p) ==
    LET q    == EndOfRun(src, p, Letters \cup Digits)
        peek == EndOfRun(src, q, {" ", "\t"})
    IN  IF peek <= Len(src) /\ src[peek] = Colon THEN Lexeme("Label", q, peek + 1)
        ELSE IF IsRegister(src, p, q) THEN Lexeme("Register", q, q)
        ELSE IF IsMnemonic(src, p, q) THEN Lexeme("Mnemonic", q, q)
        ELSE Lexeme("Unknown", q, q)

LexNumber(src, p) ==
    LET q == EndOfRun(src, IF src[p] = "-" THEN p + 1 ELSE p, Digits)
    IN  Lexeme("Immediate", q, q)

FaultyLexComment(src, p) ==
    LET q == EndOfRun(src, p, Chars \ {"\n"}) 
    IN  Lexeme("Comment", q, IF q > Len(src) THEN q ELSE q + 1)

LexComment(src, p) ==
    LET q == EndOfRun(src, p, Chars \ {"\n"}) IN Lexeme("Comment", q, q)

LexemeAt(src, p) ==
    CASE p > Len(src)                     -> Lexeme("Eof", p, p)
      [] p <= Len(src) /\ src[p] = "\n"   -> Lexeme("Newline", p + 1, p + 1)
      [] p <= Len(src) /\ src[p] = Comma  -> Lexeme("Comma", p + 1, p + 1)
      [] p <= Len(src) /\ src[p] = Colon  -> Lexeme("Colon", p + 1, p + 1)
      [] p <= Len(src) /\ src[p] = Semicolon -> LexComment(src, p)
      [] p <= Len(src) /\ src[p] \in Digits \cup {"-"} -> LexNumber(src, p)
      [] p <= Len(src) /\ src[p] \in Letters           -> LexWord(src, p)
      [] OTHER                            -> Lexeme("Error", p + 1, p + 1)

FaultyColumnAfter(lexeme, p, col) ==
    CASE lexeme.kind = "Newline" -> 1
      [] lexeme.kind = "Comment" -> col
      [] OTHER                   -> col + (lexeme.to - p)

\* Columns count the characters passed; a comment's are not counted.
ColumnAfter(lexeme, p, col) ==
    CASE lexeme.kind = "Newline" -> 1
      [] lexeme.kind = "Comment" -> col
      [] OTHER                   -> col + (lexeme.next - p)

NewLexer == [pos |-> 1, line |-> 1, col |-> 1]

\* Lexer::next(): the token, and the lexer behind it.
NextToken(src, lexer) ==
    LET p      == EndOfRun(src, lexer.pos, Blanks)
        col    == lexer.col + (p - lexer.pos)
        lexeme == LexemeAt(src, p)
    IN  [token |-> [kind |-> lexeme.kind, text |-> View(p, lexeme.to),
                    line |-> lexer.line, col |-> col],
         lexer |-> [pos  |-> lexeme.next,
                    line |-> lexer.line + (IF lexeme.kind = "Newline" THEN 1 ELSE 0),
                    col  |-> ColumnAfter(lexeme, p, col)]]

(***************************************************************************)
(* Where a position of the source really is.                               *)
(***************************************************************************)
LineOf(src, p) == 1 + Cardinality({i \in 1..(p - 1) : src[i] = "\n"})
ColOf(src, p)  == 1 + Cardinality({i \in 1..(p - 1) : \A j \in i..(p - 1) : src[j] # "\n"})

=============================================================================
