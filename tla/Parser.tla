------------------------------- MODULE Parser -------------------------------
(***************************************************************************)
(* parse() (include/asmstudio/parse/Parser.hpp) and the tables of fixed    *)
(* size it fills (AsmProgram.hpp).  Every action takes one token; "mode"   *)
(* is the place in the loop at which it is looked at.                      *)
(*                                                                         *)
(* "tokens" and "reported" are history variables: the set of the tokens    *)
(* fetched, and of the diagnostics raised, kept in the table or not, each  *)
(* with the token it is about.                                             *)
(*                                                                         *)
(* Definitions named Faulty... are slips the code could have made; nothing *)
(* uses them but the mutation runs.                                        *)
(***************************************************************************)
EXTENDS Lexer

CONSTANTS
    Texts,             \* the source texts that are parsed
    MaxInstructions, MaxLabels, MaxDiagnostics

ASSUME ParserAssumption ==
    /\ \A t \in Texts : t \in Seq(Chars)
    /\ MaxInstructions \in Nat /\ MaxLabels \in Nat /\ MaxDiagnostics \in Nat

VARIABLES
    src, lexer, token,
    mode,          \* "start", "statement", "first", "comma", "second", "end",
                   \* "recover" or "done"
    current,       \* the instruction being read
    instructions, labels, diagnostics,
    tokens, reported

tables == <<instructions, labels, diagnostics>>
vars   == <<src, lexer, token, mode, current, tables, tokens, reported>>

IgnorableKinds     == {"Newline", "Comment"}
FaultyLineEnds     == {"Newline"}
LineEnds           == {"Newline", "Eof"}
FirstOperandKinds  == {"Register", "Immediate", "Unknown"}
SecondOperandKinds == FirstOperandKinds \cup {"Label"}

FaultyAddRow(table, max, row) == IF Len(table) <= max THEN Append(table, row) ELSE table
\* A row that does not fit into its table is dropped.
AddRow(table, max, row) == IF Len(table) < max THEN Append(table, row) ELSE table

NewInstruction(t) ==
    [mnemonic |-> t.text, firstOperand |-> NoText, secondOperand |-> NoText, line |-> t.line]

Diagnostic(message, isError) ==
    [message |-> message, line |-> token.line, col |-> token.col, isError |-> isError]

AddDiagnostic(message, isError) ==
    LET d == Diagnostic(message, isError)
    IN  /\ diagnostics' = AddRow(diagnostics, MaxDiagnostics, d)
        /\ reported' = reported \cup {[row |-> d, about |-> token]}

Fetch == LET s == NextToken(src, lexer)
         IN  /\ token' = s.token /\ lexer' = s.lexer
             /\ tokens' = tokens \cup {s.token}

Stay == UNCHANGED <<token, lexer, tokens>>

\* ParsedProgram::ok() looks at the table.
Ok == \A i \in DOMAIN diagnostics : ~diagnostics[i].isError

-----------------------------------------------------------------------------

Init ==
    /\ src \in Texts
    /\ lexer = NewLexer
    /\ token = [kind |-> "Eof", text |-> NoText, line |-> 0, col |-> 0]
    /\ mode = "start"
    /\ current = NewInstruction(token)
    /\ instructions = <<>> /\ labels = <<>> /\ diagnostics = <<>>
    /\ tokens = {} /\ reported = {}

Start ==
    /\ mode = "start" /\ mode' = "statement"
    /\ Fetch
    /\ UNCHANGED <<src, current, tables, reported>>

SkipIgnorable ==
    /\ mode = "statement" /\ token.kind \in IgnorableKinds
    /\ Fetch
    /\ UNCHANGED <<src, mode, current, tables, reported>>

FaultyReadLabel ==
    /\ mode = "statement" /\ token.kind = "Label"
    /\ labels' = AddRow(labels, MaxLabels,
                        [name |-> token.text, instructionIndex |-> Len(labels)])
    /\ Fetch
    /\ UNCHANGED <<src, mode, current, instructions, diagnostics, reported>>

ReadLabel ==
    /\ mode = "statement" /\ token.kind = "Label"
    /\ labels' = AddRow(labels, MaxLabels,
                        [name |-> token.text, instructionIndex |-> Len(instructions)])
    /\ Fetch
    /\ UNCHANGED <<src, mode, current, instructions, diagnostics, reported>>

ReadMnemonic ==
    /\ mode = "statement" /\ token.kind = "Mnemonic"
    /\ current' = NewInstruction(token)
    /\ mode' = "first"
    /\ Fetch
    /\ UNCHANGED <<src, tables, reported>>

UnexpectedToken ==
    /\ mode = "statement"
    /\ token.kind \notin IgnorableKinds \cup {"Label", "Mnemonic", "Eof"}
    /\ AddDiagnostic("unexpected token", FALSE)
    /\ Fetch
    /\ UNCHANGED <<src, mode, current, instructions, labels>>

Finish ==
    /\ mode = "statement" /\ token.kind = "Eof"
    /\ mode' = "done"
    /\ Stay /\ UNCHANGED <<src, current, tables, reported>>

ReadFirstOperand ==
    /\ mode = "first" /\ token.kind \in FirstOperandKinds
    /\ current' = [current EXCEPT !.firstOperand = token.text]
    /\ mode' = "comma"
    /\ Fetch
    /\ UNCHANGED <<src, tables, reported>>

ReadComma ==
    /\ mode = "comma" /\ token.kind = "Comma"
    /\ mode' = "second"
    /\ Fetch
    /\ UNCHANGED <<src, current, tables, reported>>

ReadSecondOperand ==
    /\ mode = "second" /\ token.kind \in SecondOperandKinds
    /\ current' = [current EXCEPT !.secondOperand = token.text]
    /\ mode' = "end"
    /\ Fetch
    /\ UNCHANGED <<src, tables, reported>>

ExpectedOperand == "expected operand after ','"

MissingOperand ==
    /\ mode = "second" /\ token.kind \notin SecondOperandKinds
    /\ AddDiagnostic(ExpectedOperand, TRUE)
    /\ mode' = "end"
    /\ Stay /\ UNCHANGED <<src, current, instructions, labels>>

\* Behind the operands: one comment, then the line has to end.
OperandsRead ==
    \/ mode = "first" /\ token.kind \notin FirstOperandKinds
    \/ mode = "comma" /\ token.kind # "Comma"
    \/ mode = "end"

TrailingComment ==
    /\ OperandsRead /\ token.kind = "Comment"
    /\ mode' = "end"
    /\ Fetch
    /\ UNCHANGED <<src, current, tables, reported>>

FaultyExpectedNewline ==
    /\ OperandsRead /\ token.kind \notin LineEnds \cup {"Comment"}
    /\ AddDiagnostic("expected newline after instruction", FALSE)
    /\ instructions' = AddRow(instructions, MaxInstructions, current)
    /\ mode' = "statement"
    /\ Stay /\ UNCHANGED <<src, current, labels>>

SilentExpectedNewline ==
    /\ OperandsRead /\ token.kind \notin LineEnds \cup {"Comment"}
    /\ mode' = "recover"
    /\ Fetch
    /\ UNCHANGED <<src, current, tables, reported>>

ExpectedNewline ==
    /\ OperandsRead /\ token.kind \notin LineEnds \cup {"Comment"}
    /\ AddDiagnostic("expected newline after instruction", FALSE)
    /\ mode' = "recover"
    /\ Fetch
    /\ UNCHANGED <<src, current, instructions, labels>>

Recover ==
    /\ mode = "recover" /\ token.kind \notin LineEnds
    /\ Fetch
    /\ UNCHANGED <<src, mode, current, tables, reported>>

EndInstruction ==
    /\ OperandsRead \/ mode = "recover"
    /\ token.kind \in LineEnds
    /\ instructions' = AddRow(instructions, MaxInstructions, current)
    /\ mode' = "statement"
    /\ Stay /\ UNCHANGED <<src, current, labels, diagnostics, reported>>

Next ==
    \/ Start \/ SkipIgnorable \/ ReadLabel \/ ReadMnemonic \/ UnexpectedToken \/ Finish
    \/ ReadFirstOperand \/ ReadComma \/ ReadSecondOperand \/ MissingOperand
    \/ TrailingComment \/ ExpectedNewline \/ Recover \/ EndInstruction

Spec == Init /\ [][Next]_vars
\* parse() is a loop of the thread that calls it: it is never kept waiting.
FairSpec == Spec /\ WF_vars(Next)

-----------------------------------------------------------------------------
(* Types and the limits of the tables: no array of ParsedProgram is written
   behind its end and no view reaches beyond the source, whatever the text. *)
Views == [from : 0..(Len(src) + 1), to : 0..(Len(src) + 1)]

Messages == {"unexpected token", ExpectedOperand, "expected newline after instruction"}

Rows(table, max, S) == Len(table) <= max /\ \A i \in DOMAIN table : table[i] \in S

ParserTypeOK ==
    /\ token \in [kind : TokenKind, text : Views, line : Nat, col : Nat]
    /\ mode \in {"start", "statement", "first", "comma", "second", "end", "recover", "done"}
    /\ Rows(instructions, MaxInstructions,
            [mnemonic : Views, firstOperand : Views, secondOperand : Views, line : Nat])
    /\ Rows(labels, MaxLabels, [name : Views, instructionIndex : 0..MaxInstructions])
    /\ Rows(diagnostics, MaxDiagnostics,
            [message : Messages, line : Nat, col : Nat, isError : BOOLEAN])

(* Between two tokens that follow each other (or before the first) there are
   only blanks, and the ':' of a label: the lexer neither skips a character
   nor reads one twice. *)
Unread(from, to) == {i \in from..(to - 1) : src[i] \notin Blanks}

LabelMark(gap) == \E i \in gap : gap = {i} /\ src[i] = Colon

TokensTile ==
    \A t \in tokens :
        LET before == {u \in tokens : u # t /\ u.text.from <= t.text.from}
            last   == CHOOSE u \in before : \A v \in before : v.text.from <= u.text.from
            gap    == Unread(last.text.to, t.text.from)
        IN  IF before = {} THEN Unread(1, t.text.from) = {}
            ELSE /\ last.text.to <= t.text.from
                 /\ IF last.kind = "Label" THEN LabelMark(gap) ELSE gap = {}

(* Every diagnostic and every instruction carries the place of the source it
   is about, although the column the lexer keeps is not advanced over a comment. *)
PlacesTrue ==
    /\ \A r \in reported : /\ r.row.line = LineOf(src, r.about.text.from)
                           /\ r.row.col = ColOf(src, r.about.text.from)
    /\ \A i \in DOMAIN instructions :
           instructions[i].line = LineOf(src, instructions[i].mnemonic.from)

(* The index of a label divides the instructions: those before it in the table
   are before the label in the source, the others behind it. *)
LabelsPointForward ==
    \A l \in DOMAIN labels : \A i \in DOMAIN instructions :
        LET label == labels[l]
        IN  (i <= label.instructionIndex)
                <=> (instructions[i].mnemonic.from < label.name.from)

(* A line holds one instruction at most, and an instruction is on one line:
   what follows it there is skipped, never read as an instruction or operand
   of its own or of the next. *)
OperandViews(i) == {i.firstOperand, i.secondOperand} \ {NoText}

OneInstructionPerLine ==
    /\ \A i, j \in DOMAIN instructions : i < j => instructions[i].line < instructions[j].line
    /\ \A i \in DOMAIN instructions : \A v \in OperandViews(instructions[i]) :
           /\ v.from >= instructions[i].mnemonic.to
           /\ LineOf(src, v.from) = instructions[i].line

(* Nothing of the source is lost without a word: unless a table is full, a token
   that is neither comment nor line end is a label or a part of an instruction
   of the result, or its line has a diagnostic. *)
HasRoom ==
    /\ Len(instructions) < MaxInstructions
    /\ Len(labels) < MaxLabels /\ Len(diagnostics) < MaxDiagnostics

PartOf(i, t) == \/ t.text \in {i.mnemonic, i.firstOperand, i.secondOperand}
                \/ t.kind = "Comma" /\ t.line = i.line

NothingLost ==
    mode = "done" /\ HasRoom =>
        \A t \in tokens : t.kind \notin IgnorableKinds \cup {"Eof"} =>
            \/ \E l \in DOMAIN labels : labels[l].name = t.text
            \/ \E i \in DOMAIN instructions : PartOf(instructions[i], t)
            \/ \E d \in DOMAIN diagnostics : diagnostics[d].line = t.line

(* parse() returns, whatever the text. *)
ParseReturns == <>(mode = "done")

(* AsmParse.hpp:35-43: "validates embedded assembly at compile time", with
   static_assert(prog.ok()): a text in which an error was found is not ok. *)
OkMeansNoError == mode = "done" /\ Ok => \A r \in reported : ~r.row.isError

=============================================================================
