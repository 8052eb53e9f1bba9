----------------------------- MODULE ArmMachine -----------------------------
(***************************************************************************)
(* What a processor does with the emitted instructions, as far as they use *)
(* it: the registers x0 to x30, the operands last compared, and the        *)
(* resolution of local labels by the assembler.  None of this is code of   *)
(* the repository.  A register holds a word, or None when its content is   *)
(* not known; x30 holds the return address until something is written to   *)
(* it.                                                                     *)
(***************************************************************************)
EXTENDS Arm64Emitter, Values

Signed(n) == Cast("i64", n).v
IsKnown(x) == x # None

ArmStart == [pc |-> 1, regs |-> [r \in 0 .. 30 |-> None], flags |-> <<None, None>>,
             lr |-> TRUE, status |-> "running", steps |-> 0]

\* "Nb" is the nearest definition of N before the instruction, "Nf" behind it.
Definitions(code, pc, label) ==
  {k \in DOMAIN code : code[k].op = "label" /\ code[k].arg = label.index
                       /\ IF label.dir = "b" THEN k < pc ELSE k > pc}
Nearest(code, pc, label) ==
  LET D == Definitions(code, pc, label) IN IF label.dir = "b" THEN Max(D) ELSE Min(D)

IsBranch(instr) == instr.op \in {"b", "cbnz"}
RegistersOf(instr) == ({instr.dest} \ {None}) \cup {instr.sources[k] : k \in DOMAIN instr.sources}

\* The assembler takes the code: every register and every label exists.
Assembles(code) ==
  \A k \in DOMAIN code :
    /\ RegistersOf(code[k]) \subseteq 0 .. 30
    /\ IsBranch(code[k]) => Definitions(code, k, code[k].arg) # {}

\* The word an instruction computes of its operands.
ArmResult(instr, x, flags) ==
  LET a == Signed(x[1])
      b == Signed(x[2])
      AsIR == [add |-> "Add", sub |-> "Sub", and |-> "And", orr |-> "Or", eor |-> "Xor",
               lsl |-> "Shl", asr |-> "Shr", mul |-> "Mul"]
  IN  CASE instr.op = "mov" /\ x = <<>> -> instr.arg.v
        [] instr.op = "mov" /\ x # <<>> -> a
        [] instr.op \in DOMAIN AsIR     -> Raw(AsIR[instr.op], a, b)
        [] instr.op = "sdiv"            -> IF b = 0 THEN 0 ELSE TruncDiv(a, b)
        [] instr.op = "msub"            -> Signed(x[3]) - a * b
        [] instr.op = "neg"             -> -a
        [] instr.op = "mvn"             -> -a - 1
        [] instr.op = "cset"            -> FoldCmp(instr.arg, Signed(flags[1]), Signed(flags[2])).v

\* One instruction.  A call returns behind the bl, with the registers a callee
\* may change unknown.
ArmStep(code, m) ==
  LET instr == code[m.pc]
      x     == [k \in DOMAIN instr.sources |-> m.regs[instr.sources[k]]]
      known == /\ \A k \in DOMAIN x : IsKnown(x[k])
               /\ instr.op = "cset" => IsKnown(m.flags[1]) /\ IsKnown(m.flags[2])
      goOn  == [m EXCEPT !.pc = @ + 1]
      jump  == [m EXCEPT !.pc = Nearest(code, m.pc, instr.arg)]
  IN  CASE m.pc > Len(code)    -> [m EXCEPT !.status = "behind"]
        [] m.pc <= Len(code) /\ instr.op = "label" -> goOn
        [] m.pc <= Len(code) /\ instr.op = "b"     -> jump
        [] m.pc <= Len(code) /\ instr.op = "cbnz"  ->
             IF ~known THEN [m EXCEPT !.status = "unknown"] ELSE IF x[1] # 0 THEN jump ELSE goOn
        [] m.pc <= Len(code) /\ instr.op = "cmp"   -> [goOn EXCEPT !.flags = x]
        [] m.pc <= Len(code) /\ instr.op = "bl"    ->
             [goOn EXCEPT !.lr = FALSE,
                          !.regs = [r \in 0 .. 30 |-> IF r \in 19 .. 29 THEN @[r] ELSE None]]
        [] m.pc <= Len(code) /\ instr.op = "ret"   ->
             [m EXCEPT !.status = IF m.lr THEN "returned" ELSE "lost"]
        [] OTHER ->
             [goOn EXCEPT !.lr = @ /\ instr.dest # 30,
                          !.regs[instr.dest] = IF known THEN ArmResult(instr, x, m.flags) % Radix
                                                        ELSE None]

\* The values a run returns: x0, if it came to the ret of a function that
\* returns one.
ArmReturns(m, value) ==
  m.status = "returned" /\ m.regs[0] = value.v % Radix
=============================================================================
