---------------------- MODULE Simulator_proofs ----------------------
(***************************************************************************)
(* The simulator keeps its promises for every module, every arithmetic and *)
(* every limit: whatever mixture of run, step, rewind and reset is called, *)
(* its call stacks are well formed, within the depth limit and returnable, *)
(* and its snapshots are an execution.                                     *)
(***************************************************************************)
EXTENDS SimulatorTimeTravel, Machine_proofs, FiniteSetTheorems

---------------------------------------------------------------------------
\* What holds of every call stack the simulator keeps.
Sound(stack) ==
  stack \in Seq(Frame) /\ Known(stack) /\ WithinDepth(stack) /\ ReturnAddresses(stack)

LEMMA EntrySound ==
  ASSUME NEW name \in FunctionNames
  PROVE  Sound(<<EntryFrame(name)>>) /\ <<EntryFrame(name)>> # <<>>
<1> DEFINE s == <<EntryFrame(name)>>
<1>1. EntryFrame(name) \in Frame /\ EntryFrame(name).fn = name
  BY EntryFrameType
<1>2. s \in Seq(Frame) /\ Len(s) = 1 /\ DOMAIN s = {1} /\ s[1] = EntryFrame(name)
  BY <1>1
<1> HIDE DEF s
<1>3. Known(s)
  BY <1>1, <1>2 DEF Known
<1>4. Top(s) = EntryFrame(name)
  BY <1>2 DEF Top
<1>5. WithinDepth(s)
  BY <1>1, <1>2, <1>4, MachineAssumption DEF WithinDepth
<1>6. ReturnAddresses(s)
  BY <1>2 DEF ReturnAddresses
<1> QED BY <1>2, <1>3, <1>5, <1>6 DEF Sound, s

\* A change of the running frame that is not a call keeps a stack sound.
LEMMA LocalSound ==
  ASSUME NEW s \in Stack, Sound(s), NEW t \in Stack, SameCallers(s, t),
         Len(s) > MaxCallDepth => t = s
  PROVE  Sound(t)
<1>1. /\ Len(s) \in Nat \ {0} /\ Len(t) = Len(s) /\ s \in Seq(Frame) /\ t \in Seq(Frame)
      /\ \A k \in 1 .. Len(s) - 1 : t[k] = s[k]
      /\ t[Len(s)].fn = s[Len(s)].fn
  BY TopType DEF SameCallers, Stack
<1>2. \A k \in 1 .. Len(s) : t[k].fn = s[k].fn
  BY <1>1
<1>3. Known(t)
  BY <1>1, <1>2 DEF Sound, Known
<1>4. WithinDepth(t)
  BY <1>1, MachineAssumption DEF Sound, WithinDepth
<1>5. ReturnAddresses(t)
  <2> SUFFICES ASSUME NEW k \in 1 .. Len(t) - 1
               PROVE  LET block == CachedBlock(t[k].fn, t[k].block)
                      IN  /\ block # None /\ t[k].pc \in DOMAIN block.instrs
                          /\ block.instrs[t[k].pc].op = "Call"
                          /\ block.instrs[t[k].pc].callee = t[k + 1].fn
    BY DEF ReturnAddresses
  <2>1. k \in 1 .. Len(s) - 1 /\ k + 1 \in 1 .. Len(s)
    BY <1>1
  <2>2. t[k] = s[k] /\ t[k + 1].fn = s[k + 1].fn
    BY <1>1, <1>2, <2>1
  <2> QED BY <2>1, <2>2 DEF Sound, ReturnAddresses
<1> QED BY <1>1, <1>3, <1>4, <1>5 DEF Sound

LEMMA PopSound ==
  ASSUME NEW s \in Stack, Sound(s)
  PROVE  Sound(Pop(s))
<1> DEFINE t == Pop(s)
<1>1. /\ Len(s) \in Nat \ {0} /\ t \in Seq(Frame) /\ Len(t) = Len(s) - 1
      /\ \A k \in 1 .. Len(s) - 1 : t[k] = s[k]
  BY TopType, PopType
<1> HIDE DEF t
<1>2. Known(t)
  BY <1>1 DEF Sound, Known, Stack
<1>3. WithinDepth(t)
  BY <1>1, MachineAssumption DEF Sound, WithinDepth
<1>4. ReturnAddresses(t)
  <2> SUFFICES ASSUME NEW k \in 1 .. Len(t) - 1
               PROVE  LET block == CachedBlock(t[k].fn, t[k].block)
                      IN  /\ block # None /\ t[k].pc \in DOMAIN block.instrs
                          /\ block.instrs[t[k].pc].op = "Call"
                          /\ block.instrs[t[k].pc].callee = t[k + 1].fn
    BY DEF ReturnAddresses
  <2>1. k \in 1 .. Len(s) - 1 /\ t[k] = s[k] /\ t[k + 1] = s[k + 1]
    BY <1>1
  <2> QED BY <2>1 DEF Sound, ReturnAddresses
<1> QED BY <1>1, <1>2, <1>3, <1>4 DEF Sound, t

\* The program counter stops just behind a Call before the callee's frame is
\* pushed, which is where the return address is expected.
LEMMA CallSound ==
  ASSUME NEW s \in Stack, Sound(s), Len(s) <= MaxCallDepth,
         NEW instr \in IRInstr(RegValue),
         instr.op = "Call", instr.callee \in FunctionNames,
         CachedBlock(Top(s).fn, Top(s).block) # None,
         Top(s).pc + 1 \in DOMAIN CachedBlock(Top(s).fn, Top(s).block).instrs,
         CachedBlock(Top(s).fn, Top(s).block).instrs[Top(s).pc + 1] = instr
  PROVE  Sound(Append(Advance(s), EntryFrame(instr.callee)))
<1> DEFINE a == Advance(s)
           entry == EntryFrame(instr.callee)
           t == Append(a, entry)
           n == Len(s)
<1>1. entry \in Frame /\ entry.fn = instr.callee
  BY EntryFrameType
<1>2. /\ n \in Nat \ {0} /\ a \in Seq(Frame) /\ Len(a) = n
      /\ \A k \in 1 .. n - 1 : a[k] = s[k]
      /\ a[n].fn = s[n].fn
  BY TopType, AdvanceType DEF SameCallers, Stack
<1>3. a[n].block = s[n].block /\ a[n].pc = s[n].pc + 1
  BY TopType DEF Advance, Stack, Frame
<1> HIDE DEF a, entry
<1>4. /\ t \in Seq(Frame) /\ Len(t) = n + 1 /\ t[n + 1] = entry
      /\ \A k \in 1 .. n : t[k] = a[k]
  BY <1>1, <1>2
<1> HIDE DEF t
<1>5. Known(t)
  <2> SUFFICES ASSUME NEW k \in DOMAIN t PROVE t[k].fn \in FunctionNames
    BY DEF Known
  <2>1. CASE k = n + 1
    BY <1>1, <1>4, <2>1
  <2>2. CASE k \in 1 .. n
    <3>1. s[k].fn \in FunctionNames
      BY <2>2 DEF Sound, Known, Stack
    <3> QED BY <1>2, <1>4, <2>2, <3>1
  <2> QED BY <1>2, <1>4, <2>1, <2>2
<1>6. WithinDepth(t)
  <2>1. Top(t) = entry /\ entry = EntryFrame(entry.fn)
    BY <1>1, <1>4 DEF Top, entry
  <2> QED BY <1>2, <1>4, <2>1, MachineAssumption DEF WithinDepth
<1>7. ReturnAddresses(t)
  <2> SUFFICES ASSUME NEW k \in 1 .. Len(t) - 1
               PROVE  LET block == CachedBlock(t[k].fn, t[k].block)
                      IN  /\ block # None /\ t[k].pc \in DOMAIN block.instrs
                          /\ block.instrs[t[k].pc].op = "Call"
                          /\ block.instrs[t[k].pc].callee = t[k + 1].fn
    BY DEF ReturnAddresses
  <2>1. CASE k = n
    BY <1>1, <1>2, <1>3, <1>4, <2>1 DEF Top
  <2>2. CASE k \in 1 .. n - 1
    <3>1. t[k] = s[k] /\ t[k + 1].fn = s[k + 1].fn
      BY <1>2, <1>4, <2>2
    <3> QED BY <2>2, <3>1 DEF Sound, ReturnAddresses
  <2> QED BY <1>2, <1>4, <2>1, <2>2
<1> QED BY <1>4, <1>5, <1>6, <1>7 DEF Sound, a, entry, t

LEMMA NotEmpty ==
  ASSUME NEW stack, Len(stack) # 0
  PROVE  stack # <<>>
<1> SUFFICES ASSUME stack = <<>> PROVE FALSE
  OBVIOUS
<1>1. Len(<<>>) = 0
  OBVIOUS
<1> QED BY <1>1

\* One instruction keeps a stack sound, and non-empty unless it ends the run.
LEMMA StepSound ==
  ASSUME NEW s \in Stack, Sound(s), NEW e \in StepOne(s)
  PROVE  EffectOK(e) /\ Sound(e.stack) /\ (~e.done => e.stack # <<>>)
<1>1. Len(s) \in Nat \ {0} /\ s \in Seq(Frame)
  BY TopType DEF Stack
<1>2. Top(s).fn \in FunctionNames
  BY <1>1 DEF Sound, Known, Top
<1>3. EffectOK(e) /\ Stepped(s, e)
  BY <1>2, StepShape
<1>4. CASE Local(s, e) /\ (Len(s) > MaxCallDepth => e.stack = s)
  BY <1>3, <1>4, LocalSound DEF Local, Stack
<1>5. ASSUME Len(s) <= MaxCallDepth, NEW instr \in IRInstr(RegValue),
             Called(Advance(s), e, instr),
             CachedBlock(Top(s).fn, Top(s).block) # None,
             Top(s).pc + 1 \in DOMAIN CachedBlock(Top(s).fn, Top(s).block).instrs,
             CachedBlock(Top(s).fn, Top(s).block).instrs[Top(s).pc + 1] = instr
      PROVE  Sound(e.stack) /\ e.stack # <<>>
  <2>1. e.stack = Append(Advance(s), EntryFrame(instr.callee))
    BY <1>5 DEF Called
  <2>2. Sound(e.stack)
    BY <1>5, <2>1, CallSound DEF Called
  <2>3. Advance(s) \in Seq(Frame) /\ EntryFrame(instr.callee) \in Frame
    BY <1>5, AdvanceType, EntryFrameType DEF Called, Stack
  <2> QED BY <2>1, <2>2, <2>3
<1>6. CASE Returned(s, e)
  <2>1. Sound(e.stack) /\ Len(e.stack) = Len(s) - 1
    BY <1>6, PopSound, PopType DEF Returned
  <2>2. ~e.done => Len(s) # 1
    BY <1>6 DEF Returned
  <2>3. Len(s) # 1 => Len(e.stack) # 0
    BY <1>1, <2>1
  <2> QED BY <1>3, <2>1, <2>2, <2>3, NotEmpty
<1>7. CASE RanOffTheEnd(s, e)
  <2>1. CASE Len(s) = 1
    BY <1>3, <1>7, <2>1 DEF RanOffTheEnd
  <2>2. CASE Len(s) # 1
    <3>1. Sound(e.stack) /\ Len(e.stack) = Len(s) - 1
      BY <1>7, <2>2, PopSound, PopType DEF RanOffTheEnd
    <3>2. Len(e.stack) # 0
      BY <1>1, <2>2, <3>1
    <3> QED BY <1>3, <3>1, <3>2, NotEmpty
  <2> QED BY <2>1, <2>2
<1> QED BY <1>3, <1>4, <1>5, <1>6, <1>7 DEF Stepped

\* SubSeq(s, 1, n) is the first n elements of s.
LEMMA Prefix ==
  ASSUME NEW S, NEW s \in Seq(S), NEW n \in 0 .. Len(s)
  PROVE  /\ SubSeq(s, 1, n) \in Seq(S) /\ Len(SubSeq(s, 1, n)) = n
         /\ \A k \in 1 .. n : SubSeq(s, 1, n)[k] = s[k]
<1>1. n \in Nat /\ 1 \in Int /\ \A k \in 1 .. n : s[k] \in S
  OBVIOUS
<1>2. /\ SubSeq(s, 1, n) \in Seq(S)
      /\ Len(SubSeq(s, 1, n)) = IF 1 <= n THEN n - 1 + 1 ELSE 0
      /\ \A k \in 1 .. n - 1 + 1 : SubSeq(s, 1, n)[k] = s[1 + k - 1]
  <2>1. n \in Int
    BY <1>1
  <2> QED BY <1>1, <2>1, SubSeqProperties
<1> QED BY <1>1, <1>2

---------------------------------------------------------------------------
\* The inductive invariant.  The snapshots are sound and not empty, since each
\* was the state of an execution that went on; an execution that is not over
\* has a frame; and run() loops only while the execution is not over, so that
\* neither it nor step() ever executes an instruction on an empty stack.
Snapshots == \A k \in DOMAIN history : Sound(history[k]) /\ history[k] # <<>>

SimulatorInv ==
  /\ TypeOK
  /\ Sound(callStack) /\ Snapshots
  /\ ~done => callStack # <<>>
  /\ running => ~done

LEMMA EmptyIsASequence == \A S : <<>> \in Seq(S)
  OBVIOUS

LEMMA InitInv == Init => SimulatorInv
<1> SUFFICES ASSUME Init PROVE SimulatorInv
  OBVIOUS
<1>1. TypeOK
  BY EmptyIsASequence DEF Init, TypeOK
<1>2. Sound(<<>>)
  BY MachineAssumption DEF Sound, Known, WithinDepth, ReturnAddresses
<1> QED BY <1>1, <1>2 DEF Init, SimulatorInv, Snapshots

\* The body common to run() and step(), in a state that is not done.
LEMMA ExecuteInv ==
  ASSUME SimulatorInv, ~done, NEW e \in StepOne(callStack), Execute(e)
  PROVE  /\ callStack' \in Seq(Frame) /\ history' \in Seq(Seq(Frame))
         /\ trace' \in Seq(RegValue) /\ done' \in BOOLEAN /\ done' = e.done
         /\ e.error \in (SimError \ {"MaxStepsExceeded"}) \cup {"none", "killed"}
         /\ Sound(callStack') /\ Snapshots'
         /\ ~done' => callStack' # <<>>
<1>1. callStack \in Stack /\ Sound(callStack)
  BY DEF SimulatorInv, TypeOK, Stack
<1>2. EffectOK(e) /\ Sound(e.stack) /\ (~e.done => e.stack # <<>>)
  BY <1>1, StepSound
<1>3. /\ history' = Append(history, callStack) /\ callStack' = e.stack
      /\ trace' = trace \o e.returned /\ done' = e.done
  BY DEF Execute
<1>4. history \in Seq(Seq(Frame)) /\ trace \in Seq(RegValue)
  BY DEF SimulatorInv, TypeOK
<1>5. history' \in Seq(Seq(Frame)) /\ trace' \in Seq(RegValue)
  BY <1>1, <1>2, <1>3, <1>4 DEF EffectOK, Stack
<1>6. Snapshots'
  <2> SUFFICES ASSUME NEW k \in DOMAIN history'
               PROVE  Sound(history'[k]) /\ history'[k] # <<>>
    BY DEF Snapshots, Sound, Known, WithinDepth, ReturnAddresses, Top
  <2>1. CASE k \in DOMAIN history
    <3>1. history'[k] = history[k]
      BY <1>3, <1>4, <2>1
    <3> QED BY <2>1, <3>1 DEF SimulatorInv, Snapshots
  <2>2. CASE k \notin DOMAIN history
    <3>1. history'[k] = callStack
      BY <1>3, <1>4, <2>2
    <3> QED BY <1>1, <3>1 DEF Stack
  <2> QED BY <2>1, <2>2
<1> QED BY <1>2, <1>3, <1>5, <1>6 DEF EffectOK

LEMMA NextInv == SimulatorInv /\ [Next]_vars => SimulatorInv'
<1> SUFFICES ASSUME SimulatorInv, [Next]_vars PROVE SimulatorInv'
  OBVIOUS
<1> USE DEF SimulatorInv
<1>1. ASSUME NEW name \in FunctionNames, RunStart(name) PROVE SimulatorInv'
  <2>1. Sound(<<EntryFrame(name)>>) /\ <<EntryFrame(name)>> # <<>>
    BY EntrySound
  <2>2. TypeOK'
    BY <1>1, <2>1, EmptyIsASequence DEF RunStart, Cleared, TypeOK, Sound
  <2> QED BY <1>1, <2>1, <2>2 DEF RunStart, Cleared, Snapshots
<1>2. CASE RunUnknown("no such function")
  BY <1>2 DEF RunUnknown, TypeOK, SimError, Snapshots
<1>3. CASE RunIteration
  <2>1. PICK e \in StepOne(callStack) :
          /\ Execute(e)
          /\ stepCount' = IF e.error = "none" THEN stepCount + 1 ELSE stepCount
          /\ result' = RunResult(e, trace')
          /\ running' = (result' = "none")
    BY <1>3 DEF RunIteration
  <2>2. ~done
    BY <1>3 DEF RunIteration
  <2>3. /\ callStack' \in Seq(Frame) /\ history' \in Seq(Seq(Frame))
        /\ trace' \in Seq(RegValue) /\ done' \in BOOLEAN /\ done' = e.done
        /\ e.error \in (SimError \ {"MaxStepsExceeded"}) \cup {"none", "killed"}
        /\ Sound(callStack') /\ Snapshots'
        /\ ~done' => callStack' # <<>>
    BY <2>1, <2>2, ExecuteInv
  <2>4. TypeOK'
    BY <2>1, <2>3 DEF TypeOK, RunResult, SimError
  <2>5. running' => ~done'
    BY <2>1, <2>3 DEF RunResult
  <2> QED BY <2>3, <2>4, <2>5
<1>4. CASE StepDone
  BY <1>4 DEF StepDone, TypeOK, Snapshots
<1>5. CASE Step
  <2>1. PICK e \in StepOne(callStack) :
          /\ Execute(e)
          /\ result' = IF e.error # "none" THEN e.error ELSE IF e.done THEN "false" ELSE "true"
    BY <1>5 DEF Step
  <2>2. ~done /\ ~running /\ UNCHANGED <<stepCount, running>>
    BY <1>5 DEF Step, Callable
  <2>3. /\ callStack' \in Seq(Frame) /\ history' \in Seq(Seq(Frame))
        /\ trace' \in Seq(RegValue) /\ done' \in BOOLEAN
        /\ e.error \in (SimError \ {"MaxStepsExceeded"}) \cup {"none", "killed"}
        /\ Sound(callStack') /\ Snapshots'
        /\ ~done' => callStack' # <<>>
    BY <2>1, <2>2, ExecuteInv
  <2>4. TypeOK'
    BY <2>1, <2>2, <2>3 DEF TypeOK
  <2> QED BY <2>2, <2>3, <2>4
<1>6. ASSUME NEW steps \in 0 .. MaxHistory, Rewind(steps) PROVE SimulatorInv'
  <2> DEFINE kept == IF steps < Len(history) THEN Len(history) - steps ELSE 0
  <2>1. /\ history' = SubSeq(history, 1, kept) /\ ~running
        /\ IF kept > 0 THEN callStack' = history[kept] /\ done' = FALSE
                       ELSE UNCHANGED <<callStack, done>>
        /\ result' = "none" /\ UNCHANGED <<trace, stepCount, running>>
    BY <1>6 DEF Rewind, Callable
  <2>2. history \in Seq(Seq(Frame)) /\ kept \in 0 .. Len(history)
    BY DEF TypeOK
  <2> HIDE DEF kept
  <2>3. /\ history' \in Seq(Seq(Frame)) /\ Len(history') = kept
        /\ \A k \in 1 .. kept : history'[k] = history[k]
    BY <2>1, <2>2, Prefix
  <2>4. Snapshots'
    <3> SUFFICES ASSUME NEW k \in DOMAIN history'
                 PROVE  Sound(history'[k]) /\ history'[k] # <<>>
      BY DEF Snapshots, Sound, Known, WithinDepth, ReturnAddresses, Top
    <3>1. k \in 1 .. kept /\ k \in DOMAIN history
      BY <2>2, <2>3
    <3>2. history'[k] = history[k]
      BY <2>3, <3>1
    <3> QED BY <3>1, <3>2 DEF Snapshots
  <2>5. Sound(callStack') /\ callStack' \in Seq(Frame) /\ (~done' => callStack' # <<>>)
    BY <2>1, <2>2 DEF Snapshots, Sound
  <2>6. TypeOK'
    BY <2>1, <2>3, <2>5 DEF TypeOK
  <2> QED BY <2>1, <2>4, <2>5, <2>6
<1>7. CASE Reset
  <2>1. Sound(<<>>)
    BY MachineAssumption DEF Sound, Known, WithinDepth, ReturnAddresses
  <2> QED BY <1>7, <2>1 DEF Reset, Cleared, Callable, TypeOK, Snapshots
<1>8. CASE UNCHANGED vars
  BY <1>8 DEF vars, TypeOK, Snapshots
<1> QED BY <1>1, <1>2, <1>3, <1>4, <1>5, <1>6, <1>7, <1>8 DEF Next

THEOREM SimulatorInvariant == Spec => []SimulatorInv
BY InitInv, NextInv, PTL DEF Spec

\* The simulator's members keep their types: every value it stores, traces or
\* returns comes from the arithmetic, and every error is one stepOne names.
THEOREM TypeCorrect == Spec => []TypeOK
<1>1. SimulatorInv => TypeOK
  BY DEF SimulatorInv
<1> QED BY <1>1, SimulatorInvariant, PTL

\* An execution that is not over, now or in a snapshot, has a frame to go on with.
THEOREM AlwaysResumable == Spec => []ResumableWhenNotDone
<1>1. SimulatorInv => ResumableWhenNotDone
  BY DEF SimulatorInv, Snapshots, Sound, Known, ResumableWhenNotDone, Resumable
<1> QED BY <1>1, SimulatorInvariant, PTL

\* The call stack never outgrows the limit by more than one untouched frame.
THEOREM DepthBounded == Spec => []CallDepthBounded
<1>1. SimulatorInv => CallDepthBounded
  BY DEF SimulatorInv, Snapshots, Sound, CallDepthBounded
<1> QED BY <1>1, SimulatorInvariant, PTL

\* Every return comes back to the call that was made.
THEOREM ReturnsMatchCalls == Spec => []CallsMatchFrames
<1>1. SimulatorInv => CallsMatchFrames
  BY DEF SimulatorInv, Snapshots, Sound, CallsMatchFrames
<1> QED BY <1>1, SimulatorInvariant, PTL

---------------------------------------------------------------------------
\* HistoryIsExecution is inductive by itself once types are known: execution
\* appends the state it starts from, and rewind() keeps a prefix of the
\* snapshots and restores the last one kept.
Follows(s, t) == t = s \/ t \in Successors(s)

\* A chain: the states of h, and s behind them, follow one another.
Chained(h, s) ==
  /\ \A k \in 1 .. Len(h) - 1 : Follows(h[k], h[k + 1])
  /\ h # <<>> => Follows(h[Len(h)], s)

LEMMA ChainedSnapshots ==
  ASSUME NEW h \in Seq(Seq(Frame)), NEW s \in Seq(Frame)
  PROVE  LET states == Append(h, s)
         IN  (\A k \in DOMAIN h : states[k + 1] \in Successors(states[k]) \cup {states[k]})
             <=> Chained(h, s)
<1> DEFINE states == Append(h, s)
<1>1. Len(h) \in Nat /\ DOMAIN h = 1 .. Len(h)
  OBVIOUS
<1>2. states[Len(h) + 1] = s /\ \A k \in 1 .. Len(h) : states[k] = h[k]
  OBVIOUS
<1> HIDE DEF states
<1>3. (\A k \in DOMAIN h : Follows(states[k], states[k + 1])) <=> Chained(h, s)
  <2>1. ASSUME \A k \in DOMAIN h : Follows(states[k], states[k + 1]) PROVE Chained(h, s)
    <3>1. ASSUME NEW k \in 1 .. Len(h) - 1 PROVE Follows(h[k], h[k + 1])
      <4>1. k \in 1 .. Len(h) /\ k + 1 \in 1 .. Len(h)
        BY <1>1
      <4> QED BY <1>1, <1>2, <2>1, <4>1
    <3>2. ASSUME h # <<>> PROVE Follows(h[Len(h)], s)
      <4>1. Len(h) \in 1 .. Len(h)
        BY <1>1, <3>2
      <4> QED BY <1>1, <1>2, <2>1, <4>1
    <3> QED BY <3>1, <3>2 DEF Chained
  <2>2. ASSUME Chained(h, s), NEW k \in DOMAIN h PROVE Follows(states[k], states[k + 1])
    <3>1. CASE k = Len(h)
      <4>1. h # <<>>
        BY <1>1, <2>2
      <4> QED BY <1>1, <1>2, <2>2, <3>1, <4>1 DEF Chained
    <3>2. CASE k # Len(h)
      <4>1. k \in 1 .. Len(h) - 1 /\ k \in 1 .. Len(h) /\ k + 1 \in 1 .. Len(h)
        BY <1>1, <2>2, <3>2
      <4> QED BY <1>2, <2>2, <4>1 DEF Chained
    <3> QED BY <3>1, <3>2
  <2> QED BY <2>1, <2>2
<1> QED BY <1>3 DEF Follows, states

LEMMA HistoryNext ==
  ASSUME TypeOK, TypeOK', HistoryIsExecution, [Next]_vars
  PROVE  HistoryIsExecution'
<1>1. history \in Seq(Seq(Frame)) /\ Len(history) \in Nat
  BY DEF TypeOK
<1>2. Chained(history, callStack)
  <2>1. callStack \in Seq(Frame)
    BY DEF TypeOK
  <2> QED BY <1>1, <2>1, ChainedSnapshots DEF HistoryIsExecution, Chained
<1>3. SUFFICES Chained(history', callStack')
  <2>1. history' \in Seq(Seq(Frame)) /\ callStack' \in Seq(Frame)
    BY DEF TypeOK
  <2> QED BY <2>1, ChainedSnapshots DEF HistoryIsExecution, Chained, Successors
<1>4. ASSUME history' = <<>> PROVE Chained(history', callStack')
  BY <1>4 DEF Chained
<1>5. ASSUME UNCHANGED <<history, callStack>> PROVE Chained(history', callStack')
  BY <1>2, <1>5 DEF Chained
<1>6. ASSUME NEW e \in StepOne(callStack), Execute(e) PROVE Chained(history', callStack')
  <2>1. history' = Append(history, callStack) /\ callStack' = e.stack
    BY <1>6 DEF Execute
  <2>2. /\ Len(history') = Len(history) + 1 /\ history'[Len(history) + 1] = callStack
        /\ \A k \in 1 .. Len(history) : history'[k] = history[k]
    BY <1>1, <2>1
  <2>3. Follows(callStack, callStack')
    BY <1>6, <2>1 DEF Follows, Successors
  <2>4. ASSUME NEW k \in 1 .. Len(history') - 1
        PROVE  Follows(history'[k], history'[k + 1])
    <3>1. CASE k = Len(history)
      <4>1. history # <<>> /\ history'[k] = history[Len(history)] /\ history'[k + 1] = callStack
        BY <1>1, <2>2, <2>4, <3>1
      <4> QED BY <1>2, <4>1 DEF Chained
    <3>2. CASE k # Len(history)
      <4>1. k \in 1 .. Len(history) - 1 /\ k + 1 \in 1 .. Len(history)
        BY <1>1, <2>2, <2>4, <3>2
      <4> QED BY <1>2, <2>2, <4>1 DEF Chained
    <3> QED BY <3>1, <3>2
  <2>5. Follows(history'[Len(history')], callStack')
    BY <2>2, <2>3
  <2> QED BY <2>4, <2>5 DEF Chained
<1>7. ASSUME NEW steps \in 0 .. MaxHistory, Rewind(steps) PROVE Chained(history', callStack')
  <2> DEFINE kept == IF steps < Len(history) THEN Len(history) - steps ELSE 0
  <2>1. /\ history' = SubSeq(history, 1, kept)
        /\ kept > 0 => callStack' = history[kept]
    BY <1>7 DEF Rewind
  <2>2. kept \in 0 .. Len(history)
    BY <1>1, BoundAssumption
  <2> HIDE DEF kept
  <2>3. Len(history') = kept /\ \A k \in 1 .. kept : history'[k] = history[k]
    BY <1>1, <2>1, <2>2, Prefix
  <2>4. ASSUME NEW k \in 1 .. kept - 1 PROVE Follows(history'[k], history'[k + 1])
    <3>1. k \in 1 .. Len(history) - 1 /\ k \in 1 .. kept /\ k + 1 \in 1 .. kept
      BY <1>1, <2>2
    <3> QED BY <1>2, <2>3, <3>1 DEF Chained
  <2>5. CASE kept = 0
    <3>1. history' = <<>>
      BY <1>1, <2>1, <2>5
    <3> QED BY <1>4, <3>1
  <2>6. CASE kept # 0
    <3>1. Follows(history'[Len(history')], callStack')
      BY <2>1, <2>2, <2>3, <2>6 DEF Follows
    <3> QED BY <2>3, <2>4, <3>1 DEF Chained
  <2> QED BY <2>5, <2>6
<1>8. CASE RunIteration
  BY <1>6, <1>8 DEF RunIteration
<1>9. CASE Step
  BY <1>6, <1>9 DEF Step
<1> QED BY <1>4, <1>5, <1>7, <1>8, <1>9
        DEF Next, vars, RunStart, Cleared, Reset, RunUnknown, StepDone

\* The snapshots followed by the current state are an execution of the program.
THEOREM HistoryCorrect == Spec => []HistoryIsExecution
<1>1. Init => HistoryIsExecution
  BY DEF Init, HistoryIsExecution
<1>2. TypeOK /\ TypeOK' /\ HistoryIsExecution /\ [Next]_vars => HistoryIsExecution'
  BY HistoryNext
<1> QED BY <1>1, <1>2, TypeCorrect, PTL DEF Spec

---------------------------------------------------------------------------
\* run() accounts for every instruction it executed, and answers only within
\* maxSteps: one loop iteration is one snapshot and, unless it failed, one step.
LEMMA AccountingNext ==
  ASSUME SimulatorInv, RunAccounting, [Next]_vars
  PROVE  RunAccounting'
<1>1. /\ history \in Seq(Seq(Frame)) /\ Len(history) \in Nat /\ stepCount \in Nat
      /\ MaxSteps \in Nat
  BY BoundAssumption DEF SimulatorInv, TypeOK
<1>2. CASE RunIteration
  <2>1. PICK e \in StepOne(callStack) :
          /\ Execute(e)
          /\ stepCount' = IF e.error = "none" THEN stepCount + 1 ELSE stepCount
          /\ result' = RunResult(e, trace')
          /\ running' = (result' = "none")
    BY <1>2 DEF RunIteration
  <2>2. running /\ ~done /\ stepCount = Len(history) /\ stepCount <= MaxSteps
    BY <1>2 DEF RunIteration, RunAccounting
  <2>3. e.error \in (SimError \ {"MaxStepsExceeded"}) \cup {"none", "killed"} /\ done' = e.done
    BY <2>1, <2>2, ExecuteInv
  <2>4. Len(history') = Len(history) + 1
    BY <1>1, <2>1 DEF Execute
  <2>5. CASE e.error # "none"
    BY <2>1, <2>3, <2>5 DEF RunResult, RunAccounting, SimError
  <2>6. CASE e.error = "none" /\ stepCount + 1 > MaxSteps
    <3>1. result' = "MaxStepsExceeded" /\ stepCount' = stepCount + 1
      BY <2>1, <2>6 DEF RunResult
    <3>2. ~running'
      BY <2>1, <3>1
    <3>3. stepCount' = MaxSteps + 1 /\ Len(history') = stepCount'
      BY <1>1, <2>2, <2>4, <2>6, <3>1
    <3> QED BY <3>1, <3>2, <3>3 DEF RunAccounting
  <2>7. CASE e.error = "none" /\ ~(stepCount + 1 > MaxSteps) /\ ~e.done
    BY <1>1, <2>1, <2>2, <2>3, <2>4, <2>7 DEF RunResult, RunAccounting
  <2>8. CASE e.error = "none" /\ ~(stepCount + 1 > MaxSteps) /\ e.done
    <3>1. /\ result' = IF trace' = <<>> THEN "void" ELSE "value"
          /\ stepCount' = stepCount + 1
      BY <2>1, <2>8 DEF RunResult
    <3>2. ~running' /\ done'
      BY <2>1, <2>3, <2>8, <3>1
    <3>3. stepCount' \in 1 .. MaxSteps /\ Len(history') = stepCount'
      BY <1>1, <2>2, <2>4, <2>8, <3>1
    <3> QED BY <3>1, <3>2, <3>3 DEF RunAccounting
  <2> QED BY <2>5, <2>6, <2>7, <2>8
<1>3. CASE Step
  <2>1. PICK e \in StepOne(callStack) :
          /\ Execute(e)
          /\ result' = IF e.error # "none" THEN e.error ELSE IF e.done THEN "false" ELSE "true"
    BY <1>3 DEF Step
  <2>2. ~done /\ ~running' /\ e.error \in (SimError \ {"MaxStepsExceeded"}) \cup {"none", "killed"}
    BY <1>3, <2>1, ExecuteInv DEF Step, Callable
  <2> QED BY <2>1, <2>2 DEF RunAccounting, SimError
<1>4. ASSUME NEW name \in FunctionNames, RunStart(name) PROVE RunAccounting'
  BY <1>1, <1>4 DEF RunStart, Cleared, RunAccounting
<1>5. CASE RunUnknown("no such function")
  BY <1>5 DEF RunUnknown, Callable, RunAccounting
<1>6. CASE StepDone
  BY <1>6 DEF StepDone, Callable, RunAccounting
<1>7. ASSUME NEW steps \in 0 .. MaxHistory, Rewind(steps) PROVE RunAccounting'
  BY <1>7 DEF Rewind, Callable, RunAccounting
<1>8. CASE Reset
  BY <1>8 DEF Reset, Callable, RunAccounting
<1>9. CASE UNCHANGED vars
  BY <1>9 DEF vars, RunAccounting
<1> QED BY <1>2, <1>3, <1>4, <1>5, <1>6, <1>7, <1>8, <1>9 DEF Next

THEOREM RunAccounts == Spec => []RunAccounting
<1>1. Init => RunAccounting
  BY DEF Init, RunAccounting
<1>2. SimulatorInv /\ RunAccounting /\ [Next]_vars => RunAccounting'
  BY AccountingNext
<1> QED BY <1>1, <1>2, SimulatorInvariant, PTL DEF Spec

---------------------------------------------------------------------------
\* Only Ret puts a value on the trace: the other handlers continue or fail.
LEMMA OnlyRetReturns ==
  ASSUME NEW s, NEW instr \in IRInstr(RegValue), instr.op # "Ret", NEW e \in Handle(s, instr)
  PROVE  e.returned = <<>>
<1>1. \A t, error : Continue(t).returned = <<>> /\ Fail(t, error).returned = <<>>
  BY DEF Continue, Fail, Effect
<1>2. \A x : Produce(s, instr, x).returned = <<>>
  BY <1>1 DEF Produce
<1>3. CASE instr.op \in BinaryOp
  <2>1. e \in HandleBinary(s, instr)
    BY <1>3 DEF Handle, BinaryOp, UnaryOp
  <2> QED BY <1>1, <1>2, <2>1 DEF HandleBinary, Compute
<1>4. CASE instr.op \in UnaryOp
  <2>1. e \in HandleUnary(s, instr)
    BY <1>4 DEF Handle, BinaryOp, UnaryOp
  <2> QED BY <1>1, <1>2, <2>1 DEF HandleUnary, Compute
<1>5. CASE instr.op = "Const"
  BY <1>1, <1>5 DEF Handle, HandleConst, BinaryOp, UnaryOp
<1>6. CASE instr.op = "Copy"
  <2>1. e \in HandleCopy(s, instr)
    BY <1>6 DEF Handle, BinaryOp, UnaryOp
  <2> QED BY <1>1, <1>2, <2>1 DEF HandleCopy, Compute
<1>7. CASE instr.op = "Cmp"
  <2>1. e \in HandleCmp(s, instr)
    BY <1>7 DEF Handle, BinaryOp, UnaryOp
  <2> QED BY <1>1, <1>2, <2>1 DEF HandleCmp, Compute
<1>8. CASE instr.op = "Jmp"
  BY <1>1, <1>8 DEF Handle, HandleJump, BinaryOp, UnaryOp
<1>9. CASE instr.op = "BrTrue"
  BY <1>1, <1>9 DEF Handle, HandleBranch, BinaryOp, UnaryOp
<1>10. CASE instr.op = "Call"
  BY <1>1, <1>10 DEF Handle, HandleCall, BinaryOp, UnaryOp
<1>11. CASE instr.op \in {"Load", "Store"}
  BY <1>1, <1>11 DEF Handle, BinaryOp, UnaryOp
<1> QED
  BY <1>3, <1>4, <1>5, <1>6, <1>7, <1>8, <1>9, <1>10, <1>11 DEF IRInstr, IROp

\* Whether an instruction returns a value is settled by the stack it is
\* executed on, even where what it computes is undefined.
LEMMA StepReturns ==
  ASSUME NEW s \in Stack, Top(s).fn \in FunctionNames, NEW e \in StepOne(s)
  PROVE  IF Returning(s) THEN Len(e.returned) = 1 ELSE e.returned = <<>>
<1> DEFINE frame == Top(s)
           block == CachedBlock(frame.fn, frame.block)
           instr == block.instrs[frame.pc + 1]
           retires == ~TooDeep(s) /\ block # None /\ ~(frame.pc >= Len(block.instrs))
                      /\ instr.op = "Ret"
<1>1. s # <<>> /\ frame \in Frame
  BY TopType DEF Stack
<1>2. CASE ~retires
  <2> SUFFICES \A f \in StepOne(s) : f.returned = <<>>
    BY DEF Returning
  <2> TAKE f \in StepOne(s)
  <2>1. CASE TooDeep(s) \/ block = None \/ frame.pc >= Len(block.instrs)
    BY <1>1, <2>1 DEF StepOne, ImplicitReturn, Fail, Continue, Effect
  <2>2. CASE ~TooDeep(s) /\ block # None /\ ~(frame.pc >= Len(block.instrs))
    <3>1. block \in IRBlock(RegValue) /\ frame.pc \in Nat
      BY <1>1, <2>2, CachedBlockType DEF Frame
    <3>2. instr \in IRInstr(RegValue)
      BY <2>2, <3>1 DEF IRBlock
    <3>3. f \in Handle(Advance(s), instr)
      BY <1>1, <2>2 DEF StepOne
    <3> QED BY <1>2, <2>2, <3>2, <3>3, OnlyRetReturns
  <2> QED BY <2>1, <2>2
<1>3. CASE retires
  <2>1. StepOne(s) = Handle(Advance(s), instr)
    BY <1>1, <1>3 DEF StepOne
  <2>2. Handle(Advance(s), instr) = HandleRet(Advance(s), instr)
    BY <1>3 DEF Handle, BinaryOp, UnaryOp
  <2>3. PICK returned : /\ returned = <<>> \/ \E x : returned = <<x>>
                        /\ StepOne(s) = {Effect(Pop(Advance(s)), returned, Len(Advance(s)) = 1, "none")}
    BY <2>1, <2>2 DEF HandleRet
  <2>4. e.returned = returned /\ \A f \in StepOne(s) : f.returned = returned
    BY <2>3 DEF Effect
  <2>5. \A x : <<x>> # <<>> /\ Len(<<x>>) = 1
    OBVIOUS
  <2>6. Returning(s) <=> returned # <<>>
    BY <2>4 DEF Returning
  <2> QED BY <2>3, <2>4, <2>5, <2>6
<1> QED BY <1>2, <1>3

---------------------------------------------------------------------------
\* What RunIsFresh says of the snapshots and the trace, and why it is so when
\* there is no snapshot yet: run() has just pushed an entry frame.
Answering == running \/ result \in {"value", "void", "MaxStepsExceeded"}

Returners(h) == {k \in DOMAIN h : Returning(h[k])}

Began(stack) == \E name \in FunctionNames : stack = <<EntryFrame(name)>>

FreshInv ==
  /\ Answering => /\ history # <<>> => Began(history[1])
                  /\ Len(trace) = Cardinality(Returners(history))
  /\ running /\ history = <<>> => Began(callStack)

LEMMA ReturnersAppend ==
  ASSUME NEW h \in Seq(Seq(Frame)), NEW s \in Seq(Frame)
  PROVE  Cardinality(Returners(Append(h, s)))
         = Cardinality(Returners(h)) + (IF Returning(s) THEN 1 ELSE 0)
<1> DEFINE t == Append(h, s)
           n == Len(h) + 1
<1>1. /\ n \in Nat \ {0} /\ DOMAIN h = 1 .. n - 1 /\ DOMAIN t = 1 .. n /\ t[n] = s
      /\ \A k \in 1 .. n - 1 : t[k] = h[k]
  OBVIOUS
<1>2. IsFiniteSet(Returners(h)) /\ n \notin Returners(h)
  <2>1. IsFiniteSet(1 .. n - 1)
    BY <1>1, FS_Interval
  <2>2. Returners(h) \subseteq 1 .. n - 1
    BY <1>1 DEF Returners
  <2>3. n \notin 1 .. n - 1
    BY <1>1
  <2> QED BY <2>1, <2>2, <2>3, FS_Subset
<1> HIDE DEF t, n
<1>3. Returners(t) = IF Returning(s) THEN Returners(h) \cup {n} ELSE Returners(h)
  <2>1. \A k : k \in 1 .. n <=> k = n \/ k \in 1 .. n - 1
    BY <1>1
  <2>2. \A k : k \in Returners(t) <=> (k = n /\ Returning(s)) \/ k \in Returners(h)
    BY <1>1, <2>1 DEF Returners
  <2> QED BY <2>2
<1>4. Cardinality(Returners(h)) \in Nat
  BY <1>2, FS_CardinalityType
<1>5. Cardinality(Returners(h) \cup {n}) = Cardinality(Returners(h)) + 1
  BY <1>2, FS_AddElement
<1> QED BY <1>3, <1>4, <1>5 DEF t

LEMMA NoReturners == Cardinality(Returners(<<>>)) = 0
<1>1. Returners(<<>>) = {}
  BY DEF Returners
<1> QED BY <1>1, FS_EmptySet

LEMMA FreshNext ==
  ASSUME SimulatorInv, RunAccounting, FreshInv, [Next]_vars
  PROVE  FreshInv'
<1>1. /\ history \in Seq(Seq(Frame)) /\ callStack \in Seq(Frame)
      /\ trace \in Seq(RegValue) /\ Len(trace) \in Nat
  BY DEF SimulatorInv, TypeOK
<1>2. CASE RunIteration
  <2>1. PICK e \in StepOne(callStack) : Execute(e)
    BY <1>2 DEF RunIteration
  <2>2. running /\ ~done
    BY <1>2 DEF RunIteration, SimulatorInv
  <2>3. callStack \in Stack /\ Sound(callStack)
    BY <2>2 DEF SimulatorInv, TypeOK, Stack
  <2>4. EffectOK(e) /\ Top(callStack).fn \in FunctionNames
    BY <2>3, StepSound, TopType DEF Sound, Known, Top
  <2>5. /\ history' = Append(history, callStack) /\ trace' = trace \o e.returned
        /\ e.returned \in Seq(RegValue)
    BY <2>1, <2>4 DEF Execute, EffectOK
  <2>6. Began(history'[1])
    <3>1. CASE history = <<>>
      <4>1. history'[1] = callStack
        BY <2>5, <3>1
      <4> QED BY <2>2, <3>1, <4>1 DEF FreshInv
    <3>2. CASE history # <<>>
      <4>1. history'[1] = history[1]
        BY <1>1, <2>5, <3>2
      <4> QED BY <2>2, <3>2, <4>1 DEF FreshInv, Answering
    <3> QED BY <3>1, <3>2
  <2>7. Len(trace') = Len(trace) + Len(e.returned)
    BY <1>1, <2>5
  <2>8. Len(e.returned) = IF Returning(callStack) THEN 1 ELSE 0
    <3>1. IF Returning(callStack) THEN Len(e.returned) = 1 ELSE e.returned = <<>>
      BY <2>3, <2>4, StepReturns
    <3>2. Len(<<>>) = 0
      OBVIOUS
    <3> QED BY <3>1, <3>2
  <2>9. Len(trace) = Cardinality(Returners(history))
    BY <2>2 DEF FreshInv, Answering
  <2>10. Len(trace') = Cardinality(Returners(history'))
    BY <1>1, <2>5, <2>7, <2>8, <2>9, ReturnersAppend
  <2> QED BY <2>5, <2>6, <2>10 DEF FreshInv, Began, Returners, Returning
<1>3. CASE Step
  <2>1. PICK e \in StepOne(callStack) :
          /\ Execute(e)
          /\ result' = IF e.error # "none" THEN e.error ELSE IF e.done THEN "false" ELSE "true"
    BY <1>3 DEF Step
  <2>2. ~done /\ ~running' /\ e.error \in (SimError \ {"MaxStepsExceeded"}) \cup {"none", "killed"}
    BY <1>3, <2>1, ExecuteInv DEF Step, Callable
  <2> QED BY <2>1, <2>2 DEF FreshInv, Answering, SimError
<1>4. ASSUME NEW name \in FunctionNames, RunStart(name) PROVE FreshInv'
  <2>1. history' = <<>> /\ trace' = <<>> /\ Began(callStack')
    BY <1>4 DEF RunStart, Cleared, Began
  <2>2. Len(trace') = Cardinality(Returners(history'))
    BY <2>1, NoReturners
  <2> QED BY <2>1, <2>2 DEF FreshInv, Began, Returners, Returning
<1>5. CASE RunUnknown("no such function")
  BY <1>5 DEF RunUnknown, Callable, FreshInv, Answering
<1>6. CASE StepDone
  BY <1>6 DEF StepDone, Callable, FreshInv, Answering
<1>7. ASSUME NEW steps \in 0 .. MaxHistory, Rewind(steps) PROVE FreshInv'
  BY <1>7 DEF Rewind, Callable, FreshInv, Answering
<1>8. CASE Reset
  BY <1>8 DEF Reset, Callable, FreshInv, Answering
<1>9. CASE UNCHANGED vars
  BY <1>9 DEF vars, FreshInv, Answering, Began, Returners, Returning
<1> QED BY <1>2, <1>3, <1>4, <1>5, <1>6, <1>7, <1>8, <1>9 DEF Next

\* run() answers for its own execution: it began in an entry frame, and every
\* value of the trace is one of its instructions' own.
THEOREM RunStartsAfresh == Spec => []RunIsFresh
<1>1. Init => FreshInv
  BY DEF Init, FreshInv, Answering
<1>2. SimulatorInv /\ RunAccounting /\ FreshInv /\ [Next]_vars => FreshInv'
  BY FreshNext
<1>3. FreshInv => RunIsFresh
  <2> SUFFICES ASSUME FreshInv, Answering PROVE RunIsFresh
    BY DEF RunIsFresh, Answering
  <2>1. ASSUME history # <<>> PROVE history[1] = <<EntryFrame(history[1][1].fn)>>
    <3>1. PICK name \in FunctionNames : history[1] = <<EntryFrame(name)>>
      BY <2>1 DEF FreshInv, Began
    <3>2. history[1][1].fn = name
      BY <3>1, EntryFrameType
    <3> QED BY <3>1, <3>2
  <2> QED BY <2>1 DEF FreshInv, RunIsFresh, Returners
<1> QED BY <1>1, <1>2, <1>3, SimulatorInvariant, RunAccounts, PTL DEF Spec

---------------------------------------------------------------------------
(***************************************************************************)
(* Every step of the simulator is a step of TimeTravel or a stutter, for   *)
(* every module and every limit.  The first part counts: what the i-th     *)
(* number of a set is, and that leaving out copies commutes with adding a  *)
(* state and with keeping the first states of a sequence.                  *)
(***************************************************************************)
LEMMA LeastNat ==
  ASSUME NEW S \in SUBSET Nat, S # {}
  PROVE  \E k \in S : \A j \in S : k <= j
<1>1. PICK x \in S : \A y \in S : ~ (<<y, x>> \in OpToRel(<, Nat))
  BY NatLessThanWellFounded, WFMin
<1>2. ASSUME NEW y \in S PROVE x <= y
  <2>1. x \in Nat /\ y \in Nat
    OBVIOUS
  <2>2. ~(y < x)
    BY <1>1, <2>1 DEF OpToRel
  <2> QED BY <2>1, <2>2
<1> QED BY <1>2

\* A set of numbers up to n is finite, and so is every part of it.
LEMMA Numbers ==
  ASSUME NEW n \in Nat, NEW S \in SUBSET (1 .. n)
  PROVE  /\ IsFiniteSet(S) /\ Cardinality(S) \in Nat
         /\ \A k \in S : k \in Nat /\ 1 <= k /\ k <= n
         /\ \A T \in SUBSET S : IsFiniteSet(T) /\ Cardinality(T) \in Nat
                                 /\ Cardinality(T) <= Cardinality(S)
<1>1. 1 \in Int /\ n \in Int
  OBVIOUS
<1>2. IsFiniteSet(1 .. n)
  BY <1>1, FS_Interval
<1>3. IsFiniteSet(S)
  BY <1>2, FS_Subset
<1>4. \A T \in SUBSET S : IsFiniteSet(T) /\ Cardinality(T) \in Nat
                          /\ Cardinality(T) <= Cardinality(S)
  BY <1>3, FS_Subset, FS_CardinalityType
<1>5. \A k \in S : k \in Nat /\ 1 <= k /\ k <= n
  OBVIOUS
<1> QED BY <1>3, <1>4, <1>5

\* Ranks grow with the numbers they rank, by one for each.
LEMMA RankGrows ==
  ASSUME NEW n \in Nat, NEW S \in SUBSET (1 .. n), NEW j \in S, NEW k \in S, j < k
  PROVE  Rank(S, j) \in Nat /\ Rank(S, k) \in Nat /\ Rank(S, j) < Rank(S, k)
<1> DEFINE J == {i \in S : i <= j}
           K == {i \in S : i <= k}
<1>1. IsFiniteSet(S)
  BY Numbers
<1>2. IsFiniteSet(J) /\ IsFiniteSet(K)
  BY <1>1, FS_Subset
<1>3. k \notin J /\ k \in K /\ J \subseteq K
  <2>1. \A i \in S : i \in Nat
    BY Numbers
  <2>2. j \in Nat /\ k \in Nat
    BY <2>1
  <2>3. ~(k <= j) /\ k <= k /\ \A i \in Nat : i <= j => i <= k
    BY <2>2
  <2>4. \A i \in S : i <= j => i <= k
    BY <2>1, <2>3
  <2> QED BY <2>3, <2>4
<1>4. Cardinality(J \cup {k}) = Cardinality(J) + 1
  BY <1>2, <1>3, FS_AddElement
<1>5. Cardinality(J \cup {k}) <= Cardinality(K)
  BY <1>2, <1>3, FS_Subset
<1>6. Cardinality(J) \in Nat /\ Cardinality(K) \in Nat
  BY <1>2, FS_CardinalityType
<1>7. Rank(S, j) = Cardinality(J) /\ Rank(S, k) = Cardinality(K)
  BY DEF Rank
<1> HIDE DEF J, K
<1> QED BY <1>4, <1>5, <1>6, <1>7

\* The numbers of S below k are one less than the rank of k.
LEMMA RankBelow ==
  ASSUME NEW n \in Nat, NEW S \in SUBSET (1 .. n), NEW k \in S
  PROVE  /\ Cardinality({j \in S : j < k}) \in Nat
         /\ Rank(S, k) = Cardinality({j \in S : j < k}) + 1
         /\ Rank(S, k) <= Cardinality(S) /\ Cardinality(S) \in Nat
<1> DEFINE J == {j \in S : j < k}
           K == {j \in S : j <= k}
<1>1. IsFiniteSet(S)
  BY Numbers
<1>2. IsFiniteSet(J) /\ Cardinality(J) \in Nat /\ Cardinality(S) \in Nat
  BY <1>1, FS_Subset, FS_CardinalityType
<1>3. k \notin J /\ K = J \cup {k}
  <2>1. \A j \in S : j \in Nat
    BY Numbers
  <2>2. \A j \in S : j <= k <=> j < k \/ j = k
    BY <2>1
  <2>3. ~(k < k)
    BY <2>1
  <2> QED BY <2>2, <2>3
<1>4. Cardinality(J \cup {k}) = Cardinality(J) + 1
  BY <1>2, <1>3, FS_AddElement
<1>5. Cardinality(K) <= Cardinality(S)
  BY <1>1, FS_Subset
<1>6. Rank(S, k) = Cardinality(K)
  BY DEF Rank
<1> HIDE DEF J, K
<1>7. Cardinality(K) = Cardinality(J) + 1
  BY <1>3, <1>4
<1> QED BY <1>2, <1>5, <1>6, <1>7 DEF J

\* Every rank up to the number of elements is taken.
LEMMA RankTaken ==
  ASSUME NEW n \in Nat, NEW S \in SUBSET (1 .. n), NEW i \in 1 .. Cardinality(S)
  PROVE  \E k \in S : Rank(S, k) = i
<1>1. SUFFICES ASSUME \A k \in S : Rank(S, k) # i PROVE FALSE
  OBVIOUS
<1>2. \A k \in S : k \in Nat /\ k <= n
  BY Numbers
<1>3. IsFiniteSet(S) /\ Cardinality(S) \in Nat /\ i \in Nat /\ i >= 1 /\ i <= Cardinality(S)
  <2>1. IsFiniteSet(S) /\ Cardinality(S) \in Nat
    BY Numbers
  <2> QED BY <2>1
<1> DEFINE Late == {k \in S : Rank(S, k) > i}
<1>4. PICK k \in Late : \A j \in Late : k <= j
  <2>1. S # {}
    BY <1>3, FS_EmptySet
  <2>2. PICK top \in S : \A j \in S : j <= top
    BY <1>2, <2>1, BoundedSetHasMax
  <2>3. Rank(S, top) = Cardinality(S)
    <3>1. {j \in S : j <= top} = S
      BY <2>2
    <3> QED BY <3>1 DEF Rank
  <2>4. Rank(S, top) > i
    BY <1>1, <1>3, <2>2, <2>3
  <2>5. Late \in SUBSET Nat /\ Late # {}
    BY <1>2, <2>2, <2>4
  <2> HIDE DEF Late
  <2> QED BY <2>5, LeastNat
<1> DEFINE Below == {j \in S : j < k}
<1>5. k \in S /\ Rank(S, k) > i /\ Rank(S, k) = Cardinality(Below) + 1 /\ Cardinality(Below) \in Nat
  BY <1>4, RankBelow
<1>6. Below \in SUBSET Nat /\ Below # {} /\ \A j \in Below : j <= n
  <2>1. Cardinality(Below) # 0
    BY <1>3, <1>5
  <2>2. Below # {}
    BY <2>1, FS_EmptySet
  <2> QED BY <1>2, <2>2
<1>7. PICK m \in Below : \A j \in Below : j <= m
  <2> HIDE DEF Below
  <2> QED BY <1>6, BoundedSetHasMax
<1>8. Rank(S, m) = Cardinality(Below)
  <2>1. \A j \in S : j <= m => j < k
    BY <1>2, <1>5, <1>7
  <2>2. {j \in S : j <= m} = Below
    BY <1>7, <2>1
  <2> QED BY <2>2 DEF Rank
<1>9. m \notin Late
  BY <1>2, <1>4, <1>5, <1>7
<1>10. m \in S /\ ~(Rank(S, m) > i) /\ Rank(S, m) # i
  BY <1>1, <1>7, <1>9
<1> HIDE DEF Below
<1> QED BY <1>3, <1>5, <1>8, <1>10

\* The i-th number of S is the one with rank i.
LEMMA NthIs ==
  ASSUME NEW n \in Nat, NEW S \in SUBSET (1 .. n), NEW i \in 1 .. Cardinality(S)
  PROVE  /\ Nth(S, i) \in S /\ Rank(S, Nth(S, i)) = i
         /\ \A k \in S : Rank(S, k) = i => k = Nth(S, i)
<1>1. Nth(S, i) \in S /\ Rank(S, Nth(S, i)) = i
  BY RankTaken DEF Nth
<1>2. ASSUME NEW k \in S, Rank(S, k) = i PROVE k = Nth(S, i)
  <2> DEFINE x == Nth(S, i)
  <2>1. x \in S /\ Rank(S, x) = i /\ k \in Int /\ x \in Int
    <3>1. \A y \in S : y \in Int
      BY Numbers
    <3> QED BY <1>1, <3>1
  <2> HIDE DEF x
  <2>2. ASSUME k < x PROVE FALSE
    <3>1. Rank(S, k) < Rank(S, x) /\ Rank(S, x) \in Nat
      BY <2>1, <2>2, RankGrows
    <3> QED BY <1>2, <2>1, <3>1
  <2>3. ASSUME x < k PROVE FALSE
    <3>1. Rank(S, x) < Rank(S, k) /\ Rank(S, x) \in Nat
      BY <2>1, <2>3, RankGrows
    <3> QED BY <1>2, <2>1, <3>1
  <2> QED BY <2>1, <2>2, <2>3 DEF x
<1> QED BY <1>1, <1>2

---------------------------------------------------------------------------
\* The last state is never left out, and it is the last of what is kept.
LEMMA LastsType ==
  ASSUME NEW T, NEW states \in Seq(T), states # <<>>
  PROVE  LET S == Lasts(states)
             n == Len(states)
         IN  /\ n \in Nat \ {0} /\ S \in SUBSET (1 .. n) /\ n \in S
             /\ Cardinality(S) \in Nat \ {0} /\ Nth(S, Cardinality(S)) = n
             /\ \A k \in 1 .. n - 1 : k \in S <=> states[k] # states[k + 1]
<1> DEFINE S == Lasts(states)
           n == Len(states)
<1>1. n \in Nat \ {0} /\ S \in SUBSET (1 .. n) /\ n \in S
  BY DEF Lasts
<1>2. \A k \in 1 .. n - 1 : k \in S <=> states[k] # states[k + 1]
  BY DEF Lasts
<1> HIDE DEF S, n
<1>3. Cardinality(S) \in Nat \ {0}
  <2>1. Cardinality(S) \in Nat /\ IsFiniteSet(S)
    BY <1>1, Numbers
  <2> QED BY <1>1, <2>1, FS_EmptySet
<1>4. Rank(S, n) = Cardinality(S)
  <2>1. \A j \in S : j <= n
    BY <1>1, Numbers
  <2>2. {j \in S : j <= n} = S
    BY <2>1
  <2> QED BY <2>2 DEF Rank
<1>5. Nth(S, Cardinality(S)) = n
  <2>1. Cardinality(S) \in 1 .. Cardinality(S)
    BY <1>3
  <2> QED BY <1>1, <1>4, <2>1, NthIs
<1> QED BY <1>1, <1>2, <1>3, <1>5 DEF S, n

LEMMA CopiesType ==
  ASSUME NEW T, NEW states \in Seq(T), states # <<>>
  PROVE  /\ WithoutCopies(states) \in Seq(T)
         /\ Len(WithoutCopies(states)) = Cardinality(Lasts(states))
         /\ \A i \in 1 .. Cardinality(Lasts(states)) :
              WithoutCopies(states)[i] = states[Nth(Lasts(states), i)]
         /\ WithoutCopies(states)[Len(WithoutCopies(states))] = states[Len(states)]
<1> DEFINE S == Lasts(states)
           n == Len(states)
           m == Cardinality(S)
<1>1. /\ n \in Nat \ {0} /\ S \in SUBSET (1 .. n) /\ m \in Nat \ {0} /\ Nth(S, m) = n
  BY LastsType
<1>2. WithoutCopies(states) = [i \in 1 .. m |-> states[Nth(S, i)]]
  BY DEF WithoutCopies
<1>3. \A i \in 1 .. m : Nth(S, i) \in 1 .. n
  <2> HIDE DEF S
  <2> QED BY <1>1, NthIs
<1>4. \A i \in 1 .. m : states[Nth(S, i)] \in T
  BY <1>3
<1> HIDE DEF S, m
<1> QED BY <1>1, <1>2, <1>4 DEF S, m

\* A row of equal states has one value throughout.
LEMMA SameRow ==
  ASSUME NEW T, NEW states \in Seq(T), NEW k \in 1 .. Len(states), NEW l \in k .. Len(states),
         \A j \in k .. l - 1 : j \notin Lasts(states)
  PROVE  states[l] = states[k]
<1> DEFINE D == {j \in k .. l : states[j] # states[k]}
<1>1. SUFFICES ASSUME D # {} PROVE FALSE
  <2>1. l \in k .. l
    OBVIOUS
  <2> QED BY <2>1
<1>2. D \in SUBSET Nat
  OBVIOUS
<1>3. PICK j \in D : \A i \in D : j <= i
  <2> HIDE DEF D
  <2> QED BY <1>1, <1>2, LeastNat
<1>4. j \in k .. l /\ states[j] # states[k] /\ j # k
  BY <1>3
<1>5. j - 1 \in k .. l - 1 /\ j - 1 \in 1 .. Len(states) - 1 /\ j - 1 \in k .. l /\ ~(j <= j - 1)
  BY <1>4
<1>6. states[j - 1] = states[k]
  BY <1>3, <1>5
<1>7. states[j - 1] = states[(j - 1) + 1]
  BY <1>5, LastsType DEF Lasts
<1>8. (j - 1) + 1 = j
  BY <1>4
<1> QED BY <1>4, <1>6, <1>7, <1>8

\* Leaving out the copies of the first states leaves the first of the others.
LEMMA CopiesPrefix ==
  ASSUME NEW T, NEW states \in Seq(T), NEW p \in Seq(T), p # <<>>, Len(p) <= Len(states),
         \A i \in 1 .. Len(p) : p[i] = states[i]
  PROVE  LET m == Cardinality(Lasts(p))
         IN  /\ m \in 1 .. Len(WithoutCopies(states))
             /\ WithoutCopies(p) = SubSeq(WithoutCopies(states), 1, m)
<1> DEFINE S == Lasts(states)
           P == Lasts(p)
           n == Len(states)
           k == Len(p)
           m == Cardinality(P)
<1>1. /\ n \in Nat \ {0} /\ k \in Nat \ {0} /\ k \in 1 .. n /\ states # <<>>
  OBVIOUS
<1>2. /\ S \in SUBSET (1 .. n) /\ n \in S /\ Cardinality(S) \in Nat \ {0}
      /\ \A j \in 1 .. n - 1 : j \in S <=> states[j] # states[j + 1]
  BY <1>1, LastsType
<1>3. /\ P \in SUBSET (1 .. k) /\ k \in P /\ m \in Nat \ {0} /\ Nth(P, m) = k
      /\ \A j \in 1 .. k - 1 : j \in P <=> p[j] # p[j + 1]
  BY LastsType
<1> HIDE DEF S, P
<1>4. \A j \in 1 .. k - 1 : j \in P <=> j \in S
  <2> SUFFICES ASSUME NEW j \in 1 .. k - 1 PROVE j \in P <=> j \in S
    OBVIOUS
  <2>1. j \in 1 .. n - 1 /\ p[j] = states[j] /\ p[j + 1] = states[j + 1]
    BY <1>1
  <2> QED BY <1>2, <1>3, <2>1
<1> DEFINE Below == {j \in S : j < k}
<1>5. Below = {j \in P : j < k}
  <2>1. \A j \in S : j \in Nat /\ 1 <= j
    BY <1>1, <1>2, Numbers
  <2>2. \A j \in P : j \in Nat /\ 1 <= j
    BY <1>1, <1>3, Numbers
  <2>3. \A j \in Nat : 1 <= j /\ j < k <=> j \in 1 .. k - 1
    BY <1>1
  <2>4. \A j : j \in S /\ j < k <=> j \in P /\ j < k
    BY <1>4, <2>1, <2>2, <2>3
  <2> QED BY <2>4
<1>6. Cardinality(Below) \in Nat /\ m = Cardinality(Below) + 1
  <2>1. /\ Cardinality({j \in P : j < k}) \in Nat
        /\ Rank(P, k) = Cardinality({j \in P : j < k}) + 1
    BY <1>1, <1>3, RankBelow
  <2>2. Rank(P, k) = m
    <3>1. m \in 1 .. Cardinality(P)
      BY <1>3
    <3> QED BY <1>1, <1>3, <3>1, NthIs
  <2> QED BY <1>5, <2>1, <2>2
<1>7. m <= Cardinality(S)
  <2>1. Below \subseteq {j \in S : j < n}
    <3>1. \A j \in S : j \in Nat
      BY <1>1, <1>2, Numbers
    <3>2. \A j \in Nat : j < k => j < n
      BY <1>1
    <3> QED BY <3>1, <3>2
  <2>2. /\ Rank(S, n) = Cardinality({j \in S : j < n}) + 1 /\ Rank(S, n) <= Cardinality(S)
        /\ Cardinality({j \in S : j < n}) \in Nat
    BY <1>1, <1>2, RankBelow
  <2>3. Cardinality(Below) <= Cardinality({j \in S : j < n})
    <3>1. IsFiniteSet({j \in S : j < n})
      <4>1. {j \in S : j < n} \in SUBSET S
        OBVIOUS
      <4> QED BY <1>1, <1>2, <4>1, Numbers
    <3> QED BY <2>1, <3>1, FS_Subset
  <2> HIDE DEF Below
  <2> QED BY <1>2, <1>6, <2>2, <2>3
\* The m-th state kept is the end of the row of the k-th state.
<1>8. states[Nth(S, m)] = p[k]
  <2> DEFINE x == Nth(S, m)
  <2>1. m \in 1 .. Cardinality(S)
    BY <1>2, <1>3, <1>7
  <2>2. x \in S /\ Rank(S, x) = m
    BY <1>1, <1>2, <2>1, NthIs
  <2>3. x \in Nat /\ x <= n /\ \A j \in S : j \in Nat
    BY <1>1, <1>2, <2>2, Numbers
  <2> HIDE DEF x
  <2>4. ASSUME NEW R \in SUBSET {j \in S : j <= x} PROVE Cardinality(R) <= m
    <3>1. IsFiniteSet({j \in S : j <= x})
      <4>1. {j \in S : j <= x} \in SUBSET S
        OBVIOUS
      <4> QED BY <1>1, <1>2, <4>1, Numbers
    <3> QED BY <2>2, <3>1, FS_Subset DEF Rank
  <2>5. IsFiniteSet(Below)
    <3>1. Below \in SUBSET S
      OBVIOUS
    <3> QED BY <1>1, <1>2, <3>1, Numbers
  <2>6. k <= x
    <3> SUFFICES ASSUME x < k PROVE FALSE
      BY <1>1, <2>3
    <3>1. \A j \in S : j <= x => j < k
      BY <1>1, <2>3
    <3>2. {j \in S : j <= x} \in SUBSET Below
      BY <3>1
    <3>3. m <= Cardinality(Below)
      BY <2>2, <2>5, <3>2, FS_Subset DEF Rank
    <3> HIDE DEF Below
    <3> QED BY <1>3, <1>6, <3>3
  <2>7. ASSUME NEW j \in k .. x - 1, j \in S PROVE FALSE
    <3>1. j \in Nat /\ ~(j < k) /\ j <= x /\ ~(x < k) /\ x <= x /\ j # x
          /\ \A i \in Nat : i < k => i <= x
      BY <1>1, <2>3, <2>6, <2>7
    <3>2. \A i \in S : i < k => i <= x
      BY <2>3, <3>1
    <3>3. (Below \cup {j}) \cup {x} \in SUBSET {i \in S : i <= x}
      BY <2>2, <2>7, <3>1, <3>2
    <3>4. j \notin Below /\ x \notin Below \cup {j}
      BY <3>1
    <3> HIDE DEF Below
    <3>5. IsFiniteSet(Below \cup {j}) /\ Cardinality(Below \cup {j}) = Cardinality(Below) + 1
      BY <2>5, <3>4, FS_AddElement
    <3>6. Cardinality((Below \cup {j}) \cup {x}) = Cardinality(Below \cup {j}) + 1
      BY <3>4, <3>5, FS_AddElement
    <3>7. Cardinality((Below \cup {j}) \cup {x}) <= m
      BY <2>4, <3>3
    <3> QED BY <1>6, <3>5, <3>6, <3>7
  <2>8. k \in 1 .. Len(states) /\ x \in k .. Len(states)
    BY <1>1, <2>3, <2>6
  <2>9. states[x] = states[k]
    BY <2>7, <2>8, SameRow DEF S
  <2> QED BY <1>1, <2>9 DEF x
\* The states kept before it are the same.
<1>9. ASSUME NEW i \in 1 .. m - 1 PROVE Nth(S, i) = Nth(P, i) /\ Nth(P, i) \in 1 .. k - 1
  <2> DEFINE x == Nth(P, i)
  <2>1. i \in 1 .. Cardinality(P) /\ i \in 1 .. Cardinality(S) /\ i # m
    BY <1>2, <1>3, <1>7, <1>9
  <2>2. x \in P /\ Rank(P, x) = i
    BY <1>1, <1>3, <2>1, NthIs
  <2>3. x \in Nat /\ 1 <= x /\ x <= k /\ x # k
    <3>1. Rank(P, k) = m
      <4>1. m \in 1 .. Cardinality(P)
        BY <1>3
      <4> QED BY <1>1, <1>3, <4>1, NthIs
    <3> QED BY <1>1, <1>3, <2>1, <2>2, <3>1, Numbers
  <2> HIDE DEF x
  <2>4. x \in 1 .. k - 1
    BY <1>1, <2>3
  <2>5. {j \in P : j <= x} = {j \in S : j <= x}
    <3>1. \A j \in S : j \in Nat /\ 1 <= j
      BY <1>1, <1>2, Numbers
    <3>2. \A j \in P : j \in Nat /\ 1 <= j
      BY <1>1, <1>3, Numbers
    <3>3. \A j \in Nat : 1 <= j /\ j <= x => j \in 1 .. k - 1
      BY <1>1, <2>3
    <3>4. \A j : j \in S /\ j <= x <=> j \in P /\ j <= x
      BY <1>4, <3>1, <3>2, <3>3
    <3> QED BY <3>4
  <2>6. x \in S /\ Rank(S, x) = i
    BY <1>4, <2>2, <2>4, <2>5 DEF Rank
  <2>7. x = Nth(S, i)
    BY <1>1, <1>2, <2>1, <2>6, NthIs
  <2> QED BY <2>4, <2>7 DEF x
<1> DEFINE v == WithoutCopies(states)
           w == WithoutCopies(p)
<1>10. /\ v \in Seq(T) /\ Len(v) = Cardinality(S)
       /\ \A i \in 1 .. Cardinality(S) : v[i] = states[Nth(S, i)]
  BY <1>1, CopiesType DEF S
<1>11. /\ w \in Seq(T) /\ Len(w) = m /\ \A i \in 1 .. m : w[i] = p[Nth(P, i)]
  BY CopiesType DEF P
<1> HIDE DEF v, w, m, k
<1>12. m \in 0 .. Len(v) /\ m \in 1 .. Len(v)
  BY <1>2, <1>3, <1>7, <1>10
<1>13. /\ SubSeq(v, 1, m) \in Seq(T) /\ Len(SubSeq(v, 1, m)) = m
       /\ \A i \in 1 .. m : SubSeq(v, 1, m)[i] = v[i]
  BY <1>10, <1>12, Prefix
<1>14. \A i \in 1 .. m : w[i] = v[i]
  <2> SUFFICES ASSUME NEW i \in 1 .. m PROVE w[i] = v[i]
    OBVIOUS
  <2>1. i \in 1 .. Cardinality(S) /\ (i = m \/ i \in 1 .. m - 1)
    BY <1>10, <1>12
  <2>2. w[i] = p[Nth(P, i)] /\ v[i] = states[Nth(S, i)]
    BY <1>10, <1>11, <2>1
  <2>3. CASE i = m
    BY <1>3, <1>8, <2>2, <2>3
  <2>4. CASE i \in 1 .. m - 1
    <3>1. Nth(S, i) = Nth(P, i) /\ Nth(P, i) \in 1 .. k - 1
      BY <1>9, <2>4
    <3>2. Nth(P, i) \in 1 .. k
      BY <1>1, <3>1
    <3> QED BY <2>2, <3>1, <3>2 DEF k
  <2> QED BY <2>1, <2>3, <2>4
<1>15. \A i \in 1 .. m : w[i] = SubSeq(v, 1, m)[i]
  BY <1>13, <1>14
<1>16. w = SubSeq(v, 1, m)
  BY <1>11, <1>13, <1>15, SeqEqual
<1> QED BY <1>12, <1>16 DEF v, w, m, P

LEMMA AppendParts ==
  ASSUME NEW T, NEW h \in Seq(T), NEW t \in T
  PROVE  /\ Append(h, t) \in Seq(T) /\ Append(h, t) # <<>> /\ Len(Append(h, t)) = Len(h) + 1
         /\ Append(h, t)[Len(h) + 1] = t /\ \A k \in 1 .. Len(h) : Append(h, t)[k] = h[k]
OBVIOUS

\* A state added behind the others is left out when it is a copy of the last.
LEMMA CopiesAppend ==
  ASSUME NEW T, NEW states \in Seq(T), states # <<>>, NEW t \in T
  PROVE  WithoutCopies(Append(states, t))
         = IF t = states[Len(states)] THEN WithoutCopies(states)
                                      ELSE Append(WithoutCopies(states), t)
<1> DEFINE more == Append(states, t)
           S == Lasts(states)
           M == Lasts(more)
           n == Len(states)
           v == WithoutCopies(states)
           w == WithoutCopies(more)
<1>1. /\ n \in Nat \ {0} /\ more \in Seq(T) /\ Len(more) = n + 1 /\ more # <<>> /\ more[n + 1] = t
      /\ \A i \in 1 .. n : more[i] = states[i]
  OBVIOUS
<1> HIDE DEF more
<1>2. /\ S \in SUBSET (1 .. n) /\ n \in S /\ Cardinality(S) \in Nat \ {0}
      /\ \A k \in 1 .. n - 1 : k \in S <=> states[k] # states[k + 1]
  BY LastsType
<1>3. /\ M \in SUBSET (1 .. n + 1) /\ n + 1 \in M /\ Cardinality(M) \in Nat \ {0}
      /\ \A k \in 1 .. n : k \in M <=> more[k] # more[k + 1]
  BY <1>1, LastsType
<1>4. Cardinality(S) \in 1 .. Len(w) /\ v = SubSeq(w, 1, Cardinality(S))
  BY <1>1, CopiesPrefix
<1>5. /\ w \in Seq(T) /\ Len(w) = Cardinality(M) /\ w[Len(w)] = t
  BY <1>1, CopiesType
<1>6. v \in Seq(T) /\ Len(v) = Cardinality(S)
  BY CopiesType
<1>7. \A k \in 1 .. n - 1 : k \in M <=> k \in S
  <2> SUFFICES ASSUME NEW k \in 1 .. n - 1 PROVE k \in M <=> k \in S
    OBVIOUS
  <2>1. k \in 1 .. n /\ k + 1 \in 1 .. n
    BY <1>1
  <2> QED BY <1>1, <1>2, <1>3, <2>1
<1>8. n \in M <=> t # states[n]
  BY <1>1, <1>3
<1> HIDE DEF S, M, v, w, n
<1>9. IsFiniteSet(S) /\ n + 1 \notin S
  <2>1. IsFiniteSet(S) /\ \A k \in S : k \in Nat /\ k <= n
    BY <1>1, <1>2, Numbers
  <2>2. ~(n + 1 <= n)
    BY <1>1
  <2> QED BY <2>1, <2>2
<1>10. \A k : k \in S => k \in 1 .. n - 1 \/ k = n
  BY <1>1, <1>2
<1>11. \A k : k \in M => k \in 1 .. n - 1 \/ k = n \/ k = n + 1
  BY <1>1, <1>3
<1>12. /\ SubSeq(w, 1, Cardinality(S)) \in Seq(T)
       /\ \A i \in 1 .. Cardinality(S) : v[i] = w[i]
  <2>1. Cardinality(S) \in 0 .. Len(w)
    BY <1>4
  <2> QED BY <1>4, <1>5, <2>1, Prefix
<1>13. CASE t = states[n]
  <2>1. M = (S \ {n}) \cup {n + 1}
    BY <1>2, <1>3, <1>7, <1>8, <1>9, <1>10, <1>11, <1>13
  <2>2. IsFiniteSet(S \ {n}) /\ Cardinality(S \ {n}) = Cardinality(S) - 1
    BY <1>2, <1>9, FS_RemoveElement
  <2>3. n + 1 \notin S \ {n}
    BY <1>9
  <2>4. Cardinality(M) = (Cardinality(S) - 1) + 1
    BY <2>1, <2>2, <2>3, FS_AddElement
  <2>5. Len(w) = Len(v)
    BY <1>2, <1>5, <1>6, <2>4
  <2>6. v = w
    BY <1>5, <1>6, <1>12, <2>5, SeqEqual
  <2> QED BY <1>13, <2>6 DEF v, w, more, n
<1>14. CASE t # states[n]
  <2>1. M = S \cup {n + 1}
    BY <1>2, <1>3, <1>7, <1>8, <1>10, <1>11, <1>14
  <2>2. Cardinality(M) = Cardinality(S) + 1
    BY <1>9, <2>1, FS_AddElement
  <2> DEFINE u == Append(v, t)
  <2>3. /\ u \in Seq(T) /\ Len(u) = Len(v) + 1 /\ u[Len(v) + 1] = t
        /\ \A i \in 1 .. Len(v) : u[i] = v[i]
    BY <1>6
  <2> HIDE DEF u
  <2>4. Len(w) = Len(u)
    BY <1>5, <1>6, <2>2, <2>3
  <2>5. \A i \in 1 .. Len(u) : u[i] = w[i]
    <3> SUFFICES ASSUME NEW i \in 1 .. Len(u) PROVE u[i] = w[i]
      OBVIOUS
    <3>1. i \in 1 .. Len(v) \/ i = Len(v) + 1
      BY <1>2, <1>6, <2>3
    <3> QED BY <1>5, <1>6, <1>12, <2>3, <2>4, <3>1
  <2>6. u = w
    BY <1>5, <2>3, <2>4, <2>5, SeqEqual
  <2> QED BY <1>14, <2>6 DEF v, w, more, n, u
<1> QED BY <1>13, <1>14

LEMMA CopiesSingle ==
  ASSUME NEW T, NEW t \in T
  PROVE  WithoutCopies(<<t>>) = <<t>>
<1> DEFINE p == <<t>>
           w == WithoutCopies(p)
<1>1. p \in Seq(T) /\ Len(p) = 1 /\ p[1] = t /\ p # <<>>
  OBVIOUS
<1>2. Lasts(p) = {1}
  BY <1>1 DEF Lasts
<1>3. Cardinality(Lasts(p)) = 1
  BY <1>2, FS_Singleton
<1> HIDE DEF p
<1>4. w \in Seq(T) /\ Len(w) = 1 /\ w[Len(w)] = t
  BY <1>1, <1>3, CopiesType
<1> HIDE DEF w
<1>5. \A i \in 1 .. Len(w) : w[i] = p[i]
  BY <1>1, <1>4
<1>6. w = p
  BY <1>1, <1>4, <1>5, SeqEqual
<1> QED BY <1>6 DEF p, w

---------------------------------------------------------------------------
\* The refinement mapping, and one step of it for each action.
Path == WithoutCopies(Append(history, callStack))

LEMMA PathType ==
  ASSUME TypeOK
  PROVE  /\ Append(history, callStack) \in Seq(Seq(Frame)) /\ Append(history, callStack) # <<>>
         /\ Path \in Seq(Seq(Frame)) /\ Len(Path) \in Nat \ {0}
         /\ Path[Len(Path)] = callStack
<1> DEFINE states == Append(history, callStack)
<1>1. states \in Seq(Seq(Frame)) /\ states # <<>> /\ states[Len(states)] = callStack
  <2>1. history \in Seq(Seq(Frame)) /\ callStack \in Seq(Frame)
    BY DEF TypeOK
  <2> QED BY <2>1, AppendParts
<1> HIDE DEF states
<1>2. Path \in Seq(Seq(Frame)) /\ Len(Path) = Cardinality(Lasts(states))
      /\ Path[Len(Path)] = states[Len(states)]
  BY <1>1, CopiesType DEF Path, states
<1>3. Cardinality(Lasts(states)) \in Nat \ {0}
  BY <1>1, LastsType
<1> QED BY <1>1, <1>2, <1>3 DEF states

\* A path of one state, for the actions that clear the snapshots.
LEMMA ClearedPath ==
  ASSUME NEW s \in Seq(Frame)
  PROVE  WithoutCopies(Append(<<>>, s)) = <<s>>
<1>1. Append(<<>>, s) = <<s>>
  OBVIOUS
<1> QED BY <1>1, CopiesSingle

\* Executing an instruction goes forward, or stays when it changes nothing.
LEMMA ExecuteGoesOn ==
  ASSUME TypeOK, NEW e \in StepOne(callStack), Execute(e), callStack' \in Seq(Frame)
  PROVE  Path' = Path \/ Debugger!Forward
<1> DEFINE states == Append(history, callStack)
<1>1. states \in Seq(Seq(Frame)) /\ states # <<>> /\ states[Len(states)] = callStack
      /\ Path[Len(Path)] = callStack
  BY PathType DEF TypeOK
<1>2. history' = states /\ callStack' = e.stack
  BY DEF Execute
<1>3. Path' = WithoutCopies(Append(states, callStack'))
  BY <1>2 DEF Path
<1>4. Path = WithoutCopies(states)
  BY DEF Path
<1> HIDE DEF states
<1>5. Path' = Path \/ Path' = Append(Path, callStack')
  BY <1>1, <1>3, <1>4, CopiesAppend
<1>6. callStack' \in Successors(callStack)
  BY <1>2 DEF Successors
<1>7. Path' = Append(Path, callStack') => Path' \in {Append(Path, t) : t \in Successors(Path[Len(Path)])}
  BY <1>1, <1>6
<1> QED BY <1>5, <1>7 DEF Debugger!Forward, Debugger!Shown, Path

\* Rewinding goes back to a state of the path, or forgets the path.
LEMMA RewindGoesBack ==
  ASSUME TypeOK, NEW steps \in 0 .. MaxHistory, Rewind(steps)
  PROVE  Path' = Path \/ Debugger!Back \/ Debugger!Forget
<1> DEFINE kept == IF steps < Len(history) THEN Len(history) - steps ELSE 0
           states == Append(history, callStack)
<1>1. /\ history' = SubSeq(history, 1, kept)
      /\ IF kept > 0 THEN callStack' = history[kept] ELSE callStack' = callStack
  BY DEF Rewind
<1>2. kept \in 0 .. Len(history) /\ history \in Seq(Seq(Frame)) /\ Len(history) \in Nat
      /\ callStack \in Seq(Frame)
  BY BoundAssumption DEF TypeOK
<1>3. /\ states \in Seq(Seq(Frame)) /\ states # <<>> /\ Len(states) = Len(history) + 1
      /\ \A k \in 1 .. Len(history) : states[k] = history[k]
  BY <1>2, AppendParts
<1>4. Path = WithoutCopies(states) /\ Path' = WithoutCopies(Append(history', callStack'))
  BY DEF Path
<1>5. Path[Len(Path)] = callStack /\ Path \in Seq(Seq(Frame)) /\ Len(Path) \in Nat \ {0}
  BY PathType
<1> HIDE DEF kept, states
<1>6. /\ history' \in Seq(Seq(Frame)) /\ Len(history') = kept
      /\ \A k \in 1 .. kept : history'[k] = history[k]
  BY <1>1, <1>2, Prefix
<1>7. CASE kept = 0
  <2>1. history' = <<>> /\ callStack' = callStack
    BY <1>1, <1>2, <1>6, <1>7
  <2>2. Path' = <<callStack>>
    BY <1>2, <1>4, <2>1, ClearedPath
  <2>3. Path' = <<Path[Len(Path)]>>
    BY <1>5, <2>2
  <2> QED BY <2>3 DEF Debugger!Forget, Debugger!Shown, Path
<1>8. CASE kept # 0
  <2>1. kept \in 1 .. Len(history) /\ kept > 0 /\ callStack' = history[kept]
    BY <1>1, <1>2, <1>8
  <2>2. history' # <<>> /\ history'[Len(history')] = callStack' /\ callStack' \in Seq(Frame)
    BY <1>2, <1>6, <2>1
  <2>3. Path' = WithoutCopies(history')
    BY <1>4, <1>6, <2>2, CopiesAppend
  <2>4. Len(history') <= Len(states) /\ \A k \in 1 .. Len(history') : history'[k] = states[k]
    <3>1. Len(history') <= Len(states)
      BY <1>2, <1>3, <1>6
    <3>2. ASSUME NEW k \in 1 .. Len(history') PROVE history'[k] = states[k]
      <4>1. k \in 1 .. kept /\ k \in 1 .. Len(history)
        BY <1>2, <1>6
      <4> QED BY <1>3, <1>6, <4>1
    <3> QED BY <3>1, <3>2
  <2> DEFINE m == Cardinality(Lasts(history'))
  <2>5. m \in 1 .. Len(Path) /\ Path' = SubSeq(Path, 1, m)
    BY <1>3, <1>4, <1>6, <2>2, <2>3, <2>4, CopiesPrefix
  <2> HIDE DEF m
  <2>6. CASE m = Len(Path)
    <3>1. m \in 0 .. Len(Path)
      BY <1>5, <2>5
    <3>2. SubSeq(Path, 1, m) \in Seq(Seq(Frame)) /\ Len(SubSeq(Path, 1, m)) = m
          /\ \A k \in 1 .. m : SubSeq(Path, 1, m)[k] = Path[k]
      BY <1>5, <3>1, Prefix
    <3>3. SubSeq(Path, 1, m) = Path
      BY <1>5, <2>6, <3>2, SeqEqual
    <3> QED BY <2>5, <3>3
  <2>7. CASE m # Len(Path)
    <3>1. m \in 1 .. Len(Path) - 1
      BY <1>5, <2>5, <2>7
    <3>2. Path' \in {SubSeq(Path, 1, k) : k \in 1 .. Len(Path) - 1}
      BY <2>5, <3>1
    <3> QED BY <3>2 DEF Debugger!Back, Path
  <2> QED BY <2>6, <2>7
<1> QED BY <1>7, <1>8

LEMMA StartsADebugger == Init => Debugger!Init
<1> SUFFICES ASSUME Init PROVE Debugger!Init
  OBVIOUS
<1>1. Path = <<callStack>> /\ callStack = <<>>
  BY ClearedPath, EmptyIsASequence DEF Init, Path
<1> QED BY <1>1 DEF Debugger!Init, Path

LEMMA StepsADebugger ==
  ASSUME SimulatorInv, SimulatorInv', [Next]_vars
  PROVE  Debugger!Next \/ Path' = Path
<1>1. TypeOK /\ TypeOK' /\ callStack' \in Seq(Frame)
  BY DEF SimulatorInv, TypeOK
<1> DEFINE starts == {<<>>} \cup {<<EntryFrame(name)>> : name \in FunctionNames}
<1>2. ASSUME history' = <<>>, callStack' \in starts PROVE Debugger!Begin
  <2>1. Path' = <<callStack'>>
    BY <1>1, <1>2, ClearedPath DEF Path
  <2>2. Path' \in {<<s>> : s \in starts}
    BY <1>2, <2>1
  <2> QED BY <2>2 DEF Debugger!Begin, Path
<1>3. ASSUME UNCHANGED <<history, callStack>> PROVE Path' = Path
  BY <1>3 DEF Path
<1>4. CASE RunIteration
  <2>1. PICK e \in StepOne(callStack) : Execute(e)
    BY <1>4 DEF RunIteration
  <2> QED BY <1>1, <2>1, ExecuteGoesOn DEF Debugger!Next
<1>5. CASE Step
  <2>1. PICK e \in StepOne(callStack) : Execute(e)
    BY <1>5 DEF Step
  <2> QED BY <1>1, <2>1, ExecuteGoesOn DEF Debugger!Next
<1>6. ASSUME NEW name \in FunctionNames, RunStart(name) PROVE Debugger!Next
  <2>1. history' = <<>> /\ callStack' \in starts
    BY <1>6 DEF RunStart, Cleared
  <2> QED BY <1>2, <2>1 DEF Debugger!Next
<1>7. ASSUME NEW steps \in 0 .. MaxHistory, Rewind(steps) PROVE Debugger!Next \/ Path' = Path
  BY <1>1, <1>7, RewindGoesBack DEF Debugger!Next
<1>8. CASE Reset
  <2>1. history' = <<>> /\ callStack' \in starts
    BY <1>8 DEF Reset, Cleared
  <2> QED BY <1>2, <2>1 DEF Debugger!Next
<1>9. CASE RunUnknown("no such function") \/ StepDone \/ UNCHANGED vars
  BY <1>3, <1>9 DEF RunUnknown, StepDone, vars
<1> QED BY <1>4, <1>5, <1>6, <1>7, <1>8, <1>9 DEF Next

\* run, step, rewind and reset, in whatever order they are called, move along
\* executions only: Simulator implements TimeTravel.
THEOREM SimulatorImplementsTimeTravel == Spec => ImplementsTimeTravel
<1>1. Init => Debugger!Init
  BY StartsADebugger
<1>2. SimulatorInv /\ SimulatorInv' /\ [Next]_vars => [Debugger!Next]_Path
  BY StepsADebugger
<1>3. SimulatorInv /\ SimulatorInv' /\ [Next]_vars
        => [Debugger!Next]_(WithoutCopies(Append(history, callStack)))
  BY <1>2 DEF Path
<1> QED BY <1>1, <1>3, SimulatorInvariant, PTL DEF Spec, ImplementsTimeTravel, Debugger!Spec
=============================================================================
