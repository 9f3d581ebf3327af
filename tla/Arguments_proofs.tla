--------------------------- MODULE Arguments_proofs ---------------------------
(***************************************************************************)
(* What the machine records, reads and writes is what the processor's      *)
(* constraints derive from its rows, for every program, every input and    *)
(* every length of the execution.                                          *)
(*                                                                         *)
(* An argument compares bags, or sequences.  The proofs go transition by   *)
(* transition; for bags they exhibit the permutation between the rows      *)
(* recorded and the rows derived.                                          *)
(***************************************************************************)
EXTENDS ProcessorAir, VM_proofs, InductionLemmas

LOCAL S == INSTANCE SequencesExt

------------------------------------------------------------------------------
(* Accumulating, transition by transition. *)

\* Flattening is concatenating one by one, as its recursion says.
FlattenedOneByOne(f, s, n) ==
    f = [i \in 1 .. n |-> IF i = 1 THEN s[i] ELSE f[i - 1] \o s[i]]

\* The function FlattenSeq is read off satisfies its equation.
LEMMA FlattenedAt ==
    ASSUME NEW f, NEW s, NEW n \in Nat, FlattenedOneByOne(f, s, n), NEW i \in 1 .. n
    PROVE  f[i] = IF i = 1 THEN s[i] ELSE f[i - 1] \o s[i]
<1> DEFINE h == [j \in 1 .. n |-> IF j = 1 THEN s[j] ELSE f[j - 1] \o s[j]]
<1>1. f = h
    BY DEF FlattenedOneByOne
<1>2. h[i] = IF i = 1 THEN s[i] ELSE f[i - 1] \o s[i]
    OBVIOUS
<1> HIDE DEF h
<1> QED BY <1>1, <1>2

\* FlattenSeq is that function at the length of its argument.
LEMMA FlattenUnfolds ==
    ASSUME NEW s, NEW n \in Nat \ {0}, Len(s) = n
    PROVE  \E f : FlattenedOneByOne(f, s, n) /\ S!FlattenSeq(s) = f[n]
<1> DEFINE T == {m \in Nat : m > 0 => \E f : FlattenedOneByOne(f, s, m)}
<1>1. 0 \in T
    OBVIOUS
<1>2. ASSUME NEW m \in Nat, m \in T PROVE m + 1 \in T
    <2>1. CASE m = 0
        <3>1. FlattenedOneByOne([i \in 1 .. 1 |-> s[i]], s, 1)
            BY DEF FlattenedOneByOne
        <3> QED BY <2>1, <3>1
    <2>2. CASE m > 0
        <3>1. PICK f : FlattenedOneByOne(f, s, m)
            BY <1>2, <2>2
        <3> DEFINE g == [i \in 1 .. (m + 1) |-> IF i = m + 1 THEN f[m] \o s[i] ELSE f[i]]
        <3>2. \A i \in 1 .. (m + 1) : g[i] = IF i = 1 THEN s[i] ELSE g[i - 1] \o s[i]
            <4> SUFFICES ASSUME NEW i \in 1 .. (m + 1)
                         PROVE  g[i] = IF i = 1 THEN s[i] ELSE g[i - 1] \o s[i]
                OBVIOUS
            <4>1. CASE i = m + 1
                <5>1. i - 1 = m /\ i # 1 /\ m \in 1 .. (m + 1) /\ m # m + 1
                    BY <2>2, <4>1
                <5> QED BY <4>1, <5>1
            <4>2. CASE i # m + 1
                <5>1. i \in 1 .. m /\ (i # 1 => i - 1 \in 1 .. (m + 1) /\ i - 1 # m + 1)
                    BY <4>2
                <5>2. f[i] = IF i = 1 THEN s[i] ELSE f[i - 1] \o s[i]
                    BY <3>1, <5>1, FlattenedAt
                <5> QED BY <4>2, <5>1, <5>2
            <4> QED BY <4>1, <4>2
        <3>3. FlattenedOneByOne(g, s, m + 1)
            BY <3>2 DEF FlattenedOneByOne
        <3> QED BY <3>3
    <2> QED BY <2>1, <2>2
<1>3. \A m \in Nat : m \in T
    <2> HIDE DEF T
    <2> QED BY <1>1, <1>2, Induction
<1>4. \E f : FlattenedOneByOne(f, s, n)
    BY <1>3
<1> DEFINE flattened == CHOOSE f : FlattenedOneByOne(f, s, n)
<1>5. FlattenedOneByOne(flattened, s, n)
    BY <1>4
<1>6. S!FlattenSeq(s) = flattened[n]
    BY DEF S!FlattenSeq, FlattenedOneByOne
<1> HIDE DEF flattened
<1> QED BY <1>5, <1>6

\* Sequences that agree on their first n elements flatten alike up to there.
LEMMA FlattenedAgree ==
    ASSUME NEW f, NEW g, NEW s, NEW t, NEW n \in Nat, NEW k \in Nat, n <= k,
           FlattenedOneByOne(f, s, n), FlattenedOneByOne(g, t, k),
           \A i \in 1 .. n : s[i] = t[i]
    PROVE  \A i \in 1 .. n : f[i] = g[i]
<1> DEFINE T == {i \in 0 .. n : i > 0 => f[i] = g[i]}
<1>1. 0 \in T
    OBVIOUS
<1>2. ASSUME NEW i \in 0 .. (n - 1), i \in T PROVE i + 1 \in T
    <2>1. /\ f[i + 1] = IF i + 1 = 1 THEN s[i + 1] ELSE f[(i + 1) - 1] \o s[i + 1]
          /\ g[i + 1] = IF i + 1 = 1 THEN t[i + 1] ELSE g[(i + 1) - 1] \o t[i + 1]
        <3>1. i + 1 \in 1 .. n /\ i + 1 \in 1 .. k
            OBVIOUS
        <3> QED BY <3>1, FlattenedAt
    <2>2. (i + 1) - 1 = i /\ (i + 1 # 1 => i > 0) /\ i + 1 \in 1 .. n
        OBVIOUS
    <2>3. f[i + 1] = g[i + 1]
        BY <1>2, <2>1, <2>2
    <2> QED BY <2>2, <2>3
<1>3. \A i \in 0 .. n : i \in T
    <2> HIDE DEF T
    <2> QED BY <1>1, <1>2, InductionUpTo
<1> QED BY <1>3

\* Appending a sequence appends its elements to the flattened ones.
LEMMA FlattenAppended ==
    ASSUME NEW s, IsSequence(s), NEW x, IsSequence(x)
    PROVE  S!FlattenSeq(Append(s, x)) = S!FlattenSeq(s) \o x
<1> DEFINE t == Append(s, x)
           n == Len(s)
<1>1. /\ n \in Nat /\ Len(t) = n + 1 /\ t[n + 1] = x
      /\ \A i \in 1 .. n : t[i] = s[i]
    BY AppendedSequence DEF IsSequence
<1> HIDE DEF t, n
<1>2. PICK g : FlattenedOneByOne(g, t, n + 1) /\ S!FlattenSeq(t) = g[n + 1]
    BY <1>1, FlattenUnfolds
<1>3. g[n + 1] = IF n + 1 = 1 THEN t[n + 1] ELSE g[(n + 1) - 1] \o t[n + 1]
    <2>1. n + 1 \in Nat /\ n + 1 \in 1 .. (n + 1)
        BY <1>1
    <2> QED BY <1>2, <2>1, FlattenedAt
<1>4. CASE n = 0
    <2>1. S!FlattenSeq(t) = x
        BY <1>1, <1>2, <1>3, <1>4
    <2>2. S!FlattenSeq(s) = <<>>
        BY <1>4 DEF n, S!FlattenSeq, IsSequence
    <2>3. <<>> \o x = x
        <3> DEFINE y == <<>> \o x
        <3>1. IsSequence(y) /\ Len(y) = 0 + Len(x) /\ \A i \in 1 .. Len(x) : y[0 + i] = x[i]
            BY ConcatenatedSequence, EmptySequence
        <3>2. Len(x) \in Nat
            BY DEF IsSequence
        <3> HIDE DEF y
        <3>3. Len(y) = Len(x) /\ \A i \in 1 .. Len(x) : y[i] = x[i]
            BY <3>1, <3>2
        <3> QED BY <3>1, <3>3, SequencesEqual DEF y
    <2> QED BY <2>1, <2>2, <2>3 DEF t
<1>5. CASE n > 0
    <2>1. PICK f : FlattenedOneByOne(f, s, n) /\ S!FlattenSeq(s) = f[n]
        BY <1>1, <1>5, FlattenUnfolds DEF n
    <2>2. f[n] = g[n]
        <3>1. /\ n \in Nat /\ n + 1 \in Nat /\ n <= n + 1 /\ n \in 1 .. n
              /\ \A i \in 1 .. n : s[i] = t[i]
            BY <1>1, <1>5
        <3> QED BY <1>2, <2>1, <3>1, FlattenedAgree
    <2>3. (n + 1) - 1 = n /\ n + 1 # 1
        BY <1>1, <1>5
    <2> QED BY <1>1, <1>2, <1>3, <2>1, <2>2, <2>3 DEF t
<1> QED BY <1>1, <1>4, <1>5

------------------------------------------------------------------------------
(* Steps that succeed. *)

\* All instructions.
Mnemonics == DoubleWordOps \cup SingleWordOps

\* No two mnemonics share an opcode.
LEMMA OpcodesDiffer ==
    ASSUME NEW a \in Mnemonics, NEW b \in Mnemonics, Opcode[a] = Opcode[b]
    PROVE  a = b
BY SMTT(60)
   DEF Opcode, Mnemonics, DoubleWordOps, SingleWordOps, NumWordsOps, RegisterOps,
       ElementOps

(***************************************************************************)
(* What every step has done that does not end in an error: it has executed *)
(* the instruction the instruction pointer is at.                          *)
(***************************************************************************)
StepCompletes ==
    /\ error = NoError
    /\ InBounds(instruction_pointer)
    /\ cycle_count < MaxCycles
    /\ cycle_count' = cycle_count + 1
    /\ UNCHANGED program

\* A step that does not fail completes, at an address of the program.
LEMMA SuccessfulStep ==
    ASSUME Step, error' = NoError
    PROVE  StepCompletes
<1> USE DEF Executes, Completes, Fails, NoError, StepCompletes
<1>1. CASE StackInstruction
    BY <1>1 DEF StackInstruction, Pop, Push, Divine, Pick, Place, Dup, Swap
<1>2. CASE ControlInstruction
    BY <1>2 DEF ControlInstruction, Nop, Skiz, Call, Return, Recurse, RecurseOrReturn,
                AssertInstruction, Halt
<1>3. CASE MemoryInstruction
    BY <1>3 DEF MemoryInstruction, ReadMem, WriteMem
<1>4. CASE HashInstruction
    BY <1>4 DEF HashInstruction, Hash, SpongeInit, SpongeAbsorb, SpongeAbsorbMem,
                SpongeSqueeze, AssertVector
<1>5. CASE FieldInstruction
    BY <1>5 DEF FieldInstruction, Add, AddI, Mul, Invert, Eq
<1>6. CASE U32Instruction
    BY <1>6 DEF U32Instruction, Split, Lt, And, Xor, Log2Floor, Pow, DivMod, PopCount,
                WithU32Calls
<1>7. CASE ExtensionInstruction
    BY <1>7 DEF ExtensionInstruction, XxAdd, XxMul, XInvert, XbMul
<1>8. CASE IoInstruction
    BY <1>8 DEF IoInstruction, WriteIo, ReadIo
<1>9. CASE ManyInOneInstruction
    BY <1>9 DEF ManyInOneInstruction, MerkleStep, MerkleStepMem, XxDotStep, XbDotStep,
                MerkleStepTo, DotStep
<1>10. CASE InstructionPointerOverflow \/ TooShallow
    BY <1>10 DEF InstructionPointerOverflow, TooShallow
<1> QED
    BY <1>1, <1>2, <1>3, <1>4, <1>5, <1>6, <1>7, <1>8, <1>9, <1>10 DEF Step

\* A step is the action of the instruction at the instruction pointer.
IoStep(op) ==
    /\ op = "read_io" => ReadIo
    /\ op = "write_io" => WriteIo
    /\ op \notin {"read_io", "write_io"} => UNCHANGED <<public_input, public_output>>

\* Only read_io and write_io touch the public input and output.
LEMMA IoOfStep ==
    ASSUME Step, error' = NoError
    PROVE  IoStep(CurrentInstruction.op)
<1> USE DEF Executes, Fails, NoError, OnStackOnly, io
<1>1. CASE StackInstruction
    BY <1>1 DEF StackInstruction, Pop, Push, Divine, Pick, Place, Dup, Swap, IoStep
<1>2. CASE ControlInstruction
    BY <1>2 DEF ControlInstruction, Nop, Skiz, Call, Return, Recurse, RecurseOrReturn,
                AssertInstruction, Halt, IoStep
<1>3. CASE MemoryInstruction
    BY <1>3 DEF MemoryInstruction, ReadMem, WriteMem, IoStep
<1>4. CASE HashInstruction
    BY <1>4 DEF HashInstruction, Hash, SpongeInit, SpongeAbsorb, SpongeAbsorbMem,
                SpongeSqueeze, AssertVector, IoStep
<1>5. CASE FieldInstruction
    BY <1>5 DEF FieldInstruction, Add, AddI, Mul, Invert, Eq, IoStep
<1>6. CASE U32Instruction
    BY <1>6 DEF U32Instruction, Split, Lt, And, Xor, Log2Floor, Pow, DivMod, PopCount,
                WithU32Calls, IoStep
<1>7. CASE ExtensionInstruction
    BY <1>7 DEF ExtensionInstruction, XxAdd, XxMul, XInvert, XbMul, IoStep
<1>8. CASE IoInstruction
    <2>1. ReadIo => CurrentInstruction.op = "read_io"
        BY DEF ReadIo
    <2>2. WriteIo => CurrentInstruction.op = "write_io"
        BY DEF WriteIo
    <2> HIDE DEF Executes, Fails, NoError, OnStackOnly, io
    <2> QED BY <1>8, <2>1, <2>2 DEF IoInstruction, IoStep
<1>9. CASE ManyInOneInstruction
    BY <1>9 DEF ManyInOneInstruction, MerkleStep, MerkleStepMem, XxDotStep, XbDotStep,
                MerkleStepTo, DotStep, IoStep
<1>10. CASE InstructionPointerOverflow \/ TooShallow
    BY <1>10 DEF InstructionPointerOverflow, TooShallow
<1> HIDE DEF Executes, Fails, NoError, OnStackOnly, io
<1> QED
    BY <1>1, <1>2, <1>3, <1>4, <1>5, <1>6, <1>7, <1>8, <1>9, <1>10 DEF Step

(***************************************************************************)
(* The row of the current state.                                           *)
(***************************************************************************)
RowShape ==
    /\ ProcessorRow.clk = cycle_count % P
    /\ ProcessorRow.op_stack_pointer = Len(op_stack)
    /\ ProcessorRow.st = Tops(0, NumRegisters)
    /\ \A k \in 1 .. NumRegisters : ProcessorRow.st[k] = St(k - 1)
    /\ \A n \in 0 .. NumRegisters :
           /\ St0To(ProcessorRow, n) = Tops(0, n)
           /\ IsSequence(St0To(ProcessorRow, n)) /\ Len(St0To(ProcessorRow, n)) = n
           /\ \A k \in 1 .. n : St0To(ProcessorRow, n)[k] = St(k - 1)

\* A row shows the state it is taken from.
LEMMA RowFacts == VMTypeOK => RowShape
<1> SUFFICES ASSUME VMTypeOK PROVE RowShape
    OBVIOUS
<1>1. /\ ProcessorRow.clk = cycle_count % P
      /\ ProcessorRow.op_stack_pointer = Len(op_stack)
      /\ ProcessorRow.st = Tops(0, NumRegisters)
    BY DEF ProcessorRow
<1>2. \A k \in 1 .. NumRegisters : ProcessorRow.st[k] = St(k - 1)
    <2>1. \A k \in 1 .. NumRegisters : Tops(0, NumRegisters)[k] = St(k - 1)
        BY RegisterAssumption DEF Tops
    <2> QED BY <1>1, <2>1
<1>3. ASSUME NEW n \in 0 .. NumRegisters
      PROVE  /\ St0To(ProcessorRow, n) = Tops(0, n)
             /\ IsSequence(St0To(ProcessorRow, n)) /\ Len(St0To(ProcessorRow, n)) = n
             /\ \A k \in 1 .. n : St0To(ProcessorRow, n)[k] = St(k - 1)
    <2>1. /\ Tops(0, NumRegisters) \in [1 .. NumRegisters -> Field]
          /\ Tops(0, n) \in [1 .. n -> Field]
        <3>1. /\ 0 \in Nat /\ n \in Nat /\ NumRegisters \in Nat
              /\ 0 + n <= Len(op_stack) /\ 0 + NumRegisters <= Len(op_stack)
            BY DepthFacts
        <3> QED BY <3>1, StackAccess
    <2>2. /\ IsSequence(Tops(0, NumRegisters)) /\ Len(Tops(0, NumRegisters)) = NumRegisters
          /\ IsSequence(Tops(0, n)) /\ Len(Tops(0, n)) = n
        BY <2>1, RegisterAssumption, IndexedSequence
    <2> DEFINE s == Tops(0, NumRegisters)
               u == SubSeq(s, 1, n)
    <2>3. /\ IsSequence(u) /\ Len(u) = n - 1 + 1
          /\ \A i \in 1 .. (n - 1 + 1) : u[i] = s[1 + i - 1]
        <3>1. IsSequence(s) /\ 1 \in 1 .. (Len(s) + 1) /\ n \in (1 - 1) .. Len(s)
            BY <2>2, RegisterAssumption
        <3> HIDE DEF s
        <3> QED BY <3>1, SubSequence DEF u
    <2>4. Len(u) = n /\ \A i \in 1 .. n : u[i] = Tops(0, n)[i]
        <3>1. \A i \in 1 .. n : s[i] = St(0 + i - 1) /\ Tops(0, n)[i] = St(0 + i - 1)
            BY RegisterAssumption DEF Tops
        <3> HIDE DEF s, u
        <3> QED BY <2>3, <3>1
    <2>5. u = Tops(0, n)
        BY <2>2, <2>3, <2>4, SequencesEqual
    <2>6. St0To(ProcessorRow, n) = Tops(0, n)
        BY <1>1, <2>5 DEF St0To
    <2>7. \A k \in 1 .. n : Tops(0, n)[k] = St(k - 1)
        BY RegisterAssumption DEF Tops
    <2> QED BY <2>2, <2>6, <2>7
<1> QED BY <1>1, <1>2, <1>3 DEF RowShape

\* The row of the next state.
LEMMA NextRowFacts == VMTypeOK' => RowShape'
<1>1. VMTypeOK => RowShape
    BY RowFacts
<1> QED BY <1>1, PTL

\* What the row tells of the instruction at the instruction pointer.
LEMMA InstructionRow ==
    ASSUME VMTypeOK, InBounds(instruction_pointer)
    PROVE  /\ CurrentInstruction.op \in Mnemonics
           /\ ProcessorRow.ci = Opcode[CurrentInstruction.op]
           /\ \A op \in Mnemonics : Is(ProcessorRow, op) <=> CurrentInstruction.op = op
           /\ ProcessorRow.hv = DeriveHelperVariables
<1>1. CurrentInstruction.op \in Mnemonics
    BY InstructionTypes DEF Instruction, Mnemonics, DoubleWordOps
<1>2. ProcessorRow.ci = Opcode[CurrentInstruction.op] /\ ProcessorRow.hv = DeriveHelperVariables
    BY DEF ProcessorRow
<1>3. \A op \in Mnemonics : Is(ProcessorRow, op) <=> CurrentInstruction.op = op
    BY <1>1, <1>2, OpcodesDiffer DEF Is
<1> QED BY <1>1, <1>2, <1>3

\* A number of four bits is the sum of its bits' weights.
LEMMA FourBits ==
    ASSUME NEW a \in 0 .. 15
    PROVE  (a % 2) + 2 * ((a \div 2) % 2) + 4 * ((a \div 4) % 2) + 8 * ((a \div 8) % 2) = a
OBVIOUS

\* The argument the helper variables indicate is the instruction's.
LEMMA ArgumentIsIndicated ==
    ASSUME VMTypeOK, InBounds(instruction_pointer), CurrentInstruction.op \in NumWordsOps
    PROVE  IndicatedArg(ProcessorRow) = Arg /\ Arg \in 1 .. (NumRegisters - 1)
<1>1. Arg \in 1 .. MaxNumWords /\ Arg \in 1 .. (NumRegisters - 1)
    BY InstructionTypes, RegisterAssumption
<1>2. Arg \in 0 .. 15 /\ NumHelpers \in Nat /\ NumHelpers >= 4
    BY <1>1, LinkingAssumption, RegisterAssumption, SizeAssumption DEF Rate
<1>3. ProcessorRow.hv = Helpers(DecomposeArg(Arg))
    BY InstructionRow DEF DeriveHelperVariables, NumWordsOps, RegisterOps
<1>4. Len(DecomposeArg(Arg)) = 4
    BY DEF DecomposeArg
<1>5. \A k \in 1 .. 4 : Helpers(DecomposeArg(Arg))[k] = DecomposeArg(Arg)[k]
    BY <1>2, <1>4 DEF Helpers
<1>6. /\ DecomposeArg(Arg)[1] = (Arg \div 2^(1 - 1)) % 2
      /\ DecomposeArg(Arg)[2] = (Arg \div 2^(2 - 1)) % 2
      /\ DecomposeArg(Arg)[3] = (Arg \div 2^(3 - 1)) % 2
      /\ DecomposeArg(Arg)[4] = (Arg \div 2^(4 - 1)) % 2
    BY DEF DecomposeArg
<1>7. 2^(1 - 1) = 1 /\ 2^(2 - 1) = 2 /\ 2^(3 - 1) = 4 /\ 2^(4 - 1) = 8
    OBVIOUS
<1>8. IndicatedArg(ProcessorRow) =
          (Arg % 2) + 2 * ((Arg \div 2) % 2) + 4 * ((Arg \div 4) % 2) + 8 * ((Arg \div 8) % 2)
    BY <1>2, <1>3, <1>5, <1>6, <1>7 DEF IndicatedArg
<1> QED BY <1>1, <1>2, <1>8, FourBits
------------------------------------------------------------------------------
(* The arguments grow by one transition per step. *)

\* A sequence of one more element.
LEMMA AppendedIs ==
    ASSUME NEW s, IsSequence(s), NEW t, IsSequence(t), NEW x,
           Len(t) = Len(s) + 1, \A i \in 1 .. Len(s) : t[i] = s[i], t[Len(s) + 1] = x
    PROVE  t = Append(s, x)
<1> DEFINE u == Append(s, x)
<1>1. /\ IsSequence(u) /\ Len(u) = Len(s) + 1 /\ u[Len(s) + 1] = x
      /\ \A i \in 1 .. Len(s) : u[i] = s[i]
    BY AppendedSequence
<1>2. Len(s) \in Nat
    BY DEF IsSequence
<1> HIDE DEF u
<1>3. \A i \in 1 .. Len(t) : t[i] = u[i]
    BY <1>1, <1>2
<1> QED BY <1>1, <1>3, SequencesEqual DEF u

\* The transitions of a trace that ends before `row`.
TransitionsOf(trace, row) ==
    LET rows == Append(trace, row)
    IN  [k \in 1 .. Len(trace) |-> [cur |-> rows[k], next |-> rows[k + 1]]]

\* The transitions of a trace, one for every row.
LEMMA TransitionsFacts ==
    ASSUME NEW trace, IsSequence(trace), NEW row
    PROVE  /\ IsSequence(TransitionsOf(trace, row))
           /\ Len(TransitionsOf(trace, row)) = Len(trace)
           /\ \A k \in 1 .. Len(trace) :
                  TransitionsOf(trace, row)[k] =
                      [cur |-> trace[k],
                       next |-> IF k = Len(trace) THEN row ELSE trace[k + 1]]
<1> DEFINE n == Len(trace)
           rows == Append(trace, row)
           ts == TransitionsOf(trace, row)
<1>1. n \in Nat
    BY DEF IsSequence
<1>2. ts = [k \in 1 .. n |-> [cur |-> rows[k], next |-> rows[k + 1]]]
    BY DEF TransitionsOf
<1>3. (\A k \in 1 .. n : rows[k] = trace[k]) /\ rows[n + 1] = row
    BY AppendedSequence
<1> HIDE DEF n, rows, ts
<1>4. IsSequence(ts) /\ Len(ts) = n
    <2>1. ts = [k \in 1 .. n |-> ts[k]]
        BY <1>2
    <2> QED BY <1>1, <2>1, IndexedSequence
<1>5. ASSUME NEW k \in 1 .. n
      PROVE  ts[k] = [cur |-> trace[k], next |-> IF k = n THEN row ELSE trace[k + 1]]
    <2>1. ts[k] = [cur |-> rows[k], next |-> rows[k + 1]]
        BY <1>2
    <2>2. k = n \/ k + 1 \in 1 .. n
        BY <1>1
    <2> QED BY <1>3, <2>1, <2>2
<1> QED BY <1>4, <1>5 DEF n, ts

\* A row appended completes the transition that ended the trace.
LEMMA TransitionsGrow ==
    ASSUME NEW trace, IsSequence(trace), NEW row, NEW next
    PROVE  /\ IsSequence(TransitionsOf(trace, row))
           /\ IsSequence(TransitionsOf(Append(trace, row), next))
           /\ TransitionsOf(Append(trace, row), next) =
                  Append(TransitionsOf(trace, row), [cur |-> row, next |-> next])
<1> DEFINE n == Len(trace)
           longer == Append(trace, row)
           ts == TransitionsOf(trace, row)
           us == TransitionsOf(longer, next)
<1>1. /\ n \in Nat
      /\ IsSequence(longer) /\ Len(longer) = n + 1 /\ longer[n + 1] = row
      /\ \A i \in 1 .. n : longer[i] = trace[i]
    BY AppendedSequence DEF IsSequence
<1>2. /\ IsSequence(ts) /\ Len(ts) = n
      /\ \A k \in 1 .. n : ts[k] = [cur |-> trace[k],
                                    next |-> IF k = n THEN row ELSE trace[k + 1]]
    BY TransitionsFacts
<1> HIDE DEF longer
<1>3. /\ IsSequence(us) /\ Len(us) = n + 1
      /\ \A k \in 1 .. (n + 1) :
             us[k] = [cur |-> longer[k],
                      next |-> IF k = n + 1 THEN next ELSE longer[k + 1]]
    BY <1>1, TransitionsFacts
<1> HIDE DEF n, ts, us
<1>4. us[n + 1] = [cur |-> row, next |-> next]
    BY <1>1, <1>3
<1>5. ASSUME NEW k \in 1 .. n PROVE us[k] = ts[k]
    <2>1. k \in 1 .. (n + 1) /\ k # n + 1 /\ (k = n \/ k + 1 \in 1 .. n)
        BY <1>1
    <2>2. longer[k] = trace[k] /\ longer[k + 1] = IF k = n THEN row ELSE trace[k + 1]
        BY <1>1, <2>1
    <2> QED BY <1>2, <1>3, <2>1, <2>2
<1>6. us = Append(ts, [cur |-> row, next |-> next])
    <2> DEFINE x == [cur |-> row, next |-> next]
    <2> HIDE DEF x
    <2>1. /\ IsSequence(ts) /\ IsSequence(us) /\ Len(us) = Len(ts) + 1
          /\ \A i \in 1 .. Len(ts) : us[i] = ts[i]
          /\ us[Len(ts) + 1] = x
        BY <1>2, <1>3, <1>4, <1>5 DEF x
    <2>2. us = Append(ts, x)
        BY ONLY <2>1, AppendedIs
    <2> QED BY <2>2 DEF x
<1> QED BY <1>2, <1>3, <1>6 DEF ts, us, longer

(***************************************************************************)
(* What is derived transition by transition grows by what is derived from  *)
(* the newest transition: `f` and `g` list what the transitions of a trace *)
(* and of a trace longer by one contribute.                                *)
(***************************************************************************)
LEMMA DerivedGrows ==
    ASSUME NEW f, IsSequence(f), NEW g, IsSequence(g), Len(g) = Len(f) + 1,
           \A k \in 1 .. Len(f) : g[k] = f[k],
           NEW x, IsSequence(x), g[Len(f) + 1] = x
    PROVE  S!FlattenSeq(g) = S!FlattenSeq(f) \o x
<1>1. g = Append(f, x)
    BY AppendedIs
<1> QED BY <1>1, FlattenAppended

\* `f` lists something of every transition of `ts`.
ListsOver(f, ts) == f = [k \in DOMAIN ts |-> f[k]]

(***************************************************************************)
(* What accumulates over the transitions grows by what the newest one      *)
(* contributes: `f` and `g` list the contributions of the transitions      *)
(* `ts`, and of those and `t`.                                             *)
(***************************************************************************)
LEMMA AccumulatedGrows ==
    ASSUME NEW ts, IsSequence(ts), NEW t, NEW f, NEW g,
           ListsOver(f, ts), ListsOver(g, Append(ts, t)),
           \A k \in DOMAIN ts : g[k] = f[k],
           NEW x, IsSequence(x), g[Len(ts) + 1] = x
    PROVE  S!FlattenSeq(g) = S!FlattenSeq(f) \o x
<1>1. PICK n \in Nat : n = Len(ts)
    BY DEF IsSequence
<1>2. DOMAIN ts = 1 .. n
    BY <1>1 DEF IsSequence
<1>3. DOMAIN Append(ts, t) = 1 .. (n + 1)
    <2>1. IsSequence(Append(ts, t)) /\ Len(Append(ts, t)) = n + 1
        BY <1>1, AppendedSequence
    <2> QED BY <2>1 DEF IsSequence
<1>4. IsSequence(f) /\ Len(f) = n
    BY <1>2, IndexedSequence DEF ListsOver
<1>5. IsSequence(g) /\ Len(g) = n + 1
    <2>1. g = [k \in 1 .. (n + 1) |-> g[k]] /\ n + 1 \in Nat
        BY <1>3 DEF ListsOver
    <2> QED BY ONLY <2>1, IndexedSequence
<1>6. /\ IsSequence(f) /\ IsSequence(g) /\ Len(g) = Len(f) + 1
      /\ \A k \in 1 .. Len(f) : g[k] = f[k]
      /\ IsSequence(x) /\ g[Len(f) + 1] = x
    BY <1>1, <1>2, <1>4, <1>5
<1> QED BY ONLY <1>6, DerivedGrows

(***************************************************************************)
(* A step that succeeds records the row of the state it started from.      *)
(***************************************************************************)
LEMMA RecordedTransition ==
    ASSUME IsSequence(processor_trace), TraceNext, error' = NoError
    PROVE  /\ IsSequence(processor_trace)'
           /\ IsSequence(Transitions)
           /\ Transitions' = Append(Transitions, [cur |-> ProcessorRow, next |-> ProcessorRow'])
           /\ IsSequence(Transitions')
<1>1. processor_trace' = Append(processor_trace, ProcessorRow)
    BY SuccessfulStep DEF TraceNext, RecordState, StepCompletes
<1>2. PICK trace, row, next :
          trace = processor_trace /\ row = ProcessorRow /\ next = ProcessorRow'
    OBVIOUS
<1>3. Transitions = TransitionsOf(trace, row)
    BY <1>2 DEF Transitions, TransitionsOf
<1>4. Transitions' = TransitionsOf(Append(trace, row), next)
    BY <1>1, <1>2 DEF Transitions, TransitionsOf
<1>5. IsSequence(Append(trace, row))
    BY <1>2, AppendedSequence
<1>6. IsSequence(processor_trace')
    BY <1>1, <1>2, <1>5
<1>7. IsSequence(processor_trace)'
    BY <1>6 DEF IsSequence
<1>8. IsSequence(trace)
    BY <1>2
<1>9. /\ IsSequence(TransitionsOf(trace, row))
      /\ IsSequence(TransitionsOf(Append(trace, row), next))
      /\ TransitionsOf(Append(trace, row), next) =
             Append(TransitionsOf(trace, row), [cur |-> row, next |-> next])
    BY ONLY <1>8, TransitionsGrow
<1> QED BY <1>2, <1>3, <1>4, <1>7, <1>9

\* The row is a function of the state.
LEMMA UnchangedRow ==
    ASSUME UNCHANGED traceVars
    PROVE  ProcessorRow' = ProcessorRow /\ Transitions' = Transitions
<1>1. UNCHANGED <<program, ram, op_stack, jump_stack, cycle_count, instruction_pointer,
                  secret_digests, processor_trace>>
    BY DEF traceVars, vmVars, aet
<1>2. /\ InBounds(instruction_pointer)' <=> InBounds(instruction_pointer)
      /\ CurrentInstruction' = CurrentInstruction
      /\ Arg' = Arg
      /\ NextInstructionOrArgument' = NextInstructionOrArgument
    BY <1>1 DEF InBounds, CurrentInstruction, InstructionAt, Arg, NextAddress,
                NextInstructionOrArgument
<1>3. JumpStackTop' = JumpStackTop /\ Tops(0, NumRegisters)' = Tops(0, NumRegisters)
    BY <1>1 DEF JumpStackTop, Tops, St
<1>4. DeriveHelperVariables' = DeriveHelperVariables
    BY <1>1, <1>2 DEF DeriveHelperVariables, InBounds, St, Contents, SecretDigestOrDefault
<1>5. ProcessorRow' = ProcessorRow
    BY <1>1, <1>2, <1>3, <1>4 DEF ProcessorRow, InBounds
<1> QED BY <1>1, <1>5 DEF Transitions
------------------------------------------------------------------------------
(* Every instruction edits the registers only. *)

(***************************************************************************)
(* A step pops n elements and pushes m, both at most as many as there are  *)
(* registers; what lies below the registers, before or after, stays.       *)
(***************************************************************************)
Edits(n, m) ==
    /\ Len(op_stack') = Len(op_stack) - n + m
    /\ underflow_io' = RecordedIO(op_stack, op_stack', n, m)
    /\ \A k \in 1 .. Len(op_stack) :
           k <= Len(op_stack) - NumRegisters \/ k <= Len(op_stack') - NumRegisters =>
               op_stack'[k] = op_stack[k]

EditsRegisters == \E n, m \in 0 .. NumRegisters : Edits(n, m)

\* Replacing the topmost elements edits registers.
LEMMA ReplaceEdits ==
    ASSUME VMTypeOK, NEW n \in 0 .. NumRegisters, NEW m \in 0 .. NumRegisters,
           NEW tops, Len(tops) = m, Replace(n, tops)
    PROVE  EditsRegisters
<1> DEFINE pushed == [k \in 1 .. m |-> tops[m + 1 - k]]
<1>1. PICK s, t, r : s = op_stack /\ t = op_stack' /\ r = NumRegisters
    OBVIOUS
<1>2. /\ r \in Nat /\ IsSequence(s) /\ Len(s) \in Nat /\ Len(s) >= r
      /\ n \in 0 .. r /\ m \in 0 .. r /\ n <= Len(s)
    BY <1>1, SeqIsSequence, RegisterAssumption DEF VMTypeOK
<1>3. IsSequence(pushed) /\ Len(pushed) = m
    <2>1. pushed = [k \in 1 .. m |-> pushed[k]] /\ m \in Nat
        BY <1>2
    <2> HIDE DEF pushed
    <2> QED BY <2>1, IndexedSequence
<1>4. t = SubSeq(s, 1, Len(s) - n) \o pushed
    BY <1>1 DEF Replace, StackBecomes, Below
<1> DEFINE u == SubSeq(s, 1, Len(s) - n)
<1>5. /\ IsSequence(u) /\ Len(u) = Len(s) - n /\ \A i \in 1 .. (Len(s) - n) : u[i] = s[i]
    <2>1. PICK b \in Nat : b = Len(s) - n
        BY <1>2
    <2>2. IsSequence(s) /\ 1 \in 1 .. (Len(s) + 1) /\ b \in (1 - 1) .. Len(s)
        BY <1>2, <2>1
    <2>3. /\ IsSequence(SubSeq(s, 1, b)) /\ Len(SubSeq(s, 1, b)) = b - 1 + 1
          /\ \A i \in 1 .. (b - 1 + 1) : SubSeq(s, 1, b)[i] = s[1 + i - 1]
        BY ONLY <2>2, SubSequence
    <2> QED BY <2>1, <2>3
<1> HIDE DEF pushed, u
<1>6. /\ Len(t) = Len(s) - n + m
      /\ \A i \in 1 .. (Len(s) - n) : t[i] = s[i]
    <2>1. IsSequence(u) /\ IsSequence(pushed) /\ t = u \o pushed
        BY <1>3, <1>4, <1>5 DEF u
    <2>2. /\ Len(t) = Len(u) + Len(pushed)
          /\ \A i \in 1 .. Len(u) : t[i] = u[i]
        BY ONLY <2>1, ConcatenatedSequence
    <2> QED BY <1>3, <1>5, <2>2
<1>7. \A k \in 1 .. Len(s) : k <= Len(s) - r \/ k <= Len(t) - r => t[k] = s[k]
    BY <1>2, <1>6
<1>8. underflow_io' = RecordedIO(op_stack, op_stack', n, m)
    BY DEF Replace, StackBecomes
<1> QED BY <1>1, <1>6, <1>7, <1>8 DEF EditsRegisters, Edits

\* So does rearranging registers.
LEMMA RearrangeEdits ==
    ASSUME VMTypeOK, NEW n \in 0 .. NumRegisters, NEW t, StackBecomes(t, n, n),
           t = [k \in 1 .. Len(op_stack) |-> t[k]],
           \A k \in 1 .. (Len(op_stack) - NumRegisters) : t[k] = op_stack[k]
    PROVE  EditsRegisters
<1>1. Len(op_stack) \in Nat /\ NumRegisters \in Nat
    BY DepthFacts
<1>2. Len(t) = Len(op_stack)
    BY <1>1, IndexedSequence
<1>3. op_stack' = t /\ underflow_io' = RecordedIO(op_stack, op_stack', n, n)
    BY DEF StackBecomes
<1>4. Edits(n, n)
    <2>1. n \in Nat /\ Len(op_stack') = Len(op_stack) - n + n
        BY <1>1, <1>2, <1>3
    <2>2. \A k \in 1 .. Len(op_stack) :
              k <= Len(op_stack) - NumRegisters \/ k <= Len(op_stack') - NumRegisters =>
                  op_stack'[k] = op_stack[k]
        BY <1>1, <1>2, <1>3
    <2> QED BY <1>3, <2>1, <2>2 DEF Edits
<1> QED BY <1>4 DEF EditsRegisters

\* So does leaving the stack alone.
LEMMA UnchangedEdits ==
    ASSUME VMTypeOK, StackUnchanged
    PROVE  EditsRegisters
<1>1. Len(op_stack) \in Nat /\ NumRegisters \in Nat /\ 0 \in 0 .. NumRegisters
    BY DepthFacts
<1>2. op_stack' = op_stack /\ underflow_io' = RecordedIO(op_stack, op_stack', 0, 0)
    BY DEF StackUnchanged, StackBecomes
<1>3. Edits(0, 0)
    BY <1>1, <1>2 DEF Edits
<1> QED BY <1>1, <1>3 DEF EditsRegisters

\* How many elements the instructions name.
LEMMA RegisterFacts ==
    /\ \A k \in {0, 1, 2, DigestLen, Rate, ExtensionDegree, 2 * ExtensionDegree,
                 1 + ExtensionDegree, 2 + ExtensionDegree} : k \in 0 .. NumRegisters
    /\ \A k \in 1 .. MaxNumWords : k \in 0 .. NumRegisters /\ k + 1 \in 0 .. NumRegisters
                                   /\ 1 + k \in 0 .. NumRegisters
    /\ Rate = 2 * DigestLen
BY RegisterAssumption, SizeAssumption DEF Rate

\* The stack instructions edit registers.
LEMMA StackInstructionEdits ==
    ASSUME VMTypeOK, StackInstruction, error' = NoError
    PROVE  EditsRegisters
<1> USE DEF Executes, Fails, NoError
<1>1. Len(op_stack) \in Nat /\ NumRegisters \in Nat /\ Len(op_stack) >= NumRegisters
      /\ DigestLen \in Nat
    BY DepthFacts
<1>2. CurrentInstruction.op \in NumWordsOps => Arg \in 1 .. MaxNumWords
    BY InstructionTypes DEF StackInstruction, Pop, Push, Divine, Pick, Place, Dup, Swap
<1>3. CurrentInstruction.op \in RegisterOps => Arg \in 0 .. (NumRegisters - 1)
    BY InstructionTypes DEF StackInstruction, Pop, Push, Divine, Pick, Place, Dup, Swap,
                            Register
<1>4. CASE Pop
    <2>1. Replace(Arg, <<>>) /\ Arg \in 0 .. NumRegisters /\ Len(<<>>) = 0
          /\ 0 \in 0 .. NumRegisters
        BY <1>2, <1>4, RegisterFacts DEF Pop, NumWordsOps
    <2> QED BY <2>1, ReplaceEdits
<1>5. CASE Push
    <2>1. Replace(0, <<Arg>>) /\ Len(<<Arg>>) = 1 /\ 1 \in 0 .. NumRegisters
          /\ 0 \in 0 .. NumRegisters
        BY <1>5, RegisterFacts DEF Push
    <2> QED BY <2>1, ReplaceEdits
<1>6. CASE Divine
    <2> DEFINE tops == [k \in 1 .. Arg |-> secret_individual_tokens[Arg + 1 - k]]
    <2>1. Replace(0, tops) /\ Arg \in 0 .. NumRegisters /\ 0 \in 0 .. NumRegisters
        BY <1>2, <1>6, RegisterFacts DEF Divine, NumWordsOps
    <2>2. Len(tops) = Arg
        BY <2>1
    <2> HIDE DEF tops
    <2> QED BY <2>1, <2>2, ReplaceEdits
<1>7. CASE Dup
    <2>1. Replace(0, <<St(Arg)>>) /\ Len(<<St(Arg)>>) = 1 /\ 1 \in 0 .. NumRegisters
          /\ 0 \in 0 .. NumRegisters
        BY <1>7, RegisterFacts DEF Dup
    <2> QED BY <2>1, ReplaceEdits
<1>8. CASE Pick
    <2> DEFINE depth == Len(op_stack)
               at == depth - Arg
               t == [k \in 1 .. depth |->
                        IF k < at THEN op_stack[k]
                        ELSE IF k < depth THEN op_stack[k + 1] ELSE op_stack[at]]
    <2>1. StackBecomes(t, 1, 1) /\ Arg \in 0 .. (NumRegisters - 1)
        BY <1>3, <1>8 DEF Pick, RegisterOps
    <2>2. \A k \in 1 .. (Len(op_stack) - NumRegisters) : t[k] = op_stack[k]
        BY <1>1, <2>1
    <2>3. t = [k \in 1 .. Len(op_stack) |-> t[k]]
        OBVIOUS
    <2> HIDE DEF t
    <2> QED BY <2>1, <2>2, <2>3, RegisterFacts, RearrangeEdits
<1>9. CASE Place
    <2> DEFINE depth == Len(op_stack)
               at == depth - Arg
               t == [k \in 1 .. depth |->
                        IF k < at THEN op_stack[k]
                        ELSE IF k = at THEN op_stack[depth] ELSE op_stack[k - 1]]
    <2>1. StackBecomes(t, 1, 1) /\ Arg \in 0 .. (NumRegisters - 1)
        BY <1>3, <1>9 DEF Place, RegisterOps
    <2>2. \A k \in 1 .. (Len(op_stack) - NumRegisters) : t[k] = op_stack[k]
        BY <1>1, <2>1
    <2>3. t = [k \in 1 .. Len(op_stack) |-> t[k]]
        OBVIOUS
    <2> HIDE DEF t
    <2> QED BY <2>1, <2>2, <2>3, RegisterFacts, RearrangeEdits
<1>10. CASE Swap
    <2> DEFINE t == [op_stack EXCEPT ![Len(op_stack)] = St(Arg),
                                     ![Len(op_stack) - Arg] = St(0)]
    <2>1. StackBecomes(t, 0, 0) /\ Arg \in 0 .. (NumRegisters - 1)
        BY <1>3, <1>10 DEF Swap, RegisterOps
    <2>2. op_stack \in [1 .. Len(op_stack) -> Field]
        BY DEF VMTypeOK
    <2>3. \A k \in 1 .. (Len(op_stack) - NumRegisters) :
              /\ k \in 1 .. Len(op_stack) /\ k # Len(op_stack) /\ k # Len(op_stack) - Arg
        BY <1>1, <2>1
    <2>4. \A k \in 1 .. (Len(op_stack) - NumRegisters) : t[k] = op_stack[k]
        BY <2>2, <2>3
    <2>5. t = [k \in 1 .. Len(op_stack) |-> t[k]]
        BY <2>2
    <2> HIDE DEF t
    <2> QED BY <2>1, <2>4, <2>5, RegisterFacts, RearrangeEdits
<1> QED BY <1>4, <1>5, <1>6, <1>7, <1>8, <1>9, <1>10 DEF StackInstruction

\* The control instructions edit registers.
LEMMA ControlInstructionEdits ==
    ASSUME VMTypeOK, ControlInstruction, error' = NoError
    PROVE  EditsRegisters
<1> USE DEF Executes, Fails, NoError
<1>1. StackUnchanged \/ Replace(1, <<>>)
    BY DEF ControlInstruction, Nop, Skiz, Call, Return, Recurse, RecurseOrReturn,
           AssertInstruction, Halt
<1>2. CASE Replace(1, <<>>)
    <2>1. Len(<<>>) = 0 /\ 0 \in 0 .. NumRegisters /\ 1 \in 0 .. NumRegisters
        BY RegisterFacts
    <2> QED BY <1>2, <2>1, ReplaceEdits
<1> QED BY <1>1, <1>2, UnchangedEdits

\* The memory instructions edit registers.
LEMMA MemoryInstructionEdits ==
    ASSUME VMTypeOK, MemoryInstruction, error' = NoError
    PROVE  EditsRegisters
<1> USE DEF Executes, Fails, NoError
<1>1. Arg \in 1 .. MaxNumWords
    BY InstructionTypes DEF MemoryInstruction, ReadMem, WriteMem, NumWordsOps
<1>2. /\ Arg \in Nat /\ 0 \in 0 .. NumRegisters /\ 1 \in 0 .. NumRegisters
      /\ 1 + Arg \in 0 .. NumRegisters /\ Arg + 1 \in 0 .. NumRegisters
    BY <1>1, RegisterFacts
<1>3. CASE ReadMem
    <2> DEFINE first == (St(0) - Arg) % P
               rest == [k \in 1 .. Arg |-> ram[Addresses(St(0), -1, Arg)[Arg + 1 - k]]]
               tops == <<first>> \o rest
    <2>1. Replace(1, tops)
        BY <1>3 DEF ReadMem
    <2>2. IsSequence(rest) /\ Len(rest) = Arg
        <3>1. rest = [k \in 1 .. Arg |-> rest[k]]
            OBVIOUS
        <3> HIDE DEF rest
        <3> QED BY <1>2, <3>1, IndexedSequence
    <2>3. IsSequence(<<first>>) /\ Len(<<first>>) = 1
        BY DEF IsSequence
    <2> HIDE DEF rest
    <2>4. Len(tops) = 1 + Arg
        BY <2>2, <2>3, ConcatenatedSequence
    <2> HIDE DEF tops
    <2> QED BY <1>2, <2>1, <2>4, ReplaceEdits
<1>4. CASE WriteMem
    <2> DEFINE tops == <<Plus(St(0), Arg)>>
    <2>1. Replace(Arg + 1, tops) /\ Len(tops) = 1
        BY <1>4 DEF WriteMem
    <2> HIDE DEF tops
    <2> QED BY <1>2, <2>1, ReplaceEdits
<1> QED BY <1>3, <1>4 DEF MemoryInstruction

\* The length of a stretch from the front.
LEMMA FrontLength ==
    ASSUME NEW s, NEW k \in Nat, NEW n \in Nat, n <= k, NEW T, s \in [1 .. k -> T]
    PROVE  Len(SubSeq(s, 1, n)) = n
<1>1. s \in Seq(T) /\ Len(s) = k
    OBVIOUS
<1>2. \A i \in 1 .. n : s[i] \in T
    OBVIOUS
<1> QED BY <1>1, <1>2, SubSeqProperties

\* The hash instructions edit registers.
LEMMA HashInstructionEdits ==
    ASSUME VMTypeOK, HashInstruction, error' = NoError
    PROVE  EditsRegisters
<1> USE DEF Executes, Fails, NoError
<1>1. /\ Len(op_stack) \in Nat /\ NumRegisters \in Nat /\ Len(op_stack) >= NumRegisters
      /\ DigestLen \in Nat /\ Rate \in Nat /\ NumRegisters >= Rate
      /\ NumHelpers >= DigestLen + 1 /\ NumHelpers \in Nat
      /\ StateSize \in Nat /\ Rate <= StateSize /\ DigestLen <= StateSize
    BY DepthFacts, RegisterAssumption, SizeAssumption, LinkingAssumption DEF Rate, StateSize
<1>2. /\ 0 \in 0 .. NumRegisters /\ 1 \in 0 .. NumRegisters /\ Len(<<>>) = 0
      /\ Rate \in 0 .. NumRegisters /\ DigestLen \in 0 .. NumRegisters
    BY RegisterFacts
<1>3. CASE Hash
    <2> DEFINE input == FixedLength(Tops(0, Rate))
               tops == SubSeq(Tip5(input), 1, DigestLen)
    <2>1. Replace(Rate, tops)
        BY <1>3 DEF Hash
    <2>2. Tip5(input) \in SpongeState
        <3>1. Tops(0, Rate) \in [1 .. Rate -> Field]
            BY <1>1, StackAccess
        <3> QED BY <3>1, SpongeFacts
    <2> HIDE DEF input
    <2>3. Len(tops) = DigestLen
        BY <1>1, <2>2, FrontLength DEF SpongeState
    <2> HIDE DEF tops
    <2> QED BY <1>2, <2>1, <2>3, ReplaceEdits
<1>4. CASE SpongeInit
    BY <1>4, UnchangedEdits DEF SpongeInit
<1>5. CASE SpongeAbsorb
    <2>1. Replace(Rate, <<>>)
        BY <1>5 DEF SpongeAbsorb
    <2> QED BY <1>2, <2>1, ReplaceEdits
<1>6. CASE SpongeAbsorbMem
    <2> DEFINE elements == Contents(Addresses(St(0), 1, Rate))
               depth == Len(op_stack)
               t == [k \in 1 .. depth |->
                        IF k = depth THEN Plus(St(0), Rate)
                        ELSE IF depth - k <= Rate - NumHelpers THEN elements[depth - k]
                        ELSE op_stack[k]]
    <2>1. StackBecomes(t, 1, 1)
        BY <1>6 DEF SpongeAbsorbMem
    <2>2. \A k \in 1 .. (Len(op_stack) - NumRegisters) :
              k \in 1 .. depth /\ k # depth /\ ~(depth - k <= Rate - NumHelpers)
        BY <1>1, SizeAssumption DEF Rate
    <2>3. \A k \in 1 .. (Len(op_stack) - NumRegisters) : t[k] = op_stack[k]
        BY <2>2
    <2>4. t = [k \in 1 .. Len(op_stack) |-> t[k]]
        OBVIOUS
    <2> HIDE DEF t
    <2> QED BY <1>2, <2>1, <2>3, <2>4, RearrangeEdits
<1>7. CASE SpongeSqueeze
    <2> DEFINE tops == SubSeq(sponge, 1, Rate)
    <2>1. Replace(0, tops) /\ sponge # NoSponge
        BY <1>7 DEF SpongeSqueeze
    <2>2. sponge \in [1 .. StateSize -> Field]
        BY <2>1 DEF VMTypeOK, SpongeState
    <2>3. Len(tops) = Rate
        BY <1>1, <2>2, FrontLength
    <2> HIDE DEF tops
    <2> QED BY <1>2, <2>1, <2>3, ReplaceEdits
<1>8. CASE AssertVector
    <2>1. Replace(DigestLen, <<>>)
        BY <1>8 DEF AssertVector
    <2> QED BY <1>2, <2>1, ReplaceEdits
<1> QED BY <1>3, <1>4, <1>5, <1>6, <1>7, <1>8 DEF HashInstruction

\* The base field instructions edit registers.
LEMMA FieldInstructionEdits ==
    ASSUME VMTypeOK, FieldInstruction, error' = NoError
    PROVE  EditsRegisters
<1> USE DEF Executes, Fails, NoError
<1>1. 0 \in 0 .. NumRegisters /\ 1 \in 0 .. NumRegisters /\ 2 \in 0 .. NumRegisters
    BY RegisterFacts
<1>2. CASE AddI
    <2> DEFINE t == [op_stack EXCEPT ![Len(op_stack)] = Plus(St(0), Arg)]
    <2>1. StackBecomes(t, 0, 0)
        BY <1>2 DEF AddI
    <2>2. /\ op_stack \in [1 .. Len(op_stack) -> Field]
          /\ Len(op_stack) \in Nat /\ NumRegisters \in Nat /\ NumRegisters > 0
        <3>1. op_stack \in [1 .. Len(op_stack) -> Field]
            BY DEF VMTypeOK
        <3>2. NumRegisters > 0
            BY DepthFacts, RegisterAssumption
        <3> QED BY <3>1, <3>2, DepthFacts
    <2>3. \A k \in 1 .. (Len(op_stack) - NumRegisters) :
              k \in 1 .. Len(op_stack) /\ k # Len(op_stack)
        <3>1. PICK a \in Nat, b \in Nat : a = Len(op_stack) /\ b = NumRegisters /\ b > 0
            BY <2>2
        <3>2. \A k \in 1 .. (a - b) : k \in 1 .. a /\ k # a
            BY <3>1
        <3> QED BY <3>1, <3>2
    <2>4. \A k \in 1 .. (Len(op_stack) - NumRegisters) : t[k] = op_stack[k]
        BY <2>2, <2>3
    <2>5. t = [k \in 1 .. Len(op_stack) |-> t[k]]
        BY <2>2
    <2> HIDE DEF t
    <2> QED BY <1>1, <2>1, <2>4, <2>5, RearrangeEdits
<1>3. CASE ~AddI
    <2>1. PICK a : Replace(2, <<a>>) \/ Replace(1, <<a>>)
        BY <1>3 DEF FieldInstruction, Add, Mul, Invert, Eq
    <2>2. Len(<<a>>) = 1
        OBVIOUS
    <2> QED BY <1>1, <2>1, <2>2, ReplaceEdits
<1> QED BY <1>2, <1>3

\* The u32 instructions edit registers.
LEMMA U32InstructionEdits ==
    ASSUME VMTypeOK, U32Instruction, error' = NoError
    PROVE  EditsRegisters
<1> USE DEF Executes, Fails, NoError
<1>1. 1 \in 0 .. NumRegisters /\ 2 \in 0 .. NumRegisters
    BY RegisterFacts
<1>2. \E a, b : \/ Replace(2, <<a>>) \/ Replace(1, <<a>>)
                \/ Replace(1, <<a, b>>) \/ Replace(2, <<a, b>>)
    BY DEF U32Instruction, Split, Lt, And, Xor, Log2Floor, Pow, DivMod, PopCount
<1>3. PICK a, b : \/ Replace(2, <<a>>) \/ Replace(1, <<a>>)
                  \/ Replace(1, <<a, b>>) \/ Replace(2, <<a, b>>)
    BY <1>2
<1>4. Len(<<a>>) = 1 /\ Len(<<a, b>>) = 2
    OBVIOUS
<1> QED BY <1>1, <1>3, <1>4, ReplaceEdits

\* The extension field instructions edit registers.
LEMMA ExtensionInstructionEdits ==
    ASSUME VMTypeOK, ExtensionInstruction, error' = NoError
    PROVE  EditsRegisters
<1> USE DEF Executes, Fails, NoError
<1>1. /\ ExtensionDegree \in 0 .. NumRegisters /\ 2 * ExtensionDegree \in 0 .. NumRegisters
      /\ 1 + ExtensionDegree \in 0 .. NumRegisters /\ ExtensionDegree \in Nat
    BY RegisterFacts, SizeAssumption
<1>2. /\ XTop(0) \in XField /\ XTop(1) \in XField /\ XTop(ExtensionDegree) \in XField
      /\ Lift(St(0)) \in XField
    <2>1. /\ 0 + ExtensionDegree <= Len(op_stack) /\ 1 + ExtensionDegree <= Len(op_stack)
          /\ ExtensionDegree + ExtensionDegree <= Len(op_stack)
          /\ 0 \in Nat /\ 1 \in Nat /\ ExtensionDegree \in Nat
        BY DepthFacts
    <2> QED BY <2>1, DepthFacts, StackAccess, FieldFacts DEF XTop, XField, Lift
<1>3. /\ XMul(XTop(0), XTop(ExtensionDegree)) \in XField
      /\ XMul(Lift(St(0)), XTop(1)) \in XField
      /\ XTop(0) # XZero => XInverse(XTop(0)) \in XField
    BY <1>2, ExternalRanges DEF ArithmeticRanges
<1>4. \A x \in XField : Len(x) = ExtensionDegree
    BY <1>1 DEF XField
<1>5. Len(XPlus(XTop(0), XTop(ExtensionDegree))) = ExtensionDegree
    BY <1>1 DEF XPlus
<1>6. CASE XxAdd
    <2>1. PICK x : x = XPlus(XTop(0), XTop(ExtensionDegree))
        OBVIOUS
    <2>2. Replace(2 * ExtensionDegree, x) /\ Len(x) = ExtensionDegree
        BY <1>5, <1>6, <2>1 DEF XxAdd
    <2> QED BY <1>1, <2>2, ReplaceEdits
<1>7. CASE XxMul
    <2>1. PICK x : x = XMul(XTop(0), XTop(ExtensionDegree))
        OBVIOUS
    <2>2. Replace(2 * ExtensionDegree, x) /\ Len(x) = ExtensionDegree
        BY <1>3, <1>4, <1>7, <2>1 DEF XxMul
    <2> QED BY <1>1, <2>2, ReplaceEdits
<1>8. CASE XInvert
    <2>1. PICK x : x = XInverse(XTop(0))
        OBVIOUS
    <2>2. Replace(ExtensionDegree, x) /\ Len(x) = ExtensionDegree
        BY <1>3, <1>4, <1>8, <2>1 DEF XInvert
    <2> QED BY <1>1, <2>2, ReplaceEdits
<1>9. CASE XbMul
    <2>1. PICK x : x = XMul(Lift(St(0)), XTop(1))
        OBVIOUS
    <2>2. Replace(1 + ExtensionDegree, x) /\ Len(x) = ExtensionDegree
        BY <1>3, <1>4, <1>9, <2>1 DEF XbMul
    <2> QED BY <1>1, <2>2, ReplaceEdits
<1> QED BY <1>6, <1>7, <1>8, <1>9 DEF ExtensionInstruction

\* The input and output instructions edit registers.
LEMMA IoInstructionEdits ==
    ASSUME VMTypeOK, IoInstruction, error' = NoError
    PROVE  EditsRegisters
<1> USE DEF Executes, Fails, NoError
<1>1. Arg \in 1 .. MaxNumWords
    BY InstructionTypes DEF IoInstruction, ReadIo, WriteIo, NumWordsOps
<1>2. Arg \in 0 .. NumRegisters /\ 0 \in 0 .. NumRegisters /\ Len(<<>>) = 0 /\ Arg \in Nat
    BY <1>1, RegisterFacts
<1>3. CASE WriteIo
    <2>1. Replace(Arg, <<>>)
        BY <1>3 DEF WriteIo
    <2> QED BY <1>2, <2>1, ReplaceEdits
<1>4. CASE ReadIo
    <2> DEFINE tops == [k \in 1 .. Arg |-> public_input[Arg + 1 - k]]
    <2>1. Replace(0, tops)
        BY <1>4 DEF ReadIo
    <2>2. Len(tops) = Arg
        BY <1>2
    <2> HIDE DEF tops
    <2> QED BY <1>2, <2>1, <2>2, ReplaceEdits
<1> QED BY <1>3, <1>4 DEF IoInstruction

\* The merkle steps edit registers.
LEMMA MerkleStepEdits ==
    ASSUME VMTypeOK, NEW sibling, NEW pointer, MerkleStepTo(sibling, pointer)
    PROVE  EditsRegisters
<1> DEFINE node_index == St(DigestLen)
           accumulator == Tops(0, DigestLen)
           input == FixedLength(IF node_index % 2 = 0 THEN accumulator \o sibling
                                                      ELSE sibling \o accumulator)
           digest == SubSeq(Tip5(input), 1, DigestLen)
           depth == Len(op_stack)
           t == [k \in 1 .. depth |->
                    IF k > depth - DigestLen THEN digest[depth + 1 - k]
                    ELSE IF k = depth - DigestLen THEN node_index \div 2
                    ELSE IF k = depth - DigestLen - 2 THEN pointer
                    ELSE op_stack[k]]
<1>1. StackBecomes(t, DigestLen, DigestLen)
    BY DEF MerkleStepTo
<1> HIDE DEF digest, node_index
<1>2. /\ Len(op_stack) \in Nat /\ NumRegisters \in Nat /\ Len(op_stack) >= NumRegisters
      /\ DigestLen \in Nat /\ NumRegisters >= DigestLen + 3
      /\ DigestLen \in 0 .. NumRegisters
    BY DepthFacts, RegisterAssumption, RegisterFacts
<1>3. \A k \in 1 .. (Len(op_stack) - NumRegisters) : t[k] = op_stack[k]
    BY <1>2
<1>4. t = [k \in 1 .. Len(op_stack) |-> t[k]]
    OBVIOUS
<1> HIDE DEF t
<1> QED BY <1>1, <1>2, <1>3, <1>4, RearrangeEdits

\* The dot steps edit registers.
LEMMA DotStepEdits ==
    ASSUME VMTypeOK, NEW pointers, NEW rhs, NEW lhs, NEW product,
           DotStep(pointers, rhs, lhs, product)
    PROVE  EditsRegisters
<1> DEFINE x == XPlus(XTop(2), product)
           tops == <<rhs, lhs>> \o x
<1>1. Replace(2 + ExtensionDegree, tops)
    BY DEF DotStep
<1>2. /\ ExtensionDegree \in Nat /\ 2 + ExtensionDegree \in 0 .. NumRegisters
    BY RegisterFacts, SizeAssumption
<1>3. IsSequence(x) /\ Len(x) = ExtensionDegree
    <2>1. x = [i \in 1 .. ExtensionDegree |-> x[i]]
        BY DEF XPlus
    <2> HIDE DEF x
    <2> QED BY <1>2, <2>1, IndexedSequence
<1>4. IsSequence(<<rhs, lhs>>) /\ Len(<<rhs, lhs>>) = 2
    BY DEF IsSequence
<1> HIDE DEF x
<1>5. Len(tops) = 2 + ExtensionDegree
    BY <1>3, <1>4, ConcatenatedSequence
<1> HIDE DEF tops
<1> QED BY <1>1, <1>2, <1>5, ReplaceEdits

\* The many-in-one instructions edit registers.
LEMMA ManyInOneInstructionEdits ==
    ASSUME VMTypeOK, ManyInOneInstruction, error' = NoError
    PROVE  EditsRegisters
<1> USE DEF Executes, Fails, NoError
<1>1. CASE MerkleStep \/ MerkleStepMem
    <2>1. \E sibling, pointer : MerkleStepTo(sibling, pointer)
        BY <1>1 DEF MerkleStep, MerkleStepMem
    <2> QED BY <2>1, MerkleStepEdits
<1>2. CASE XxDotStep \/ XbDotStep
    <2>1. \E pointers, rhs, lhs, product : DotStep(pointers, rhs, lhs, product)
        BY <1>2 DEF XxDotStep, XbDotStep
    <2> QED BY <2>1, DotStepEdits
<1> QED BY <1>1, <1>2 DEF ManyInOneInstruction

\* Every step that succeeds edits registers.
LEMMA StepEdits ==
    ASSUME VMTypeOK, Step, error' = NoError
    PROVE  EditsRegisters
<1>1. ~InstructionPointerOverflow /\ ~TooShallow
    BY DEF InstructionPointerOverflow, TooShallow, Fails, NoError
<1> QED BY <1>1, StackInstructionEdits, ControlInstructionEdits, MemoryInstructionEdits,
           HashInstructionEdits, FieldInstructionEdits, U32InstructionEdits,
           ExtensionInstructionEdits, IoInstructionEdits, ManyInOneInstructionEdits
           DEF Step
------------------------------------------------------------------------------
(* Canonical sequences. *)

\* One round of canonicalization: the first dual pair is removed.
Reduced(s) ==
    LET k == FirstDualPair(s)
    IN  SubSeq(s, 1, k - 1) \o SubSeq(s, k + 2, Len(s))

\* What is left of a sequence without its first dual pair.
LEMMA ReducedFacts ==
    ASSUME NEW s \in Seq(UnderflowIO), DualPairs(s) # {}
    PROVE  /\ FirstDualPair(s) \in DualPairs(s)
           /\ FirstDualPair(s) \in 1 .. (Len(s) - 1)
           /\ Reduced(s) \in Seq(UnderflowIO)
           /\ Len(Reduced(s)) = Len(s) - 2
           /\ \A i \in 1 .. (Len(s) - 2) :
                  Reduced(s)[i] = IF i < FirstDualPair(s) THEN s[i] ELSE s[i + 2]
<1> DEFINE k == FirstDualPair(s)
           u == SubSeq(s, 1, k - 1)
           v == SubSeq(s, k + 2, Len(s))
<1>1. DualPairs(s) \in SUBSET Nat /\ Len(s) \in Nat
    BY DEF DualPairs
<1>2. \E m \in DualPairs(s) : \A j \in DualPairs(s) : m <= j
    BY <1>1, LeastElement
<1>3. k \in DualPairs(s)
    BY <1>2 DEF FirstDualPair
<1>4. k \in 1 .. (Len(s) - 1)
    BY <1>3 DEF DualPairs
<1> HIDE DEF k
<1>5. IsSequence(s)
    BY SeqIsSequence
<1>6. /\ IsSequence(u) /\ Len(u) = k - 1 /\ \A i \in 1 .. (k - 1) : u[i] = s[i]
    <2>1. PICK m : m = k - 1
        OBVIOUS
    <2>2. IsSequence(s) /\ 1 \in 1 .. (Len(s) + 1) /\ m \in (1 - 1) .. Len(s)
        BY <1>1, <1>4, <1>5, <2>1
    <2>3. /\ IsSequence(SubSeq(s, 1, m)) /\ Len(SubSeq(s, 1, m)) = m - 1 + 1
          /\ \A i \in 1 .. (m - 1 + 1) : SubSeq(s, 1, m)[i] = s[1 + i - 1]
        BY ONLY <2>2, SubSequence
    <2> QED BY <1>1, <1>4, <2>1, <2>3
<1>7. /\ IsSequence(v) /\ Len(v) = Len(s) - k - 1
      /\ \A i \in 1 .. (Len(s) - k - 1) : v[i] = s[k + 1 + i]
    <2>1. PICK m, n : m = k + 2 /\ n = Len(s)
        OBVIOUS
    <2>2. IsSequence(s) /\ m \in 1 .. (Len(s) + 1) /\ n \in (m - 1) .. Len(s)
        BY <1>1, <1>4, <1>5, <2>1
    <2>3. /\ IsSequence(SubSeq(s, m, n)) /\ Len(SubSeq(s, m, n)) = n - m + 1
          /\ \A i \in 1 .. (n - m + 1) : SubSeq(s, m, n)[i] = s[m + i - 1]
        BY ONLY <2>2, SubSequence
    <2> QED BY <1>1, <1>4, <2>1, <2>3
<1> DEFINE w == u \o v
<1>8. Reduced(s) = w
    BY DEF Reduced, k
<1> HIDE DEF u, v
<1>9. /\ IsSequence(w) /\ Len(w) = Len(u) + Len(v)
      /\ \A i \in 1 .. Len(u) : w[i] = u[i]
      /\ \A i \in 1 .. Len(v) : w[Len(u) + i] = v[i]
    BY <1>6, <1>7, ConcatenatedSequence
<1> HIDE DEF w
<1>10. Len(w) = Len(s) - 2
    BY <1>1, <1>4, <1>6, <1>7, <1>9
<1>11. ASSUME NEW i \in 1 .. (Len(s) - 2)
       PROVE  w[i] = IF i < k THEN s[i] ELSE s[i + 2]
    <2>1. CASE i < k
        BY <1>4, <1>6, <1>9, <2>1
    <2>2. CASE ~(i < k)
        <3>1. i - (k - 1) \in 1 .. (Len(s) - k - 1) /\ (k - 1) + (i - (k - 1)) = i
              /\ k + 1 + (i - (k - 1)) = i + 2
            BY <1>1, <1>4, <2>2
        <3>2. w[(k - 1) + (i - (k - 1))] = v[i - (k - 1)]
              /\ v[i - (k - 1)] = s[k + 1 + (i - (k - 1))]
            BY <1>6, <1>7, <1>9, <3>1
        <3> QED BY <2>2, <3>1, <3>2
    <2> QED BY <2>1, <2>2
<1>12. w \in Seq(UnderflowIO)
    <2>1. \A i \in 1 .. Len(s) : s[i] \in UnderflowIO
        BY ElementOfSeq
    <2>2. \A i \in 1 .. Len(w) : i \in 1 .. Len(s) /\ i + 2 \in 1 .. Len(s)
        BY <1>1, <1>10
    <2>3. \A i \in 1 .. Len(w) : w[i] \in UnderflowIO
        BY <1>10, <1>11, <2>1, <2>2
    <2> QED BY <1>9, <2>3, SequenceOver
<1> QED BY <1>3, <1>4, <1>8, <1>10, <1>11, <1>12 DEF k

(***************************************************************************)
(* The recursion of canonicalize_sequence, restricted to sequences of at   *)
(* most n accesses.                                                        *)
(***************************************************************************)
Short(n) == {s \in Seq(UnderflowIO) : Len(s) <= n}
CanonicalizesShort(g, n) ==
    \A s \in Short(n) : g[s] = IF DualPairs(s) = {} THEN s ELSE g[Reduced(s)]

\* Such a function exists for every length.
LEMMA ShortCanonicalization ==
    ASSUME NEW n \in Nat
    PROVE  \E g : CanonicalizesShort(g, n)
<1> DEFINE T == {m \in Nat : \E g : CanonicalizesShort(g, m)}
<1>1. 0 \in T
    <2>1. \A s \in Short(0) : DualPairs(s) = {}
        BY DEF Short, DualPairs
    <2>2. CanonicalizesShort([s \in Short(0) |-> s], 0)
        BY <2>1 DEF CanonicalizesShort
    <2> QED BY <2>2
<1>2. ASSUME NEW m \in Nat, m \in T PROVE m + 1 \in T
    <2>1. PICK g : CanonicalizesShort(g, m)
        BY <1>2
    <2> DEFINE h == [s \in Short(m + 1) |->
                        IF DualPairs(s) = {} THEN s
                        ELSE IF Len(s) <= m THEN g[s] ELSE g[Reduced(s)]]
    <2>2. ASSUME NEW s \in Short(m + 1)
          PROVE  h[s] = IF DualPairs(s) = {} THEN s ELSE h[Reduced(s)]
        <3>1. CASE DualPairs(s) = {}
            BY <3>1
        <3>2. CASE DualPairs(s) # {}
            <4> DEFINE r == Reduced(s)
            <4>1. r \in Seq(UnderflowIO) /\ Len(r) = Len(s) - 2 /\ Len(s) <= m + 1
                  /\ Len(s) \in Nat
                BY <3>2, ReducedFacts DEF Short
            <4>2. r \in Short(m + 1) /\ r \in Short(m) /\ Len(r) <= m
                BY <4>1 DEF Short
            <4>3. h[s] = IF Len(s) <= m THEN g[s] ELSE g[r]
                BY <3>2
            <4>4. Len(s) <= m => g[s] = g[r]
                BY <2>1, <3>2 DEF CanonicalizesShort, Short
            <4>5. h[r] = IF DualPairs(r) = {} THEN r ELSE g[r]
                <5> HIDE DEF r
                <5> QED BY <4>2
            <4>6. DualPairs(r) = {} => g[r] = r
                <5> HIDE DEF r
                <5> QED BY <2>1, <4>2 DEF CanonicalizesShort
            <4> HIDE DEF r, h
            <4>7. h[s] = h[r]
                BY <4>3, <4>4, <4>5, <4>6
            <4> QED BY <3>2, <4>7 DEF r
        <3> QED BY <3>1, <3>2
    <2> HIDE DEF h
    <2>3. CanonicalizesShort(h, m + 1)
        BY <2>2 DEF CanonicalizesShort
    <2> QED BY <2>3
<1>3. \A m \in Nat : m \in T
    <2> HIDE DEF T
    <2> QED BY <1>1, <1>2, Induction
<1> QED BY <1>3

\* Such functions agree where both are defined.
LEMMA ShortCanonicalizationsAgree ==
    ASSUME NEW n \in Nat, NEW m \in Nat, n <= m,
           NEW f, CanonicalizesShort(f, n), NEW g, CanonicalizesShort(g, m)
    PROVE  \A s \in Short(n) : f[s] = g[s]
<1> DEFINE T == {i \in 0 .. n : \A s \in Short(i) : f[s] = g[s]}
<1>1. \A s : s \in Short(n) => s \in Short(m)
    BY DEF Short
<1>2. 0 \in T
    <2>1. \A s \in Short(0) : DualPairs(s) = {} /\ s \in Short(n)
        BY DEF Short, DualPairs
    <2> QED BY <1>1, <2>1 DEF CanonicalizesShort
<1>3. ASSUME NEW i \in 0 .. (n - 1), i \in T PROVE i + 1 \in T
    <2>1. ASSUME NEW s \in Short(i + 1) PROVE f[s] = g[s]
        <3>1. s \in Short(n) /\ s \in Seq(UnderflowIO) /\ Len(s) <= i + 1
            BY DEF Short
        <3>2. /\ f[s] = IF DualPairs(s) = {} THEN s ELSE f[Reduced(s)]
              /\ g[s] = IF DualPairs(s) = {} THEN s ELSE g[Reduced(s)]
            BY <1>1, <3>1 DEF CanonicalizesShort
        <3>3. DualPairs(s) # {} => Reduced(s) \in Short(i)
            BY <3>1, ReducedFacts DEF Short
        <3>4. DualPairs(s) # {} => f[Reduced(s)] = g[Reduced(s)]
            BY <1>3, <3>3
        <3> QED BY <3>2, <3>4
    <2> QED BY <2>1
<1>4. \A i \in 0 .. n : i \in T
    <2> HIDE DEF T
    <2> QED BY <1>2, <1>3, InductionUpTo
<1> QED BY <1>4

\* canonicalize_sequence removes dual pairs until none is left.
LEMMA CanonicalizeUnfolds ==
    ASSUME NEW s \in Seq(UnderflowIO)
    PROVE  Canonicalize[s] = IF DualPairs(s) = {} THEN s ELSE Canonicalize[Reduced(s)]
<1> DEFINE short(n) == CHOOSE g : CanonicalizesShort(g, n)
           f == [t \in Seq(UnderflowIO) |-> short(Len(t))[t]]
           Unfolds(g) == g = [t \in Seq(UnderflowIO) |->
                                 IF DualPairs(t) = {} THEN t
                                 ELSE LET k == FirstDualPair(t)
                                      IN  g[SubSeq(t, 1, k - 1) \o SubSeq(t, k + 2, Len(t))]]
<1>1. \A n \in Nat : CanonicalizesShort(short(n), n)
    BY ShortCanonicalization
<1> HIDE DEF short
<1>2. ASSUME NEW t \in Seq(UnderflowIO)
      PROVE  f[t] = IF DualPairs(t) = {} THEN t ELSE f[Reduced(t)]
    <2>1. PICK n \in Nat : n = Len(t)
        OBVIOUS
    <2>2. t \in Short(n)
        BY <2>1 DEF Short
    <2>3. f[t] = IF DualPairs(t) = {} THEN t ELSE short(n)[Reduced(t)]
        BY <1>1, <2>1, <2>2 DEF CanonicalizesShort
    <2>4. ASSUME DualPairs(t) # {} PROVE short(n)[Reduced(t)] = f[Reduced(t)]
        <3>1. PICK r : r = Reduced(t)
            OBVIOUS
        <3>2. r \in Seq(UnderflowIO) /\ Len(r) = n - 2 /\ Len(r) \in Nat
            BY <2>1, <2>4, <3>1, ReducedFacts
        <3>3. PICK m \in Nat : m = Len(r)
            BY <3>2
        <3>4. r \in Short(m) /\ m <= n
            BY <3>2, <3>3 DEF Short
        <3>5. PICK a, b : a = short(m) /\ b = short(n)
            OBVIOUS
        <3>6. CanonicalizesShort(a, m) /\ CanonicalizesShort(b, n)
            BY <1>1, <3>5
        <3>7. \A q \in Short(m) : a[q] = b[q]
            BY <3>4, <3>6, ShortCanonicalizationsAgree
        <3>8. f[r] = short(m)[r]
            BY <3>2, <3>3
        <3> QED BY <3>1, <3>4, <3>5, <3>7, <3>8
    <2> QED BY <2>3, <2>4
<1>3. f = [t \in Seq(UnderflowIO) |-> f[t]]
    OBVIOUS
<1> HIDE DEF f
<1>4. Unfolds(f)
    BY <1>2, <1>3 DEF Reduced
<1>5. Canonicalize = CHOOSE g : Unfolds(g)
    BY DEF Canonicalize
<1>6. Unfolds(Canonicalize)
    BY <1>4, <1>5
<1> HIDE DEF Unfolds
<1>7. PICK c : c = Canonicalize
    OBVIOUS
<1>8. Unfolds(c)
    BY <1>6, <1>7
<1> DEFINE h == [t \in Seq(UnderflowIO) |->
                    IF DualPairs(t) = {} THEN t
                    ELSE LET k == FirstDualPair(t)
                         IN  c[SubSeq(t, 1, k - 1) \o SubSeq(t, k + 2, Len(t))]]
<1>9. c = h
    BY <1>8 DEF Unfolds
<1>10. h[s] = IF DualPairs(s) = {} THEN s ELSE c[Reduced(s)]
    BY DEF Reduced
<1> HIDE DEF h
<1> QED BY <1>7, <1>9, <1>10
------------------------------------------------------------------------------
(* What is left of the accesses of a step. *)

(***************************************************************************)
(* The accesses of n pops and m pushes after j pairs have cancelled: u is  *)
(* what the underflow memory holds, upward from where the pops end.        *)
(***************************************************************************)
Accesses(u, n, m, j) ==
    [k \in 1 .. (n - j) |-> [kind |-> "Read", payload |-> u[n + 1 - k]]]
        \o [k \in 1 .. (m - j) |-> [kind |-> "Write", payload |-> u[j + k]]]

\* Underflow memory holds field elements.
HoldsElements(u, n, m) ==
    (\A k \in 1 .. n : u[k] \in Field) /\ (\A k \in 1 .. m : u[k] \in Field)

\* `s` is a reads from u[j + a] downward, then b writes from u[j + 1] upward.
ReadsThenWrites(s, u, j, a, b) ==
    /\ s \in Seq(UnderflowIO) /\ IsSequence(s) /\ Len(s) = a + b
    /\ \A i \in 1 .. a : s[i] = [kind |-> "Read", payload |-> u[j + a + 1 - i]]
    /\ \A i \in 1 .. b : s[a + i] = [kind |-> "Write", payload |-> u[j + i]]

\* The accesses of a step, one by one.
LEMMA AccessesFacts ==
    ASSUME NEW n \in Nat, NEW m \in Nat, NEW j \in Nat, j <= n, j <= m,
           NEW u, HoldsElements(u, n, m)
    PROVE  ReadsThenWrites(Accesses(u, n, m, j), u, j, n - j, m - j)
<1>1. PICK a \in Nat, b \in Nat : a = n - j /\ b = m - j
    OBVIOUS
<1> DEFINE reads == [k \in 1 .. a |-> [kind |-> "Read", payload |-> u[n + 1 - k]]]
           writes == [k \in 1 .. b |-> [kind |-> "Write", payload |-> u[j + k]]]
           s == reads \o writes
<1>2. IsSequence(reads) /\ Len(reads) = a
    <2>1. reads = [k \in 1 .. a |-> reads[k]]
        OBVIOUS
    <2> HIDE DEF reads
    <2> QED BY <2>1, IndexedSequence
<1>3. IsSequence(writes) /\ Len(writes) = b
    <2>1. writes = [k \in 1 .. b |-> writes[k]]
        OBVIOUS
    <2> HIDE DEF writes
    <2> QED BY <2>1, IndexedSequence
<1>4. /\ IsSequence(s) /\ Len(s) = a + b
      /\ \A i \in 1 .. a : s[i] = reads[i]
      /\ \A i \in 1 .. b : s[a + i] = writes[i]
    <2> HIDE DEF reads, writes
    <2> QED BY <1>2, <1>3, ConcatenatedSequence
<1>5. Accesses(u, n, m, j) = s
    BY <1>1 DEF Accesses
<1>6. \A i \in 1 .. a : reads[i] = [kind |-> "Read", payload |-> u[j + a + 1 - i]]
                        /\ reads[i] \in UnderflowIO
    <2>1. \A i \in 1 .. a : n + 1 - i \in 1 .. n /\ n + 1 - i = j + a + 1 - i
        BY <1>1
    <2> QED BY <2>1 DEF UnderflowIO, HoldsElements
<1>7. \A i \in 1 .. b : writes[i] = [kind |-> "Write", payload |-> u[j + i]]
                        /\ writes[i] \in UnderflowIO
    <2>1. \A i \in 1 .. b : j + i \in 1 .. m
        BY <1>1
    <2> QED BY <2>1 DEF UnderflowIO, HoldsElements
<1> HIDE DEF s, reads, writes
<1>8. \A i \in 1 .. Len(s) : s[i] \in UnderflowIO
    <2> SUFFICES ASSUME NEW i \in 1 .. (a + b) PROVE s[i] \in UnderflowIO
        BY <1>4
    <2>1. CASE i \in 1 .. a
        BY <1>4, <1>6, <2>1
    <2>2. CASE i \notin 1 .. a
        <3>1. i - a \in 1 .. b /\ a + (i - a) = i
            BY <2>2
        <3> QED BY <1>4, <1>7, <3>1
    <2> QED BY <2>1, <2>2
<1>9. s \in Seq(UnderflowIO)
    BY <1>4, <1>8, SequenceOver
<1>10. ReadsThenWrites(s, u, j, a, b)
    BY <1>4, <1>6, <1>7, <1>9 DEF ReadsThenWrites
<1> QED BY <1>1, <1>5, <1>10

\* The read and the write at the border are dual, and no other pair is.
LEMMA BorderIsDual ==
    ASSUME NEW n \in Nat, NEW m \in Nat, NEW j \in Nat, j < n, j < m,
           NEW u, HoldsElements(u, n, m)
    PROVE  /\ DualPairs(Accesses(u, n, m, j)) = {n - j}
           /\ Reduced(Accesses(u, n, m, j)) = Accesses(u, n, m, j + 1)
<1>1. PICK a \in Nat, b \in Nat : a = n - j /\ b = m - j /\ a > 0 /\ b > 0
    OBVIOUS
<1>2. PICK s, t : s = Accesses(u, n, m, j) /\ t = Accesses(u, n, m, j + 1)
    OBVIOUS
<1>3. /\ s \in Seq(UnderflowIO) /\ Len(s) = a + b
      /\ \A i \in 1 .. a : s[i] = [kind |-> "Read", payload |-> u[j + a + 1 - i]]
      /\ \A i \in 1 .. b : s[a + i] = [kind |-> "Write", payload |-> u[j + i]]
    <2>1. j <= n /\ j <= m
        OBVIOUS
    <2>2. ReadsThenWrites(s, u, j, a, b)
        BY <1>1, <1>2, <2>1, AccessesFacts
    <2> QED BY <2>2 DEF ReadsThenWrites
<1>4. /\ IsSequence(t) /\ Len(t) = (a - 1) + (b - 1)
      /\ \A i \in 1 .. (a - 1) :
             t[i] = [kind |-> "Read", payload |-> u[j + 1 + (a - 1) + 1 - i]]
      /\ \A i \in 1 .. (b - 1) : t[(a - 1) + i] = [kind |-> "Write", payload |-> u[j + 1 + i]]
    <2>1. PICK q \in Nat : q = j + 1 /\ q <= n /\ q <= m
        OBVIOUS
    <2>2. ReadsThenWrites(Accesses(u, n, m, q), u, q, n - q, m - q)
        BY <2>1, AccessesFacts
    <2>3. n - q = a - 1 /\ m - q = b - 1
        BY <1>1, <2>1
    <2>4. ReadsThenWrites(t, u, j + 1, a - 1, b - 1)
        BY <1>2, <2>1, <2>2, <2>3
    <2> QED BY <2>4 DEF ReadsThenWrites
<1>5. /\ \A i \in 1 .. a : s[i].kind = "Read"
      /\ \A i \in 1 .. b : s[a + i].kind = "Write"
    <2>1. ASSUME NEW i \in 1 .. a PROVE s[i].kind = "Read"
        <3>1. s[i] = [kind |-> "Read", payload |-> u[j + a + 1 - i]]
            BY <1>3
        <3> QED BY <3>1
    <2>2. ASSUME NEW i \in 1 .. b PROVE s[a + i].kind = "Write"
        <3>1. s[a + i] = [kind |-> "Write", payload |-> u[j + i]]
            BY <1>3
        <3> QED BY <3>1
    <2> QED BY <2>1, <2>2
<1>6. ASSUME NEW k \in 1 .. (a + b - 1), k # a PROVE ~IsDual(s[k], s[k + 1])
    <2>1. CASE k < a
        <3>1. k \in 1 .. a /\ k + 1 \in 1 .. a
            BY <2>1
        <3> QED BY <1>5, <3>1 DEF IsDual
    <2>2. CASE k > a
        <3>1. k - a \in 1 .. b /\ k - a + 1 \in 1 .. b /\ a + (k - a) = k
              /\ a + (k - a + 1) = k + 1
            BY <2>2
        <3>2. s[a + (k - a)].kind = "Write" /\ s[a + (k - a + 1)].kind = "Write"
            BY ONLY <1>5, <3>1
        <3> QED BY <3>1, <3>2 DEF IsDual
    <2> QED BY <1>6, <2>1, <2>2
<1>7. IsDual(s[a], s[a + 1])
    <2>1. a \in 1 .. a /\ 1 \in 1 .. b
        BY <1>1
    <2>2. s[a] = [kind |-> "Read", payload |-> u[j + a + 1 - a]]
          /\ s[a + 1] = [kind |-> "Write", payload |-> u[j + 1]]
        <3>1. s[a] = [kind |-> "Read", payload |-> u[j + a + 1 - a]]
            BY ONLY <1>3, <2>1
        <3>2. s[a + 1] = [kind |-> "Write", payload |-> u[j + 1]]
            BY ONLY <1>3, <2>1
        <3> QED BY <3>1, <3>2
    <2>3. j + a + 1 - a = j + 1
        OBVIOUS
    <2>4. s[a].kind = "Read" /\ s[a].payload = u[j + 1]
        BY ONLY <2>2, <2>3
    <2>5. s[a + 1].kind = "Write" /\ s[a + 1].payload = u[j + 1]
        BY ONLY <2>2
    <2> QED BY ONLY <2>4, <2>5 DEF IsDual
<1>8. DualPairs(s) = {a}
    <2>1. a \in 1 .. (a + b - 1) /\ Len(s) - 1 = a + b - 1
        BY <1>1, <1>3
    <2>2. DualPairs(s) = {k \in 1 .. (a + b - 1) : IsDual(s[k], s[k + 1])}
        BY <2>1 DEF DualPairs
    <2> QED BY <1>6, <1>7, <2>1, <2>2
<1>9. FirstDualPair(s) = a
    BY <1>8, ReducedFacts, <1>3
<1> DEFINE r == Reduced(s)
<1>10. /\ r \in Seq(UnderflowIO) /\ Len(r) = a + b - 2
       /\ \A i \in 1 .. (a + b - 2) : r[i] = IF i < a THEN s[i] ELSE s[i + 2]
    <2>1. s \in Seq(UnderflowIO) /\ DualPairs(s) # {}
        BY <1>3, <1>8
    <2>2. /\ r \in Seq(UnderflowIO) /\ Len(r) = Len(s) - 2
          /\ \A i \in 1 .. (Len(s) - 2) :
                 r[i] = IF i < FirstDualPair(s) THEN s[i] ELSE s[i + 2]
        BY ONLY <2>1, ReducedFacts
    <2> HIDE DEF r
    <2> QED BY <1>3, <1>9, <2>2
<1> HIDE DEF r
<1>11. ASSUME NEW i \in 1 .. (a + b - 2) PROVE r[i] = t[i]
    <2>1. CASE i < a
        <3>1. i \in 1 .. a /\ i \in 1 .. (a - 1) /\ j + a + 1 - i = j + 1 + (a - 1) + 1 - i
            BY <2>1
        <3>2. s[i] = [kind |-> "Read", payload |-> u[j + a + 1 - i]]
            BY <1>3, <3>1
        <3>3. t[i] = [kind |-> "Read", payload |-> u[j + 1 + (a - 1) + 1 - i]]
            BY <1>4, <3>1
        <3>4. r[i] = s[i]
            BY <1>10, <2>1
        <3> QED BY <3>1, <3>2, <3>3, <3>4
    <2>2. CASE ~(i < a)
        <3>1. PICK q \in 1 .. (b - 1) : q = i - (a - 1)
            BY <1>1, <2>2
        <3>2. q + 1 \in 1 .. b /\ a + (q + 1) = i + 2 /\ (a - 1) + q = i
              /\ j + (q + 1) = j + 1 + q
            BY <3>1
        <3>3. s[a + (q + 1)] = [kind |-> "Write", payload |-> u[j + (q + 1)]]
            BY ONLY <1>3, <3>2
        <3>4. t[(a - 1) + q] = [kind |-> "Write", payload |-> u[j + 1 + q]]
            BY ONLY <1>4, <3>1
        <3> QED BY <1>10, <2>2, <3>2, <3>3, <3>4
    <2> QED BY <2>1, <2>2
<1>12. r = t
    <2>1. IsSequence(r)
        BY <1>10, SeqIsSequence
    <2>2. Len(r) = Len(t)
        BY <1>1, <1>4, <1>10
    <2> QED BY <1>4, <1>10, <1>11, <2>1, <2>2, SequencesEqual
<1> QED BY <1>1, <1>2, <1>8, <1>12 DEF r

\* Pairs of a read and a write cancel until the smaller number is used up.
LEMMA AccessesCancel ==
    ASSUME NEW n \in Nat, NEW m \in Nat, NEW b \in Nat, b <= n, b <= m,
           NEW u, HoldsElements(u, n, m)
    PROVE  Canonicalize[Accesses(u, n, m, 0)] = Canonicalize[Accesses(u, n, m, b)]
<1> DEFINE T == {j \in 0 .. b :
                    Canonicalize[Accesses(u, n, m, 0)] = Canonicalize[Accesses(u, n, m, j)]}
<1>1. 0 \in T
    OBVIOUS
<1>2. ASSUME NEW j \in 0 .. (b - 1), j \in T PROVE j + 1 \in T
    <2>1. j \in Nat /\ j < n /\ j < m /\ j <= n /\ j <= m
        OBVIOUS
    <2>2. PICK s : s = Accesses(u, n, m, j)
        OBVIOUS
    <2>3. s \in Seq(UnderflowIO)
        BY <2>1, <2>2, AccessesFacts DEF ReadsThenWrites
    <2>4. DualPairs(s) = {n - j} /\ Reduced(s) = Accesses(u, n, m, j + 1)
        BY <2>1, <2>2, BorderIsDual
    <2>5. Canonicalize[s] = Canonicalize[Accesses(u, n, m, j + 1)]
        BY <2>3, <2>4, CanonicalizeUnfolds
    <2> QED BY <1>2, <2>2, <2>5
<1>3. \A j \in 0 .. b : j \in T
    <2> HIDE DEF T
    <2> QED BY <1>1, <1>2, InductionUpTo
<1> QED BY <1>3

\* What is left is the surplus of reads, or of writes.
LEMMA AccessesLeft ==
    ASSUME NEW n \in Nat, NEW m \in Nat, NEW b \in Nat, b <= n, b <= m, b = n \/ b = m,
           NEW u, HoldsElements(u, n, m)
    PROVE  /\ Canonicalize[Accesses(u, n, m, 0)] = Accesses(u, n, m, b)
           /\ IsUniform(Accesses(u, n, m, b))
<1>1. PICK s : s = Accesses(u, n, m, b)
    OBVIOUS
<1>2. PICK x \in Nat, y \in Nat : x = n - b /\ y = m - b /\ (x = 0 \/ y = 0)
    OBVIOUS
<1>3. /\ s \in Seq(UnderflowIO) /\ IsSequence(s) /\ Len(s) = x + y
      /\ \A i \in 1 .. x : s[i] = [kind |-> "Read", payload |-> u[b + x + 1 - i]]
      /\ \A i \in 1 .. y : s[x + i] = [kind |-> "Write", payload |-> u[b + i]]
    <2>1. ReadsThenWrites(s, u, b, x, y)
        BY <1>1, <1>2, AccessesFacts
    <2> QED BY <2>1 DEF ReadsThenWrites
<1>4. \E kind : \A i \in 1 .. Len(s) : s[i].kind = kind
    <2>1. CASE y = 0
        <3>1. ASSUME NEW i \in 1 .. Len(s) PROVE s[i].kind = "Read"
            <4>1. i \in 1 .. x
                BY <1>3, <2>1
            <4>2. s[i] = [kind |-> "Read", payload |-> u[b + x + 1 - i]]
                BY <1>3, <4>1
            <4> QED BY <4>2
        <3> QED BY <3>1
    <2>2. CASE x = 0
        <3>1. ASSUME NEW i \in 1 .. Len(s) PROVE s[i].kind = "Write"
            <4>1. i \in 1 .. y /\ x + i = i
                BY <1>3, <2>2
            <4>2. s[x + i] = [kind |-> "Write", payload |-> u[b + i]]
                BY <1>3, <4>1
            <4> QED BY <4>1, <4>2
        <3> QED BY <3>1
    <2> QED BY <1>2, <2>1, <2>2
<1>5. DualPairs(s) = {}
    <2>1. \A k \in 1 .. (Len(s) - 1) : k \in 1 .. Len(s) /\ k + 1 \in 1 .. Len(s)
        BY <1>3
    <2> QED BY <1>4, <2>1 DEF DualPairs, IsDual
<1>6. Canonicalize[s] = s
    BY <1>3, <1>5, CanonicalizeUnfolds
<1>7. IsUniform(s)
    <2>1. DOMAIN s = 1 .. Len(s) /\ Len(s) \in Nat
        BY <1>3 DEF IsSequence
    <2> QED BY <1>4, <2>1 DEF IsUniform
<1> QED BY <1>1, <1>6, <1>7, AccessesCancel
------------------------------------------------------------------------------
(* The accesses of a step. *)

\* What the longer of two stacks shows of the underflow memory, upward from `base`
\* elements.
UnderflowOf(s, t, n, m) ==
    [j \in 1 .. (IF n >= m THEN n ELSE m) |->
        IF j <= n THEN FirstUnderflowElement(s, Len(s) - n + j)
        ELSE FirstUnderflowElement(t, Len(t) - m + j)]

\* A step that succeeds records its pops and pushes of n and m elements as one
\* read or write of the same underflow memory each.
LEMMA RecordedAccesses ==
    ASSUME NEW r \in Nat, r = NumRegisters,
           NEW s \in Seq(Field), NEW t \in Seq(Field), Len(s) >= r, Len(t) >= r,
           NEW n \in 0 .. r, NEW m \in 0 .. r,
           Len(t) = Len(s) - n + m,
           \A k \in 1 .. Len(s) : k <= Len(s) - r \/ k <= Len(t) - r => t[k] = s[k]
    PROVE  /\ RecordedIO(s, t, n, m) = Accesses(UnderflowOf(s, t, n, m), n, m, 0)
           /\ HoldsElements(UnderflowOf(s, t, n, m), n, m)
<1> DEFINE u == UnderflowOf(s, t, n, m)
<1>1. /\ Len(s) \in Nat /\ Len(t) \in Nat /\ n \in Nat /\ m \in Nat
      /\ \A k \in 1 .. Len(s) : s[k] \in Field
      /\ \A k \in 1 .. Len(t) : t[k] \in Field
      /\ 0 \in Field
    <2>1. Len(s) \in Nat /\ Len(t) \in Nat
        OBVIOUS
    <2>2. n \in Nat /\ m \in Nat
        OBVIOUS
    <2>3. \A k \in 1 .. Len(s) : s[k] \in Field
        BY ElementOfSeq
    <2>4. \A k \in 1 .. Len(t) : t[k] \in Field
        BY ElementOfSeq
    <2> QED BY <2>1, <2>2, <2>3, <2>4, FieldFacts
<1>2. ASSUME NEW j \in 1 .. n
      PROVE  u[j] = FirstUnderflowElement(s, Len(s) - n + j) /\ u[j] \in Field
    <2>1. j \in 1 .. (IF n >= m THEN n ELSE m)
        BY <1>1
    <2>2. u[j] = FirstUnderflowElement(s, Len(s) - n + j)
        BY <2>1 DEF UnderflowOf
    <2>3. Len(s) - n + j > r => Len(s) - n + j - r \in 1 .. Len(s)
        BY <1>1
    <2>4. FirstUnderflowElement(s, Len(s) - n + j) \in Field
        BY <1>1, <2>3 DEF FirstUnderflowElement
    <2> QED BY <2>2, <2>4
<1>3. ASSUME NEW j \in 1 .. m
      PROVE  u[j] = FirstUnderflowElement(t, Len(t) - m + j) /\ u[j] \in Field
    <2>1. j \in 1 .. (IF n >= m THEN n ELSE m)
        BY <1>1
    <2>2. PICK q \in Int : q = Len(t) - m + j /\ q = Len(s) - n + j
        <3>1. Len(t) - m + j \in Int /\ Len(t) - m + j = Len(s) - n + j
            BY <1>1
        <3> QED BY <3>1
    <2>3. q > r => /\ q - r \in 1 .. Len(t)
                   /\ j <= n => q - r \in 1 .. Len(s) /\ q - r <= Len(s) - r
        BY <1>1, <2>2
    <2>4. j <= n => FirstUnderflowElement(s, q) = FirstUnderflowElement(t, q)
        BY <2>3 DEF FirstUnderflowElement
    <2>5. u[j] = FirstUnderflowElement(t, q)
        BY <2>1, <2>2, <2>4 DEF UnderflowOf
    <2>6. FirstUnderflowElement(t, q) \in Field
        BY <1>1, <2>3 DEF FirstUnderflowElement
    <2> QED BY <2>2, <2>5, <2>6
<1> HIDE DEF u
<1>4. HoldsElements(u, n, m)
    BY <1>2, <1>3 DEF HoldsElements
<1>5. [k \in 1 .. n |-> [kind |-> "Read",
                         payload |-> FirstUnderflowElement(s, Len(s) - k + 1)]]
      = [k \in 1 .. (n - 0) |-> [kind |-> "Read", payload |-> u[n + 1 - k]]]
    <2>1. ASSUME NEW k \in 1 .. n
          PROVE  FirstUnderflowElement(s, Len(s) - k + 1) = u[n + 1 - k]
        <3>1. n + 1 - k \in 1 .. n /\ Len(s) - n + (n + 1 - k) = Len(s) - k + 1
            BY <1>1
        <3> QED BY <1>2, <3>1
    <2>2. n - 0 = n
        BY <1>1
    <2> QED BY <2>1, <2>2
<1>6. [k \in 1 .. m |-> [kind |-> "Write",
                         payload |-> FirstUnderflowElement(t, Len(t) - m + k)]]
      = [k \in 1 .. (m - 0) |-> [kind |-> "Write", payload |-> u[0 + k]]]
    <2>1. ASSUME NEW k \in 1 .. m
          PROVE  FirstUnderflowElement(t, Len(t) - m + k) = u[0 + k]
        BY <1>3
    <2>2. m - 0 = m
        BY <1>1
    <2> QED BY <2>1, <2>2
<1>7. RecordedIO(s, t, n, m) = Accesses(u, n, m, 0)
    BY <1>5, <1>6 DEF RecordedIO, Accesses
<1> QED BY <1>4, <1>7 DEF u

(***************************************************************************)
(* What is left after canonicalization of what a successful step recorded: *)
(* as many reads as the stack shrinks, or as many writes as it grows.      *)
(***************************************************************************)
AccessesOfStep ==
    \E n, m \in 0 .. NumRegisters : \E b \in Nat : \E u :
        /\ b = (IF n <= m THEN n ELSE m)
        /\ Len(op_stack') = Len(op_stack) - n + m
        /\ u = UnderflowOf(op_stack, op_stack', n, m)
        /\ Canonicalize[underflow_io'] = Accesses(u, n, m, b)
        /\ ReadsThenWrites(Accesses(u, n, m, b), u, b, n - b, m - b)
        /\ IsUniform(Accesses(u, n, m, b))
        /\ \A k \in 1 .. Len(op_stack) :
               k <= Len(op_stack) - NumRegisters \/ k <= Len(op_stack') - NumRegisters =>
                   op_stack'[k] = op_stack[k]

\* The accesses every step that succeeds leaves.
LEMMA StepAccesses ==
    ASSUME VMTypeOK, VMTypeOK', Step, error' = NoError
    PROVE  AccessesOfStep
<1>1. EditsRegisters
    BY StepEdits
<1>2. PICK n \in 0 .. NumRegisters, m \in 0 .. NumRegisters : Edits(n, m)
    BY <1>1 DEF EditsRegisters
<1>3. PICK r \in Nat, s \in Seq(Field), t \in Seq(Field) :
          r = NumRegisters /\ s = op_stack /\ t = op_stack'
    BY RegisterAssumption DEF VMTypeOK
<1>4. /\ n \in 0 .. r /\ m \in 0 .. r /\ n \in Nat /\ m \in Nat
      /\ Len(s) >= r /\ Len(t) >= r
      /\ Len(t) = Len(s) - n + m
      /\ \A k \in 1 .. Len(s) : k <= Len(s) - r \/ k <= Len(t) - r => t[k] = s[k]
    <2>1. n \in 0 .. r /\ m \in 0 .. r /\ n \in Nat /\ m \in Nat
        BY <1>3
    <2>2. Len(s) >= r /\ Len(t) >= r
        BY <1>3 DEF VMTypeOK
    <2>3. /\ Len(t) = Len(s) - n + m
          /\ \A k \in 1 .. Len(s) : k <= Len(s) - r \/ k <= Len(t) - r => t[k] = s[k]
        BY <1>2, <1>3 DEF Edits
    <2> QED BY <2>1, <2>2, <2>3
<1>5. PICK u : u = UnderflowOf(s, t, n, m)
    OBVIOUS
<1>6. RecordedIO(s, t, n, m) = Accesses(u, n, m, 0) /\ HoldsElements(u, n, m)
    <2>1. /\ r \in Nat /\ r = NumRegisters /\ s \in Seq(Field) /\ t \in Seq(Field)
          /\ Len(s) >= r /\ Len(t) >= r /\ n \in 0 .. r /\ m \in 0 .. r
          /\ Len(t) = Len(s) - n + m
          /\ \A k \in 1 .. Len(s) : k <= Len(s) - r \/ k <= Len(t) - r => t[k] = s[k]
        BY <1>3, <1>4
    <2>2. /\ RecordedIO(s, t, n, m) = Accesses(UnderflowOf(s, t, n, m), n, m, 0)
          /\ HoldsElements(UnderflowOf(s, t, n, m), n, m)
        BY ONLY <2>1, RecordedAccesses
    <2> QED BY <1>5, <2>2
<1>7. underflow_io' = Accesses(u, n, m, 0)
    BY <1>2, <1>3, <1>6 DEF Edits
<1>8. PICK b \in Nat : b = (IF n <= m THEN n ELSE m) /\ b <= n /\ b <= m /\ (b = n \/ b = m)
    BY <1>4
<1>9. /\ Canonicalize[Accesses(u, n, m, 0)] = Accesses(u, n, m, b)
      /\ IsUniform(Accesses(u, n, m, b))
    BY <1>4, <1>6, <1>8, AccessesLeft
<1>10. ReadsThenWrites(Accesses(u, n, m, b), u, b, n - b, m - b)
    BY <1>4, <1>6, <1>8, AccessesFacts
<1> QED BY <1>3, <1>4, <1>5, <1>7, <1>8, <1>9, <1>10 DEF AccessesOfStep

\* A step that fails records nothing.
LEMMA FailureRecordsNothing ==
    ASSUME Step, error' # NoError
    PROVE  underflow_io' = <<>>
<1> USE DEF Executes, Completes, Fails, NoError
<1>1. CASE StackInstruction
    BY <1>1 DEF StackInstruction, Pop, Push, Divine, Pick, Place, Dup, Swap
<1>2. CASE ControlInstruction
    BY <1>2 DEF ControlInstruction, Nop, Skiz, Call, Return, Recurse, RecurseOrReturn,
                AssertInstruction, Halt
<1>3. CASE MemoryInstruction
    BY <1>3 DEF MemoryInstruction, ReadMem, WriteMem
<1>4. CASE HashInstruction
    BY <1>4 DEF HashInstruction, Hash, SpongeInit, SpongeAbsorb, SpongeAbsorbMem,
                SpongeSqueeze, AssertVector
<1>5. CASE FieldInstruction
    BY <1>5 DEF FieldInstruction, Add, AddI, Mul, Invert, Eq
<1>6. CASE U32Instruction
    BY <1>6 DEF U32Instruction, Split, Lt, And, Xor, Log2Floor, Pow, DivMod, PopCount,
                WithU32Calls
<1>7. CASE ExtensionInstruction
    BY <1>7 DEF ExtensionInstruction, XxAdd, XxMul, XInvert, XbMul
<1>8. CASE IoInstruction
    BY <1>8 DEF IoInstruction, WriteIo, ReadIo
<1>9. CASE ManyInOneInstruction
    BY <1>9 DEF ManyInOneInstruction, MerkleStep, MerkleStepMem, XxDotStep, XbDotStep,
                MerkleStepTo, DotStep
<1>10. CASE InstructionPointerOverflow \/ TooShallow
    BY <1>10 DEF InstructionPointerOverflow, TooShallow
<1> QED
    BY <1>1, <1>2, <1>3, <1>4, <1>5, <1>6, <1>7, <1>8, <1>9, <1>10 DEF Step

\* Nothing recorded is uniform.
LEMMA NothingIsUniform == IsUniform(Canonicalize[<<>>])
<1>1. <<>> \in Seq(UnderflowIO) /\ DualPairs(<<>>) = {}
    BY DEF DualPairs
<1>2. Canonicalize[<<>>] = <<>>
    BY <1>1, CanonicalizeUnfolds
<1> QED BY <1>2 DEF IsUniform

(***************************************************************************)
(* step() never panics in from_underflow_io_sequence: once the cancelling  *)
(* accesses are removed, what one instruction records is all reads or all  *)
(* writes.  An instruction's pushes write back what its pops have read,    *)
(* innermost first, because it changes registers only.                     *)
(***************************************************************************)
THEOREM UnderflowIoIsUniform == TraceSpec => []CanonicalIoIsUniform
<1> DEFINE Inv == VMTypeOK /\ CanonicalIoIsUniform
<1>1. TraceInit => Inv
    <2>1. TraceInit => VMTypeOK /\ underflow_io = <<>>
        BY InitTypes DEF TraceInit, Init
    <2> QED BY <2>1, NothingIsUniform DEF CanonicalIoIsUniform
<1>2. Inv /\ [TraceNext]_traceVars => Inv'
    <2> SUFFICES ASSUME VMTypeOK, CanonicalIoIsUniform, [TraceNext]_traceVars PROVE Inv'
        OBVIOUS
    <2>1. CASE UNCHANGED traceVars
        <3>1. UNCHANGED vmVars
            BY <2>1 DEF traceVars
        <3> QED BY <3>1 DEF VMTypeOK, CanonicalIoIsUniform, vmVars
    <2>2. CASE TraceNext
        <3>1. VMTypeOK'
            BY <2>2, NextTypes DEF TraceNext, VMNext, StepIsTyped
        <3>2. Step
            BY <2>2 DEF TraceNext
        <3>3. CASE error' = NoError
            <4>1. IsUniform(Canonicalize[underflow_io'])
                BY <3>1, <3>2, <3>3, StepAccesses DEF AccessesOfStep
            <4> QED BY <3>1, <4>1 DEF CanonicalIoIsUniform
        <3>4. CASE error' # NoError
            BY <3>1, <3>2, <3>4, FailureRecordsNothing, NothingIsUniform
               DEF CanonicalIoIsUniform
        <3> QED BY <3>3, <3>4
    <2> QED BY <2>1, <2>2
<1>3. Inv => CanonicalIoIsUniform
    OBVIOUS
<1> QED BY <1>1, <1>2, <1>3, PTL DEF TraceSpec
------------------------------------------------------------------------------
(* Rearranged rows: arguments compare bags. *)

\* A permutation of 1 .. n.
Permutes1To(p, n) ==
    /\ p \in [1 .. n -> 1 .. n]
    /\ \A i, j \in 1 .. n : p[i] = p[j] => i = j
    /\ \A j \in 1 .. n : \E i \in 1 .. n : p[i] = j

\* `t` lists the elements of `s` in another order.
Rearranged(s, t) ==
    /\ IsSequence(s) /\ IsSequence(t) /\ Len(s) = Len(t)
    /\ \E p : Permutes1To(p, Len(s)) /\ \A i \in 1 .. Len(s) : t[i] = s[p[i]]

\* The places of an element.
Places(s, x) == {i \in DOMAIN s : s[i] = x}

\* A rearrangement has as many of every element.
LEMMA RearrangedPlaces ==
    ASSUME NEW s, NEW t, Rearranged(s, t), NEW x
    PROVE  Cardinality(Places(s, x)) = Cardinality(Places(t, x))
<1>1. PICK n \in Nat : n = Len(s) /\ n = Len(t)
    BY DEF Rearranged, IsSequence
<1>2. PICK p : Permutes1To(p, n) /\ \A i \in 1 .. n : t[i] = s[p[i]]
    BY <1>1 DEF Rearranged
<1>3. DOMAIN s = 1 .. n /\ DOMAIN t = 1 .. n
    BY <1>1 DEF Rearranged, IsSequence
<1> DEFINE A == Places(s, x)
           B == Places(t, x)
           f == [i \in B |-> p[i]]
<1>4. IsFiniteSet(B) /\ B \subseteq 1 .. n /\ A \subseteq 1 .. n
    <2>1. IsFiniteSet(1 .. n) /\ B \subseteq 1 .. n /\ A \subseteq 1 .. n
        BY <1>3, FS_Interval DEF Places
    <2> QED BY <2>1, FS_Subset
<1>5. \A i \in B : p[i] \in A
    BY <1>2, <1>3 DEF Places, Permutes1To
<1>6. \A j \in A : \E i \in B : p[i] = j
    BY <1>2, <1>3 DEF Places, Permutes1To
<1>7. \A i, j \in B : p[i] = p[j] => i = j
    BY <1>2, <1>4 DEF Permutes1To
<1> HIDE DEF A, B
<1>8. f \in Bijection(B, A)
    BY <1>5, <1>6, <1>7 DEF Bijection, Injection, Surjection, IsInjective
<1>9. ExistsBijection(B, A)
    BY <1>8 DEF ExistsBijection
<1> QED BY <1>4, <1>9, FS_Bijection DEF A, B

\* The bag of rows does not depend on their order.
LEMMA RearrangedBags ==
    ASSUME NEW s, NEW t, Rearranged(s, t)
    PROVE  S!ToBag(s) = S!ToBag(t)
<1>1. PICK n \in Nat : n = Len(s) /\ n = Len(t)
    BY DEF Rearranged, IsSequence
<1>2. PICK p : Permutes1To(p, n) /\ \A i \in 1 .. n : t[i] = s[p[i]]
    BY <1>1 DEF Rearranged
<1>3. DOMAIN s = 1 .. n /\ DOMAIN t = 1 .. n
    BY <1>1 DEF Rearranged, IsSequence
<1>4. {s[i] : i \in DOMAIN s} = {t[i] : i \in DOMAIN t}
    <2>1. ASSUME NEW i \in 1 .. n PROVE \E j \in 1 .. n : s[i] = t[j]
        <3>1. PICK j \in 1 .. n : p[j] = i
            BY <1>2 DEF Permutes1To
        <3>2. t[j] = s[i]
            BY <1>2, <3>1
        <3> QED BY <3>2
    <2>2. ASSUME NEW i \in 1 .. n PROVE \E j \in 1 .. n : t[i] = s[j]
        <3>1. p[i] \in 1 .. n
            BY <1>2 DEF Permutes1To
        <3>2. t[i] = s[p[i]]
            BY <1>2
        <3> QED BY <3>1, <3>2
    <2>3. \A x : x \in {s[i] : i \in DOMAIN s} => x \in {t[i] : i \in DOMAIN t}
        BY <1>3, <2>1, Zenon
    <2>4. \A x : x \in {t[i] : i \in DOMAIN t} => x \in {s[i] : i \in DOMAIN s}
        BY <1>3, <2>2, Zenon
    <2> QED BY <2>3, <2>4
<1>5. S!Range(s) = S!Range(t)
    BY <1>4 DEF S!Range
<1>6. ASSUME NEW x
      PROVE  S!Cardinality({i \in DOMAIN s : s[i] = x}) = S!Cardinality({i \in DOMAIN t : t[i] = x})
    <2>1. Cardinality(Places(s, x)) = Cardinality(Places(t, x))
        BY RearrangedPlaces
    <2>2. /\ S!Cardinality(Places(s, x)) = Cardinality(Places(s, x))
          /\ S!Cardinality(Places(t, x)) = Cardinality(Places(t, x))
        BY DEF S!Cardinality, Cardinality
    <2> QED BY <2>1, <2>2 DEF Places
<1> QED BY <1>5, <1>6 DEF S!ToBag

\* A sequence is a rearrangement of itself.
LEMMA RearrangedItself ==
    ASSUME NEW s, IsSequence(s)
    PROVE  Rearranged(s, s)
<1>1. Permutes1To([i \in 1 .. Len(s) |-> i], Len(s))
    BY DEF Permutes1To
<1>2. \A i \in 1 .. Len(s) : s[i] = s[[j \in 1 .. Len(s) |-> j][i]]
    OBVIOUS
<1> QED BY <1>1, <1>2 DEF Rearranged

\* A sequence read backwards is a rearrangement.
LEMMA RearrangedBackwards ==
    ASSUME NEW n \in Nat, NEW s, IsSequence(s), Len(s) = n, NEW t, IsSequence(t),
           Len(t) = n, \A i \in 1 .. n : t[i] = s[n + 1 - i]
    PROVE  Rearranged(s, t)
<1> DEFINE p == [i \in 1 .. n |-> n + 1 - i]
<1>1. Permutes1To(p, n)
    <2>1. \A i \in 1 .. n : n + 1 - i \in 1 .. n /\ n + 1 - (n + 1 - i) = i
        OBVIOUS
    <2>2. p \in [1 .. n -> 1 .. n]
        BY <2>1
    <2>3. \A i, j \in 1 .. n : p[i] = p[j] => i = j
        OBVIOUS
    <2>4. \A j \in 1 .. n : p[n + 1 - j] = j
        BY <2>1
    <2> QED BY <2>1, <2>2, <2>3, <2>4 DEF Permutes1To
<1>2. \A i \in 1 .. n : t[i] = s[p[i]]
    OBVIOUS
<1> HIDE DEF p
<1> QED BY <1>1, <1>2 DEF Rearranged

\* Rearrangements follow one another.
LEMMA RearrangedConcatenated ==
    ASSUME NEW s, NEW t, Rearranged(s, t), NEW u, NEW v, Rearranged(u, v)
    PROVE  Rearranged(s \o u, t \o v)
<1>1. PICK n \in Nat : n = Len(s) /\ n = Len(t)
    BY DEF Rearranged, IsSequence
<1>2. PICK m \in Nat : m = Len(u) /\ m = Len(v)
    BY DEF Rearranged, IsSequence
<1>3. PICK p : Permutes1To(p, n) /\ \A i \in 1 .. n : t[i] = s[p[i]]
    BY <1>1 DEF Rearranged
<1>4. PICK q : Permutes1To(q, m) /\ \A i \in 1 .. m : v[i] = u[q[i]]
    BY <1>2 DEF Rearranged
<1>5. IsSequence(s) /\ IsSequence(t) /\ IsSequence(u) /\ IsSequence(v)
    BY DEF Rearranged
<1>6. PICK a, b : a = s \o u /\ b = t \o v
    OBVIOUS
<1>7. /\ IsSequence(a) /\ Len(a) = n + m
      /\ \A i \in 1 .. n : a[i] = s[i]
      /\ \A i \in 1 .. m : a[n + i] = u[i]
    <2>1. /\ IsSequence(s \o u) /\ Len(s \o u) = Len(s) + Len(u)
          /\ \A i \in 1 .. Len(s) : (s \o u)[i] = s[i]
          /\ \A i \in 1 .. Len(u) : (s \o u)[Len(s) + i] = u[i]
        BY ONLY <1>5, ConcatenatedSequence
    <2> QED BY <1>1, <1>2, <1>6, <2>1
<1>8. /\ IsSequence(b) /\ Len(b) = n + m
      /\ \A i \in 1 .. n : b[i] = t[i]
      /\ \A i \in 1 .. m : b[n + i] = v[i]
    <2>1. /\ IsSequence(t \o v) /\ Len(t \o v) = Len(t) + Len(v)
          /\ \A i \in 1 .. Len(t) : (t \o v)[i] = t[i]
          /\ \A i \in 1 .. Len(v) : (t \o v)[Len(t) + i] = v[i]
        BY ONLY <1>5, ConcatenatedSequence
    <2> QED BY <1>1, <1>2, <1>6, <2>1
<1> DEFINE r == [i \in 1 .. (n + m) |-> IF i <= n THEN p[i] ELSE n + q[i - n]]
<1>9. \A i \in 1 .. (n + m) :
          \/ i \in 1 .. n /\ r[i] = p[i] /\ r[i] \in 1 .. n /\ b[i] = a[r[i]]
          \/ /\ i > n /\ i - n \in 1 .. m /\ r[i] = n + q[i - n] /\ q[i - n] \in 1 .. m
             /\ b[i] = a[r[i]]
    <2> SUFFICES ASSUME NEW i \in 1 .. (n + m)
                 PROVE  \/ i \in 1 .. n /\ r[i] = p[i] /\ r[i] \in 1 .. n /\ b[i] = a[r[i]]
                        \/ /\ i > n /\ i - n \in 1 .. m /\ r[i] = n + q[i - n]
                           /\ q[i - n] \in 1 .. m /\ b[i] = a[r[i]]
        OBVIOUS
    <2>1. CASE i <= n
        <3>1. i \in 1 .. n /\ r[i] = p[i]
            BY <2>1
        <3>2. p[i] \in 1 .. n
            BY <1>3, <3>1 DEF Permutes1To
        <3> HIDE DEF r
        <3> QED BY <1>3, <1>7, <1>8, <3>1, <3>2
    <2>2. CASE ~(i <= n)
        <3>1. i > n /\ i - n \in 1 .. m /\ r[i] = n + q[i - n] /\ n + (i - n) = i
            BY <2>2
        <3>2. q[i - n] \in 1 .. m
            BY <1>4, <3>1 DEF Permutes1To
        <3> HIDE DEF r
        <3>3. b[i] = v[i - n]
            BY <1>8, <3>1
        <3>4. a[r[i]] = u[q[i - n]]
            BY <1>7, <3>1, <3>2
        <3> QED BY <1>4, <3>1, <3>2, <3>3, <3>4
    <2> QED BY <2>1, <2>2
<1>10. Permutes1To(r, n + m)
    <2>1. r = [i \in 1 .. (n + m) |-> r[i]]
        OBVIOUS
    <2>2. \A j \in 1 .. n : j \in 1 .. (n + m) /\ r[j] = p[j]
        OBVIOUS
    <2>3. \A j \in 1 .. m : n + j \in 1 .. (n + m) /\ r[n + j] = n + q[j]
        <3> SUFFICES ASSUME NEW j \in 1 .. m
                     PROVE  n + j \in 1 .. (n + m) /\ r[n + j] = n + q[j]
            OBVIOUS
        <3>1. n + j \in 1 .. (n + m) /\ ~(n + j <= n) /\ n + j - n = j
            OBVIOUS
        <3> QED BY <3>1
    <2> HIDE DEF r
    <2>4. \A i \in 1 .. (n + m) : r[i] \in 1 .. (n + m)
        BY <1>9
    <2>5. r \in [1 .. (n + m) -> 1 .. (n + m)]
        BY <2>1, <2>4
    <2>6. ASSUME NEW i \in 1 .. (n + m), NEW j \in 1 .. (n + m), r[i] = r[j] PROVE i = j
        <3>1. CASE i <= n /\ j <= n
            <4>1. i \in 1 .. n /\ j \in 1 .. n /\ p[i] = p[j]
                BY <2>2, <2>6, <3>1
            <4> QED BY <1>3, <4>1 DEF Permutes1To
        <3>2. CASE i > n /\ j > n
            <4>1. /\ i - n \in 1 .. m /\ j - n \in 1 .. m
                  /\ n + q[i - n] = n + q[j - n] /\ q[i - n] \in 1 .. m /\ q[j - n] \in 1 .. m
                BY <1>9, <2>6, <3>2
            <4>2. q[i - n] = q[j - n]
                BY <4>1
            <4>3. i - n = j - n
                BY <1>4, <4>1, <4>2 DEF Permutes1To
            <4> QED BY <4>3
        <3>3. CASE i <= n /\ j > n
            <4>1. r[i] \in 1 .. n /\ r[j] = n + q[j - n] /\ q[j - n] \in 1 .. m
                BY <1>9, <3>3
            <4> QED BY <2>6, <4>1
        <3>4. CASE i > n /\ j <= n
            <4>1. r[j] \in 1 .. n /\ r[i] = n + q[i - n] /\ q[i - n] \in 1 .. m
                BY <1>9, <3>4
            <4> QED BY <2>6, <4>1
        <3> QED BY <3>1, <3>2, <3>3, <3>4
    <2>7. ASSUME NEW j \in 1 .. (n + m) PROVE \E i \in 1 .. (n + m) : r[i] = j
        <3>1. CASE j <= n
            <4>1. j \in 1 .. n
                BY <3>1
            <4>2. PICK i \in 1 .. n : p[i] = j
                BY <1>3, <4>1 DEF Permutes1To
            <4> QED BY <2>2, <4>2
        <3>2. CASE j > n
            <4>1. j - n \in 1 .. m
                BY <3>2
            <4>2. PICK i \in 1 .. m : q[i] = j - n
                BY <1>4, <4>1 DEF Permutes1To
            <4>3. n + i \in 1 .. (n + m) /\ r[n + i] = n + (j - n)
                BY <2>3, <4>2
            <4> QED BY <4>3
        <3> QED BY <3>1, <3>2
    <2> QED BY <2>5, <2>6, <2>7 DEF Permutes1To
<1> HIDE DEF r
<1>11. \A i \in 1 .. (n + m) : b[i] = a[r[i]]
    BY <1>9
<1>12. Rearranged(a, b)
    BY <1>7, <1>8, <1>10, <1>11 DEF Rearranged
<1> QED BY <1>6, <1>12

------------------------------------------------------------------------------
(* The op stack table. *)

\* The instructions that let the stack grow, and those that shrink it.
Growers == {"push", "dup", "split", "divine", "read_mem", "read_io", "sponge_squeeze"}
Shrinkers ==
    {"skiz", "assert", "add", "mul", "eq", "lt", "and", "xor", "pow", "xb_mul", "pop",
     "write_mem", "write_io", "hash", "assert_vector", "xx_add", "xx_mul", "sponge_absorb"}

\* Instruction bit 1 tells the instructions that shrink the stack from those
\* that let it grow.
LEMMA InstructionBitOne ==
    /\ \A op \in Growers : InstructionBit(Opcode[op], 1) = 0
    /\ \A op \in Shrinkers : InstructionBit(Opcode[op], 1) = 1
<1>1. 2^1 = 2
    OBVIOUS
<1>2. \A n : InstructionBit(n, 1) = (n \div 2) % 2
    BY <1>1 DEF InstructionBit
<1>3. \A n \in {1, 33, 4, 9, 57, 73, 56} : (n \div 2) % 2 = 0
    OBVIOUS
<1>4. \A n \in {2, 10, 42, 50, 58, 6, 14, 22, 30, 82, 3, 11, 19, 18, 26, 66, 74, 34} :
          (n \div 2) % 2 = 1
    OBVIOUS
<1>5. \A op \in Growers : Opcode[op] \in {1, 33, 4, 9, 57, 73, 56}
    BY DEF Opcode, Growers
<1>6. \A op \in Shrinkers :
          Opcode[op] \in {2, 10, 42, 50, 58, 6, 14, 22, 30, 82, 3, 11, 19, 18, 26, 66, 74, 34}
    BY DEF Opcode, Shrinkers
<1> QED BY <1>2, <1>3, <1>4, <1>5, <1>6

(***************************************************************************)
(* What the row tells of the change of the stack.                          *)
(***************************************************************************)
RowTellsInfluence(g, h) ==
    /\ g \in 0 .. NumRegisters /\ h \in 0 .. NumRegisters
    /\ g = 0 \/ h = 0
    /\ OpStackSizeInfluence(CurrentInstruction) = g - h
    /\ g > 0 => InstructionBit(ProcessorRow.ci, 1) = 0
    /\ h > 0 => InstructionBit(ProcessorRow.ci, 1) = 1

\* The row tells by how much the instruction changes the size of the stack.
LEMMA GrowthAndShrinkage ==
    ASSUME VMTypeOK, InBounds(instruction_pointer)
    PROVE  RowTellsInfluence(Growth(ProcessorRow), Shrinkage(ProcessorRow))
<1>1. PICK op, row : op = CurrentInstruction.op /\ row = ProcessorRow
    OBVIOUS
<1>2. /\ op \in Mnemonics
      /\ row.ci = Opcode[op]
      /\ \A o \in Mnemonics : Is(row, o) <=> op = o
    BY <1>1, InstructionRow
<1>3. op \in NumWordsOps => IndicatedArg(row) = Arg /\ Arg \in 1 .. (NumRegisters - 1)
    BY <1>1, ArgumentIsIndicated
<1>4. \A ops \in SUBSET Mnemonics : IsAnyOf(row, ops) <=> op \in ops
    BY <1>2 DEF IsAnyOf
<1>5. /\ NumRegisters \in Nat /\ 1 \in 0 .. NumRegisters
      /\ DigestLen \in 0 .. NumRegisters /\ ExtensionDegree \in 0 .. NumRegisters
      /\ Rate \in 0 .. NumRegisters
    BY RegisterFacts, RegisterAssumption
<1> DEFINE One == {"push", "dup", "split"}
           Some == {"divine", "read_mem", "read_io"}
           MinusSome == {"pop", "write_mem", "write_io"}
           Digests == {"hash", "assert_vector"}
           Xs == {"xx_add", "xx_mul"}
<1>6. /\ One \in SUBSET Mnemonics /\ Some \in SUBSET Mnemonics
      /\ ShrinkByOne \in SUBSET Mnemonics /\ MinusSome \in SUBSET Mnemonics
      /\ Digests \in SUBSET Mnemonics /\ Xs \in SUBSET Mnemonics
      /\ "sponge_squeeze" \in Mnemonics /\ "sponge_absorb" \in Mnemonics
    BY DEF Mnemonics, DoubleWordOps, SingleWordOps, NumWordsOps, RegisterOps, ElementOps,
           ShrinkByOne
<1>7. Growth(row) = IF op \in One THEN 1
                    ELSE IF op \in Some THEN IndicatedArg(row)
                    ELSE IF op = "sponge_squeeze" THEN Rate ELSE 0
    BY <1>2, <1>4, <1>6 DEF Growth
<1>8. Shrinkage(row) = IF op \in ShrinkByOne THEN 1
                       ELSE IF op \in MinusSome THEN IndicatedArg(row)
                       ELSE IF op \in Digests THEN DigestLen
                       ELSE IF op \in Xs THEN ExtensionDegree
                       ELSE IF op = "sponge_absorb" THEN Rate ELSE 0
    <2>1. Shrinkage(row) = IF IsAnyOf(row, ShrinkByOne) THEN 1
                       ELSE IF IsAnyOf(row, MinusSome) THEN IndicatedArg(row)
                       ELSE IF IsAnyOf(row, Digests) THEN DigestLen
                       ELSE IF IsAnyOf(row, Xs) THEN ExtensionDegree
                       ELSE IF Is(row, "sponge_absorb") THEN Rate ELSE 0
        BY DEF Shrinkage, ShrinkByOne
    <2> QED BY <1>2, <1>4, <1>6, <2>1
<1>9. CASE op \in One
    <2>1. op \in Growers /\ Growth(row) = 1 /\ Shrinkage(row) = 0
        BY <1>7, <1>8, <1>9 DEF Growers, ShrinkByOne
    <2>2. OpStackSizeInfluence(CurrentInstruction) = 1
        BY <1>1, <1>9, Influences
    <2> QED BY <1>1, <1>2, <1>5, <2>1, <2>2, InstructionBitOne DEF RowTellsInfluence
<1>10. CASE op \in Some
    <2>1. op \in Growers /\ op \in NumWordsOps
        BY <1>10 DEF Growers, NumWordsOps
    <2>2. Growth(row) = Arg /\ Shrinkage(row) = 0
        BY <1>3, <1>7, <1>8, <1>10, <2>1 DEF ShrinkByOne
    <2>3. OpStackSizeInfluence(CurrentInstruction) = Arg
        BY <1>1, <1>10, Influences DEF Arg
    <2> QED BY <1>1, <1>2, <1>3, <1>5, <2>1, <2>2, <2>3, InstructionBitOne
               DEF RowTellsInfluence
<1>11. CASE op = "sponge_squeeze"
    <2>1. op \in Growers /\ Growth(row) = Rate /\ Shrinkage(row) = 0
        BY <1>7, <1>8, <1>11 DEF Growers, ShrinkByOne
    <2>2. OpStackSizeInfluence(CurrentInstruction) = Rate
        BY <1>1, <1>11, Influences
    <2> QED BY <1>1, <1>2, <1>5, <2>1, <2>2, InstructionBitOne DEF RowTellsInfluence
<1>12. CASE op \in ShrinkByOne
    <2>1. op \in Shrinkers /\ Growth(row) = 0 /\ Shrinkage(row) = 1
        BY <1>7, <1>8, <1>12 DEF Shrinkers, ShrinkByOne
    <2>2. OpStackSizeInfluence(CurrentInstruction) = -1
        BY <1>1, <1>12, Influences
    <2> QED BY <1>1, <1>2, <1>5, <2>1, <2>2, InstructionBitOne DEF RowTellsInfluence
<1>13. CASE op \in MinusSome
    <2>1. op \in Shrinkers /\ op \in NumWordsOps
        BY <1>13 DEF Shrinkers, NumWordsOps
    <2>2. Growth(row) = 0 /\ Shrinkage(row) = Arg
        BY <1>3, <1>7, <1>8, <1>13, <2>1 DEF ShrinkByOne
    <2>3. OpStackSizeInfluence(CurrentInstruction) = -Arg
        BY <1>1, <1>13, Influences DEF Arg
    <2> QED BY <1>1, <1>2, <1>3, <1>5, <2>1, <2>2, <2>3, InstructionBitOne
               DEF RowTellsInfluence
<1>14. CASE op \in Digests
    <2>1. op \in Shrinkers /\ Growth(row) = 0 /\ Shrinkage(row) = DigestLen
        BY <1>7, <1>8, <1>14 DEF Shrinkers, ShrinkByOne
    <2>2. OpStackSizeInfluence(CurrentInstruction) = -DigestLen
        BY <1>1, <1>14, Influences
    <2> QED BY <1>1, <1>2, <1>5, <2>1, <2>2, InstructionBitOne DEF RowTellsInfluence
<1>15. CASE op \in Xs
    <2>1. op \in Shrinkers /\ Growth(row) = 0 /\ Shrinkage(row) = ExtensionDegree
        BY <1>7, <1>8, <1>15 DEF Shrinkers, ShrinkByOne
    <2>2. OpStackSizeInfluence(CurrentInstruction) = -ExtensionDegree
        BY <1>1, <1>15, Influences
    <2> QED BY <1>1, <1>2, <1>5, <2>1, <2>2, InstructionBitOne DEF RowTellsInfluence
<1>16. CASE op = "sponge_absorb"
    <2>1. op \in Shrinkers /\ Growth(row) = 0 /\ Shrinkage(row) = Rate
        BY <1>7, <1>8, <1>16 DEF Shrinkers, ShrinkByOne
    <2>2. OpStackSizeInfluence(CurrentInstruction) = -Rate
        BY <1>1, <1>16, Influences
    <2> QED BY <1>1, <1>2, <1>5, <2>1, <2>2, InstructionBitOne DEF RowTellsInfluence
<1>17. CASE op \notin One \cup Some \cup ShrinkByOne \cup MinusSome \cup Digests \cup Xs
                          \cup {"sponge_squeeze", "sponge_absorb"}
    <2>1. Growth(row) = 0 /\ Shrinkage(row) = 0
        BY <1>7, <1>8, <1>17
    <2>2. OpStackSizeInfluence(CurrentInstruction) = 0
        BY <1>1, <1>17 DEF OpStackSizeInfluence
    <2> QED BY <1>1, <1>5, <2>1, <2>2 DEF RowTellsInfluence
<1> QED BY <1>9, <1>10, <1>11, <1>12, <1>13, <1>14, <1>15, <1>16, <1>17

(***************************************************************************)
(* The entries of one step, `a` reads or `c` writes of the underflow       *)
(* memory u above the b pairs that cancel, between stacks of lengths       *)
(* `before` and `after`.                                                   *)
(***************************************************************************)
GrowthEntries(e, clk, after, c, u, b) ==
    /\ IsSequence(e) /\ Len(e) = c
    /\ \A k \in 1 .. c : e[k] =
           [clk |-> clk, shrink_stack |-> 0, stack_pointer |-> after - c + k - 1,
            first_underflow_element |-> u[b + k]]

ShrinkageEntries(e, clk, after, a, u, b) ==
    /\ IsSequence(e) /\ Len(e) = a
    /\ \A k \in 1 .. a : e[k] =
           [clk |-> clk, shrink_stack |-> 1, stack_pointer |-> after + a - k,
            first_underflow_element |-> u[b + a + 1 - k]]

\* The entries of a step that leaves only writes.
LEMMA EntriesOfWrites ==
    ASSUME NEW s, NEW u, NEW b \in Nat, NEW c \in Nat, ReadsThenWrites(s, u, b, 0, c),
           NEW sequence, Canonicalize[sequence] = s, NEW clk, NEW after \in Nat
    PROVE  GrowthEntries(FromUnderflowIoSequence(clk, after, sequence), clk, after, c, u, b)
<1>1. /\ IsSequence(s) /\ Len(s) = c /\ DOMAIN s = 1 .. c
      /\ \A i \in 1 .. c : s[i] = [kind |-> "Write", payload |-> u[b + i]]
    <2>1. IsSequence(s) /\ Len(s) = c
        BY DEF ReadsThenWrites
    <2>2. \A i \in 1 .. c : s[0 + i] = [kind |-> "Write", payload |-> u[b + i]]
        BY DEF ReadsThenWrites
    <2>3. \A i \in 1 .. c : 0 + i = i
        OBVIOUS
    <2>4. DOMAIN s = 1 .. c
        BY <2>1 DEF IsSequence
    <2>5. ASSUME NEW i \in 1 .. c PROVE s[i] = [kind |-> "Write", payload |-> u[b + i]]
        BY <2>2, <2>3
    <2> QED BY <2>1, <2>4, <2>5
<1>2. \A k \in 1 .. c : s[k].kind = "Write" /\ s[k].payload = u[b + k]
    BY <1>1
<1> DEFINE e == FromUnderflowIoSequence(clk, after, sequence)
<1>3. e = [k \in 1 .. c |->
              [clk |-> clk,
               shrink_stack |-> IF s[k].kind = "Read" THEN 1 ELSE 0,
               stack_pointer |-> IF s[k].kind = "Read" THEN after - c - k ELSE after - c + k - 1,
               first_underflow_element |-> s[k].payload]]
    BY <1>1, <1>2 DEF FromUnderflowIoSequence
<1>4. IsSequence(e) /\ Len(e) = c
    <2>1. e = [k \in 1 .. c |-> e[k]]
        BY <1>3
    <2> HIDE DEF e
    <2> QED BY <2>1, IndexedSequence
<1>5. \A k \in 1 .. c : e[k] =
          [clk |-> clk, shrink_stack |-> 0, stack_pointer |-> after - c + k - 1,
           first_underflow_element |-> u[b + k]]
    BY <1>2, <1>3
<1> QED BY <1>4, <1>5 DEF GrowthEntries

\* The entries of a step that leaves only reads.
LEMMA EntriesOfReads ==
    ASSUME NEW s, NEW u, NEW b \in Nat, NEW a \in Nat \ {0}, ReadsThenWrites(s, u, b, a, 0),
           NEW sequence, Canonicalize[sequence] = s, NEW clk, NEW after \in Nat
    PROVE  ShrinkageEntries(FromUnderflowIoSequence(clk, after, sequence), clk, after, a, u, b)
<1>1. /\ IsSequence(s) /\ Len(s) = a /\ DOMAIN s = 1 .. a
      /\ \A i \in 1 .. a : s[i] = [kind |-> "Read", payload |-> u[b + a + 1 - i]]
    <2>1. IsSequence(s) /\ Len(s) = a
        BY DEF ReadsThenWrites
    <2>2. \A i \in 1 .. a : s[i] = [kind |-> "Read", payload |-> u[b + a + 1 - i]]
        BY DEF ReadsThenWrites
    <2> QED BY <2>1, <2>2 DEF IsSequence
<1>2. \A k \in 1 .. a : s[k].kind = "Read" /\ s[k].payload = u[b + a + 1 - k]
    BY <1>1
<1>3. ~ \A k \in 1 .. a : s[k].kind = "Write"
    <2>1. 1 \in 1 .. a
        OBVIOUS
    <2> QED BY <1>2, <2>1
<1> DEFINE e == FromUnderflowIoSequence(clk, after, sequence)
<1>4. e = [k \in 1 .. a |->
              [clk |-> clk,
               shrink_stack |-> IF s[k].kind = "Read" THEN 1 ELSE 0,
               stack_pointer |-> IF s[k].kind = "Read" THEN after + a - k ELSE after + a + k - 1,
               first_underflow_element |-> s[k].payload]]
    BY <1>1, <1>3 DEF FromUnderflowIoSequence
<1>5. IsSequence(e) /\ Len(e) = a
    <2>1. e = [k \in 1 .. a |-> e[k]]
        BY <1>4
    <2> HIDE DEF e
    <2> QED BY <2>1, IndexedSequence
<1>6. \A k \in 1 .. a : e[k] =
          [clk |-> clk, shrink_stack |-> 1, stack_pointer |-> after + a - k,
           first_underflow_element |-> u[b + a + 1 - k]]
    BY <1>2, <1>4
<1> QED BY <1>5, <1>6 DEF ShrinkageEntries

\* The rows one side of a transition contributes.
LEMMA FactorFacts ==
    ASSUME NEW t, NEW row, NEW n \in Nat
    PROVE  /\ IsSequence(OpStackFactors(t, row, n)) /\ Len(OpStackFactors(t, row, n)) = n
           /\ \A k \in 1 .. n : OpStackFactors(t, row, n)[k] =
                  [clk |-> t.cur.clk, shrink_stack |-> InstructionBit(t.cur.ci, 1),
                   stack_pointer |-> row.op_stack_pointer + k - 1,
                   first_underflow_element |-> row.st[NumRegisters - k + 1]]
<1> DEFINE f == OpStackFactors(t, row, n)
<1>1. f = [k \in 1 .. n |->
              [clk |-> t.cur.clk, shrink_stack |-> InstructionBit(t.cur.ci, 1),
               stack_pointer |-> row.op_stack_pointer + k - 1,
               first_underflow_element |-> row.st[NumRegisters - k + 1]]]
    BY DEF OpStackFactors
<1>2. IsSequence(f) /\ Len(f) = n
    <2>1. f = [k \in 1 .. n |-> f[k]]
        BY <1>1
    <2> HIDE DEF f
    <2> QED BY <2>1, IndexedSequence
<1>3. \A k \in 1 .. n : f[k] =
                  [clk |-> t.cur.clk, shrink_stack |-> InstructionBit(t.cur.ci, 1),
                   stack_pointer |-> row.op_stack_pointer + k - 1,
                   first_underflow_element |-> row.st[NumRegisters - k + 1]]
    BY <1>1
<1> QED BY <1>2, <1>3

\* Nothing is before or behind an empty sequence.
LEMMA EmptyPrepended ==
    ASSUME NEW s, IsSequence(s), NEW t, IsSequence(t)
    PROVE  /\ Len(s) = 0 => s \o t = t
           /\ Len(t) = 0 => s \o t = s
<1>1. PICK x : x = s \o t
    OBVIOUS
<1>2. /\ IsSequence(x) /\ Len(x) = Len(s) + Len(t)
      /\ \A i \in 1 .. Len(s) : x[i] = s[i]
      /\ \A i \in 1 .. Len(t) : x[Len(s) + i] = t[i]
    BY <1>1, ConcatenatedSequence
<1>3. Len(s) \in Nat /\ Len(t) \in Nat
    BY DEF IsSequence
<1>4. ASSUME Len(s) = 0 PROVE x = t
    <2>1. Len(x) = Len(t) /\ \A i \in 1 .. Len(x) : x[i] = t[i]
        BY <1>2, <1>3, <1>4
    <2> QED BY <1>2, <2>1, SequencesEqual
<1>5. ASSUME Len(t) = 0 PROVE x = s
    <2>1. Len(x) = Len(s) /\ \A i \in 1 .. Len(x) : x[i] = s[i]
        BY <1>2, <1>3, <1>5
    <2> QED BY <1>2, <2>1, SequencesEqual
<1> QED BY <1>1, <1>4, <1>5

\* What the machine records of a step is what the transition contributes.
OpStackRecorded(t) ==
    Rearranged(FromUnderflowIoSequence(cycle_count, Len(op_stack'), underflow_io'),
               OpStackRows(t))

(***************************************************************************)
(* A step that succeeds records, up to their order, the underflow accesses *)
(* its two rows tell of: in order when the stack grows, in reverse when it *)
(* shrinks.                                                                *)
(***************************************************************************)
LEMMA OpStackStep ==
    ASSUME VMTypeOK, VMTypeOK', Step, error' = NoError,
           NEW t, t = [cur |-> ProcessorRow, next |-> ProcessorRow']
    PROVE  OpStackRecorded(t)
<1>1. StepCompletes
    BY SuccessfulStep
<1>2. AccessesOfStep
    BY StepAccesses
<1>3. RowTellsInfluence(Growth(t.cur), Shrinkage(t.cur))
    BY <1>1, GrowthAndShrinkage DEF StepCompletes
<1>4. Len(op_stack') = Len(op_stack) + OpStackSizeInfluence(CurrentInstruction)
    BY <1>1, NextTypes DEF VMNext, StepIsTyped, StepCompletes
<1>5. PICK r \in Nat, before \in Seq(Field), after \in Seq(Field), clk \in Nat :
          /\ r = NumRegisters /\ before = op_stack /\ after = op_stack' /\ clk = cycle_count
          /\ Len(before) >= r /\ Len(after) >= r
    BY RegisterAssumption DEF VMTypeOK
<1>6. PICK lb \in Nat, la \in Nat : lb = Len(before) /\ la = Len(after) /\ lb >= r /\ la >= r
    BY <1>5
<1>7. PICK g \in 0 .. r, h \in 0 .. r :
          /\ g = Growth(t.cur) /\ h = Shrinkage(t.cur) /\ (g = 0 \/ h = 0)
          /\ la = lb + g - h
          /\ g > 0 => InstructionBit(t.cur.ci, 1) = 0
          /\ h > 0 => InstructionBit(t.cur.ci, 1) = 1
    <2>1. PICK g, h : g = Growth(t.cur) /\ h = Shrinkage(t.cur)
        OBVIOUS
    <2>2. /\ g \in 0 .. r /\ h \in 0 .. r /\ (g = 0 \/ h = 0)
          /\ g > 0 => InstructionBit(t.cur.ci, 1) = 0
          /\ h > 0 => InstructionBit(t.cur.ci, 1) = 1
          /\ OpStackSizeInfluence(CurrentInstruction) = g - h
        BY <1>3, <1>5, <2>1 DEF RowTellsInfluence
    <2>3. la = lb + (g - h) /\ lb \in Nat
        BY <1>4, <1>5, <1>6, <2>2
    <2> QED BY <2>1, <2>2, <2>3
<1>8. /\ t.cur.clk = clk
      /\ t.cur.op_stack_pointer = lb /\ t.next.op_stack_pointer = la
      /\ \A k \in 1 .. r : t.cur.st[k] = before[lb - (k - 1)]
      /\ \A k \in 1 .. r : t.next.st[k] = after[la - (k - 1)]
    <2>1. RowShape /\ RowShape'
        BY RowFacts, NextRowFacts
    <2>2. /\ ProcessorRow.clk = clk % P
          /\ ProcessorRow.op_stack_pointer = lb
          /\ \A k \in 1 .. r : ProcessorRow.st[k] = before[lb - (k - 1)]
        BY <1>5, <1>6, <2>1 DEF RowShape, St
    <2>3. /\ ProcessorRow'.op_stack_pointer = la
          /\ \A k \in 1 .. r : ProcessorRow'.st[k] = after[la - (k - 1)]
        BY <1>5, <1>6, <2>1 DEF RowShape, St
    <2>4. clk % P = clk
        <3>1. clk \in Field
            BY <1>1, <1>5, <1>6, LinkingAssumption, InputAssumption, FieldFacts
               DEF StepCompletes, Field
        <3> QED BY <3>1, ReducedIsUnchanged
    <2> QED BY <2>2, <2>3, <2>4
<1>9. PICK n \in 0 .. r, m \in 0 .. r, b \in Nat : \E u :
        /\ b = (IF n <= m THEN n ELSE m)
        /\ la = lb - n + m
        /\ u = UnderflowOf(before, after, n, m)
        /\ Canonicalize[underflow_io'] = Accesses(u, n, m, b)
        /\ ReadsThenWrites(Accesses(u, n, m, b), u, b, n - b, m - b)
        /\ \A k \in 1 .. lb :
               k <= lb - r \/ k <= la - r => after[k] = before[k]
    BY <1>2, <1>5, <1>6 DEF AccessesOfStep
<1>10. PICK u, s :
        /\ b = (IF n <= m THEN n ELSE m)
        /\ la = lb - n + m
        /\ u = UnderflowOf(before, after, n, m)
        /\ s = Accesses(u, n, m, b)
        /\ Canonicalize[underflow_io'] = s
        /\ ReadsThenWrites(s, u, b, n - b, m - b)
        /\ \A k \in 1 .. lb :
               k <= lb - r \/ k <= la - r => after[k] = before[k]
    BY <1>9
<1>11. PICK e, sequence : /\ sequence = underflow_io'
                          /\ e = FromUnderflowIoSequence(clk, la, sequence)
    OBVIOUS
<1>12. PICK fg, fh : fg = OpStackFactors(t, t.cur, g) /\ fh = OpStackFactors(t, t.next, h)
    OBVIOUS
<1>13. /\ IsSequence(fg) /\ Len(fg) = g
       /\ \A k \in 1 .. g : fg[k] =
              [clk |-> clk, shrink_stack |-> InstructionBit(t.cur.ci, 1),
               stack_pointer |-> lb + k - 1,
               first_underflow_element |-> t.cur.st[r - k + 1]]
    <2>1. g \in Nat
        OBVIOUS
    <2>2. /\ IsSequence(OpStackFactors(t, t.cur, g)) /\ Len(OpStackFactors(t, t.cur, g)) = g
          /\ \A k \in 1 .. g : OpStackFactors(t, t.cur, g)[k] =
                  [clk |-> t.cur.clk, shrink_stack |-> InstructionBit(t.cur.ci, 1),
                   stack_pointer |-> t.cur.op_stack_pointer + k - 1,
                   first_underflow_element |-> t.cur.st[NumRegisters - k + 1]]
        BY ONLY <2>1, FactorFacts
    <2> QED BY <1>5, <1>8, <1>12, <2>2
<1>14. /\ IsSequence(fh) /\ Len(fh) = h
       /\ \A k \in 1 .. h : fh[k] =
              [clk |-> clk, shrink_stack |-> InstructionBit(t.cur.ci, 1),
               stack_pointer |-> la + k - 1,
               first_underflow_element |-> t.next.st[r - k + 1]]
    <2>1. h \in Nat
        OBVIOUS
    <2>2. /\ IsSequence(OpStackFactors(t, t.next, h)) /\ Len(OpStackFactors(t, t.next, h)) = h
          /\ \A k \in 1 .. h : OpStackFactors(t, t.next, h)[k] =
                  [clk |-> t.cur.clk, shrink_stack |-> InstructionBit(t.cur.ci, 1),
                   stack_pointer |-> t.next.op_stack_pointer + k - 1,
                   first_underflow_element |-> t.next.st[NumRegisters - k + 1]]
        BY ONLY <2>1, FactorFacts
    <2> QED BY <1>5, <1>8, <1>12, <2>2
<1>15. OpStackRows(t) = fg \o fh
    BY <1>7, <1>12 DEF OpStackRows
<1>16. /\ lb \in Nat /\ la \in Nat /\ n \in Nat /\ m \in Nat /\ g \in Nat /\ h \in Nat
       /\ n <= r /\ m <= r /\ g <= r /\ h <= r
    OBVIOUS
<1>17. \A j \in 1 .. (IF n >= m THEN n ELSE m) : u[j] =
           IF j <= n THEN FirstUnderflowElement(before, lb - n + j)
           ELSE FirstUnderflowElement(after, la - m + j)
    BY <1>10, <1>6 DEF UnderflowOf
<1>18. /\ b = (IF n <= m THEN n ELSE m) /\ la = lb - n + m /\ la = lb + g - h /\ (g = 0 \/ h = 0)
       /\ lb >= r /\ la >= r
    BY <1>7, <1>10, <1>6
<1>19. CASE h = 0
    <2>1. n - b = 0 /\ m - b = g /\ b = n /\ m = n + g /\ la = lb + g
        BY <1>16, <1>19, <1>18
    <2>2. ReadsThenWrites(s, u, b, 0, g)
        BY <1>10, <2>1
    <2>3. /\ IsSequence(e) /\ Len(e) = g
          /\ \A k \in 1 .. g : e[k] =
                 [clk |-> clk, shrink_stack |-> 0, stack_pointer |-> la - g + k - 1,
                  first_underflow_element |-> u[b + k]]
        <3>1. /\ b \in Nat /\ g \in Nat /\ la \in Nat /\ ReadsThenWrites(s, u, b, 0, g)
              /\ Canonicalize[sequence] = s
            BY <1>10, <1>11, <1>16, <2>2
        <3>2. GrowthEntries(FromUnderflowIoSequence(clk, la, sequence), clk, la, g, u, b)
            BY ONLY <3>1, EntriesOfWrites
        <3> QED BY <1>11, <1>6, <3>2 DEF GrowthEntries
    <2>4. ASSUME NEW k \in 1 .. g PROVE e[k] = fg[k]
        <3>1. u[b + k] = FirstUnderflowElement(after, lb + k)
            <4>1. /\ b + k \in 1 .. (IF n >= m THEN n ELSE m) /\ ~(b + k <= n)
                  /\ la - m + (b + k) = lb + k
                BY <1>16, <2>1
            <4> QED BY <1>17, <4>1
        <3>2. u[b + k] = after[lb + k - r]
            <4>1. lb + k > r
                BY <1>5, <1>6, <1>16
            <4> QED BY <1>5, <1>6, <3>1, <4>1 DEF FirstUnderflowElement
        <3>3. after[lb + k - r] = before[lb + k - r]
            <4>1. PICK q \in Int : q = lb + k - r
                BY <1>16
            <4>2. q \in 1 .. lb /\ q <= la - r
                BY <1>16, <1>18, <2>1, <4>1
            <4> QED BY <1>10, <4>1, <4>2
        <3>4. t.cur.st[r - k + 1] = before[lb + k - r]
            <4>1. r - k + 1 \in 1 .. r /\ lb - ((r - k + 1) - 1) = lb + k - r
                BY <1>16
            <4> QED BY <1>8, <4>1
        <3>5. InstructionBit(t.cur.ci, 1) = 0 /\ la - g + k - 1 = lb + k - 1
            <4>1. g > 0 /\ la - g + k - 1 = lb + k - 1
                BY <1>16, <2>1
            <4> QED BY <1>7, <4>1
        <3> QED BY <1>13, <2>3, <3>2, <3>3, <3>4, <3>5
    <2>5. e = fg
        BY <1>13, <2>3, <2>4, SequencesEqual
    <2>6. fg \o fh = fg
        BY <1>13, <1>14, <1>19, EmptyPrepended
    <2> QED BY <1>5, <1>6, <1>11, <1>13, <1>15, <2>5, <2>6, RearrangedItself DEF OpStackRecorded
<1>20. CASE h > 0
    <2>1. m - b = 0 /\ n - b = h /\ b = m /\ n = m + h /\ la = lb - h /\ g = 0
        BY <1>16, <1>20, <1>18
    <2>2. ReadsThenWrites(s, u, b, h, 0) /\ h \in Nat \ {0}
        BY <1>10, <1>16, <1>20, <2>1
    <2>3. /\ IsSequence(e) /\ Len(e) = h
          /\ \A k \in 1 .. h : e[k] =
                 [clk |-> clk, shrink_stack |-> 1, stack_pointer |-> la + h - k,
                  first_underflow_element |-> u[b + h + 1 - k]]
        <3>1. /\ b \in Nat /\ h \in Nat \ {0} /\ la \in Nat /\ ReadsThenWrites(s, u, b, h, 0)
              /\ Canonicalize[sequence] = s
            BY <1>10, <1>11, <1>16, <2>2
        <3>2. ShrinkageEntries(FromUnderflowIoSequence(clk, la, sequence), clk, la, h, u, b)
            BY ONLY <3>1, EntriesOfReads
        <3> QED BY <1>11, <1>6, <3>2 DEF ShrinkageEntries
    <2>4. ASSUME NEW k \in 1 .. h PROVE fh[k] = e[h + 1 - k]
        <3>1. h + 1 - k \in 1 .. h /\ h + 1 - (h + 1 - k) = k
            BY <1>16
        <3>2. e[h + 1 - k] =
                 [clk |-> clk, shrink_stack |-> 1, stack_pointer |-> la + k - 1,
                  first_underflow_element |-> u[b + k]]
            <4>1. la + h - (h + 1 - k) = la + k - 1
                BY <1>16
            <4>2. b + h + 1 - (h + 1 - k) = b + k
                BY <1>16
            <4> QED BY <2>3, <3>1, <4>1, <4>2
        <3>3. u[b + k] = FirstUnderflowElement(before, la + k)
            <4>1. /\ b + k \in 1 .. (IF n >= m THEN n ELSE m) /\ b + k <= n
                  /\ lb - n + (b + k) = la + k
                BY <1>16, <2>1
            <4> QED BY <1>17, <4>1
        <3>4. u[b + k] = before[la + k - r]
            <4>1. la + k > r
                BY <1>5, <1>6, <1>16
            <4> QED BY <1>5, <1>6, <3>3, <4>1 DEF FirstUnderflowElement
        <3>5. after[la + k - r] = before[la + k - r]
            <4>1. PICK q \in Int : q = la + k - r
                BY <1>16
            <4>2. q \in 1 .. lb /\ q <= lb - r
                BY <1>16, <1>18, <2>1, <4>1
            <4> QED BY <1>10, <4>1, <4>2
        <3>6. t.next.st[r - k + 1] = after[la + k - r]
            <4>1. r - k + 1 \in 1 .. r /\ la - ((r - k + 1) - 1) = la + k - r
                BY <1>16
            <4> QED BY <1>8, <4>1
        <3>7. InstructionBit(t.cur.ci, 1) = 1
            BY <1>7, <1>20
        <3> QED BY <1>14, <3>2, <3>4, <3>5, <3>6, <3>7
    <2>5. Rearranged(e, fh)
        <3>1. /\ h \in Nat /\ IsSequence(e) /\ Len(e) = h /\ IsSequence(fh) /\ Len(fh) = h
              /\ \A k \in 1 .. h : fh[k] = e[h + 1 - k]
            BY <1>14, <1>16, <2>3, <2>4
        <3> QED BY ONLY <3>1, RearrangedBackwards
    <2>6. fg \o fh = fh
        BY <1>13, <1>14, <2>1, EmptyPrepended
    <2> QED BY <1>5, <1>6, <1>11, <1>15, <2>5, <2>6 DEF OpStackRecorded
<1> QED BY <1>16, <1>19, <1>20

------------------------------------------------------------------------------
(* The RAM table. *)

\* Reducing a summand does not change the reduced sum.
LEMMA ReducedSum ==
    ASSUME NEW n \in Nat \ {0}, NEW a \in Int, NEW b \in Int
    PROVE  ((a % n) + b) % n = (a + b) % n
<1>1. \A x \in Int : /\ x \div n \in Int /\ x % n \in 0 .. (n - 1)
                     /\ x = n * (x \div n) + (x % n)
    OBVIOUS
<1>2. PICK q1 \in Int, r1 \in 0 .. (n - 1) : r1 = a % n /\ a = n * q1 + r1
    BY <1>1
<1>3. PICK c \in Int, d \in Int : c = r1 + b /\ d = a + b
    BY <1>2
<1>4. PICK q2 \in Int, r2 \in 0 .. (n - 1) : r2 = c % n /\ c = n * q2 + r2
    BY <1>1
<1>5. PICK q3 \in Int, r3 \in 0 .. (n - 1) : r3 = d % n /\ d = n * q3 + r3
    BY <1>1
<1>6. n * (q1 + q2 - q3) = r3 - r2
    <2>1. n * (q1 + q2 - q3) = n * q1 + n * q2 - n * q3
        OBVIOUS
    <2>2. PICK x1 \in Int, x2 \in Int, x3 \in Int : x1 = n * q1 /\ x2 = n * q2 /\ x3 = n * q3
        OBVIOUS
    <2>3. a = x1 + r1 /\ c = x2 + r2 /\ d = x3 + r3
        BY <1>2, <1>4, <1>5, <2>2
    <2>4. x1 + x2 - x3 = r3 - r2
        BY <1>3, <2>3
    <2> QED BY <2>1, <2>2, <2>4
<1>7. PICK q \in Int : q = q1 + q2 - q3 /\ n * q = r3 - r2
    BY <1>6
<1>8. q = 0
    <2>1. q >= 1 => n * q >= n
        BY <1>7
    <2>2. q <= -1 => n * q <= -n
        BY <1>7
    <2> QED BY <1>7, <2>1, <2>2
<1>9. r2 = r3
    BY <1>7, <1>8
<1> QED BY <1>2, <1>3, <1>4, <1>5, <1>9

\* A read of the word at `address`.
ReadOf(address) ==
    [clk |-> cycle_count, ram_pointer |-> address, ram_value |-> ram[address],
     is_write |-> FALSE]

\* `s` reads the n words at the addresses `a`.
Reads(s, n, a) ==
    IsSequence(s) /\ Len(s) = n /\ \A k \in 1 .. n : s[k] = ReadOf(a[k])

\* What the machine records are reads.
LEMMA RecordedReads ==
    ASSUME NEW n \in Nat, NEW pointers, DOMAIN pointers = 1 .. n
    PROVE  Reads(RamRead(pointers), n, pointers)
<1> DEFINE s == RamRead(pointers)
<1>1. s = [k \in 1 .. n |-> ReadOf(pointers[k])]
    BY DEF RamRead, ReadOf
<1>2. IsSequence(s) /\ Len(s) = n
    <2>1. s = [k \in 1 .. n |-> s[k]]
        BY <1>1
    <2> HIDE DEF s
    <2> QED BY <2>1, IndexedSequence
<1>3. \A k \in 1 .. n : s[k] = ReadOf(pointers[k])
    BY <1>1
<1> QED BY <1>2, <1>3 DEF Reads

\* The values at the consecutive addresses from p are in `destinations`.
HoldContents(destinations, n, p) ==
    /\ IsSequence(destinations) /\ Len(destinations) = n
    /\ \A k \in 1 .. n : destinations[k] = ram[Addresses(p, 1, n)[k]]

\* What the constraints derive from values and a pointer are reads.
LEMMA DerivedReads ==
    ASSUME NEW t, t.cur.clk = cycle_count, NEW p \in Int, NEW n \in Nat,
           NEW destinations, HoldContents(destinations, n, p)
    PROVE  Reads(ReadFromRamTo(t, p, destinations), n, Addresses(p, 1, n))
<1> DEFINE s == ReadFromRamTo(t, p, destinations)
<1>1. DOMAIN destinations = 1 .. n
    BY DEF HoldContents, IsSequence
<1>2. \A k \in 1 .. n : Addresses(p, 1, n)[k] = (p + k - 1) % P
    <2>1. \A k \in 1 .. n : p + 1 * (k - 1) = p + k - 1
        OBVIOUS
    <2> QED BY <2>1 DEF Addresses
<1>3. ASSUME NEW k \in 1 .. n
      PROVE  RamRow(t, p + k - 1, destinations[k], FALSE) = ReadOf(Addresses(p, 1, n)[k])
    BY <1>2 DEF RamRow, ReadOf, HoldContents
<1>4. s = [k \in 1 .. n |-> ReadOf(Addresses(p, 1, n)[k])]
    BY <1>1, <1>3 DEF ReadFromRamTo
<1>5. IsSequence(s) /\ Len(s) = n
    <2>1. s = [k \in 1 .. n |-> s[k]]
        BY <1>4
    <2> HIDE DEF s
    <2> QED BY <2>1, IndexedSequence
<1>6. \A k \in 1 .. n : s[k] = ReadOf(Addresses(p, 1, n)[k])
    BY <1>4
<1> QED BY <1>5, <1>6 DEF Reads

\* Reads of the same addresses are the same reads.
LEMMA ReadsEqual ==
    ASSUME NEW s, NEW t, NEW n, NEW a, Reads(s, n, a), Reads(t, n, a)
    PROVE  s = t
BY SequencesEqual DEF Reads

\* The leading helper variables.
LEMMA LeadingHelpers ==
    ASSUME NEW first, IsSequence(first), Len(first) <= NumHelpers,
           NEW from \in Nat \ {0}, NEW n \in Nat, from + n - 1 <= Len(first)
    PROVE  /\ IsSequence(SubSeq(Helpers(first), from, from + n - 1))
           /\ Len(SubSeq(Helpers(first), from, from + n - 1)) = n
           /\ \A k \in 1 .. n : SubSeq(Helpers(first), from, from + n - 1)[k] = first[from + k - 1]
<1> DEFINE h == Helpers(first)
           last == from + n - 1
<1>1. NumHelpers \in Nat /\ Len(first) \in Nat /\ last \in Int
    BY RegisterAssumption, SizeAssumption DEF Rate, IsSequence
<1>2. h = [k \in 1 .. NumHelpers |-> IF k <= Len(first) THEN first[k] ELSE 0]
    BY DEF Helpers
<1>3. IsSequence(h) /\ Len(h) = NumHelpers
    <2>1. h = [k \in 1 .. NumHelpers |-> h[k]]
        BY <1>2
    <2> HIDE DEF h
    <2> QED BY <1>1, <2>1, IndexedSequence
<1>4. \A k \in 1 .. Len(first) : h[k] = first[k]
    BY <1>1, <1>2
<1> HIDE DEF h
<1>5. PICK l \in Int : l = last
    BY <1>1
<1>6. from \in 1 .. (Len(h) + 1) /\ l \in (from - 1) .. Len(h) /\ IsSequence(h)
    BY <1>1, <1>3, <1>5
<1>7. /\ IsSequence(SubSeq(h, from, l)) /\ Len(SubSeq(h, from, l)) = l - from + 1
      /\ \A i \in 1 .. (l - from + 1) : SubSeq(h, from, l)[i] = h[from + i - 1]
    BY ONLY <1>6, SubSequence
<1>8. l - from + 1 = n
    BY <1>5
<1>9. \A k \in 1 .. n : from + k - 1 \in 1 .. Len(first)
    BY <1>1
<1> QED BY <1>4, <1>5, <1>7, <1>8, <1>9 DEF h

\* The instructions that access the RAM.
RamOps == {"read_mem", "write_mem", "sponge_absorb_mem", "merkle_step_mem", "xx_dot_step",
           "xb_dot_step"}

\* A step accesses the RAM only as the instruction at the instruction pointer says.
RamStep(op) ==
    /\ op = "read_mem" => ReadMem
    /\ op = "write_mem" => WriteMem
    /\ op = "sponge_absorb_mem" => SpongeAbsorbMem
    /\ op = "merkle_step_mem" => MerkleStepMem
    /\ op = "xx_dot_step" => XxDotStep
    /\ op = "xb_dot_step" => XbDotStep
    /\ op \notin RamOps => ram_calls' = <<>>

\* A step that succeeds is a step of the instruction it is at.
LEMMA RamOfStep ==
    ASSUME Step, error' = NoError
    PROVE  RamStep(CurrentInstruction.op)
<1> USE DEF Executes, Fails, NoError, OnStackOnly, NoCalls, NoRamCalls, RamOps
<1>1. CASE StackInstruction
    BY <1>1 DEF StackInstruction, Pop, Push, Divine, Pick, Place, Dup, Swap, RamStep
<1>2. CASE ControlInstruction
    BY <1>2 DEF ControlInstruction, Nop, Skiz, Call, Return, Recurse, RecurseOrReturn,
                AssertInstruction, Halt, RamStep
<1>3. CASE MemoryInstruction
    <2>1. (ReadMem => CurrentInstruction.op = "read_mem")
          /\ (WriteMem => CurrentInstruction.op = "write_mem")
        BY DEF ReadMem, WriteMem
    <2> HIDE DEF Executes, Fails, NoError, OnStackOnly, NoCalls, NoRamCalls
    <2> QED BY <1>3, <2>1 DEF MemoryInstruction, RamStep
<1>4. CASE HashInstruction
    <2>1. CASE SpongeAbsorbMem
        <3>1. CurrentInstruction.op = "sponge_absorb_mem"
            BY <2>1 DEF SpongeAbsorbMem
        <3> HIDE DEF Executes, Fails, NoError, OnStackOnly, NoCalls, NoRamCalls
        <3> QED BY <2>1, <3>1 DEF RamStep
    <2>2. CASE Hash \/ SpongeInit \/ SpongeAbsorb \/ SpongeSqueeze \/ AssertVector
        BY <2>2 DEF Hash, SpongeInit, SpongeAbsorb, SpongeSqueeze, AssertVector, RamStep
    <2> QED BY <1>4, <2>1, <2>2 DEF HashInstruction
<1>5. CASE FieldInstruction
    BY <1>5 DEF FieldInstruction, Add, AddI, Mul, Invert, Eq, RamStep
<1>6. CASE U32Instruction
    BY <1>6 DEF U32Instruction, Split, Lt, And, Xor, Log2Floor, Pow, DivMod, PopCount,
                WithU32Calls, RamStep
<1>7. CASE ExtensionInstruction
    BY <1>7 DEF ExtensionInstruction, XxAdd, XxMul, XInvert, XbMul, RamStep
<1>8. CASE IoInstruction
    BY <1>8 DEF IoInstruction, WriteIo, ReadIo, RamStep
<1>9. CASE ManyInOneInstruction
    <2>1. CASE MerkleStep
        BY <2>1 DEF MerkleStep, RamStep
    <2>2. CASE MerkleStepMem \/ XxDotStep \/ XbDotStep
        <3>1. /\ MerkleStepMem => CurrentInstruction.op = "merkle_step_mem"
              /\ XxDotStep => CurrentInstruction.op = "xx_dot_step"
              /\ XbDotStep => CurrentInstruction.op = "xb_dot_step"
            BY DEF MerkleStepMem, XxDotStep, XbDotStep
        <3> HIDE DEF Executes, Fails, NoError, OnStackOnly, NoCalls, NoRamCalls
        <3> QED BY <2>2, <3>1 DEF RamStep
    <2> QED BY <1>9, <2>1, <2>2 DEF ManyInOneInstruction
<1>10. CASE InstructionPointerOverflow \/ TooShallow
    BY <1>10 DEF InstructionPointerOverflow, TooShallow
<1> HIDE DEF Executes, Fails, NoError, OnStackOnly, NoCalls, NoRamCalls
<1> QED
    BY <1>1, <1>2, <1>3, <1>4, <1>5, <1>6, <1>7, <1>8, <1>9, <1>10 DEF Step

\* What a row tells of the registers, for both rows of a transition.
RowsOfStep(t) ==
    /\ t.cur = ProcessorRow
    /\ t.cur.clk = cycle_count
    /\ \A k \in 1 .. NumRegisters : t.cur.st[k] = St(k - 1)
    /\ \A k \in 1 .. NumRegisters : t.next.st[k] = op_stack'[Len(op_stack') - (k - 1)]
    /\ IsSequence(t.next.st) /\ Len(t.next.st) = NumRegisters

\* The two rows of a step that succeeds.
LEMMA TransitionRows ==
    ASSUME VMTypeOK, VMTypeOK', StepCompletes,
           NEW t, t = [cur |-> ProcessorRow, next |-> ProcessorRow']
    PROVE  RowsOfStep(t)
<1>1. RowShape /\ RowShape'
    BY RowFacts, NextRowFacts
<1>2. cycle_count % P = cycle_count
    <2>1. cycle_count \in Field
        BY LinkingAssumption, InputAssumption, FieldFacts
           DEF StepCompletes, Field, VMTypeOK
    <2> QED BY <2>1, ReducedIsUnchanged
<1>3. /\ ProcessorRow.clk = cycle_count
      /\ \A k \in 1 .. NumRegisters : ProcessorRow.st[k] = St(k - 1)
    BY <1>1, <1>2 DEF RowShape
<1>4. \A k \in 1 .. NumRegisters : ProcessorRow'.st[k] = op_stack'[Len(op_stack') - (k - 1)]
    BY <1>1 DEF RowShape, St
<1>5. PICK x : x = ProcessorRow'.st
    OBVIOUS
<1>6. x = [k \in 1 .. NumRegisters |-> x[k]]
    BY <1>1, <1>5 DEF RowShape, Tops
<1>7. IsSequence(x) /\ Len(x) = NumRegisters
    BY <1>6, IndexedSequence, RegisterAssumption
<1> QED BY <1>3, <1>4, <1>5, <1>7 DEF RowsOfStep

\* What is pushed is what the registers show.
LEMMA ReplaceShows ==
    ASSUME VMTypeOK, NEW n \in 0 .. NumRegisters, NEW m \in 0 .. NumRegisters,
           NEW tops, Len(tops) = m, Replace(n, tops)
    PROVE  \A k \in 1 .. m : op_stack'[Len(op_stack') - (k - 1)] = tops[k]
<1>0. PICK r \in Nat : r = NumRegisters
    BY RegisterAssumption
<1>1. PICK s, t : s = op_stack /\ t = op_stack' /\ r = NumRegisters
    BY <1>0
<1>2. IsSequence(s) /\ Len(s) \in Nat /\ Len(s) >= r
    BY <1>1, SeqIsSequence DEF VMTypeOK
<1>3. n \in 0 .. r /\ m \in 0 .. r /\ n \in Nat /\ m \in Nat /\ n <= r
    BY <1>1
<1>4. PICK l \in Nat : l = Len(s) - n /\ l <= Len(s)
    <2>1. PICK d \in Nat : d = Len(s) /\ d >= r
        BY <1>2
    <2>2. d - n \in Nat /\ d - n <= d
        BY <1>3, <2>1
    <2> QED BY <2>1, <2>2
<1> DEFINE u == SubSeq(s, 1, l)
           v == [k \in 1 .. m |-> tops[m + 1 - k]]
<1>5. IsSequence(u) /\ Len(u) = l
    <2>1. IsSequence(s) /\ 1 \in 1 .. (Len(s) + 1) /\ l \in (1 - 1) .. Len(s)
        BY <1>2, <1>4
    <2>2. IsSequence(SubSeq(s, 1, l)) /\ Len(SubSeq(s, 1, l)) = l - 1 + 1
        BY ONLY <2>1, SubSequence
    <2> QED BY <2>2
<1>6. IsSequence(v) /\ Len(v) = m
    <2>1. v = [k \in 1 .. m |-> v[k]]
        OBVIOUS
    <2> HIDE DEF v
    <2> QED BY <1>3, <2>1, IndexedSequence
<1>7. t = u \o v
    BY <1>1, <1>4 DEF Replace, StackBecomes, Below
<1>8. \A k \in 1 .. m : v[m + 1 - k] = tops[k]
    <2>1. \A k \in 1 .. m : m + 1 - k \in 1 .. m /\ m + 1 - (m + 1 - k) = k
        BY <1>3
    <2> QED BY <2>1
<1> HIDE DEF u, v
<1>9. Len(t) = l + m /\ \A i \in 1 .. m : t[l + i] = v[i]
    <2>1. /\ Len(u \o v) = Len(u) + Len(v)
          /\ \A i \in 1 .. Len(v) : (u \o v)[Len(u) + i] = v[i]
        BY <1>5, <1>6, ConcatenatedSequence
    <2> QED BY <1>5, <1>6, <1>7, <2>1
<1>10. ASSUME NEW k \in 1 .. m PROVE t[Len(t) - (k - 1)] = tops[k]
    <2>1. m + 1 - k \in 1 .. m /\ l + (m + 1 - k) = l + m - (k - 1)
        BY <1>3
    <2> QED BY <1>8, <1>9, <2>1
<1> QED BY <1>1, <1>10

\* What the machine records of a step is what the transition contributes.
RamRecorded(t) == Rearranged(ram_calls', RamRows(t))

\* read_mem records its reads from the top, the rows tell of them from the bottom.
LEMMA ReadMemReads ==
    ASSUME VMTypeOK, ReadMem, InBounds(instruction_pointer), NEW t, RowsOfStep(t),
           RamRows(t) = [k \in 1 .. Arg |-> RamRow(t, t.next.st[1] + k, t.next.st[k + 1], FALSE)]
    PROVE  RamRecorded(t)
<1>1. CurrentInstruction.op \in NumWordsOps
    BY DEF ReadMem, Executes, NumWordsOps
<1>2. PICK n \in Nat : n = Arg /\ n + 1 \in 0 .. NumRegisters
    <2>1. Arg \in 1 .. MaxNumWords
        BY <1>1, InstructionTypes
    <2> QED BY <2>1, RegisterFacts, RegisterAssumption
<1>3. PICK top \in Int : top = St(0)
    BY DepthFacts
<1> DEFINE pointers == Addresses(top, -1, n)
           rest == [k \in 1 .. n |-> ram[pointers[n + 1 - k]]]
           first == (top - n) % P
           tops == <<first>> \o rest
<1>4. ram_calls' = RamRead(pointers) /\ Replace(1, tops)
    BY <1>2, <1>3 DEF ReadMem
<1>5. DOMAIN pointers = 1 .. n /\ \A k \in 1 .. n : pointers[n + 1 - k] = (top - n + k) % P
    <2>1. \A k \in 1 .. n : n + 1 - k \in 1 .. n /\ top + (-1) * ((n + 1 - k) - 1) = top - n + k
        OBVIOUS
    <2> QED BY <2>1 DEF Addresses
<1>6. IsSequence(rest) /\ Len(rest) = n
    <2>1. rest = [k \in 1 .. n |-> rest[k]]
        OBVIOUS
    <2> HIDE DEF rest
    <2> QED BY <2>1, IndexedSequence
<1>7. \A k \in 1 .. n : rest[k] = ram[pointers[n + 1 - k]]
    OBVIOUS
<1> HIDE DEF rest, pointers, first
<1>8. Len(tops) = n + 1 /\ tops[1] = first /\ \A k \in 1 .. n : tops[k + 1] = rest[k]
    <2>1. PICK a : a = <<first>>
        OBVIOUS
    <2>2. IsSequence(a) /\ Len(a) = 1 /\ a[1] = first
        BY <2>1 DEF IsSequence
    <2>3. /\ Len(a \o rest) = Len(a) + Len(rest)
          /\ \A i \in 1 .. Len(a) : (a \o rest)[i] = a[i]
          /\ \A i \in 1 .. Len(rest) : (a \o rest)[Len(a) + i] = rest[i]
        <3>1. IsSequence(a) /\ IsSequence(rest)
            BY <1>6, <2>2
        <3> QED BY ONLY <3>1, ConcatenatedSequence
    <2>4. \A k \in 1 .. n : 1 + k = k + 1
        OBVIOUS
    <2> QED BY <1>6, <2>1, <2>2, <2>3, <2>4
<1> HIDE DEF tops
<1>9. \A k \in 1 .. (n + 1) : op_stack'[Len(op_stack') - (k - 1)] = tops[k]
    <2>1. 1 \in 0 .. NumRegisters /\ n + 1 \in 0 .. NumRegisters /\ Len(tops) = n + 1
        BY <1>2, <1>8, RegisterFacts
    <2> QED BY <1>4, <2>1, ReplaceShows
<1>10. t.next.st[1] = first /\ \A k \in 1 .. n : t.next.st[k + 1] = rest[k]
    <2>1. NumRegisters \in Nat
        BY RegisterAssumption
    <2>2. \A k \in 1 .. (n + 1) : k \in 1 .. NumRegisters
        BY <1>2, <2>1
    <2>3. \A k \in 1 .. (n + 1) : t.next.st[k] = tops[k]
        BY <1>9, <2>2 DEF RowsOfStep
    <2> QED BY <1>8, <2>3
<1>11. ASSUME NEW k \in 1 .. n
       PROVE  RamRow(t, t.next.st[1] + k, t.next.st[k + 1], FALSE) = ReadOf(pointers[n + 1 - k])
    <2>1. (first + k) % P = (top - n + k) % P
        <3>1. P \in Nat \ {0} /\ top - n \in Int /\ k \in Int
            BY FieldFacts
        <3> QED BY <3>1, ReducedSum DEF first
    <2>2. (first + k) % P = pointers[n + 1 - k]
        BY <1>5, <2>1
    <2> QED BY <1>7, <1>10, <2>2 DEF RamRow, ReadOf, RowsOfStep
<1>12. PICK e, f : e = RamRead(pointers) /\ f = RamRows(t)
    OBVIOUS
<1>13. Reads(e, n, pointers)
    BY <1>5, <1>12, RecordedReads
<1>14. f = [k \in 1 .. n |-> ReadOf(pointers[n + 1 - k])]
    BY <1>2, <1>11, <1>12
<1>15. IsSequence(f) /\ Len(f) = n
    <2>1. f = [k \in 1 .. n |-> f[k]]
        BY <1>14
    <2> QED BY <2>1, IndexedSequence
<1>16. \A k \in 1 .. n : f[k] = e[n + 1 - k]
    <2>1. \A k \in 1 .. n : n + 1 - k \in 1 .. n
        OBVIOUS
    <2> QED BY <1>13, <1>14, <2>1 DEF Reads
<1>17. Rearranged(e, f)
    <2>1. /\ n \in Nat /\ IsSequence(e) /\ Len(e) = n /\ IsSequence(f) /\ Len(f) = n
          /\ \A k \in 1 .. n : f[k] = e[n + 1 - k]
        BY <1>13, <1>15, <1>16 DEF Reads
    <2> QED BY ONLY <2>1, RearrangedBackwards
<1> QED BY <1>4, <1>12, <1>17 DEF RamRecorded

\* The values write_mem writes are the ones its row shows.
LEMMA WriteMemWrites ==
    ASSUME VMTypeOK, WriteMem, InBounds(instruction_pointer), NEW t, RowsOfStep(t),
           RamRows(t) = [k \in 1 .. Arg |->
                            RamRow(t, t.cur.st[1] + k - 1, t.cur.st[k + 1], TRUE)]
    PROVE  RamRecorded(t)
<1>1. CurrentInstruction.op \in NumWordsOps
    BY DEF WriteMem, Executes, NumWordsOps
<1>2. PICK n \in Nat : n = Arg /\ n + 1 \in 0 .. NumRegisters
    <2>1. Arg \in 1 .. MaxNumWords
        BY <1>1, InstructionTypes
    <2> QED BY <2>1, RegisterFacts, RegisterAssumption
<1>3. PICK top \in Int : top = St(0)
    BY DepthFacts
<1>4. NumRegisters \in Nat /\ 1 \in 1 .. NumRegisters
    BY <1>2, RegisterFacts, RegisterAssumption, SizeAssumption DEF Rate
<1>5. t.cur.st[1] = top /\ \A k \in 1 .. n : t.cur.st[k + 1] = St(k)
    <2>1. \A k \in 1 .. n : k + 1 \in 1 .. NumRegisters /\ (k + 1) - 1 = k
        BY <1>2, <1>4
    <2>2. 1 - 1 = 0
        OBVIOUS
    <2> QED BY <1>3, <1>4, <2>1, <2>2 DEF RowsOfStep
<1>6. ASSUME NEW k \in 1 .. n
      PROVE  RamRow(t, t.cur.st[1] + k - 1, t.cur.st[k + 1], TRUE) =
                 [clk |-> cycle_count, ram_pointer |-> Addresses(top, 1, n)[k],
                  ram_value |-> Tops(1, n)[k], is_write |-> TRUE]
    <2>1. top + 1 * (k - 1) = top + k - 1 /\ 1 + k - 1 = k
        OBVIOUS
    <2>2. Addresses(top, 1, n)[k] = (top + k - 1) % P
        BY <2>1 DEF Addresses
    <2>3. Tops(1, n)[k] = St(k)
        BY <2>1 DEF Tops
    <2> QED BY <1>5, <2>2, <2>3 DEF RamRow, RowsOfStep
<1>7. ram_calls' = [k \in 1 .. n |->
                       [clk |-> cycle_count, ram_pointer |-> Addresses(top, 1, n)[k],
                        ram_value |-> Tops(1, n)[k], is_write |-> TRUE]]
    BY <1>2, <1>3 DEF WriteMem
<1>8. PICK f : f = RamRows(t)
    OBVIOUS
<1>9. f = ram_calls'
    BY <1>2, <1>6, <1>7, <1>8
<1>10. IsSequence(f)
    <2>1. f = [k \in 1 .. n |-> f[k]]
        BY <1>2, <1>8
    <2> QED BY <2>1, IndexedSequence
<1> QED BY <1>8, <1>9, <1>10, RearrangedItself DEF RamRecorded

\* Contents in the helper variables.
LEMMA HelpersHold ==
    ASSUME NEW first, IsSequence(first), Len(first) <= NumHelpers,
           NEW from \in Nat \ {0}, NEW n \in Nat, from + n - 1 <= Len(first), NEW p,
           \A k \in 1 .. n : first[from + k - 1] = ram[Addresses(p, 1, n)[k]]
    PROVE  HoldContents(SubSeq(Helpers(first), from, from + n - 1), n, p)
<1>1. /\ IsSequence(first) /\ Len(first) <= NumHelpers /\ from \in Nat \ {0} /\ n \in Nat
      /\ from + n - 1 <= Len(first)
    OBVIOUS
<1>2. /\ IsSequence(SubSeq(Helpers(first), from, from + n - 1))
      /\ Len(SubSeq(Helpers(first), from, from + n - 1)) = n
      /\ \A k \in 1 .. n :
             SubSeq(Helpers(first), from, from + n - 1)[k] = first[from + k - 1]
    BY ONLY <1>1, LeadingHelpers
<1> QED BY <1>2 DEF HoldContents

\* The contents of n consecutive addresses.
LEMMA ContentsFacts ==
    ASSUME NEW p, NEW n \in Nat
    PROVE  /\ DOMAIN Addresses(p, 1, n) = 1 .. n
           /\ IsSequence(Contents(Addresses(p, 1, n)))
           /\ Len(Contents(Addresses(p, 1, n))) = n
           /\ \A k \in 1 .. n : Contents(Addresses(p, 1, n))[k] = ram[Addresses(p, 1, n)[k]]
<1> DEFINE c == Contents(Addresses(p, 1, n))
<1>1. DOMAIN Addresses(p, 1, n) = 1 .. n
    BY DEF Addresses
<1>2. c = [k \in 1 .. n |-> ram[Addresses(p, 1, n)[k]]]
    BY <1>1 DEF Contents
<1>3. IsSequence(c) /\ Len(c) = n
    <2>1. c = [k \in 1 .. n |-> c[k]]
        BY <1>2
    <2> HIDE DEF c
    <2> QED BY <2>1, IndexedSequence
<1>4. \A k \in 1 .. n : c[k] = ram[Addresses(p, 1, n)[k]]
    BY <1>2
<1> QED BY <1>1, <1>3, <1>4

(***************************************************************************)
(* sponge_absorb_mem leaves the first words it reads on the stack, and the *)
(* others in the helper variables.                                         *)
(***************************************************************************)
LEMMA SpongeAbsorbMemReads ==
    ASSUME VMTypeOK, SpongeAbsorbMem, error' = NoError, NEW t, RowsOfStep(t),
           t.cur.hv =
               Helpers(Contents(Addresses(Plus(St(0), Rate - NumHelpers), 1, NumHelpers))),
           RamRows(t) =
               ReadFromRamTo(t, t.cur.st[1],
                   SubSeq(t.next.st, 2, Rate - NumHelpers + 1)
                       \o SubSeq(t.cur.hv, 1, 1 + NumHelpers - 1))
    PROVE  RamRecorded(t)
<1>1. PICK h \in Nat, m \in Nat, r \in Nat, n \in Nat :
          /\ h = NumHelpers /\ m = Rate - NumHelpers /\ r = NumRegisters /\ n = Rate
          /\ n = m + h /\ m + 1 <= r /\ n <= r
    BY RegisterAssumption, LinkingAssumption, SizeAssumption DEF Rate
<1>2. PICK top \in Int : top = St(0)
    BY DepthFacts
<1>3. t.cur.st[1] = top
    <2>1. 1 \in 1 .. NumRegisters /\ 1 - 1 = 0
        BY <1>1
    <2> QED BY <1>2, <2>1 DEF RowsOfStep
<1> DEFINE pointers == Addresses(top, 1, n)
<1>4. ram_calls' = RamRead(pointers)
    BY <1>1, <1>2 DEF SpongeAbsorbMem, Fails, NoError
<1>5. PICK depth \in Nat : depth = Len(op_stack) /\ depth >= r
    BY <1>1, DepthFacts
<1>6. op_stack' = [k \in 1 .. depth |->
                      IF k = depth THEN Plus(St(0), Rate)
                      ELSE IF depth - k <= m THEN Contents(pointers)[depth - k]
                      ELSE op_stack[k]]
    BY <1>1, <1>2, <1>5 DEF SpongeAbsorbMem, Fails, NoError, StackBecomes
<1>7. Len(op_stack') = depth
    <2>1. PICK s : s = op_stack'
        OBVIOUS
    <2>2. s = [k \in 1 .. depth |-> s[k]]
        BY <1>6, <2>1
    <2>3. Len(s) = depth
        BY <2>2, IndexedSequence
    <2> QED BY <2>1, <2>3
<1>8. ASSUME NEW k \in 1 .. m PROVE t.next.st[k + 1] = ram[pointers[k]]
    <2>1. k + 1 \in 1 .. r /\ depth - ((k + 1) - 1) = depth - k
        BY <1>1, <1>5
    <2>2. t.next.st[k + 1] = op_stack'[depth - k]
        BY <1>1, <1>7, <2>1 DEF RowsOfStep
    <2>3. depth - k \in 1 .. depth /\ depth - k # depth /\ depth - (depth - k) = k
        BY <1>1, <1>5
    <2>4. k <= m
        OBVIOUS
    <2>5. op_stack'[depth - k] = Contents(pointers)[k]
        BY <1>6, <2>3, <2>4
    <2>6. k \in 1 .. n
        BY <1>1
    <2> QED BY <2>2, <2>5, <2>6, ContentsFacts
<1> DEFINE a == SubSeq(t.next.st, 2, m + 1)
           b == SubSeq(t.cur.hv, 1, 1 + h - 1)
<1>9. IsSequence(a) /\ Len(a) = m /\ \A k \in 1 .. m : a[k] = t.next.st[k + 1]
    <2>1. PICK l \in Nat : l = m + 1
        OBVIOUS
    <2>5. PICK s : s = t.next.st
        OBVIOUS
    <2>2. IsSequence(s) /\ 2 \in 1 .. (Len(s) + 1) /\ l \in (2 - 1) .. Len(s)
        BY <1>1, <2>1, <2>5 DEF RowsOfStep
    <2>3. /\ IsSequence(SubSeq(s, 2, l)) /\ Len(SubSeq(s, 2, l)) = l - 2 + 1
          /\ \A i \in 1 .. (l - 2 + 1) : SubSeq(s, 2, l)[i] = s[2 + i - 1]
        BY ONLY <2>2, SubSequence
    <2>4. l - 2 + 1 = m /\ \A i \in 1 .. m : 2 + i - 1 = i + 1
        BY <2>1
    <2> QED BY <2>1, <2>3, <2>4, <2>5
<1>10. IsSequence(b) /\ Len(b) = h /\ \A k \in 1 .. h : b[k] = ram[pointers[m + k]]
    <2>1. PICK p : p = Plus(St(0), m)
        OBVIOUS
    <2>2. PICK c : c = Contents(Addresses(p, 1, h))
        OBVIOUS
    <2>3. IsSequence(c) /\ Len(c) = h /\ \A k \in 1 .. h : c[k] = ram[Addresses(p, 1, h)[k]]
        BY <2>2, ContentsFacts
    <2>4. t.cur.hv = Helpers(c)
        BY <1>1, <2>1, <2>2
    <2>5. /\ IsSequence(c) /\ Len(c) <= NumHelpers /\ 1 \in Nat \ {0} /\ h \in Nat
          /\ 1 + h - 1 <= Len(c)
        BY <1>1, <2>3
    <2>6. /\ IsSequence(SubSeq(Helpers(c), 1, 1 + h - 1))
          /\ Len(SubSeq(Helpers(c), 1, 1 + h - 1)) = h
          /\ \A k \in 1 .. h : SubSeq(Helpers(c), 1, 1 + h - 1)[k] = c[1 + k - 1]
        BY ONLY <2>5, LeadingHelpers
    <2>7. ASSUME NEW k \in 1 .. h PROVE Addresses(p, 1, h)[k] = pointers[m + k]
        <3>1. (((top + m) % P) + (k - 1)) % P = (top + m + (k - 1)) % P
            <4>1. PICK x \in Int, y \in Int : x = top + m /\ y = k - 1
                OBVIOUS
            <4>2. P \in Nat \ {0}
                BY FieldFacts
            <4>3. ((x % P) + y) % P = (x + y) % P
                BY <4>2, ReducedSum
            <4> QED BY <4>1, <4>3
        <3>2. Addresses(p, 1, h)[k] = (((top + m) % P) + (k - 1)) % P
            <4>1. 1 * (k - 1) = k - 1
                OBVIOUS
            <4> QED BY <1>2, <2>1, <4>1 DEF Addresses, Plus
        <3>3. m + k \in 1 .. n /\ top + 1 * (m + k - 1) = top + m + (k - 1)
            BY <1>1
        <3>4. pointers[m + k] = (top + m + (k - 1)) % P
            BY <3>3 DEF Addresses
        <3> QED BY <3>1, <3>2, <3>4
    <2>8. \A k \in 1 .. h : 1 + k - 1 = k
        OBVIOUS
    <2> QED BY <2>3, <2>4, <2>6, <2>7, <2>8
<1> DEFINE d == a \o b
<1> HIDE DEF a, b
<1>11. HoldContents(d, n, top)
    <2>1. IsSequence(a) /\ IsSequence(b)
        BY <1>9, <1>10
    <2>2. /\ IsSequence(d) /\ Len(d) = Len(a) + Len(b)
          /\ \A i \in 1 .. Len(a) : d[i] = a[i]
          /\ \A i \in 1 .. Len(b) : d[Len(a) + i] = b[i]
        BY ONLY <2>1, ConcatenatedSequence
    <2>3. ASSUME NEW k \in 1 .. n PROVE d[k] = ram[pointers[k]]
        <3>1. CASE k <= m
            <4>1. k \in 1 .. m
                BY <3>1
            <4> QED BY <1>8, <1>9, <2>2, <4>1
        <3>2. CASE ~(k <= m)
            <4>1. PICK i \in 1 .. h : i = k - m /\ m + i = k
                BY <1>1, <3>2
            <4>2. d[m + i] = b[i] /\ b[i] = ram[pointers[m + i]]
                BY <1>9, <1>10, <2>2
            <4> HIDE DEF pointers
            <4>3. d[m + i] = d[k] /\ pointers[m + i] = pointers[k]
                BY <4>1
            <4> QED BY <4>2, <4>3
        <3> QED BY <3>1, <3>2
    <2> QED BY <1>1, <1>9, <1>10, <2>2, <2>3 DEF HoldContents
<1>12. RamRows(t) = ReadFromRamTo(t, top, d)
    BY <1>1, <1>3 DEF a, b
<1> HIDE DEF d
<1>13. Reads(ReadFromRamTo(t, top, d), n, pointers)
    BY <1>11, DerivedReads DEF RowsOfStep
<1>14. Reads(RamRead(pointers), n, pointers)
    BY ContentsFacts, RecordedReads
<1>15. RamRead(pointers) = RamRows(t) /\ IsSequence(RamRows(t))
    <2>1. PICK x, y, z : x = RamRead(pointers) /\ y = RamRows(t) /\ z = pointers
        OBVIOUS
    <2>2. Reads(x, n, z) /\ Reads(y, n, z)
        BY <1>12, <1>13, <1>14, <2>1
    <2>3. x = y /\ IsSequence(y)
        BY ONLY <2>2, ReadsEqual DEF Reads
    <2> QED BY <2>1, <2>3
<1> QED BY <1>4, <1>15, RearrangedItself DEF RamRecorded

\* The sibling merkle_step_mem reads is in the helper variables.
LEMMA MerkleStepMemReads ==
    ASSUME VMTypeOK, MerkleStepMem, error' = NoError, NEW t, RowsOfStep(t), NEW bit,
           t.cur.hv = Helpers(Contents(Addresses(St(DigestLen + 2), 1, DigestLen)) \o <<bit>>),
           RamRows(t) =
               ReadFromRamTo(t, t.cur.st[DigestLen + 3],
                             SubSeq(t.cur.hv, 1, 1 + DigestLen - 1))
    PROVE  RamRecorded(t)
<1>1. PICK n \in Nat : n = DigestLen /\ n + 1 <= NumHelpers /\ n + 3 \in 1 .. NumRegisters
    BY RegisterAssumption, LinkingAssumption, SizeAssumption
<1>2. PICK p \in Int : p = St(DigestLen + 2)
    <2>1. DigestLen + 2 \in 0 .. (NumRegisters - 1)
        BY RegisterAssumption, SizeAssumption
    <2> QED BY <2>1, DepthFacts, FieldFacts
<1>3. t.cur.st[n + 3] = p
    <2>1. (n + 3) - 1 = n + 2
        OBVIOUS
    <2> QED BY <1>1, <1>2, <2>1 DEF RowsOfStep
<1> DEFINE pointers == Addresses(p, 1, n)
<1>4. ram_calls' = RamRead(pointers)
    BY <1>1, <1>2 DEF MerkleStepMem, Fails, NoError
<1>5. PICK c, first : c = Contents(pointers) /\ first = c \o <<bit>>
    OBVIOUS
<1>6. IsSequence(c) /\ Len(c) = n /\ \A k \in 1 .. n : c[k] = ram[pointers[k]]
    BY <1>5, ContentsFacts
<1>7. /\ IsSequence(first) /\ Len(first) = n + 1
      /\ \A k \in 1 .. n : first[1 + k - 1] = ram[pointers[k]]
    <2>1. PICK a : a = <<bit>>
        OBVIOUS
    <2>2. IsSequence(c) /\ IsSequence(a)
        BY <1>6, <2>1 DEF IsSequence
    <2>3. /\ IsSequence(c \o a) /\ Len(c \o a) = Len(c) + Len(a)
          /\ \A i \in 1 .. Len(c) : (c \o a)[i] = c[i]
        BY ONLY <2>2, ConcatenatedSequence
    <2>4. Len(a) = 1 /\ \A k \in 1 .. n : 1 + k - 1 = k
        BY <2>1
    <2> QED BY <1>5, <1>6, <2>1, <2>3, <2>4
<1>8. HoldContents(SubSeq(t.cur.hv, 1, 1 + n - 1), n, p)
    <2>1. /\ IsSequence(first) /\ Len(first) <= NumHelpers /\ 1 \in Nat \ {0} /\ n \in Nat
          /\ 1 + n - 1 <= Len(first)
          /\ \A k \in 1 .. n : first[1 + k - 1] = ram[Addresses(p, 1, n)[k]]
        BY <1>1, <1>7
    <2>2. HoldContents(SubSeq(Helpers(first), 1, 1 + n - 1), n, p)
        BY ONLY <2>1, HelpersHold
    <2> QED BY <1>1, <1>2, <1>5, <2>2
<1>9. PICK d : d = SubSeq(t.cur.hv, 1, 1 + n - 1)
    OBVIOUS
<1>10. Reads(ReadFromRamTo(t, p, d), n, pointers)
    BY <1>8, <1>9, DerivedReads DEF RowsOfStep
<1>11. Reads(RamRead(pointers), n, pointers)
    BY ContentsFacts, RecordedReads
<1>12. RamRows(t) = ReadFromRamTo(t, p, d)
    BY <1>1, <1>3, <1>9
<1>13. RamRead(pointers) = RamRows(t) /\ IsSequence(RamRows(t))
    <2>1. PICK x, y, z : x = RamRead(pointers) /\ y = RamRows(t) /\ z = pointers
        OBVIOUS
    <2>2. Reads(x, n, z) /\ Reads(y, n, z)
        BY <1>10, <1>11, <1>12, <2>1
    <2>3. x = y /\ IsSequence(y)
        BY ONLY <2>2, ReadsEqual DEF Reads
    <2> QED BY <2>1, <2>3
<1> QED BY <1>4, <1>13, RearrangedItself DEF RamRecorded

\* `s` reads the n words at `a`, then the m words at `b`.
ReadsBoth(s, n, a, m, b) ==
    /\ IsSequence(s) /\ Len(s) = n + m
    /\ \A k \in 1 .. n : s[k] = ReadOf(a[k])
    /\ \A k \in 1 .. m : s[n + k] = ReadOf(b[k])

\* Reads of n words, then reads of m.
LEMMA ReadsConcatenated ==
    ASSUME NEW n \in Nat, NEW m \in Nat, NEW a, NEW b, NEW s, NEW t,
           Reads(s, n, a), Reads(t, m, b)
    PROVE  ReadsBoth(s \o t, n, a, m, b)
<1>1. IsSequence(s) /\ IsSequence(t) /\ Len(s) = n /\ Len(t) = m
    BY DEF Reads
<1>2. /\ IsSequence(s \o t) /\ Len(s \o t) = Len(s) + Len(t)
      /\ \A i \in 1 .. Len(s) : (s \o t)[i] = s[i]
      /\ \A i \in 1 .. Len(t) : (s \o t)[Len(s) + i] = t[i]
    BY ONLY <1>1, ConcatenatedSequence
<1> QED BY <1>1, <1>2 DEF Reads, ReadsBoth

\* Reads alternating between two stretches are the reads of one, then of the other.
LEMMA AlternatingReads ==
    ASSUME NEW n \in Nat, NEW a, NEW b, NEW pointers,
           pointers = [k \in 1 .. 2 * n |->
                          IF k % 2 = 1 THEN a[(k + 1) \div 2] ELSE b[k \div 2]],
           NEW s, NEW t, Reads(s, n, a), Reads(t, n, b)
    PROVE  Rearranged(RamRead(pointers), s \o t)
<1>1. PICK e, f : e = RamRead(pointers) /\ f = s \o t
    OBVIOUS
<1>2. 2 * n \in Nat /\ n + n = 2 * n
    OBVIOUS
<1>3. IsSequence(e) /\ Len(e) = 2 * n /\ \A k \in 1 .. 2 * n : e[k] = ReadOf(pointers[k])
    <2>1. Reads(e, 2 * n, pointers)
        BY <1>1, <1>2, RecordedReads
    <2> QED BY <2>1 DEF Reads
<1>4. /\ IsSequence(f) /\ Len(f) = 2 * n
      /\ \A k \in 1 .. n : f[k] = ReadOf(a[k])
      /\ \A k \in 1 .. n : f[n + k] = ReadOf(b[k])
    <2>1. n \in Nat /\ Reads(s, n, a) /\ Reads(t, n, b)
        OBVIOUS
    <2>2. ReadsBoth(s \o t, n, a, n, b)
        BY ONLY <2>1, ReadsConcatenated
    <2> QED BY <1>1, <1>2, <2>2 DEF ReadsBoth
<1>5. \A k \in 1 .. n : /\ 2 * k - 1 \in 1 .. 2 * n /\ (2 * k - 1) % 2 = 1
                        /\ ((2 * k - 1) + 1) \div 2 = k
                        /\ 2 * k \in 1 .. 2 * n /\ (2 * k) % 2 = 0 /\ (2 * k) \div 2 = k
    OBVIOUS
<1>6. \A k \in 1 .. n : e[2 * k - 1] = ReadOf(a[k]) /\ e[2 * k] = ReadOf(b[k])
    <2> SUFFICES ASSUME NEW k \in 1 .. n
                 PROVE  e[2 * k - 1] = ReadOf(a[k]) /\ e[2 * k] = ReadOf(b[k])
        OBVIOUS
    <2>1. pointers[2 * k - 1] = a[k]
        BY <1>5
    <2>2. pointers[2 * k] = b[k]
        BY <1>5
    <2> QED BY <1>3, <1>5, <2>1, <2>2
<1> DEFINE p == [i \in 1 .. 2 * n |-> IF i <= n THEN 2 * i - 1 ELSE 2 * (i - n)]
<1>7. \A i \in 1 .. 2 * n : i <= n \/ i - n \in 1 .. n
    OBVIOUS
<1>8. Permutes1To(p, 2 * n)
    <2>1. \A i \in 1 .. 2 * n : p[i] = IF i <= n THEN 2 * i - 1 ELSE 2 * (i - n)
        OBVIOUS
    <2>2. p = [i \in 1 .. 2 * n |-> p[i]]
        OBVIOUS
    <2> HIDE DEF p
    <2>3. ASSUME NEW i \in 1 .. 2 * n PROVE p[i] \in 1 .. 2 * n
        <3>1. CASE i <= n
            <4>1. p[i] = 2 * i - 1
                BY <2>1, <3>1
            <4>2. 2 * i - 1 \in 1 .. 2 * n
                BY <3>1
            <4> QED BY <4>1, <4>2
        <3>2. CASE ~(i <= n)
            <4>1. p[i] = 2 * (i - n)
                BY <2>1, <3>2
            <4>2. 2 * (i - n) \in 1 .. 2 * n
                BY <3>2
            <4> QED BY <4>1, <4>2
        <3> QED BY <3>1, <3>2
    <2>4. \A i, j \in 1 .. 2 * n : p[i] = p[j] => i = j
        BY <2>1
    <2>5. ASSUME NEW j \in 1 .. 2 * n PROVE \E i \in 1 .. 2 * n : p[i] = j
        <3>1. CASE j % 2 = 1
            <4>1. PICK i \in 1 .. n : 2 * i - 1 = j
                <5>1. (j + 1) \div 2 \in 1 .. n /\ 2 * ((j + 1) \div 2) - 1 = j
                    BY <3>1
                <5> QED BY <5>1
            <4>2. i \in 1 .. 2 * n /\ i <= n
                OBVIOUS
            <4> QED BY <2>1, <4>1, <4>2
        <3>2. CASE j % 2 = 0
            <4>1. PICK i \in 1 .. n : 2 * i = j
                <5>1. j \div 2 \in 1 .. n /\ 2 * (j \div 2) = j
                    BY <3>2
                <5> QED BY <5>1
            <4>2. n + i \in 1 .. 2 * n /\ ~(n + i <= n) /\ (n + i) - n = i
                OBVIOUS
            <4> QED BY <2>1, <4>1, <4>2
        <3>3. j % 2 = 1 \/ j % 2 = 0
            OBVIOUS
        <3> QED BY <3>1, <3>2, <3>3
    <2>6. p \in [1 .. 2 * n -> 1 .. 2 * n]
        BY <2>2, <2>3
    <2> QED BY <2>4, <2>5, <2>6 DEF Permutes1To
<1>9. \A i \in 1 .. 2 * n : f[i] = e[p[i]]
    <2> SUFFICES ASSUME NEW i \in 1 .. 2 * n PROVE f[i] = e[p[i]]
        OBVIOUS
    <2>1. CASE i <= n
        <3>1. i \in 1 .. n /\ p[i] = 2 * i - 1
            BY <2>1
        <3> QED BY <1>4, <1>6, <3>1
    <2>2. CASE ~(i <= n)
        <3>1. PICK k \in 1 .. n : k = i - n /\ n + k = i
            BY <1>7, <2>2
        <3>2. p[i] = 2 * k
            BY <2>2, <3>1
        <3>3. f[n + k] = ReadOf(b[k]) /\ e[2 * k] = ReadOf(b[k])
            BY <1>4, <1>6
        <3> HIDE DEF p
        <3> QED BY <3>1, <3>2, <3>3
    <2> QED BY <2>1, <2>2
<1> HIDE DEF p
<1>10. Rearranged(e, f)
    BY <1>3, <1>4, <1>8, <1>9 DEF Rearranged
<1> QED BY <1>1, <1>10

\* The first two registers.
LEMMA TwoRegisters ==
    ASSUME VMTypeOK, NEW t, RowsOfStep(t)
    PROVE  t.cur.st[1] = St(0) /\ t.cur.st[2] = St(1) /\ St(0) \in Field /\ St(1) \in Field
<1>1. /\ 1 \in 1 .. NumRegisters /\ 2 \in 1 .. NumRegisters
      /\ 0 \in 0 .. (NumRegisters - 1) /\ 1 \in 0 .. (NumRegisters - 1)
    BY RegisterAssumption, SizeAssumption
<1>2. 1 - 1 = 0 /\ 2 - 1 = 1
    OBVIOUS
<1>3. t.cur.st[1] = St(1 - 1) /\ t.cur.st[2] = St(2 - 1)
    BY <1>1 DEF RowsOfStep
<1> QED BY <1>1, <1>2, <1>3, DepthFacts

\* xx_dot_step alternates between two elements, its row lists one after the other.
LEMMA XxDotStepReads ==
    ASSUME VMTypeOK, XxDotStep, NEW t, RowsOfStep(t),
           t.cur.hv = Helpers(Contents(Addresses(St(0), 1, ExtensionDegree))
                                  \o Contents(Addresses(St(1), 1, ExtensionDegree))),
           RamRows(t) =
               ReadFromRamTo(t, t.cur.st[1], SubSeq(t.cur.hv, 1, 1 + ExtensionDegree - 1))
               \o ReadFromRamTo(t, t.cur.st[2],
                                SubSeq(t.cur.hv, ExtensionDegree + 1,
                                       ExtensionDegree + 1 + ExtensionDegree - 1))
    PROVE  RamRecorded(t)
<1>1. PICK n \in Nat : n = ExtensionDegree /\ n + n <= NumHelpers
    <2>1. ExtensionDegree \in Nat /\ 2 * ExtensionDegree <= NumHelpers
        BY LinkingAssumption, SizeAssumption
    <2> QED BY <2>1
<1>2. PICK x \in Int, y \in Int : /\ x = St(0) /\ y = St(1)
                                  /\ t.cur.st[1] = x /\ t.cur.st[2] = y
    BY TwoRegisters, FieldFacts
<1>3. PICK a, b : a = Addresses(x, 1, n) /\ b = Addresses(y, 1, n)
    OBVIOUS
<1>4. PICK pointers :
          pointers = [k \in 1 .. 2 * n |->
                         IF k % 2 = 1 THEN a[(k + 1) \div 2] ELSE b[k \div 2]]
    OBVIOUS
<1>5. ram_calls' = RamRead(pointers)
    BY <1>1, <1>2, <1>3, <1>4 DEF XxDotStep, DotStep
<1>6. PICK c, d, first : /\ c = Contents(a) /\ d = Contents(b) /\ first = c \o d
                         /\ t.cur.hv = Helpers(first)
    BY <1>1, <1>2, <1>3
<1>7. /\ IsSequence(c) /\ Len(c) = n /\ \A k \in 1 .. n : c[k] = ram[a[k]]
      /\ IsSequence(d) /\ Len(d) = n /\ \A k \in 1 .. n : d[k] = ram[b[k]]
    BY <1>3, <1>6, ContentsFacts
<1>8. /\ IsSequence(first) /\ Len(first) = n + n
      /\ \A k \in 1 .. n : first[k] = c[k]
      /\ \A k \in 1 .. n : first[n + k] = d[k]
    <2>1. IsSequence(c) /\ IsSequence(d)
        BY <1>7
    <2>2. /\ IsSequence(c \o d) /\ Len(c \o d) = Len(c) + Len(d)
          /\ \A i \in 1 .. Len(c) : (c \o d)[i] = c[i]
          /\ \A i \in 1 .. Len(d) : (c \o d)[Len(c) + i] = d[i]
        BY ONLY <2>1, ConcatenatedSequence
    <2> QED BY <1>6, <1>7, <2>2
<1>9. HoldContents(SubSeq(Helpers(first), 1, 1 + n - 1), n, x)
    <2>1. \A k \in 1 .. n : 1 + k - 1 = k
        OBVIOUS
    <2>2. /\ IsSequence(first) /\ Len(first) <= NumHelpers /\ 1 \in Nat \ {0} /\ n \in Nat
          /\ 1 + n - 1 <= Len(first)
          /\ \A k \in 1 .. n : first[1 + k - 1] = ram[Addresses(x, 1, n)[k]]
        BY <1>1, <1>3, <1>7, <1>8, <2>1
    <2> QED BY ONLY <2>2, HelpersHold
<1>10. HoldContents(SubSeq(Helpers(first), n + 1, n + 1 + n - 1), n, y)
    <2>1. \A k \in 1 .. n : n + 1 + k - 1 = n + k
        OBVIOUS
    <2>2. PICK f \in Nat \ {0} : f = n + 1
        OBVIOUS
    <2>3. /\ IsSequence(first) /\ Len(first) <= NumHelpers /\ f \in Nat \ {0} /\ n \in Nat
          /\ f + n - 1 <= Len(first)
          /\ \A k \in 1 .. n : first[f + k - 1] = ram[Addresses(y, 1, n)[k]]
        BY <1>1, <1>3, <1>7, <1>8, <2>1, <2>2
    <2>4. HoldContents(SubSeq(Helpers(first), f, f + n - 1), n, y)
        BY ONLY <2>3, HelpersHold
    <2> QED BY <2>2, <2>4
<1>11. PICK u, v : /\ u = SubSeq(Helpers(first), 1, 1 + n - 1)
                   /\ v = SubSeq(Helpers(first), n + 1, n + 1 + n - 1)
    OBVIOUS
<1>12. PICK p, q : p = ReadFromRamTo(t, x, u) /\ q = ReadFromRamTo(t, y, v)
    OBVIOUS
<1>13. Reads(p, n, a) /\ Reads(q, n, b)
    BY <1>3, <1>9, <1>10, <1>11, <1>12, DerivedReads DEF RowsOfStep
<1>14. RamRows(t) = p \o q
    BY <1>1, <1>2, <1>6, <1>11, <1>12
<1>15. Rearranged(RamRead(pointers), p \o q)
    BY <1>4, <1>13, AlternatingReads
<1> QED BY <1>5, <1>14, <1>15 DEF RamRecorded

\* xb_dot_step reads a word, then an element, as its row lists them.
LEMMA XbDotStepReads ==
    ASSUME VMTypeOK, XbDotStep, NEW t, RowsOfStep(t),
           t.cur.hv = Helpers(<<ram[St(0)]>> \o Contents(Addresses(St(1), 1, ExtensionDegree))),
           RamRows(t) =
               ReadFromRamTo(t, t.cur.st[1], SubSeq(t.cur.hv, 1, 1 + 1 - 1))
               \o ReadFromRamTo(t, t.cur.st[2],
                                SubSeq(t.cur.hv, 2, 2 + ExtensionDegree - 1))
    PROVE  RamRecorded(t)
<1>1. PICK n \in Nat : n = ExtensionDegree /\ 1 + n <= NumHelpers
    <2>1. ExtensionDegree \in Nat /\ ExtensionDegree > 0 /\ 2 * ExtensionDegree <= NumHelpers
          /\ NumHelpers \in Nat
        BY LinkingAssumption, SizeAssumption, RegisterAssumption DEF Rate
    <2> QED BY <2>1
<1>2. PICK x \in Int, y \in Int : /\ x = St(0) /\ y = St(1) /\ x \in Field
                                  /\ t.cur.st[1] = x /\ t.cur.st[2] = y
    BY TwoRegisters, FieldFacts
<1>3. PICK a, b : a = Addresses(x, 1, 1) /\ b = Addresses(y, 1, n)
    OBVIOUS
<1>4. DOMAIN b = 1 .. n /\ a[1] = x
    <2>1. a[1] = (x + 1 * (1 - 1)) % P
        BY <1>3 DEF Addresses
    <2>2. x + 1 * (1 - 1) = x
        OBVIOUS
    <2> QED BY <1>2, <1>3, <2>1, <2>2, ContentsFacts, ReducedIsUnchanged
<1>5. PICK pointers : pointers = <<x>> \o b
    OBVIOUS
<1>6. ram_calls' = RamRead(pointers)
    BY <1>1, <1>2, <1>3, <1>5 DEF XbDotStep, DotStep
<1>7. /\ DOMAIN pointers = 1 .. (1 + n) /\ pointers[1] = x
      /\ \A k \in 1 .. n : pointers[1 + k] = b[k]
    <2>1. PICK o : o = <<x>>
        OBVIOUS
    <2>2. IsSequence(o) /\ Len(o) = 1 /\ o[1] = x
        BY <2>1 DEF IsSequence
    <2>3. IsSequence(b) /\ Len(b) = n
        <3>1. b = [k \in 1 .. n |-> b[k]]
            BY <1>3 DEF Addresses
        <3> QED BY <3>1, IndexedSequence
    <2>4. IsSequence(o) /\ IsSequence(b)
        BY <2>2, <2>3
    <2>5. /\ IsSequence(o \o b) /\ Len(o \o b) = Len(o) + Len(b)
          /\ \A i \in 1 .. Len(o) : (o \o b)[i] = o[i]
          /\ \A i \in 1 .. Len(b) : (o \o b)[Len(o) + i] = b[i]
        BY ONLY <2>4, ConcatenatedSequence
    <2> QED BY <1>5, <2>1, <2>2, <2>3, <2>5 DEF IsSequence
<1>8. PICK c, d, first : /\ c = <<ram[x]>> /\ d = Contents(b) /\ first = c \o d
                         /\ t.cur.hv = Helpers(first)
    BY <1>1, <1>2, <1>3
<1>9. /\ IsSequence(c) /\ Len(c) = 1 /\ c[1] = ram[x]
      /\ IsSequence(d) /\ Len(d) = n /\ \A k \in 1 .. n : d[k] = ram[b[k]]
    <2>1. IsSequence(c) /\ Len(c) = 1 /\ c[1] = ram[x]
        BY <1>8 DEF IsSequence
    <2> QED BY <1>3, <1>8, <2>1, ContentsFacts
<1>10. /\ IsSequence(first) /\ Len(first) = 1 + n
       /\ first[1] = ram[x]
       /\ \A k \in 1 .. n : first[1 + k] = d[k]
    <2>1. IsSequence(c) /\ IsSequence(d)
        BY <1>9
    <2>2. /\ IsSequence(c \o d) /\ Len(c \o d) = Len(c) + Len(d)
          /\ \A i \in 1 .. Len(c) : (c \o d)[i] = c[i]
          /\ \A i \in 1 .. Len(d) : (c \o d)[Len(c) + i] = d[i]
        BY ONLY <2>1, ConcatenatedSequence
    <2> QED BY <1>8, <1>9, <2>2
<1>11. HoldContents(SubSeq(Helpers(first), 1, 1 + 1 - 1), 1, x)
    <2>1. \A k \in 1 .. 1 : 1 + k - 1 = 1 /\ k = 1
        OBVIOUS
    <2>2. \A k \in 1 .. 1 : first[1 + k - 1] = ram[Addresses(x, 1, 1)[k]]
        BY <1>3, <1>4, <1>10, <2>1
    <2>3. /\ IsSequence(first) /\ Len(first) <= NumHelpers /\ 1 \in Nat \ {0} /\ 1 \in Nat
          /\ 1 + 1 - 1 <= Len(first)
          /\ \A k \in 1 .. 1 : first[1 + k - 1] = ram[Addresses(x, 1, 1)[k]]
        BY <1>1, <1>10, <2>2
    <2> QED BY ONLY <2>3, HelpersHold
<1>12. HoldContents(SubSeq(Helpers(first), 2, 2 + n - 1), n, y)
    <2>1. \A k \in 1 .. n : 2 + k - 1 = 1 + k
        OBVIOUS
    <2>2. /\ IsSequence(first) /\ Len(first) <= NumHelpers /\ 2 \in Nat \ {0} /\ n \in Nat
          /\ 2 + n - 1 <= Len(first)
          /\ \A k \in 1 .. n : first[2 + k - 1] = ram[Addresses(y, 1, n)[k]]
        BY <1>1, <1>3, <1>9, <1>10, <2>1
    <2> QED BY ONLY <2>2, HelpersHold
<1>13. PICK u, v : /\ u = SubSeq(Helpers(first), 1, 1 + 1 - 1)
                   /\ v = SubSeq(Helpers(first), 2, 2 + n - 1)
    OBVIOUS
<1>14. PICK p, q : p = ReadFromRamTo(t, x, u) /\ q = ReadFromRamTo(t, y, v)
    OBVIOUS
<1>15. Reads(p, 1, a) /\ Reads(q, n, b)
    BY <1>3, <1>11, <1>12, <1>13, <1>14, DerivedReads DEF RowsOfStep
<1>16. RamRows(t) = p \o q
    BY <1>1, <1>2, <1>8, <1>13, <1>14
<1>17. PICK e, f : e = RamRead(pointers) /\ f = p \o q
    OBVIOUS
<1>18. IsSequence(e) /\ Len(e) = 1 + n /\ \A k \in 1 .. (1 + n) : e[k] = ReadOf(pointers[k])
    <2>1. PICK m \in Nat : m = 1 + n
        OBVIOUS
    <2>2. Reads(e, m, pointers)
        BY <1>7, <1>17, <2>1, RecordedReads
    <2> QED BY <2>1, <2>2 DEF Reads
<1>19. /\ IsSequence(f) /\ Len(f) = 1 + n
       /\ f[1] = ReadOf(a[1])
       /\ \A k \in 1 .. n : f[1 + k] = ReadOf(b[k])
    <2>1. 1 \in Nat /\ n \in Nat /\ Reads(p, 1, a) /\ Reads(q, n, b)
        BY <1>15
    <2>2. ReadsBoth(p \o q, 1, a, n, b)
        BY ONLY <2>1, ReadsConcatenated
    <2> QED BY <1>17, <2>2 DEF ReadsBoth
<1>20. ASSUME NEW k \in 1 .. (1 + n) PROVE e[k] = f[k]
    <2>1. CASE k = 1
        BY <1>4, <1>7, <1>18, <1>19, <2>1
    <2>2. CASE k # 1
        <3>1. PICK i \in 1 .. n : k = 1 + i
            <4>1. k - 1 \in 1 .. n /\ k = 1 + (k - 1)
                BY <2>2
            <4> QED BY <4>1
        <3>2. f[1 + i] = ReadOf(b[i]) /\ pointers[1 + i] = b[i]
            BY <1>7, <1>19
        <3> QED BY <1>18, <3>1, <3>2
    <2> QED BY <2>1, <2>2
<1>21. e = f
    BY <1>18, <1>19, <1>20, SequencesEqual
<1> QED BY <1>6, <1>16, <1>17, <1>19, <1>21, RearrangedItself DEF RamRecorded

(***************************************************************************)
(* A step that succeeds records, up to their order, the accesses its two   *)
(* rows tell of.                                                           *)
(***************************************************************************)
LEMMA RamOfTransition ==
    ASSUME VMTypeOK, VMTypeOK', Step, error' = NoError,
           NEW t, t = [cur |-> ProcessorRow, next |-> ProcessorRow']
    PROVE  RamRecorded(t)
<1> DEFINE op == CurrentInstruction.op
<1>1. StepCompletes /\ InBounds(instruction_pointer)
    BY SuccessfulStep DEF StepCompletes
<1>2. RowsOfStep(t) /\ t.cur = ProcessorRow
    BY <1>1, TransitionRows
<1>3. /\ \A o \in RamOps : Is(t.cur, o) <=> op = o
      /\ t.cur.hv = DeriveHelperVariables
    <2>1. RamOps \subseteq Mnemonics
        BY DEF RamOps, Mnemonics, DoubleWordOps, NumWordsOps, SingleWordOps
    <2> QED BY <1>1, <1>2, <2>1, InstructionRow
<1>4. RamStep(op)
    BY RamOfStep
<1>5. op \in {"read_mem", "write_mem"} => IndicatedArg(t.cur) = Arg
    BY <1>1, <1>2, ArgumentIsIndicated DEF NumWordsOps
<1> DEFINE hv(from, count) == SubSeq(t.cur.hv, from, from + count - 1)
<1>6. RamRows(t) =
          CASE op = "read_mem" ->
                   [k \in 1 .. IndicatedArg(t.cur) |->
                       RamRow(t, t.next.st[1] + k, t.next.st[k + 1], FALSE)]
            [] op = "write_mem" ->
                   [k \in 1 .. IndicatedArg(t.cur) |->
                       RamRow(t, t.cur.st[1] + k - 1, t.cur.st[k + 1], TRUE)]
            [] op = "sponge_absorb_mem" ->
                   ReadFromRamTo(t, t.cur.st[1],
                       SubSeq(t.next.st, 2, Rate - NumHelpers + 1) \o hv(1, NumHelpers))
            [] op = "merkle_step_mem" ->
                   ReadFromRamTo(t, t.cur.st[DigestLen + 3], hv(1, DigestLen))
            [] op = "xx_dot_step" ->
                   ReadFromRamTo(t, t.cur.st[1], hv(1, ExtensionDegree))
                       \o ReadFromRamTo(t, t.cur.st[2], hv(ExtensionDegree + 1, ExtensionDegree))
            [] op = "xb_dot_step" ->
                   ReadFromRamTo(t, t.cur.st[1], hv(1, 1))
                       \o ReadFromRamTo(t, t.cur.st[2], hv(2, ExtensionDegree))
            [] OTHER -> <<>>
    BY <1>3 DEF RamRows, RamOps
<1> HIDE DEF op
<1>7. CASE op = "read_mem"
    <2>1. RamRows(t) = [k \in 1 .. Arg |-> RamRow(t, t.next.st[1] + k, t.next.st[k + 1], FALSE)]
        BY <1>5, <1>6, <1>7
    <2>2. ReadMem
        BY <1>4, <1>7 DEF RamStep
    <2> QED BY <1>1, <1>2, <2>1, <2>2, ReadMemReads
<1>8. CASE op = "write_mem"
    <2>1. RamRows(t) = [k \in 1 .. Arg |-> RamRow(t, t.cur.st[1] + k - 1, t.cur.st[k + 1], TRUE)]
        BY <1>5, <1>6, <1>8
    <2>2. WriteMem
        BY <1>4, <1>8 DEF RamStep
    <2> QED BY <1>1, <1>2, <2>1, <2>2, WriteMemWrites
<1>9. CASE op = "sponge_absorb_mem"
    <2>1. SpongeAbsorbMem
        BY <1>4, <1>9 DEF RamStep
    <2>2. t.cur.hv = Helpers(Contents(Addresses(Plus(St(0), Rate - NumHelpers), 1, NumHelpers)))
        BY <1>1, <1>3, <1>9 DEF DeriveHelperVariables, NumWordsOps, RegisterOps, op
    <2>3. RamRows(t) =
              ReadFromRamTo(t, t.cur.st[1],
                  SubSeq(t.next.st, 2, Rate - NumHelpers + 1)
                      \o SubSeq(t.cur.hv, 1, 1 + NumHelpers - 1))
        BY <1>6, <1>9
    <2> QED BY <1>2, <2>1, <2>2, <2>3, SpongeAbsorbMemReads
<1>10. CASE op = "merkle_step_mem"
    <2>1. MerkleStepMem
        BY <1>4, <1>10 DEF RamStep
    <2>2. PICK bit : bit = St(DigestLen) % 2
        OBVIOUS
    <2>3. t.cur.hv = Helpers(Contents(Addresses(St(DigestLen + 2), 1, DigestLen)) \o <<bit>>)
        BY <1>1, <1>3, <1>10, <2>2 DEF DeriveHelperVariables, NumWordsOps, RegisterOps, op
    <2>4. RamRows(t) =
              ReadFromRamTo(t, t.cur.st[DigestLen + 3],
                            SubSeq(t.cur.hv, 1, 1 + DigestLen - 1))
        BY <1>6, <1>10
    <2> QED BY <1>2, <2>1, <2>3, <2>4, MerkleStepMemReads
<1>11. CASE op = "xx_dot_step"
    <2>1. XxDotStep
        BY <1>4, <1>11 DEF RamStep
    <2>2. t.cur.hv = Helpers(Contents(Addresses(St(0), 1, ExtensionDegree))
                                 \o Contents(Addresses(St(1), 1, ExtensionDegree)))
        BY <1>1, <1>3, <1>11 DEF DeriveHelperVariables, NumWordsOps, RegisterOps, op
    <2>3. RamRows(t) =
              ReadFromRamTo(t, t.cur.st[1], SubSeq(t.cur.hv, 1, 1 + ExtensionDegree - 1))
              \o ReadFromRamTo(t, t.cur.st[2],
                               SubSeq(t.cur.hv, ExtensionDegree + 1,
                                      ExtensionDegree + 1 + ExtensionDegree - 1))
        BY <1>6, <1>11
    <2> QED BY <1>2, <2>1, <2>2, <2>3, XxDotStepReads
<1>12. CASE op = "xb_dot_step"
    <2>1. XbDotStep
        BY <1>4, <1>12 DEF RamStep
    <2>2. t.cur.hv = Helpers(<<ram[St(0)]>> \o Contents(Addresses(St(1), 1, ExtensionDegree)))
        BY <1>1, <1>3, <1>12 DEF DeriveHelperVariables, NumWordsOps, RegisterOps, op
    <2>3. RamRows(t) =
              ReadFromRamTo(t, t.cur.st[1], SubSeq(t.cur.hv, 1, 1 + 1 - 1))
              \o ReadFromRamTo(t, t.cur.st[2],
                               SubSeq(t.cur.hv, 2, 2 + ExtensionDegree - 1))
        BY <1>6, <1>12
    <2> QED BY <1>2, <2>1, <2>2, <2>3, XbDotStepReads
<1>13. CASE op \notin RamOps
    <2>1. ram_calls' = <<>>
        BY <1>4, <1>13 DEF RamStep
    <2>2. RamRows(t) = <<>>
        BY <1>6, <1>13 DEF RamOps
    <2> QED BY <2>1, <2>2, EmptySequence, RearrangedItself DEF RamRecorded
<1> QED BY <1>7, <1>8, <1>9, <1>10, <1>11, <1>12, <1>13 DEF RamOps
------------------------------------------------------------------------------
(* Induction over the execution. *)

\* What the transitions contribute.
OpStackOf(ts) == [k \in DOMAIN ts |-> OpStackRows(ts[k])]
RamOf(ts) == [k \in DOMAIN ts |-> RamRows(ts[k])]

(***************************************************************************)
(* The invariant: either table holds the derived rows, step by step, in    *)
(* some order.                                                             *)
(***************************************************************************)
MemoryInv ==
    /\ VMTypeOK
    /\ Succeeds =>
           /\ IsSequence(processor_trace)
           /\ Rearranged(op_stack_underflow_trace, Accumulated(OpStackRows))
           /\ Rearranged(ram_trace, Accumulated(RamRows))

\* A step that succeeds keeps both tables balanced.
LEMMA MemoryStepBalances ==
    ASSUME MemoryInv, VMTypeOK', TraceNext, error' = NoError
    PROVE  MemoryInv'
<1>1. Succeeds /\ Step /\ VMTypeOK
    BY SuccessfulStep DEF TraceNext, StepCompletes, Succeeds, MemoryInv
<1>2. /\ IsSequence(processor_trace)
      /\ Rearranged(op_stack_underflow_trace, Accumulated(OpStackRows))
      /\ Rearranged(ram_trace, Accumulated(RamRows))
    BY <1>1 DEF MemoryInv
<1>3. PICK t : t = [cur |-> ProcessorRow, next |-> ProcessorRow']
    OBVIOUS
<1>4. /\ IsSequence(processor_trace)' /\ IsSequence(Transitions)
      /\ Transitions' = Append(Transitions, t)
    BY <1>2, <1>3, RecordedTransition
<1>5. PICK ts, us : ts = Transitions /\ us = Transitions'
    OBVIOUS
<1>6. OpStackRecorded(t) /\ RamRecorded(t)
    BY <1>1, <1>3, OpStackStep, RamOfTransition
<1>7. /\ IsSequence(ts) /\ us = Append(ts, t)
      /\ DOMAIN ts = 1 .. Len(ts) /\ DOMAIN us = 1 .. (Len(ts) + 1)
      /\ Len(ts) \in Nat /\ us[Len(ts) + 1] = t
      /\ \A k \in DOMAIN ts : us[k] = ts[k]
    <2>1. IsSequence(ts) /\ us = Append(ts, t)
        BY <1>4, <1>5
    <2>2. IsSequence(us) /\ Len(us) = Len(ts) + 1 /\ us[Len(ts) + 1] = t
          /\ \A k \in 1 .. Len(ts) : us[k] = ts[k]
        BY <2>1, AppendedSequence
    <2> QED BY <2>1, <2>2 DEF IsSequence
<1>8. PICK last : last = Len(ts) + 1
    OBVIOUS
<1>9. last \in DOMAIN us /\ us[last] = t /\ \A k \in DOMAIN ts : k \in DOMAIN us /\ us[k] = ts[k]
    BY <1>7, <1>8
<1>10. S!FlattenSeq(OpStackOf(us)) = S!FlattenSeq(OpStackOf(ts)) \o OpStackRows(t)
    <2>1. PICK f, g : f = OpStackOf(ts) /\ g = OpStackOf(us)
        OBVIOUS
    <2>2. PICK x : x = OpStackRows(t)
        OBVIOUS
    <2>3. ListsOver(f, ts) /\ ListsOver(g, us)
        BY <2>1 DEF ListsOver, OpStackOf
    <2>4. g[last] = x /\ \A k \in DOMAIN ts : g[k] = f[k]
        BY <1>9, <2>1, <2>2 DEF OpStackOf
    <2>5. IsSequence(x)
        BY <1>6, <2>2 DEF OpStackRecorded, Rearranged
    <2>6. /\ IsSequence(ts)
          /\ ListsOver(f, ts) /\ ListsOver(g, Append(ts, t))
          /\ \A k \in DOMAIN ts : g[k] = f[k]
          /\ IsSequence(x) /\ g[Len(ts) + 1] = x
        BY <1>7, <1>8, <2>3, <2>4, <2>5
    <2>7. S!FlattenSeq(g) = S!FlattenSeq(f) \o x
        BY ONLY <2>6, AccumulatedGrows
    <2> QED BY <2>1, <2>2, <2>7
<1>11. S!FlattenSeq(RamOf(us)) = S!FlattenSeq(RamOf(ts)) \o RamRows(t)
    <2>1. PICK f, g : f = RamOf(ts) /\ g = RamOf(us)
        OBVIOUS
    <2>2. PICK x : x = RamRows(t)
        OBVIOUS
    <2>3. ListsOver(f, ts) /\ ListsOver(g, us)
        BY <2>1 DEF ListsOver, RamOf
    <2>4. g[last] = x /\ \A k \in DOMAIN ts : g[k] = f[k]
        BY <1>9, <2>1, <2>2 DEF RamOf
    <2>5. IsSequence(x)
        BY <1>6, <2>2 DEF RamRecorded, Rearranged
    <2>6. /\ IsSequence(ts)
          /\ ListsOver(f, ts) /\ ListsOver(g, Append(ts, t))
          /\ \A k \in DOMAIN ts : g[k] = f[k]
          /\ IsSequence(x) /\ g[Len(ts) + 1] = x
        BY <1>7, <1>8, <2>3, <2>4, <2>5
    <2>7. S!FlattenSeq(g) = S!FlattenSeq(f) \o x
        BY ONLY <2>6, AccumulatedGrows
    <2> QED BY <2>1, <2>2, <2>7
<1>12. /\ Accumulated(OpStackRows)' = Accumulated(OpStackRows) \o OpStackRows(t)
       /\ Accumulated(RamRows)' = Accumulated(RamRows) \o RamRows(t)
    <2>1. /\ Accumulated(OpStackRows) = S!FlattenSeq(OpStackOf(ts))
          /\ Accumulated(RamRows) = S!FlattenSeq(RamOf(ts))
        BY <1>5 DEF Accumulated, OpStackOf, RamOf
    <2>2. /\ Accumulated(OpStackRows)' = S!FlattenSeq(OpStackOf(us))
          /\ Accumulated(RamRows)' = S!FlattenSeq(RamOf(us))
        BY <1>5 DEF Accumulated, OpStackOf, RamOf
    <2> QED BY <1>10, <1>11, <2>1, <2>2
<1>13. Rearranged(op_stack_underflow_trace', Accumulated(OpStackRows)')
    <2>1. PICK entries :
              entries = FromUnderflowIoSequence(cycle_count, Len(op_stack'), underflow_io')
        OBVIOUS
    <2>2. op_stack_underflow_trace' = op_stack_underflow_trace \o entries
        BY <2>1 DEF TraceNext, RecordCoProcessorCalls
    <2>3. Rearranged(entries, OpStackRows(t))
        BY <1>6, <2>1 DEF OpStackRecorded
    <2> QED BY <1>2, <1>12, <2>2, <2>3, RearrangedConcatenated
<1>14. Rearranged(ram_trace', Accumulated(RamRows)')
    <2>1. PICK recorded : recorded = ram_calls'
        OBVIOUS
    <2>2. ram_trace' = ram_trace \o recorded
        BY <2>1 DEF TraceNext, RecordCoProcessorCalls
    <2>3. Rearranged(recorded, RamRows(t))
        BY <1>6, <2>1 DEF RamRecorded
    <2> QED BY <1>2, <1>12, <2>2, <2>3, RearrangedConcatenated
<1>15. Rearranged(op_stack_underflow_trace, Accumulated(OpStackRows))'
    BY <1>13 DEF Rearranged, IsSequence, Permutes1To
<1>16. Rearranged(ram_trace, Accumulated(RamRows))'
    BY <1>14 DEF Rearranged, IsSequence, Permutes1To
<1> QED BY <1>4, <1>15, <1>16 DEF MemoryInv, Succeeds

\* The invariant holds in every execution.
LEMMA MemoryInvariance == TraceSpec => []MemoryInv
<1>1. TraceInit => MemoryInv
    <2> SUFFICES ASSUME TraceInit PROVE MemoryInv
        OBVIOUS
    <2>1. Init /\ processor_trace = <<>> /\ op_stack_underflow_trace = <<>> /\ ram_trace = <<>>
        BY DEF TraceInit
    <2>2. VMTypeOK
        BY <2>1, InitTypes
    <2>3. IsSequence(processor_trace) /\ Len(processor_trace) = 0
        BY <2>1, EmptySequence
    <2>4. Accumulated(OpStackRows) = <<>> /\ Accumulated(RamRows) = <<>>
        BY <2>1, <2>3 DEF Accumulated, Transitions, S!FlattenSeq
    <2> QED BY <2>1, <2>2, <2>3, <2>4, EmptySequence, RearrangedItself DEF MemoryInv
<1>2. MemoryInv /\ [TraceNext]_traceVars => MemoryInv'
    <2> SUFFICES ASSUME MemoryInv, [TraceNext]_traceVars PROVE MemoryInv'
        OBVIOUS
    <2>1. CASE UNCHANGED traceVars
        <3>1. Transitions' = Transitions
            BY <2>1, UnchangedRow
        <3>2. /\ Accumulated(OpStackRows)' = Accumulated(OpStackRows)
              /\ Accumulated(RamRows)' = Accumulated(RamRows)
            BY <3>1 DEF Accumulated
        <3>3. UNCHANGED <<vmVars, processor_trace, op_stack_underflow_trace, ram_trace>>
            BY <2>1 DEF traceVars, aet
        <3>4. VMTypeOK'
            BY <3>3 DEF MemoryInv, VMTypeOK, vmVars
        <3>5. UNCHANGED <<error, processor_trace, op_stack_underflow_trace, ram_trace>>
            BY <3>3 DEF vmVars
        <3>6. /\ Succeeds' => Succeeds
              /\ IsSequence(processor_trace)' <=> IsSequence(processor_trace)
            BY <3>5 DEF Succeeds, IsSequence
        <3>7. /\ Rearranged(op_stack_underflow_trace, Accumulated(OpStackRows))'
                    <=> Rearranged(op_stack_underflow_trace, Accumulated(OpStackRows))
              /\ Rearranged(ram_trace, Accumulated(RamRows))'
                    <=> Rearranged(ram_trace, Accumulated(RamRows))
            BY <3>2, <3>5 DEF Rearranged, IsSequence, Permutes1To
        <3> QED BY <3>4, <3>6, <3>7 DEF MemoryInv
    <2>2. CASE TraceNext
        <3>1. VMTypeOK'
            BY <2>2, NextTypes DEF MemoryInv, TraceNext, VMNext, StepIsTyped
        <3>2. CASE error' = NoError
            BY <2>2, <3>1, <3>2, MemoryStepBalances
        <3>3. CASE error' # NoError
            BY <3>1, <3>3 DEF MemoryInv, Succeeds
        <3> QED BY <3>2, <3>3
    <2> QED BY <2>1, <2>2
<1> QED BY <1>1, <1>2, PTL DEF TraceSpec

(***************************************************************************)
(* The rows of the op stack table are, as a bag, the ones the processor's  *)
(* constraints derive from its rows: what moved across the bottom register *)
(* while the Rust code popped and pushed is what two rows tell.  The rows  *)
(* of the RAM table are the ones they derive from registers and helper     *)
(* variables, for ranges that overlap or wrap around too.                  *)
(***************************************************************************)
THEOREM MemoryArguments == TraceSpec => []MemoryArgumentsBalance
<1>1. MemoryInv => OpStackArgumentBalances
    BY RearrangedBags DEF MemoryInv, OpStackArgumentBalances
<1>2. MemoryInv => RamArgumentBalances
    BY RearrangedBags DEF MemoryInv, RamArgumentBalances
<1>3. MemoryInv => MemoryArgumentsBalance
    BY <1>1, <1>2 DEF MemoryArgumentsBalance
<1> QED BY <1>3, MemoryInvariance, PTL
------------------------------------------------------------------------------
(* Symbols of one step. *)

\* The topmost elements of the stack after n elements have been pushed.
LEMMA PushedOnTop ==
    ASSUME VMTypeOK, VMTypeOK', NEW n \in 0 .. NumRegisters, NEW tops \in [1 .. n -> Field],
           Replace(0, tops)
    PROVE  \A k \in 1 .. n : St(k - 1)' = tops[k]
<1>1. PICK s, t : s = op_stack /\ t = op_stack'
    OBVIOUS
<1>2. IsSequence(s) /\ s \in Seq(Field) /\ Len(s) \in Nat
    BY <1>1, SeqIsSequence DEF VMTypeOK
<1> DEFINE pushed == [k \in 1 .. n |-> tops[n + 1 - k]]
<1>3. n \in Nat /\ Len(tops) = n
    BY RegisterAssumption, IndexedSequence
<1>4. IsSequence(pushed) /\ Len(pushed) = n
    <2>1. pushed = [k \in 1 .. n |-> pushed[k]]
        OBVIOUS
    <2> HIDE DEF pushed
    <2> QED BY <1>3, <2>1, IndexedSequence
<1>5. Below(0) = s
    BY <1>1, <1>2 DEF Below
<1>6. t = s \o pushed
    BY <1>1, <1>3, <1>5 DEF Replace, StackBecomes
<1>7. Len(t) = Len(s) + n /\ \A i \in 1 .. n : t[Len(s) + i] = pushed[i]
    <2> HIDE DEF pushed
    <2>1. IsSequence(s) /\ IsSequence(pushed)
        BY <1>2, <1>4
    <2>2. /\ Len(s \o pushed) = Len(s) + Len(pushed)
          /\ \A i \in 1 .. Len(pushed) : (s \o pushed)[Len(s) + i] = pushed[i]
        BY ONLY <2>1, ConcatenatedSequence
    <2> QED BY <1>4, <1>6, <2>2
<1>8. ASSUME NEW k \in 1 .. n PROVE St(k - 1)' = tops[k]
    <2>1. St(k - 1)' = t[Len(t) - (k - 1)]
        BY <1>1 DEF St
    <2>2. n + 1 - k \in 1 .. n /\ Len(t) - (k - 1) = Len(s) + (n + 1 - k)
          /\ n + 1 - (n + 1 - k) = k
        BY <1>2, <1>3, <1>7
    <2> QED BY <1>7, <2>1, <2>2
<1> QED BY <1>8

\* Nothing concatenated.
LEMMA EmptyConcatenated ==
    ASSUME NEW s, IsSequence(s)
    PROVE  <<>> \o s = s /\ s \o <<>> = s
<1>1. s \in Seq({s[i] : i \in 1 .. Len(s)})
    BY SequenceOver
<1> QED BY <1>1

\* A sequence is what was split off its front and the rest.
LEMMA SequenceRejoined ==
    ASSUME NEW s, IsSequence(s), NEW m \in Nat, Len(s) >= m,
           NEW front, IsSequence(front), Len(front) = m,
           \A i \in 1 .. m : front[i] = s[i],
           NEW rest, rest = SubSeq(s, m + 1, Len(s))
    PROVE  front \o rest = s
<1> DEFINE u == front \o rest
<1>1. Len(s) \in Nat
    BY DEF IsSequence
<1>2. /\ IsSequence(rest) /\ Len(rest) = Len(s) - (m + 1) + 1
      /\ \A i \in 1 .. (Len(s) - (m + 1) + 1) : rest[i] = s[(m + 1) + i - 1]
    BY <1>1, SubSequence
<1>3. /\ IsSequence(u) /\ Len(u) = m + Len(rest)
      /\ \A i \in 1 .. m : u[i] = front[i]
      /\ \A i \in 1 .. Len(rest) : u[m + i] = rest[i]
    BY <1>2, ConcatenatedSequence
<1> HIDE DEF u
<1>4. Len(u) = Len(s)
    BY <1>1, <1>2, <1>3
<1>5. ASSUME NEW i \in 1 .. Len(s) PROVE u[i] = s[i]
    <2>1. CASE i <= m
        BY <1>3, <2>1
    <2>2. CASE i > m
        <3>1. i - m \in 1 .. Len(rest) /\ m + (i - m) = i /\ (m + 1) + (i - m) - 1 = i
            BY <1>1, <1>2, <2>2
        <3>2. u[m + (i - m)] = rest[i - m] /\ rest[i - m] = s[(m + 1) + (i - m) - 1]
            BY <1>1, <1>2, <1>3, <3>1
        <3> QED BY <3>1, <3>2
    <2> QED BY <2>1, <2>2
<1> QED BY <1>3, <1>4, <1>5, SequencesEqual DEF u

\* The parts of the type invariant the arguments need.
LEMMA IoTypes ==
    ASSUME VMTypeOK
    PROVE  IsSequence(public_input) /\ IsSequence(public_output)
BY SeqIsSequence DEF VMTypeOK

\* A step that succeeds consumes and produces what the transition tells.
LEMMA SymbolsOfStep ==
    ASSUME VMTypeOK, VMTypeOK', Step, error' = NoError,
           NEW t, t = [cur |-> ProcessorRow, next |-> ProcessorRow']
    PROVE  /\ IsSequence(InputSymbols(t)) /\ IsSequence(OutputSymbols(t))
           /\ InputSymbols(t) \o public_input' = public_input
           /\ public_output' = public_output \o OutputSymbols(t)
<1>1. /\ InBounds(instruction_pointer)
      /\ IsSequence(public_input) /\ IsSequence(public_output)
      /\ IsSequence(public_input') /\ IsSequence(public_output')
    <2>1. IsSequence(public_input') /\ IsSequence(public_output')
        BY SeqIsSequence DEF VMTypeOK
    <2> QED BY <2>1, SuccessfulStep, IoTypes DEF StepCompletes
<1>2. t.cur = ProcessorRow /\ t.next = ProcessorRow'
    OBVIOUS
<1>3. /\ Is(t.cur, "read_io") <=> CurrentInstruction.op = "read_io"
      /\ Is(t.cur, "write_io") <=> CurrentInstruction.op = "write_io"
    BY <1>1, <1>2, InstructionRow DEF Mnemonics, DoubleWordOps, NumWordsOps
<1>4. CASE CurrentInstruction.op \notin {"read_io", "write_io"}
    <2>1. InputSymbols(t) = <<>> /\ OutputSymbols(t) = <<>>
        BY <1>3, <1>4 DEF InputSymbols, OutputSymbols
    <2>2. UNCHANGED <<public_input, public_output>>
        BY <1>4, IoOfStep DEF IoStep
    <2> QED BY <1>1, <2>1, <2>2, EmptySequence, EmptyConcatenated
<1>5. CASE CurrentInstruction.op = "read_io"
    <2> DEFINE n == IndicatedArg(t.cur)
               top == St0To(t.next, n)
               symbols == InputSymbols(t)
    <2>1. n = Arg /\ Arg \in 1 .. (NumRegisters - 1)
        BY <1>1, <1>2, <1>5, ArgumentIsIndicated DEF NumWordsOps
    <2>2. /\ IsSequence(top) /\ Len(top) = n
          /\ \A k \in 1 .. n : top[k] = St(k - 1)'
        BY <1>2, <2>1, NextRowFacts, RegisterAssumption DEF RowShape
    <2>3. ReadIo
        BY <1>5, IoOfStep DEF IoStep
    <2>4. /\ Len(public_input) >= Arg
          /\ Replace(0, [k \in 1 .. Arg |-> public_input[Arg + 1 - k]])
          /\ public_input' = SubSeq(public_input, Arg + 1, Len(public_input))
          /\ UNCHANGED public_output
        BY <2>3 DEF ReadIo, Fails, NoError
    <2>5. PICK m \in 0 .. NumRegisters : m = Arg
        BY <2>1, RegisterAssumption
    <2>6. PICK tops : tops = [k \in 1 .. m |-> public_input[m + 1 - k]]
        OBVIOUS
    <2>7. tops \in [1 .. m -> Field]
        <3>1. public_input \in Seq(Field) /\ m \in Nat /\ m <= Len(public_input)
            BY <2>4, <2>5, RegisterAssumption DEF VMTypeOK
        <3>2. \A k \in 1 .. m : m + 1 - k \in 1 .. Len(public_input)
            BY <3>1
        <3>3. \A k \in 1 .. m : public_input[m + 1 - k] \in Field
            BY <3>1, <3>2, ElementOfSeq
        <3> QED BY <2>6, <3>3
    <2>8. Replace(0, tops)
        BY <2>4, <2>5, <2>6
    <2>9. \A k \in 1 .. m : St(k - 1)' = tops[k]
        BY <2>7, <2>8, PushedOnTop
    <2>10. symbols = S!Reverse(top) /\ OutputSymbols(t) = <<>>
        BY <1>3, <1>5 DEF InputSymbols, OutputSymbols
    <2>11. symbols = [i \in 1 .. m |-> top[m - i + 1]]
        BY <2>1, <2>2, <2>5, <2>10 DEF S!Reverse
    <2>12. IsSequence(symbols) /\ Len(symbols) = m
        <3>1. symbols = [i \in 1 .. m |-> symbols[i]] /\ m \in Nat
            BY <2>11, RegisterAssumption
        <3> HIDE DEF symbols
        <3> QED BY <3>1, IndexedSequence
    <2>13. \A i \in 1 .. m : symbols[i] = public_input[i]
        <3> SUFFICES ASSUME NEW i \in 1 .. m PROVE symbols[i] = public_input[i]
            OBVIOUS
        <3>1. m - i + 1 \in 1 .. m /\ m + 1 - (m - i + 1) = i
            BY RegisterAssumption
        <3>2. symbols[i] = top[m - i + 1] /\ top[m - i + 1] = St((m - i + 1) - 1)'
            BY <2>1, <2>2, <2>5, <2>11, <3>1
        <3> QED BY <2>6, <2>9, <3>1, <3>2
    <2> HIDE DEF symbols, top, n
    <2>14. symbols \o public_input' = public_input
        <3>1. PICK s, rest : s = public_input /\ rest = public_input'
            OBVIOUS
        <3>2. /\ IsSequence(s) /\ m \in Nat /\ Len(s) >= m
              /\ IsSequence(symbols) /\ Len(symbols) = m
              /\ \A i \in 1 .. m : symbols[i] = s[i]
              /\ rest = SubSeq(s, m + 1, Len(s))
            BY <1>1, <2>4, <2>5, <2>12, <2>13, <3>1, RegisterAssumption
        <3>3. symbols \o rest = s
            BY ONLY <3>2, SequenceRejoined
        <3> QED BY <3>1, <3>3
    <2> QED BY <1>1, <2>4, <2>10, <2>12, <2>14, EmptySequence, EmptyConcatenated DEF symbols
<1>6. CASE CurrentInstruction.op = "write_io"
    <2> DEFINE n == IndicatedArg(t.cur)
    <2>1. n = Arg /\ n \in 0 .. NumRegisters
        BY <1>1, <1>2, <1>6, ArgumentIsIndicated, RegisterAssumption DEF NumWordsOps
    <2>2. OutputSymbols(t) = St0To(ProcessorRow, n) /\ InputSymbols(t) = <<>>
        BY <1>2, <1>3, <1>6 DEF InputSymbols, OutputSymbols
    <2>3. St0To(ProcessorRow, n) = Tops(0, n) /\ IsSequence(St0To(ProcessorRow, n))
        BY <2>1, RowFacts DEF RowShape
    <2>4. WriteIo
        BY <1>6, IoOfStep DEF IoStep
    <2>5. public_output' = public_output \o Tops(0, Arg) /\ UNCHANGED public_input
        BY <2>4 DEF WriteIo
    <2> QED BY <1>1, <2>1, <2>2, <2>3, <2>5, EmptySequence, EmptyConcatenated
<1> QED BY <1>4, <1>5, <1>6
------------------------------------------------------------------------------
(* The running evaluations. *)

\* The symbols of every transition.
InputOf(ts) == [k \in DOMAIN ts |-> InputSymbols(ts[k])]
OutputOf(ts) == [k \in DOMAIN ts |-> OutputSymbols(ts[k])]

\* Concatenation is associative.
LEMMA ConcatenatedTwice ==
    ASSUME NEW s, NEW t, NEW u, IsSequence(s), IsSequence(t), IsSequence(u)
    PROVE  (s \o t) \o u = s \o (t \o u)
<1> DEFINE S1 == {s[i] : i \in 1 .. Len(s)}
           S2 == {t[i] : i \in 1 .. Len(t)}
           S3 == {u[i] : i \in 1 .. Len(u)}
           S0 == S1 \cup S2 \cup S3
<1>1. s \in Seq(S0)
    BY SequenceOver
<1>2. t \in Seq(S0)
    BY SequenceOver
<1>3. u \in Seq(S0)
    BY SequenceOver
<1> HIDE DEF S0
<1> QED BY <1>1, <1>2, <1>3

\* The invariant: what the transitions consumed and what is left are the input,
\* and what they produced is the output.
IoInv ==
    /\ VMTypeOK
    /\ Succeeds =>
           /\ IsSequence(processor_trace)
           /\ IsSequence(Accumulated(InputSymbols))
           /\ IsSequence(Accumulated(OutputSymbols))
           /\ IoArgumentsBalance

\* A step that succeeds keeps the evaluations in agreement with the machine.
LEMMA IoStepBalances ==
    ASSUME IoInv, VMTypeOK', TraceNext, error' = NoError
    PROVE  IoInv'
<1>1. Succeeds /\ Step /\ VMTypeOK
    BY SuccessfulStep DEF TraceNext, StepCompletes, Succeeds, IoInv
<1>2. /\ IsSequence(processor_trace)
      /\ IsSequence(Accumulated(InputSymbols)) /\ IsSequence(Accumulated(OutputSymbols))
      /\ Accumulated(InputSymbols) \o public_input \in PublicInputs
      /\ Accumulated(OutputSymbols) = public_output
    BY <1>1 DEF IoInv, IoArgumentsBalance
<1>3. PICK t : t = [cur |-> ProcessorRow, next |-> ProcessorRow']
    OBVIOUS
<1>4. /\ IsSequence(processor_trace)' /\ IsSequence(Transitions)
      /\ Transitions' = Append(Transitions, t) /\ IsSequence(Transitions')
    BY <1>2, <1>3, RecordedTransition
<1>5. PICK ts, us : ts = Transitions /\ us = Transitions'
    OBVIOUS
<1>6. /\ IsSequence(InputSymbols(t)) /\ IsSequence(OutputSymbols(t))
      /\ InputSymbols(t) \o public_input' = public_input
      /\ public_output' = public_output \o OutputSymbols(t)
    BY <1>1, <1>3, SymbolsOfStep
<1>7. /\ IsSequence(ts) /\ IsSequence(us) /\ us = Append(ts, t)
      /\ DOMAIN ts = 1 .. Len(ts) /\ DOMAIN us = 1 .. (Len(ts) + 1)
      /\ Len(ts) \in Nat /\ us[Len(ts) + 1] = t
      /\ \A k \in 1 .. Len(ts) : us[k] = ts[k]
    <2>1. IsSequence(ts) /\ IsSequence(us) /\ us = Append(ts, t)
        BY <1>4, <1>5
    <2> QED BY <2>1, AppendedSequence DEF IsSequence
<1>8. S!FlattenSeq(InputOf(us)) = S!FlattenSeq(InputOf(ts)) \o InputSymbols(t)
    <2>1. PICK f, g, x : f = InputOf(ts) /\ g = InputOf(us) /\ x = InputSymbols(t)
        OBVIOUS
    <2>2. ListsOver(f, ts) /\ ListsOver(g, us)
        BY <2>1 DEF ListsOver, InputOf
    <2>3. /\ \A k \in DOMAIN ts : g[k] = f[k]
          /\ g[Len(ts) + 1] = x
        BY <1>7, <2>1 DEF InputOf
    <2>4. /\ IsSequence(ts) /\ ListsOver(f, ts) /\ ListsOver(g, Append(ts, t))
          /\ \A k \in DOMAIN ts : g[k] = f[k]
          /\ IsSequence(x) /\ g[Len(ts) + 1] = x
        BY <1>6, <1>7, <2>1, <2>2, <2>3
    <2>5. S!FlattenSeq(g) = S!FlattenSeq(f) \o x
        BY ONLY <2>4, AccumulatedGrows
    <2> QED BY <2>1, <2>5
<1>9. S!FlattenSeq(OutputOf(us)) = S!FlattenSeq(OutputOf(ts)) \o OutputSymbols(t)
    <2>1. PICK f, g, x : f = OutputOf(ts) /\ g = OutputOf(us) /\ x = OutputSymbols(t)
        OBVIOUS
    <2>2. ListsOver(f, ts) /\ ListsOver(g, us)
        BY <2>1 DEF ListsOver, OutputOf
    <2>3. /\ \A k \in DOMAIN ts : g[k] = f[k]
          /\ g[Len(ts) + 1] = x
        BY <1>7, <2>1 DEF OutputOf
    <2>4. /\ IsSequence(ts) /\ ListsOver(f, ts) /\ ListsOver(g, Append(ts, t))
          /\ \A k \in DOMAIN ts : g[k] = f[k]
          /\ IsSequence(x) /\ g[Len(ts) + 1] = x
        BY <1>6, <1>7, <2>1, <2>2, <2>3
    <2>5. S!FlattenSeq(g) = S!FlattenSeq(f) \o x
        BY ONLY <2>4, AccumulatedGrows
    <2> QED BY <2>1, <2>5
<1>10. /\ Accumulated(InputSymbols) = S!FlattenSeq(InputOf(ts))
       /\ Accumulated(OutputSymbols) = S!FlattenSeq(OutputOf(ts))
    BY <1>5 DEF Accumulated, InputOf, OutputOf
<1>11. /\ Accumulated(InputSymbols)' = S!FlattenSeq(InputOf(us))
       /\ Accumulated(OutputSymbols)' = S!FlattenSeq(OutputOf(us))
    BY <1>5 DEF Accumulated, InputOf, OutputOf
<1>12. /\ Accumulated(InputSymbols)' = Accumulated(InputSymbols) \o InputSymbols(t)
       /\ Accumulated(OutputSymbols)' = Accumulated(OutputSymbols) \o OutputSymbols(t)
    BY <1>8, <1>9, <1>10, <1>11
<1>13. /\ IsSequence(Accumulated(InputSymbols)') /\ IsSequence(Accumulated(OutputSymbols)')
    BY <1>2, <1>6, <1>12, ConcatenatedSequence
<1>14. Accumulated(InputSymbols)' \o public_input' = Accumulated(InputSymbols) \o public_input
    <2>1. PICK a, b, c : a = Accumulated(InputSymbols) /\ b = InputSymbols(t)
                         /\ c = public_input'
        OBVIOUS
    <2>2. IsSequence(a) /\ IsSequence(b) /\ IsSequence(c)
        BY <1>2, <1>6, <2>1, SeqIsSequence DEF VMTypeOK
    <2>3. (a \o b) \o c = a \o (b \o c)
        BY ONLY <2>2, ConcatenatedTwice
    <2> QED BY <1>6, <1>12, <2>1, <2>3
<1>15. IoArgumentsBalance'
    BY <1>2, <1>6, <1>12, <1>14 DEF IoArgumentsBalance
<1>16. IsSequence(Accumulated(InputSymbols))' /\ IsSequence(Accumulated(OutputSymbols))'
    BY <1>13 DEF IsSequence
<1> QED BY <1>4, <1>15, <1>16 DEF IoInv

(***************************************************************************)
(* The symbols the running evaluations of the processor absorb are the     *)
(* ones the machine has consumed and produced, in order: what is left of   *)
(* the public input is the rest of it, and the public output is what the   *)
(* rows of the write_io instructions show on the stack.                    *)
(***************************************************************************)
THEOREM IoArguments == TraceSpec => []IoArgumentsBalance
<1>1. TraceInit => IoInv
    <2> SUFFICES ASSUME TraceInit PROVE IoInv
        OBVIOUS
    <2>1. Init /\ processor_trace = <<>>
        BY DEF TraceInit
    <2>2. VMTypeOK
        BY <2>1, InitTypes
    <2>3. IsSequence(processor_trace) /\ Len(processor_trace) = 0
        BY <2>1, EmptySequence
    <2>4. Accumulated(InputSymbols) = <<>> /\ Accumulated(OutputSymbols) = <<>>
        BY <2>1, <2>3 DEF Accumulated, Transitions, S!FlattenSeq
    <2>5. public_input \in PublicInputs /\ public_output = <<>>
        BY <2>1 DEF Init
    <2>6. IoArgumentsBalance
        BY <2>2, <2>4, <2>5, IoTypes, EmptyConcatenated DEF IoArgumentsBalance
    <2> QED BY <2>2, <2>3, <2>4, <2>6, EmptySequence DEF IoInv
<1>2. IoInv /\ [TraceNext]_traceVars => IoInv'
    <2> SUFFICES ASSUME IoInv, [TraceNext]_traceVars PROVE IoInv'
        OBVIOUS
    <2>1. CASE UNCHANGED traceVars
        <3>1. Transitions' = Transitions
            BY <2>1, UnchangedRow
        <3>2. /\ Accumulated(InputSymbols)' = Accumulated(InputSymbols)
              /\ Accumulated(OutputSymbols)' = Accumulated(OutputSymbols)
            BY <3>1 DEF Accumulated
        <3>3. UNCHANGED <<vmVars, processor_trace>>
            BY <2>1 DEF traceVars, aet
        <3>4. VMTypeOK'
            BY <3>3 DEF IoInv, VMTypeOK, vmVars
        <3>5. UNCHANGED <<error, public_input, public_output, processor_trace>>
            BY <3>3 DEF vmVars
        <3> QED BY <3>2, <3>4, <3>5 DEF IoInv, IoArgumentsBalance, Succeeds, IsSequence
    <2>2. CASE TraceNext
        <3>1. VMTypeOK'
            BY <2>2, NextTypes DEF IoInv, TraceNext, VMNext, StepIsTyped
        <3>2. CASE error' = NoError
            BY <2>2, <3>1, <3>2, IoStepBalances
        <3>3. CASE error' # NoError
            BY <3>1, <3>3 DEF IoInv, Succeeds
        <3> QED BY <3>2, <3>3
    <2> QED BY <2>1, <2>2
<1>3. IoInv => IoArgumentsBalance
    BY DEF IoInv, IoArgumentsBalance, Succeeds
<1> QED BY <1>1, <1>2, <1>3, PTL DEF TraceSpec
================================================================================
