---------------------------- MODULE Memory_proofs ----------------------------
(***************************************************************************)
(* What the machine remembers, for every program, every input, every       *)
(* number of registers and every padded height.  The machine's RAM is a    *)
(* logged memory, its RAM trace is therefore coherent, and so are the      *)
(* accesses of underflow memory and the visits of the jump stack; sorting  *)
(* and padding them yields tables that satisfy their constraints, and the  *)
(* rows of the processor table remain the rows of the jump stack table.    *)
(***************************************************************************)
EXTENDS MemoryAir, Arguments_proofs
LOCAL S == INSTANCE SequencesExt

Logged == INSTANCE LoggedMemory_proofs WITH
    Address <- Field, Value <- Field, contents <- ram, log <- ram_trace

------------------------------------------------------------------------------
(* What a step does to RAM and which calls it returns. *)

RamWritten(pointers, values) ==
    [k \in DOMAIN pointers |->
        [clk |-> cycle_count, ram_pointer |-> pointers[k],
         ram_value |-> values[k], is_write |-> TRUE]]

\* no access, by a step that fails or by one that completes
LeavesRam == ram_calls' = <<>> /\ ram' = ram /\ cycle_count' \in {cycle_count, cycle_count + 1}
ReadsRam(pointers) ==
    /\ ram_calls' = RamRead(pointers)
    /\ ram' = ram
    /\ cycle_count' = cycle_count + 1
WritesRam(n, pointers, values) ==
    /\ \A j, k \in 1 .. n : pointers[j] = pointers[k] => j = k
    /\ ram_calls' = RamWritten(pointers, values)
    /\ ram' = Written(pointers, values)
    /\ cycle_count' = cycle_count + 1

RamIsAccessed ==
    \/ LeavesRam
    \/ \E n \in Nat \ {0} : \E pointers \in [1 .. n -> Field] : ReadsRam(pointers)
    \/ \E n \in Nat \ {0} : \E pointers \in [1 .. n -> Field] :
           \E values \in [1 .. n -> Field] : WritesRam(n, pointers, values)

\* Consecutive addresses differ, also across the end of memory.
LEMMA AddressesDiffer ==
    ASSUME NEW p \in Field, NEW n \in Nat, n < P, NEW j \in 1 .. n, NEW k \in 1 .. n,
           Addresses(p, 1, n)[j] = Addresses(p, 1, n)[k]
    PROVE  j = k
<1>1. P \in Nat \ {0} /\ p \in 0 .. (P - 1)
    BY FieldFacts DEF Field
<1>2. (p + 1 * (j - 1)) % P = (p + 1 * (k - 1)) % P
    BY DEF Addresses
<1>3. \A m \in 1 .. n : 1 * (m - 1) = m - 1
    OBVIOUS
<1>4. ASSUME NEW x \in 0 .. (2 * P - 1)
      PROVE  x % P = IF x < P THEN x ELSE x - P
    BY <1>1
<1> DEFINE x == p + (j - 1)
           y == p + (k - 1)
<1>5. x \in 0 .. (2 * P - 1) /\ y \in 0 .. (2 * P - 1)
    BY <1>1
<1>6. x % P = y % P
    BY <1>2, <1>3
<1>7. x = y => j = k
    BY <1>1
<1>8. x - y < P /\ y - x < P
    BY <1>1
<1> HIDE DEF x, y
<1>9. (x % P = IF x < P THEN x ELSE x - P) /\ (y % P = IF y < P THEN y ELSE y - P)
    BY <1>4, <1>5
<1>10. x = y
    BY <1>1, <1>5, <1>6, <1>8, <1>9
<1> QED
    BY <1>7, <1>10

\* The registers that hold pointers, and how many accesses there are.
LEMMA PointerFacts ==
    ASSUME VMTypeOK
    PROVE  /\ St(0) \in Field /\ St(0) \in Int
           /\ St(1) \in Field /\ St(1) \in Int
           /\ St(DigestLen + 2) \in Field /\ St(DigestLen + 2) \in Int
           /\ Rate \in Nat \ {0} /\ DigestLen \in Nat \ {0}
           /\ ExtensionDegree \in Nat \ {0} /\ 2 * ExtensionDegree \in Nat \ {0}
           /\ \A n \in 1 .. MaxNumWords :
                  n \in Nat \ {0} /\ n < P /\ 1 + n <= Len(op_stack)
<1>1. Rate \in Nat \ {0} /\ ExtensionDegree \in Nat \ {0} /\ DigestLen \in Nat \ {0}
    BY DepthFacts, SizeAssumption
<1>2. 0 \in 0 .. (NumRegisters - 1) /\ 1 \in 0 .. (NumRegisters - 1)
      /\ DigestLen + 2 \in 0 .. (NumRegisters - 1)
    BY <1>1, RegisterAssumption
<1>3. /\ St(0) \in Field /\ St(1) \in Field /\ St(DigestLen + 2) \in Field
      /\ \A a \in Field : a \in Int
    BY <1>2, DepthFacts, FieldFacts
<1>4. NumRegisters < P /\ P \in Nat /\ NumRegisters \in Nat
      /\ MaxNumWords \in 1 .. (NumRegisters - 1)
    BY RegisterAssumption, FieldFacts
<1>5. Len(op_stack) \in Nat /\ NumRegisters <= Len(op_stack)
    BY DepthFacts
<1>6. 2 * ExtensionDegree \in Nat \ {0}
    BY <1>1
<1>7. \A n \in 1 .. MaxNumWords : n \in Nat \ {0} /\ n < P /\ 1 + n <= Len(op_stack)
    BY <1>4, <1>5
<1> QED
    BY <1>1, <1>3, <1>6, <1>7

\* The instructions that access memory.
LEMMA ReadMemAccesses ==
    ASSUME VMTypeOK, ReadMem
    PROVE  RamIsAccessed
<1> DEFINE pointers == Addresses(St(0), -1, Arg)
<1>1. Arg \in 1 .. MaxNumWords
    BY InstructionTypes DEF ReadMem, Executes, NumWordsOps
<1>2. Arg \in Nat \ {0} /\ St(0) \in Int
    BY <1>1, PointerFacts
<1>3. pointers \in [1 .. Arg -> Field]
    BY <1>2, AddressTypes
<1>4. ReadsRam(pointers)
    BY DEF ReadMem, Completes, ReadsRam
<1> HIDE DEF pointers
<1> QED
    BY <1>2, <1>3, <1>4 DEF RamIsAccessed

\* write_mem writes the addresses it reports.
LEMMA WriteMemAccesses ==
    ASSUME VMTypeOK, WriteMem
    PROVE  RamIsAccessed
<1> DEFINE pointers == Addresses(St(0), 1, Arg)
           values == Tops(1, Arg)
<1>1. /\ Arg \in 1 .. MaxNumWords
      /\ OpStackSizeInfluence(CurrentInstruction) = -Arg
    BY InstructionTypes, Influences DEF WriteMem, Executes, NumWordsOps, Arg
<1>2. /\ Arg \in Nat \ {0} /\ Arg < P /\ 1 + Arg <= Len(op_stack)
      /\ St(0) \in Field /\ St(0) \in Int
    BY <1>1, PointerFacts
<1>3. pointers \in [1 .. Arg -> Field]
    BY <1>2, AddressTypes
<1>4. values \in [1 .. Arg -> Field]
    BY <1>2, StackAccess
<1>5. \A j, k \in 1 .. Arg : pointers[j] = pointers[k] => j = k
    BY <1>2, AddressesDiffer
<1>6. /\ ram_calls' = [k \in 1 .. Arg |->
             [clk |-> cycle_count, ram_pointer |-> pointers[k],
              ram_value |-> values[k], is_write |-> TRUE]]
      /\ ram' = Written(pointers, values)
      /\ cycle_count' = cycle_count + 1
    BY DEF WriteMem, Completes
<1> HIDE DEF pointers, values
<1>7. WritesRam(Arg, pointers, values)
    BY <1>3, <1>5, <1>6 DEF WritesRam, RamWritten
<1> QED
    BY <1>2, <1>3, <1>4, <1>7 DEF RamIsAccessed

\* sponge_absorb_mem reads the addresses it reports.
LEMMA SpongeAbsorbMemAccesses ==
    ASSUME VMTypeOK, SpongeAbsorbMem
    PROVE  RamIsAccessed
<1> DEFINE pointers == Addresses(St(0), 1, Rate)
<1>1. CASE \E err : Fails(err)
    BY <1>1 DEF Fails, vmState, memory, RamIsAccessed, LeavesRam
<1>2. CASE ~ \E err : Fails(err)
    <2>1. Rate \in Nat \ {0} /\ St(0) \in Int
        BY PointerFacts
    <2>2. pointers \in [1 .. Rate -> Field]
        BY <2>1, AddressTypes
    <2>3. ReadsRam(pointers)
        BY <1>2 DEF SpongeAbsorbMem, Completes, ReadsRam
    <2> HIDE DEF pointers
    <2> QED
        BY <2>1, <2>2, <2>3 DEF RamIsAccessed
<1> QED
    BY <1>1, <1>2

\* merkle_step_mem reads the sibling digest it reports.
LEMMA MerkleStepMemAccesses ==
    ASSUME VMTypeOK, MerkleStepMem
    PROVE  RamIsAccessed
<1> DEFINE pointers == Addresses(St(DigestLen + 2), 1, DigestLen)
<1>1. CASE \E err : Fails(err)
    BY <1>1 DEF Fails, vmState, memory, RamIsAccessed, LeavesRam
<1>2. CASE ~ \E err : Fails(err)
    <2>1. DigestLen \in Nat \ {0}
        BY PointerFacts
    <2>2. St(DigestLen + 2) \in Int
        BY PointerFacts
    <2>3. pointers \in [1 .. DigestLen -> Field]
        BY <2>1, <2>2, AddressTypes
    <2>4. ReadsRam(pointers)
        BY <1>2 DEF MerkleStepMem, MerkleStepTo, Completes, ReadsRam
    <2> HIDE DEF pointers
    <2> QED
        BY <2>1, <2>3, <2>4 DEF RamIsAccessed
<1> QED
    BY <1>1, <1>2

\* The dot steps differ in their pointers only.
LEMMA DotStepAccesses ==
    ASSUME NEW n \in Nat \ {0}, NEW pointers \in [1 .. n -> Field],
           NEW rhs_address, NEW lhs_address, NEW product,
           DotStep(pointers, rhs_address, lhs_address, product)
    PROVE  RamIsAccessed
<1>1. ReadsRam(pointers)
    BY DEF DotStep, Completes, ReadsRam
<1> QED
    BY <1>1 DEF RamIsAccessed

\* xx_dot_step reads two extension field elements.
LEMMA XxDotStepAccesses ==
    ASSUME VMTypeOK, XxDotStep
    PROVE  RamIsAccessed
<1> DEFINE rhs == Addresses(St(0), 1, ExtensionDegree)
           lhs == Addresses(St(1), 1, ExtensionDegree)
           pointers == [k \in 1 .. 2 * ExtensionDegree |->
                           IF k % 2 = 1 THEN rhs[(k + 1) \div 2] ELSE lhs[k \div 2]]
<1>1. /\ ExtensionDegree \in Nat \ {0} /\ 2 * ExtensionDegree \in Nat \ {0}
      /\ St(0) \in Int /\ St(1) \in Int
    BY PointerFacts
<1>2. rhs \in [1 .. ExtensionDegree -> Field] /\ lhs \in [1 .. ExtensionDegree -> Field]
    BY <1>1, AddressTypes
<1>3. DotStep(pointers, Plus(St(0), ExtensionDegree), Plus(St(1), ExtensionDegree),
              XMul(Contents(rhs), Contents(lhs)))
    BY DEF XxDotStep
<1> HIDE DEF rhs, lhs
<1>4. pointers \in [1 .. 2 * ExtensionDegree -> Field]
    <2>1. ASSUME NEW k \in 1 .. 2 * ExtensionDegree
          PROVE  /\ k % 2 = 1 => (k + 1) \div 2 \in 1 .. ExtensionDegree
                 /\ k % 2 # 1 => k \div 2 \in 1 .. ExtensionDegree
        BY <1>1
    <2> QED
        BY <1>2, <2>1
<1> HIDE DEF pointers
<1> QED
    BY <1>1, <1>3, <1>4, DotStepAccesses

\* xb_dot_step reads a base and an extension field element.
LEMMA XbDotStepAccesses ==
    ASSUME VMTypeOK, XbDotStep
    PROVE  RamIsAccessed
<1> DEFINE lhs == Addresses(St(1), 1, ExtensionDegree)
           pointers == <<St(0)>> \o lhs
<1>1. /\ ExtensionDegree \in Nat \ {0} /\ ExtensionDegree + 1 \in Nat \ {0}
      /\ St(0) \in Field /\ St(1) \in Int
    BY PointerFacts
<1>2. lhs \in Seq(Field) /\ Len(lhs) = ExtensionDegree
    BY <1>1, AddressTypes, FunctionIsSequence
<1>3. DotStep(pointers, Plus(St(0), 1), Plus(St(1), ExtensionDegree),
              XMul(Lift(ram[St(0)]), Contents(lhs)))
    BY DEF XbDotStep
<1> HIDE DEF lhs
<1>4. <<St(0)>> \in Seq(Field) /\ Len(<<St(0)>>) = 1
    BY <1>1
<1>5. pointers \in Seq(Field) /\ Len(pointers) = ExtensionDegree + 1
    BY <1>1, <1>2, <1>4, ConcatProperties
<1> HIDE DEF pointers
<1>6. pointers \in [1 .. (ExtensionDegree + 1) -> Field]
    BY <1>5, LenProperties
<1> QED
    BY <1>1, <1>3, <1>6, DotStepAccesses

(***************************************************************************)
(* Every step leaves RAM alone and reports nothing, or reports what it     *)
(* reads, or what it writes.                                               *)
(***************************************************************************)
LEMMA StepAccessesRam ==
    ASSUME VMTypeOK, Step
    PROVE  RamIsAccessed
<1> USE DEF NoCalls, NoRamCalls, OnStackOnly, Completes
<1>1. CASE \E err : Fails(err)
    BY <1>1 DEF Fails, vmState, memory, RamIsAccessed, LeavesRam
<1>2. CASE StackInstruction
    BY <1>1, <1>2 DEF StackInstruction, Pop, Push, Divine, Pick, Place, Dup, Swap,
                      RamIsAccessed, LeavesRam
<1>3. CASE ControlInstruction
    BY <1>1, <1>3 DEF ControlInstruction, Nop, Skiz, Call, Return, Recurse, RecurseOrReturn,
                AssertInstruction, Halt, RamIsAccessed, LeavesRam
<1>4. CASE MemoryInstruction
    BY <1>4, ReadMemAccesses, WriteMemAccesses DEF MemoryInstruction
<1>5. CASE HashInstruction /\ ~SpongeAbsorbMem
    BY <1>1, <1>5 DEF HashInstruction, Hash, SpongeInit, SpongeAbsorb, SpongeSqueeze,
                AssertVector, RamIsAccessed, LeavesRam
<1>6. CASE FieldInstruction
    BY <1>1, <1>6 DEF FieldInstruction, Add, AddI, Mul, Invert, Eq, RamIsAccessed, LeavesRam
<1>7. CASE U32Instruction
    BY <1>1, <1>7 DEF U32Instruction, Split, Lt, And, Xor, Log2Floor, Pow, DivMod, PopCount,
                WithU32Calls, RamIsAccessed, LeavesRam
<1>8. CASE ExtensionInstruction
    BY <1>1, <1>8 DEF ExtensionInstruction, XxAdd, XxMul, XInvert, XbMul, RamIsAccessed, LeavesRam
<1>9. CASE IoInstruction
    BY <1>1, <1>9 DEF IoInstruction, WriteIo, ReadIo, RamIsAccessed, LeavesRam
<1>10. CASE MerkleStep
    BY <1>1, <1>10 DEF MerkleStep, MerkleStepTo, RamIsAccessed, LeavesRam
<1>11. CASE InstructionPointerOverflow \/ TooShallow
    BY <1>1, <1>11 DEF InstructionPointerOverflow, TooShallow
<1> QED
    BY <1>2, <1>3, <1>4, <1>5, <1>6, <1>7, <1>8, <1>9, <1>10, <1>11,
       SpongeAbsorbMemAccesses, MerkleStepMemAccesses, XxDotStepAccesses, XbDotStepAccesses
       DEF Step, ManyInOneInstruction
------------------------------------------------------------------------------
(* What the trace adds. *)

(***************************************************************************)
(* Nothing in the trace is younger than the last completed step, so that   *)
(* the batch of the next one is behind it.                                 *)
(***************************************************************************)
RamTraceInv ==
    /\ ram_trace \in Seq(RamTableCall)
    /\ \A i \in 1 .. Len(ram_trace) : ram_trace[i].clk < cycle_count

TraceInv == VMTypeOK /\ RamTraceInv

\* The RAM trace behind a step: its old entries, then the returned calls.
LEMMA TraceGrows ==
    ASSUME RamTraceInv, NEW b \in Seq(RamTableCall), ram_trace' = ram_trace \o b
    PROVE  /\ ram_trace' \in Seq(RamTableCall)
           /\ Len(ram_trace) \in Nat /\ Len(b) \in Nat /\ DOMAIN b = 1 .. Len(b)
           /\ \A i \in 1 .. Len(ram_trace') :
                  \/ i \in 1 .. Len(ram_trace) /\ ram_trace'[i] = ram_trace[i]
                  \/ \E k \in 1 .. Len(b) : ram_trace'[i] = b[k]
           /\ SubSeq(ram_trace', Len(ram_trace) + 1, Len(ram_trace')) = b
<1>1. ram_trace \in Seq(RamTableCall) /\ Len(ram_trace) \in Nat /\ Len(b) \in Nat
      /\ DOMAIN b = 1 .. Len(b)
    BY LenProperties DEF RamTraceInv
<1>2. /\ ram_trace' \in Seq(RamTableCall)
      /\ Len(ram_trace') = Len(ram_trace) + Len(b)
      /\ \A i \in 1 .. Len(ram_trace) + Len(b) :
             ram_trace'[i] = IF i <= Len(ram_trace) THEN ram_trace[i]
                             ELSE b[i - Len(ram_trace)]
    BY <1>1, ConcatProperties
<1>3. ASSUME NEW i \in 1 .. Len(ram_trace')
      PROVE  \/ i \in 1 .. Len(ram_trace) /\ ram_trace'[i] = ram_trace[i]
             \/ \E k \in 1 .. Len(b) : ram_trace'[i] = b[k]
    <2>1. CASE i <= Len(ram_trace)
        BY <1>1, <1>2, <2>1
    <2>2. CASE i > Len(ram_trace)
        <3>1. i - Len(ram_trace) \in 1 .. Len(b) /\ ram_trace'[i] = b[i - Len(ram_trace)]
            BY <1>1, <1>2, <2>2
        <3> QED
            BY <3>1
    <2> QED
        BY <1>1, <1>2, <2>1, <2>2
<1>4. SubSeq(ram_trace', Len(ram_trace) + 1, Len(ram_trace')) = b
    <2> DEFINE t == SubSeq(ram_trace', Len(ram_trace) + 1, Len(ram_trace'))
               m == Len(ram_trace) + 1
               n == Len(ram_trace')
    <2>1. m \in Int /\ n \in Int /\ \A i \in m .. n : ram_trace'[i] \in RamTableCall
        BY <1>1, <1>2, ElementOfSeq
    <2>2. n - m + 1 = Len(b) /\ (m <= n <=> Len(b) # 0)
        BY <1>1, <1>2
    <2>3. /\ t \in Seq(RamTableCall)
          /\ Len(t) = IF m <= n THEN n - m + 1 ELSE 0
          /\ \A i \in 1 .. n - m + 1 : t[i] = ram_trace'[m + i - 1]
        <3> HIDE DEF m, n
        <3> QED
            BY <2>1, SubSeqProperties DEF m, n
    <2> HIDE DEF t
    <2>4. Len(t) = Len(b) /\ \A i \in 1 .. Len(b) : t[i] = b[i]
        <3>1. Len(t) = Len(b)
            BY <1>1, <2>2, <2>3
        <3>2. ASSUME NEW i \in 1 .. Len(b)
              PROVE  t[i] = b[i]
            <4>1. t[i] = ram_trace'[Len(ram_trace) + i]
                <5>1. i \in 1 .. n - m + 1 /\ m + i - 1 = Len(ram_trace) + i
                    BY <1>1, <2>2
                <5> HIDE DEF m, n
                <5> QED
                    BY <2>3, <5>1
            <4>2. Len(ram_trace) + i \in 1 .. Len(ram_trace) + Len(b)
                  /\ ~(Len(ram_trace) + i <= Len(ram_trace))
                  /\ (Len(ram_trace) + i) - Len(ram_trace) = i
                BY <1>1
            <4> QED
                BY <1>2, <4>1, <4>2
        <3> QED
            BY <3>1, <3>2
    <2>5. t = b
        BY <1>1, <2>3, <2>4, SeqEqual
    <2> QED
        BY <2>5 DEF t
<1> QED
    BY <1>1, <1>2, <1>3, <1>4

\* Types and clocks of the trace are inductive, with the machine's types.
LEMMA TraceNextKeepsInv ==
    ASSUME TraceInv, TraceNext
    PROVE  TraceInv'
<1>1. VMTypeOK /\ RamTraceInv /\ Step /\ ram_trace' = ram_trace \o ram_calls'
    BY DEF TraceInv, TraceNext, RecordCoProcessorCalls
<1>2. VMTypeOK'
    BY <1>1, NextTypes DEF VMNext, StepIsTyped
<1>3. RamIsAccessed /\ ram_calls' \in Seq(RamTableCall) /\ cycle_count \in Nat
    BY <1>1, <1>2, StepAccessesRam, InputAssumption DEF VMTypeOK
<1>4. /\ ram_trace' \in Seq(RamTableCall)
      /\ DOMAIN ram_calls' = 1 .. Len(ram_calls')
      /\ \A i \in 1 .. Len(ram_trace') :
             \/ i \in 1 .. Len(ram_trace) /\ ram_trace'[i] = ram_trace[i]
             \/ \E k \in 1 .. Len(ram_calls') : ram_trace'[i] = ram_calls'[k]
    BY <1>1, <1>3, TraceGrows
<1>5. \A k \in DOMAIN ram_calls' :
          ram_calls'[k].clk = cycle_count /\ cycle_count' = cycle_count + 1
    BY <1>3 DEF RamIsAccessed, LeavesRam, ReadsRam, WritesRam, RamRead, RamWritten
<1>6. cycle_count' \in {cycle_count, cycle_count + 1}
    BY <1>3 DEF RamIsAccessed, LeavesRam, ReadsRam, WritesRam
<1>7. \A i \in 1 .. Len(ram_trace) : ram_trace[i].clk \in Nat /\ ram_trace[i].clk < cycle_count
    <2> SUFFICES ASSUME NEW i \in 1 .. Len(ram_trace)
                 PROVE  ram_trace[i].clk \in Nat /\ ram_trace[i].clk < cycle_count
        OBVIOUS
    <2>1. ram_trace[i] \in RamTableCall
        BY <1>1, ElementOfSeq DEF RamTraceInv
    <2> QED
        BY <1>1, <2>1 DEF RamTraceInv, RamTableCall
<1>8. ASSUME NEW i \in 1 .. Len(ram_trace')
      PROVE  ram_trace'[i].clk < cycle_count'
    <2>1. CASE i \in 1 .. Len(ram_trace) /\ ram_trace'[i] = ram_trace[i]
        BY <1>3, <1>6, <1>7, <2>1
    <2>2. CASE \E k \in 1 .. Len(ram_calls') : ram_trace'[i] = ram_calls'[k]
        BY <1>3, <1>4, <1>5, <2>2
    <2> QED
        BY <1>4, <2>1, <2>2
<1> QED
    BY <1>2, <1>4, <1>8 DEF TraceInv, RamTraceInv

\* A step without memory access stutters; the others log what they return.
LEMMA TraceNextLogs ==
    ASSUME TraceInv, TraceNext
    PROVE  [Logged!LogNext]_<<ram, ram_trace>>
<1> DEFINE b == ram_calls'
<1>1. VMTypeOK /\ RamTraceInv /\ Step /\ ram_trace' = ram_trace \o b
    BY DEF TraceInv, TraceNext, RecordCoProcessorCalls
<1>2. VMTypeOK'
    BY <1>1, NextTypes DEF VMNext, StepIsTyped
<1>3. RamIsAccessed /\ b \in Seq(RamTableCall)
    BY <1>1, <1>2, StepAccessesRam DEF VMTypeOK
<1>4. DOMAIN b = 1 .. Len(b) /\ Logged!Batch = b
    BY <1>1, <1>3, TraceGrows DEF Logged!Batch
<1>5. Logged!Access = RamTableCall
    BY DEF Logged!Access, RamTableCall
<1>6. ram_trace # <<>> => ram_trace[Len(ram_trace)].clk < cycle_count
    BY <1>1, EmptySeq DEF RamTraceInv
<1>7. ASSUME b # <<>>, \A k \in DOMAIN b : b[k].clk = cycle_count
      PROVE  Logged!LogsBatch
    <2>1. 1 \in DOMAIN b
        BY <1>3, <1>4, <1>7, EmptySeq
    <2>2. b[1].clk = cycle_count
        BY <1>7, <2>1
    <2> QED
        BY <1>1, <1>3, <1>4, <1>5, <1>6, <1>7, <2>2 DEF Logged!LogsBatch
<1>8. CASE LeavesRam
    <2>1. ram' = ram /\ b = <<>>
        BY <1>8 DEF LeavesRam
    <2>2. ram_trace' = ram_trace
        BY <1>1, <2>1, ConcatEmptySeq DEF RamTraceInv
    <2> QED
        BY <2>1, <2>2
<1>9. ASSUME NEW n \in Nat \ {0}, NEW pointers \in [1 .. n -> Field], ReadsRam(pointers)
      PROVE  Logged!Reads
    <2>1. /\ DOMAIN b = 1 .. n /\ ram' = ram
          /\ \A k \in 1 .. n : /\ b[k].clk = cycle_count
                              /\ b[k].is_write = FALSE
                              /\ b[k].ram_value = ram[b[k].ram_pointer]
        BY <1>9 DEF ReadsRam, RamRead
    <2>2. b # <<>>
        BY <1>4, <2>1
    <2> HIDE DEF b
    <2> QED
        BY <1>4, <1>7, <2>1, <2>2 DEF Logged!Reads
<1>10. ASSUME NEW n \in Nat \ {0}, NEW pointers \in [1 .. n -> Field],
              NEW values \in [1 .. n -> Field], WritesRam(n, pointers, values)
       PROVE  Logged!Writes
    <2>1. /\ DOMAIN b = 1 .. n /\ ram' = Written(pointers, values)
          /\ \A k \in 1 .. n : /\ b[k].clk = cycle_count
                              /\ b[k].is_write = TRUE
                              /\ b[k].ram_pointer = pointers[k]
                              /\ b[k].ram_value = values[k]
          /\ \A j, k \in 1 .. n : pointers[j] = pointers[k] => j = k
        BY <1>10 DEF WritesRam, RamWritten
    <2>2. b # <<>>
        BY <1>4, <2>1
    <2> HIDE DEF b
    <2>3. ASSUME NEW a \in Field
          PROVE  (IF \E k \in DOMAIN pointers : pointers[k] = a
                  THEN values[CHOOSE k \in DOMAIN pointers : pointers[k] = a]
                  ELSE ram[a])
                 = (IF \E k \in DOMAIN b : b[k].ram_pointer = a
                    THEN b[CHOOSE k \in DOMAIN b : b[k].ram_pointer = a].ram_value
                    ELSE ram[a])
        <3>1. CASE \E k \in DOMAIN b : b[k].ram_pointer = a
            <4>1. PICK k \in 1 .. n : b[k].ram_pointer = a
                BY <2>1, <3>1
            <4>2. pointers[k] = a /\ DOMAIN pointers = 1 .. n
                BY <2>1, <4>1
            <4> DEFINE written == CHOOSE l \in DOMAIN pointers : pointers[l] = a
                       logged == CHOOSE l \in DOMAIN b : b[l].ram_pointer = a
            <4>3. written \in 1 .. n /\ pointers[written] = a
                BY <4>2
            <4>4. logged \in 1 .. n /\ b[logged].ram_pointer = a
                BY <2>1, <3>1
            <4> HIDE DEF written, logged
            <4>5. written = k /\ logged = k
                BY <2>1, <4>1, <4>2, <4>3, <4>4
            <4>6. values[written] = b[logged].ram_value
                BY <2>1, <4>1, <4>5
            <4> QED
                BY <3>1, <4>2, <4>6 DEF written, logged
        <3>2. CASE ~ \E k \in DOMAIN b : b[k].ram_pointer = a
            BY <2>1, <3>2
        <3> QED
            BY <3>1, <3>2
    <2>4. ram' = [a \in Field |->
                     IF \E k \in DOMAIN b : b[k].ram_pointer = a
                     THEN b[CHOOSE k \in DOMAIN b : b[k].ram_pointer = a].ram_value
                     ELSE ram[a]]
        BY <2>1, <2>3 DEF Written
    <2>5. Logged!LogsBatch
        BY <1>7, <2>1, <2>2
    <2>6. \A j, k \in DOMAIN b : b[j].ram_pointer = b[k].ram_pointer => j = k
        BY <2>1
    <2> QED
        BY <1>4, <2>1, <2>4, <2>5, <2>6 DEF Logged!Writes
<1> QED
    BY <1>3, <1>8, <1>9, <1>10 DEF RamIsAccessed, Logged!LogNext

\* A trace begins empty, on any RAM.
LEMMA InitLogs == TraceInit => TraceInv /\ Logged!LogInit
<1> SUFFICES ASSUME TraceInit PROVE TraceInv /\ Logged!LogInit
    OBVIOUS
<1>1. VMTypeOK /\ ram_trace = <<>>
    BY InitTypes DEF TraceInit
<1>2. ram \in [Field -> Field]
    BY <1>1 DEF VMTypeOK, Ram
<1> QED
    BY <1>1, <1>2 DEF TraceInv, RamTraceInv, Logged!LogInit

(***************************************************************************)
(* Every iteration of trace_execution_of_state is a step of the logged     *)
(* memory or leaves memory and trace alone: what instructions do to RAM    *)
(* and what they report to the RAM table, written apart in every one of    *)
(* them, agree.                                                            *)
(***************************************************************************)
THEOREM RamRefinesLoggedMemory == TraceSpec => RamIsLoggedMemory
<1>1. TraceInv /\ [TraceNext]_traceVars => TraceInv'
    <2>1. CASE UNCHANGED traceVars
        BY <2>1 DEF traceVars, vmVars, aet, TraceInv, RamTraceInv, VMTypeOK
    <2> QED
        BY <2>1, TraceNextKeepsInv
<1>2. TraceInv /\ [TraceNext]_traceVars => [Logged!LogNext]_<<ram, ram_trace>>
    <2>1. CASE UNCHANGED traceVars
        BY <2>1 DEF traceVars, vmVars, aet
    <2> QED
        BY <2>1, TraceNextLogs
<1>3. TraceInit => Memory!LogInit
    BY InitLogs DEF Memory!LogInit, Logged!LogInit
<1>4. [Logged!LogNext]_<<ram, ram_trace>> => [Memory!LogNext]_(Memory!logVars)
    BY DEF Logged!LogNext, Logged!Reads, Logged!Writes, Logged!LogsBatch, Logged!Batch,
           Logged!Access, Memory!LogNext, Memory!Reads, Memory!Writes, Memory!LogsBatch,
           Memory!Batch, Memory!Access, Memory!logVars
<1> QED
    BY <1>1, <1>2, <1>3, <1>4, InitLogs, PTL DEF TraceSpec, RamIsLoggedMemory, Memory!LogSpec

(***************************************************************************)
(* What a program reads is what was last accessed at the address, over the *)
(* whole trace: the promise of a logged memory.  It is what the RAM        *)
(* table's contiguity argument and value constraints testify to.           *)
(***************************************************************************)
THEOREM RamCoherence == TraceSpec => []RamTraceIsCoherent
<1>1. RamIsLoggedMemory => Logged!LogSpec
    <2>1. Memory!LogInit => Logged!LogInit
        BY DEF Memory!LogInit, Logged!LogInit
    <2>2. [Memory!LogNext]_(Memory!logVars) => [Logged!LogNext]_(Logged!logVars)
        BY DEF Logged!LogNext, Logged!Reads, Logged!Writes, Logged!LogsBatch, Logged!Batch,
               Logged!Access, Logged!logVars, Memory!LogNext, Memory!Reads, Memory!Writes,
               Memory!LogsBatch, Memory!Batch, Memory!Access, Memory!logVars
    <2> QED
        BY <2>1, <2>2, PTL DEF RamIsLoggedMemory, Memory!LogSpec, Logged!LogSpec
<1>2. Logged!LogSpec => []Logged!LogIsCoherent
    BY Logged!Coherence
<1>3. Logged!LogIsCoherent => RamTraceIsCoherent
    BY DEF Logged!LogIsCoherent, RamTraceIsCoherent, Memory!LogIsCoherent
<1> QED
    BY <1>1, <1>2, <1>3, RamRefinesLoggedMemory, PTL
------------------------------------------------------------------------------
(* Sorted tables. *)

\* Sets ordered by strict inclusion, one for every element.
Chain(n, up_to) ==
    /\ \A i \in 1 .. n : up_to[i] \subseteq 1 .. n /\ i \in up_to[i]
    /\ \A i, j \in 1 .. n : i # j =>
           \/ up_to[i] \subseteq up_to[j] /\ j \notin up_to[i]
           \/ up_to[j] \subseteq up_to[i] /\ i \notin up_to[j]

\* In a chain, every number of elements occurs once.
LEMMA ChainPlaces ==
    ASSUME NEW n \in Nat, NEW up_to, Chain(n, up_to)
    PROVE  \E order : /\ Permutes1To(order, n)
                      /\ \A k \in 1 .. n : Cardinality(up_to[order[k]]) = k
                      /\ \A i \in 1 .. n : order[Cardinality(up_to[i])] = i
                      /\ \A i \in 1 .. n : Cardinality(up_to[i]) \in 1 .. n
<1> DEFINE place == [i \in 1 .. n |-> Cardinality(up_to[i])]
<1>1. IsFiniteSet(1 .. n) /\ Cardinality(1 .. n) = n
    BY FS_Interval
<1>2. ASSUME NEW i \in 1 .. n
      PROVE  IsFiniteSet(up_to[i]) /\ Cardinality(up_to[i]) \in 1 .. n
    <2>1. up_to[i] \in SUBSET (1 .. n) /\ i \in up_to[i]
        BY DEF Chain
    <2>2. IsFiniteSet(up_to[i]) /\ Cardinality(up_to[i]) <= n
        BY <1>1, <2>1, FS_Subset
    <2>3. Cardinality(up_to[i]) \in Nat
        BY <2>2, FS_CardinalityType
    <2>4. Cardinality(up_to[i]) # 0
        BY <2>1, <2>2, FS_EmptySet
    <2> QED BY <2>2, <2>3, <2>4
<1>3. ASSUME NEW i \in 1 .. n, NEW j \in 1 .. n, up_to[i] \subseteq up_to[j], j \notin up_to[i]
      PROVE  Cardinality(up_to[i]) # Cardinality(up_to[j])
    <2>1. IsFiniteSet(up_to[j]) /\ up_to[i] \in SUBSET up_to[j] /\ j \in up_to[j]
        BY <1>2, <1>3 DEF Chain
    <2>2. Cardinality(up_to[j]) = Cardinality(up_to[i]) => up_to[j] = up_to[i]
        BY <2>1, FS_Subset
    <2> QED BY <1>3, <2>1, <2>2
<1>4. \A i \in 1 .. n : place[i] = Cardinality(up_to[i]) /\ place[i] \in 1 .. n
    BY <1>2
<1>5. place \in [1 .. n -> 1 .. n]
    BY <1>4
<1>6. \A i, j \in 1 .. n : place[i] = place[j] => i = j
    BY <1>3, <1>4 DEF Chain
<1> HIDE DEF place
<1>7. place \in Injection(1 .. n, 1 .. n)
    BY <1>5, <1>6 DEF Injection, IsInjective
<1>8. place \in Surjection(1 .. n, 1 .. n)
    BY <1>1, <1>7, FS_Injection
<1>9. \A k \in 1 .. n : \E i \in 1 .. n : place[i] = k
    BY <1>8 DEF Surjection
<1> DEFINE order == [k \in 1 .. n |-> CHOOSE i \in 1 .. n : place[i] = k]
<1>10. \A k \in 1 .. n : order[k] \in 1 .. n /\ place[order[k]] = k
    BY <1>9
<1>11. order \in [1 .. n -> 1 .. n]
    BY <1>10
<1> HIDE DEF order
<1>12. \A i \in 1 .. n : order[place[i]] = i
    BY <1>4, <1>6, <1>10
<1>13. Permutes1To(order, n)
    <2>1. \A i, j \in 1 .. n : order[i] = order[j] => i = j
        BY <1>10
    <2>2. \A j \in 1 .. n : \E i \in 1 .. n : order[i] = j
        BY <1>4, <1>12
    <2> QED BY <1>11, <2>1, <2>2 DEF Permutes1To
<1> QED BY <1>4, <1>10, <1>12, <1>13

\* Rows in the order of their places.
RowsByPlace(n, rows, up_to) ==
    [k \in 1 .. n |->
        RowAt(k, {[place |-> Cardinality(up_to[i]), row |-> rows[i]] : i \in 1 .. n})]

\* Rows in the order of their places are the rows in that order.
LEMMA PlacedRows ==
    ASSUME NEW n \in Nat, NEW rows, NEW up_to, NEW order, Permutes1To(order, n),
           \A k \in 1 .. n : Cardinality(up_to[order[k]]) = k,
           \A i \in 1 .. n : order[Cardinality(up_to[i])] = i
    PROVE  RowsByPlace(n, rows, up_to) = [k \in 1 .. n |-> rows[order[k]]]
<1> DEFINE placed == {[place |-> Cardinality(up_to[i]), row |-> rows[i]] : i \in 1 .. n}
<1>1. ASSUME NEW k \in 1 .. n
      PROVE  RowAt(k, placed) = rows[order[k]]
    <2> DEFINE chosen == CHOOSE p \in placed : p.place = k
               q == [place |-> k, row |-> rows[order[k]]]
    <2>1. order[k] \in 1 .. n /\ Cardinality(up_to[order[k]]) = k
        BY DEF Permutes1To
    <2>2. q \in placed /\ q.place = k
        BY <2>1
    <2>3. chosen \in placed /\ chosen.place = k
        BY <2>2
    <2>4. PICK i \in 1 .. n : chosen = [place |-> Cardinality(up_to[i]), row |-> rows[i]]
        BY <2>3
    <2> HIDE DEF chosen, placed
    <2>5. Cardinality(up_to[i]) = k /\ chosen.row = rows[i]
        BY <2>3, <2>4
    <2>6. order[k] = i
        BY <2>5
    <2> QED BY <2>5, <2>6 DEF chosen, RowAt
<1> QED BY <1>1 DEF RowsByPlace

\* Row i's numbers are lower: its major number, or the same and its minor number.
Lower(major, minor, i, j) ==
    major[i] < major[j] \/ (major[i] = major[j] /\ minor[i] < minor[j])

\* A stable sort puts row i before row j.
Earlier(major, minor, i, j) ==
    Lower(major, minor, i, j) \/ (~Lower(major, minor, j, i) /\ i < j)

\* The rows up to row i.
UpToByNumbers(n, major, minor) ==
    [i \in 1 .. n |-> {j \in 1 .. n : \/ Lower(major, minor, j, i)
                                      \/ j <= i /\ ~Lower(major, minor, i, j)}]

AreNumbers(n, numbers) == \A i \in 1 .. n : numbers[i] \in Int

\* Of two rows one comes before the other, and what comes before the one comes before the other.
LEMMA EarlierIsALinearOrder ==
    ASSUME NEW n \in Nat, NEW major, NEW minor, AreNumbers(n, major), AreNumbers(n, minor)
    PROVE  /\ \A i, j \in 1 .. n : i # j =>
                  (Earlier(major, minor, i, j) <=> ~Earlier(major, minor, j, i))
           /\ \A i \in 1 .. n : ~Earlier(major, minor, i, i)
           /\ \A i, j, l \in 1 .. n :
                  Earlier(major, minor, i, j) /\ Earlier(major, minor, j, l)
                      => Earlier(major, minor, i, l)
           /\ \A i, j \in 1 .. n :
                  j \in UpToByNumbers(n, major, minor)[i] <=> j = i \/ Earlier(major, minor, j, i)
<1> DEFINE E(i, j) == Earlier(major, minor, i, j)
<1>1. \A i \in 1 .. n : major[i] \in Int /\ minor[i] \in Int
    BY DEF AreNumbers
<1>2. \A i, j \in 1 .. n : i # j =>
          (Earlier(major, minor, i, j) <=> ~Earlier(major, minor, j, i))
    BY <1>1 DEF Earlier, Lower
<1>3. \A i \in 1 .. n : ~Earlier(major, minor, i, i)
    BY <1>1 DEF Earlier, Lower
<1>4. \A i, j, l \in 1 .. n :
          Earlier(major, minor, i, j) /\ Earlier(major, minor, j, l)
              => Earlier(major, minor, i, l)
    BY <1>1 DEF Earlier, Lower
<1>5. \A i, j \in 1 .. n :
          j \in UpToByNumbers(n, major, minor)[i] <=> j = i \/ Earlier(major, minor, j, i)
    BY <1>1 DEF Earlier, Lower, UpToByNumbers
<1> QED BY <1>2, <1>3, <1>4, <1>5

\* So for rows compared by two numbers, the sets of rows up to one form a chain.
LEMMA NumbersMakeAChain ==
    ASSUME NEW n \in Nat, NEW major, NEW minor, AreNumbers(n, major), AreNumbers(n, minor)
    PROVE  Chain(n, UpToByNumbers(n, major, minor))
<1> DEFINE up_to == UpToByNumbers(n, major, minor)
<1>1. /\ \A i, j \in 1 .. n : i # j => Earlier(major, minor, i, j) \/ Earlier(major, minor, j, i)
      /\ \A i, j \in 1 .. n : Earlier(major, minor, i, j) => ~Earlier(major, minor, j, i) /\ i # j
      /\ \A i, j, l \in 1 .. n :
             Earlier(major, minor, i, j) /\ Earlier(major, minor, j, l)
                 => Earlier(major, minor, i, l)
      /\ \A i, j \in 1 .. n : j \in up_to[i] <=> j = i \/ Earlier(major, minor, j, i)
    BY EarlierIsALinearOrder
<1>2. \A i \in 1 .. n : up_to[i] \subseteq 1 .. n
    BY DEF UpToByNumbers
<1> HIDE DEF up_to
<1>3. \A i \in 1 .. n : i \in up_to[i]
    BY <1>1
<1>4. ASSUME NEW i \in 1 .. n, NEW j \in 1 .. n, Earlier(major, minor, i, j)
      PROVE  up_to[i] \subseteq up_to[j] /\ j \notin up_to[i]
    <2>1. j \notin up_to[i]
        BY <1>1, <1>4
    <2>2. \A l \in 1 .. n : l \in up_to[i] => l \in up_to[j]
        BY <1>1, <1>4
    <2> QED BY <1>2, <2>1, <2>2
<1> QED BY <1>1, <1>2, <1>3, <1>4 DEF Chain, up_to

\* The order a stable sort puts the rows 1 .. n in.
SortedOrder(order, n, major, minor) ==
    /\ Permutes1To(order, n)
    /\ \A k, l \in 1 .. n : k < l => Earlier(major, minor, order[k], order[l])

\* Rows in the order of their places are sorted.
LEMMA PlacesSort ==
    ASSUME NEW n \in Nat, NEW major, NEW minor, AreNumbers(n, major), AreNumbers(n, minor),
           NEW rows
    PROVE  \E order : /\ SortedOrder(order, n, major, minor)
                      /\ RowsByPlace(n, rows, UpToByNumbers(n, major, minor)) =
                             [k \in 1 .. n |-> rows[order[k]]]
<1>1. PICK up_to : up_to = UpToByNumbers(n, major, minor)
    OBVIOUS
<1>2. Chain(n, up_to)
    BY <1>1, NumbersMakeAChain
<1>3. PICK order : /\ Permutes1To(order, n)
                   /\ \A k \in 1 .. n : Cardinality(up_to[order[k]]) = k
                   /\ \A i \in 1 .. n : order[Cardinality(up_to[i])] = i
    BY <1>2, ChainPlaces
<1>4. RowsByPlace(n, rows, up_to) = [k \in 1 .. n |-> rows[order[k]]]
    BY ONLY n \in Nat, <1>3, PlacedRows
<1>5. ASSUME NEW k \in 1 .. n, NEW l \in 1 .. n, k < l
      PROVE  Earlier(major, minor, order[k], order[l])
    <2>0. order[k] \in 1 .. n /\ order[l] \in 1 .. n /\ order[k] # order[l]
        BY <1>3, <1>5 DEF Permutes1To
    <2>1. PICK i \in 1 .. n, j \in 1 .. n : i = order[k] /\ j = order[l] /\ i # j
        BY <2>0
    <2>2. Cardinality(up_to[i]) = k /\ Cardinality(up_to[j]) = l
        BY <1>3, <2>1
    <2>3. SUFFICES ASSUME Earlier(major, minor, j, i) PROVE FALSE
        BY <2>1, EarlierIsALinearOrder
    <2>4. up_to[j] \subseteq up_to[i]
        <3>1. /\ \A x, y, z \in 1 .. n :
                     Earlier(major, minor, x, y) /\ Earlier(major, minor, y, z)
                         => Earlier(major, minor, x, z)
              /\ \A x, y \in 1 .. n : y \in up_to[x] <=> y = x \/ Earlier(major, minor, y, x)
            BY <1>1, EarlierIsALinearOrder
        <3>2. up_to[j] \subseteq 1 .. n
            BY <1>2 DEF Chain
        <3> QED BY <2>3, <3>1, <3>2
    <2>5. IsFiniteSet(up_to[i])
        <3>1. IsFiniteSet(1 .. n) /\ up_to[i] \in SUBSET (1 .. n)
            BY <1>2, FS_Interval DEF Chain
        <3> QED BY <3>1, FS_Subset
    <2>6. Cardinality(up_to[j]) <= Cardinality(up_to[i])
        <3>1. up_to[j] \in SUBSET up_to[i]
            BY <2>4
        <3> QED BY <2>5, <3>1, FS_Subset
    <2> QED BY <1>5, <2>2, <2>6
<1> QED BY <1>1, <1>3, <1>4, <1>5 DEF SortedOrder

\* Rows i and j stand next to each other once sorted.
Neighbours(n, major, minor, i, j) ==
    /\ i \in 1 .. n /\ j \in 1 .. n
    /\ Earlier(major, minor, i, j)
    /\ \A x \in 1 .. n :
           x = i \/ x = j \/ Earlier(major, minor, x, i) \/ Earlier(major, minor, j, x)

\* Rows that follow each other in sorted order are neighbours.
LEMMA SortedNeighbours ==
    ASSUME NEW n \in Nat, NEW major, NEW minor, NEW order, SortedOrder(order, n, major, minor),
           NEW k \in 1 .. (n - 1)
    PROVE  Neighbours(n, major, minor, order[k], order[k + 1])
<1>1. k \in 1 .. n /\ k + 1 \in 1 .. n /\ k < k + 1
    OBVIOUS
<1>2. \A l \in 1 .. n : order[l] \in 1 .. n
    BY DEF SortedOrder, Permutes1To
<1>3. Earlier(major, minor, order[k], order[k + 1])
    BY <1>1 DEF SortedOrder
<1>4. ASSUME NEW x \in 1 .. n
      PROVE  \/ x = order[k] \/ x = order[k + 1]
             \/ Earlier(major, minor, x, order[k]) \/ Earlier(major, minor, order[k + 1], x)
    <2>1. PICK l \in 1 .. n : order[l] = x
        BY DEF SortedOrder, Permutes1To
    <2>2. CASE l < k
        BY <1>1, <2>1, <2>2 DEF SortedOrder
    <2>3. CASE l > k + 1
        BY <1>1, <2>1, <2>3 DEF SortedOrder
    <2>4. CASE l = k \/ l = k + 1
        BY <2>1, <2>4
    <2> QED BY <2>2, <2>3, <2>4
<1> QED BY <1>1, <1>2, <1>3, <1>4 DEF Neighbours

\* The first row is earlier than all others.
LEMMA SortedFirst ==
    ASSUME NEW n \in Nat \ {0}, NEW major, NEW minor, NEW order,
           SortedOrder(order, n, major, minor)
    PROVE  /\ order[1] \in 1 .. n
           /\ \A x \in 1 .. n : x = order[1] \/ Earlier(major, minor, order[1], x)
<1>1. order[1] \in 1 .. n
    BY DEF SortedOrder, Permutes1To
<1>2. ASSUME NEW x \in 1 .. n
      PROVE  x = order[1] \/ Earlier(major, minor, order[1], x)
    <2>1. PICK l \in 1 .. n : order[l] = x
        BY DEF SortedOrder, Permutes1To
    <2> QED BY <2>1 DEF SortedOrder
<1> QED BY <1>1, <1>2

\* The op stack table has the rows recorded, in the order of pointer and clock.
LEMMA OpStackTableSorted ==
    ASSUME NEW n \in Nat, DOMAIN op_stack_underflow_trace = 1 .. n,
           AreNumbers(n, [i \in 1 .. n |-> op_stack_underflow_trace[i].stack_pointer]),
           AreNumbers(n, [i \in 1 .. n |-> op_stack_underflow_trace[i].clk])
    PROVE  \E order :
               /\ SortedOrder(order, n,
                              [i \in 1 .. n |-> op_stack_underflow_trace[i].stack_pointer],
                              [i \in 1 .. n |-> op_stack_underflow_trace[i].clk])
               /\ FilledOpStackTable = [k \in 1 .. n |-> op_stack_underflow_trace[order[k]]]
<1>1. PICK rows : rows = op_stack_underflow_trace
    OBVIOUS
<1> DEFINE major == [i \in 1 .. n |-> rows[i].stack_pointer]
           minor == [i \in 1 .. n |-> rows[i].clk]
           up_to == UpToByNumbers(n, major, minor)
           before(i, j) == \/ rows[i].stack_pointer < rows[j].stack_pointer
                           \/ /\ rows[i].stack_pointer = rows[j].stack_pointer
                              /\ rows[i].clk < rows[j].clk
           placed == {[place |-> Cardinality({j \in 1 .. n : \/ before(j, i)
                                                             \/ j <= i /\ ~before(i, j)}),
                       row |-> rows[i]] : i \in 1 .. n}
           same == {[place |-> Cardinality(up_to[i]), row |-> rows[i]] : i \in 1 .. n}
<1>2. FilledOpStackTable = [k \in 1 .. n |-> RowAt(k, placed)]
    <2>1. DOMAIN rows = 1 .. n
        BY <1>1
    <2>2. FilledOpStackTable =
              Sorted(rows, LAMBDA a, b : ByPointerThenClock(a, b, "stack_pointer"))
        BY <1>1 DEF FilledOpStackTable
    <2>3. Sorted(rows, LAMBDA a, b : ByPointerThenClock(a, b, "stack_pointer")) =
              [k \in 1 .. n |-> RowAt(k, placed)]
        BY <2>1 DEF Sorted, ByPointerThenClock
    <2> QED BY <2>2, <2>3
<1>3. ASSUME NEW i \in 1 .. n
      PROVE  {j \in 1 .. n : before(j, i) \/ (j <= i /\ ~before(i, j))} = up_to[i]
    <2>1. \A j \in 1 .. n : /\ Lower(major, minor, i, j) <=> before(i, j)
                            /\ Lower(major, minor, j, i) <=> before(j, i)
        BY DEF Lower
    <2> QED BY <2>1 DEF UpToByNumbers
<1>4. placed = same
    BY <1>3
<1>5. RowsByPlace(n, rows, up_to) = [k \in 1 .. n |-> RowAt(k, same)]
    BY DEF RowsByPlace
<1>6. AreNumbers(n, major) /\ AreNumbers(n, minor)
    BY <1>1
<1> HIDE DEF placed, same, major, minor
<1>7. PICK order : /\ SortedOrder(order, n, major, minor)
                   /\ RowsByPlace(n, rows, up_to) = [k \in 1 .. n |-> rows[order[k]]]
    BY <1>6, PlacesSort
<1>8. FilledOpStackTable = [k \in 1 .. n |-> rows[order[k]]]
    BY <1>2, <1>4, <1>5, <1>7
<1>9. /\ SortedOrder(order, n, [i \in 1 .. n |-> op_stack_underflow_trace[i].stack_pointer],
                               [i \in 1 .. n |-> op_stack_underflow_trace[i].clk])
      /\ FilledOpStackTable = [k \in 1 .. n |-> op_stack_underflow_trace[order[k]]]
    BY <1>1, <1>7, <1>8 DEF major, minor
<1> QED BY <1>9

\* The RAM table has a row for every access, in the order of pointer and clock.
LEMMA RamTableSorted ==
    ASSUME NEW n \in Nat, DOMAIN ram_trace = 1 .. n,
           AreNumbers(n, [i \in 1 .. n |-> ram_trace[i].ram_pointer]),
           AreNumbers(n, [i \in 1 .. n |-> ram_trace[i].clk])
    PROVE  \E order :
               /\ SortedOrder(order, n, [i \in 1 .. n |-> ram_trace[i].ram_pointer],
                                        [i \in 1 .. n |-> ram_trace[i].clk])
               /\ FilledRamTable = [k \in 1 .. n |-> RamTableRow(ram_trace[order[k]])]
<1>1. PICK rows : rows = [i \in 1 .. n |-> RamTableRow(ram_trace[i])]
    OBVIOUS
<1>0. \A i \in 1 .. n : /\ rows[i] = RamTableRow(ram_trace[i])
                        /\ rows[i].ram_pointer = ram_trace[i].ram_pointer
                        /\ rows[i].clk = ram_trace[i].clk
    BY <1>1 DEF RamTableRow
<1> DEFINE major == [i \in 1 .. n |-> ram_trace[i].ram_pointer]
           minor == [i \in 1 .. n |-> ram_trace[i].clk]
           up_to == UpToByNumbers(n, major, minor)
           before(i, j) == \/ rows[i].ram_pointer < rows[j].ram_pointer
                           \/ /\ rows[i].ram_pointer = rows[j].ram_pointer
                              /\ rows[i].clk < rows[j].clk
           placed == {[place |-> Cardinality({j \in 1 .. n : \/ before(j, i)
                                                             \/ j <= i /\ ~before(i, j)}),
                       row |-> rows[i]] : i \in 1 .. n}
           same == {[place |-> Cardinality(up_to[i]), row |-> rows[i]] : i \in 1 .. n}
<1>2. FilledRamTable = [k \in 1 .. n |-> RowAt(k, placed)]
    <2>1. DOMAIN rows = 1 .. n
        BY <1>1
    <2>2. FilledRamTable = Sorted(rows, LAMBDA a, b : ByPointerThenClock(a, b, "ram_pointer"))
        BY <1>1 DEF FilledRamTable
    <2>3. Sorted(rows, LAMBDA a, b : ByPointerThenClock(a, b, "ram_pointer")) =
              [k \in 1 .. n |-> RowAt(k, placed)]
        BY <2>1 DEF Sorted, ByPointerThenClock
    <2> QED BY <2>2, <2>3
<1>3. ASSUME NEW i \in 1 .. n
      PROVE  {j \in 1 .. n : before(j, i) \/ (j <= i /\ ~before(i, j))} = up_to[i]
    <2>1. \A j \in 1 .. n : /\ Lower(major, minor, i, j) <=> before(i, j)
                            /\ Lower(major, minor, j, i) <=> before(j, i)
        BY <1>0 DEF Lower
    <2> QED BY <2>1 DEF UpToByNumbers
<1>4. placed = same
    BY <1>3
<1>5. RowsByPlace(n, rows, up_to) = [k \in 1 .. n |-> RowAt(k, same)]
    BY DEF RowsByPlace
<1>6. AreNumbers(n, major) /\ AreNumbers(n, minor)
    OBVIOUS
<1> HIDE DEF placed, same, major, minor
<1>7. PICK order : /\ SortedOrder(order, n, major, minor)
                   /\ RowsByPlace(n, rows, up_to) = [k \in 1 .. n |-> rows[order[k]]]
    BY <1>6, PlacesSort
<1>8. \A k \in 1 .. n : rows[order[k]] = RamTableRow(ram_trace[order[k]])
    BY <1>0, <1>7 DEF SortedOrder, Permutes1To
<1>9. FilledRamTable = [k \in 1 .. n |-> RamTableRow(ram_trace[order[k]])]
    BY <1>2, <1>4, <1>5, <1>7, <1>8
<1> QED BY <1>7, <1>9 DEF major, minor

\* The jump stack table is the processor table's rows in the order of depth.
LEMMA JumpStackTableSorted ==
    ASSUME NEW n \in Nat, DOMAIN processor_trace = 1 .. n,
           AreNumbers(n, [i \in 1 .. n |-> processor_trace[i].jsp])
    PROVE  \E order :
               /\ SortedOrder(order, n, [i \in 1 .. n |-> processor_trace[i].jsp],
                                        [i \in 1 .. n |-> 0])
               /\ FilledJumpStackTable =
                      [k \in 1 .. n |-> JumpStackRow(processor_trace[order[k]])]
<1>1. PICK rows : rows = [i \in 1 .. n |-> JumpStackRow(processor_trace[i])]
    OBVIOUS
<1>0. \A i \in 1 .. n : /\ rows[i] = JumpStackRow(processor_trace[i])
                        /\ rows[i].jsp = processor_trace[i].jsp
    BY <1>1 DEF JumpStackRow
<1> DEFINE major == [i \in 1 .. n |-> processor_trace[i].jsp]
           minor == [i \in 1 .. n |-> 0]
           up_to == UpToByNumbers(n, major, minor)
           before(i, j) == rows[i].jsp < rows[j].jsp
           placed == {[place |-> Cardinality({j \in 1 .. n : \/ before(j, i)
                                                             \/ j <= i /\ ~before(i, j)}),
                       row |-> rows[i]] : i \in 1 .. n}
           same == {[place |-> Cardinality(up_to[i]), row |-> rows[i]] : i \in 1 .. n}
<1>2. FilledJumpStackTable = [k \in 1 .. n |-> RowAt(k, placed)]
    <2>1. DOMAIN rows = 1 .. n
        BY <1>1
    <2>2. FilledJumpStackTable = Sorted(rows, LAMBDA a, b : a.jsp < b.jsp)
        BY <1>1 DEF FilledJumpStackTable
    <2>3. Sorted(rows, LAMBDA a, b : a.jsp < b.jsp) = [k \in 1 .. n |-> RowAt(k, placed)]
        BY <2>1 DEF Sorted
    <2> QED BY <2>2, <2>3
<1>3. ASSUME NEW i \in 1 .. n
      PROVE  {j \in 1 .. n : before(j, i) \/ (j <= i /\ ~before(i, j))} = up_to[i]
    <2>1. \A j \in 1 .. n : /\ Lower(major, minor, i, j) <=> before(i, j)
                            /\ Lower(major, minor, j, i) <=> before(j, i)
        BY <1>0 DEF Lower
    <2> QED BY <2>1 DEF UpToByNumbers
<1>4. placed = same
    BY <1>3
<1>5. RowsByPlace(n, rows, up_to) = [k \in 1 .. n |-> RowAt(k, same)]
    BY DEF RowsByPlace
<1>6. AreNumbers(n, major) /\ AreNumbers(n, minor)
    BY DEF AreNumbers
<1> HIDE DEF placed, same, major, minor
<1>7. PICK order : /\ SortedOrder(order, n, major, minor)
                   /\ RowsByPlace(n, rows, up_to) = [k \in 1 .. n |-> rows[order[k]]]
    BY <1>6, PlacesSort
<1>8. \A k \in 1 .. n : rows[order[k]] = JumpStackRow(processor_trace[order[k]])
    BY <1>0, <1>7 DEF SortedOrder, Permutes1To
<1>9. FilledJumpStackTable = [k \in 1 .. n |-> JumpStackRow(processor_trace[order[k]])]
    BY <1>2, <1>4, <1>5, <1>7, <1>8
<1> QED BY <1>7, <1>9 DEF major, minor

\* Rows with m copies of a padding row behind them.
IsPadded(table, rows, template, m) ==
    /\ IsSequence(table) /\ Len(table) = Len(rows) + m
    /\ \A k \in 1 .. Len(rows) : table[k] = rows[k]
    /\ \A k \in 1 .. m : table[Len(rows) + k] = template

\* What padding behind the rows yields.
LEMMA PaddedBehind ==
    ASSUME NEW rows, IsSequence(rows), NEW template, NEW m \in Nat
    PROVE  IsPadded(rows \o Repeat(template, m), rows, template, m)
<1>1. PICK padding : padding = Repeat(template, m)
    OBVIOUS
<1>2. IsSequence(padding) /\ Len(padding) = m /\ \A k \in 1 .. m : padding[k] = template
    <2>1. padding = [k \in 1 .. m |-> padding[k]] /\ \A k \in 1 .. m : padding[k] = template
        BY <1>1 DEF Repeat
    <2> QED BY <2>1, IndexedSequence
<1> QED BY <1>1, <1>2, ConcatenatedSequence DEF IsPadded
------------------------------------------------------------------------------
(* The RAM table. *)

\* The accesses of RAM: their clock never runs backwards, and a read sees what was last
\* accessed at its address.
CoherentAccesses(n, trace) ==
    /\ \A i \in 1 .. n : trace[i].clk \in Int /\ trace[i].ram_pointer \in Int
    /\ \A i, j \in 1 .. n : i < j =>
           /\ trace[i].clk <= trace[j].clk
           /\ trace[i].ram_pointer = trace[j].ram_pointer
                  /\ (\A k \in (i + 1) .. j : trace[k].ram_pointer = trace[i].ram_pointer
                                                  => ~trace[k].is_write)
              => trace[j].ram_value = trace[i].ram_value

\* Of neighbouring rows of one address, a read has the value of the row before.
LEMMA RamNeighbours ==
    ASSUME NEW n \in Nat, NEW trace, CoherentAccesses(n, trace), NEW i, NEW j,
           Neighbours(n, [k \in 1 .. n |-> trace[k].ram_pointer],
                         [k \in 1 .. n |-> trace[k].clk], i, j)
    PROVE  RamTransition(RamTableRow(trace[i]), RamTableRow(trace[j]))
<1> DEFINE major == [k \in 1 .. n |-> trace[k].ram_pointer]
           minor == [k \in 1 .. n |-> trace[k].clk]
<1>1. /\ i \in 1 .. n /\ j \in 1 .. n /\ Earlier(major, minor, i, j)
      /\ \A x \in 1 .. n :
             x = i \/ x = j \/ Earlier(major, minor, x, i) \/ Earlier(major, minor, j, x)
    BY DEF Neighbours
<1>2. \A k \in 1 .. n : /\ major[k] = trace[k].ram_pointer /\ minor[k] = trace[k].clk
                        /\ major[k] \in Int /\ minor[k] \in Int
    BY DEF CoherentAccesses
<1>3. \A k, l \in 1 .. n : k < l => minor[k] <= minor[l]
    BY <1>2 DEF CoherentAccesses
<1> HIDE DEF major, minor
<1>4. \A k, l \in 1 .. n : major[k] = major[l] /\ Earlier(major, minor, k, l) => k < l
    BY <1>2, <1>3 DEF Earlier, Lower
<1>5. CASE major[i] # major[j]
    BY <1>1, <1>2, <1>5 DEF RamTransition, RamTableRow, Padding
<1>6. CASE major[i] = major[j]
    <2>1. i < j
        BY <1>1, <1>4, <1>6
    <2>2. ASSUME NEW k \in (i + 1) .. j, major[k] = major[i], trace[j].is_write = FALSE
          PROVE  ~trace[k].is_write
        <3>1. k \in 1 .. n /\ i < k /\ k <= j
            BY <1>1, <2>1
        <3>2. CASE k = j
            BY <2>2, <3>2
        <3>3. CASE k # j
            <4>1. k # i /\ k < j
                BY <1>1, <3>1, <3>3
            <4>2. Earlier(major, minor, k, i) \/ Earlier(major, minor, j, k)
                BY <1>1, <3>1, <3>3, <4>1
            <4>3. ~(k < i) /\ ~(j < k)
                BY <1>1, <3>1, <4>1
            <4> QED BY <1>1, <1>4, <1>6, <2>2, <3>1, <4>2, <4>3
        <3> QED BY <3>2, <3>3
    <2>3. trace[j].is_write = FALSE => trace[j].ram_value = trace[i].ram_value
        <3>1. ASSUME trace[j].is_write = FALSE
              PROVE  trace[j].ram_value = trace[i].ram_value
            <4>1. \A k \in (i + 1) .. j : trace[k].ram_pointer = trace[i].ram_pointer
                                              => ~trace[k].is_write
                <5>1. \A k \in (i + 1) .. j : k \in 1 .. n
                    BY <1>1
                <5> QED BY <1>1, <1>2, <2>2, <3>1, <5>1
            <4> QED BY <1>1, <1>2, <1>6, <2>1, <4>1 DEF CoherentAccesses
        <3> QED BY <3>1
    <2> QED BY <2>3 DEF RamTransition, RamTableRow, Padding
<1> QED BY <1>5, <1>6

\* Where pointers never decrease, no pointer's region is entered twice.
LEMMA SortedPointersAreContiguous ==
    ASSUME NEW table, NEW h \in Nat, DOMAIN table = 1 .. h,
           \A k \in 1 .. h : table[k].ram_pointer \in Int,
           \A k, l \in 1 .. h : k <= l => table[k].ram_pointer <= table[l].ram_pointer
    PROVE  RamPointersAreContiguous(table)
<1> SUFFICES ASSUME NEW j \in 1 .. h, NEW k \in 1 .. h, j < k,
                    k = 1 \/ table[k - 1].ram_pointer # table[k].ram_pointer,
                    table[j].ram_pointer = table[k].ram_pointer
             PROVE  FALSE
    <2>1. \A j, k \in 1 .. h : j # k => j < k \/ k < j
        OBVIOUS
    <2> QED BY <2>1 DEF RamPointersAreContiguous
<1>1. k # 1 /\ k - 1 \in 1 .. h /\ j <= k - 1 /\ k - 1 <= k
    OBVIOUS
<1> QED BY <1>1

\* The RAM table satisfies its constraints, at every height.
LEMMA RamTableIsConsistent ==
    ASSUME NEW n \in Nat, IsSequence(ram_trace), Len(ram_trace) = n,
           CoherentAccesses(n, ram_trace), NEW h \in Nat, n <= h
    PROVE  /\ RamPointersAreContiguous(PaddedRamTable(h))
           /\ \A pair \in ConsecutiveRows(PaddedRamTable(h)) : RamTransition(pair[1], pair[2])
<1> DEFINE major == [i \in 1 .. n |-> ram_trace[i].ram_pointer]
           minor == [i \in 1 .. n |-> ram_trace[i].clk]
           row(i) == RamTableRow(ram_trace[i])
<1>1. AreNumbers(n, major) /\ AreNumbers(n, minor) /\ DOMAIN ram_trace = 1 .. n
    BY DEF AreNumbers, CoherentAccesses, IsSequence
<1>2. PICK order : SortedOrder(order, n, major, minor)
                   /\ FilledRamTable = [k \in 1 .. n |-> row(order[k])]
    BY <1>1, RamTableSorted
<1>3. PICK rows : rows = FilledRamTable
    OBVIOUS
<1>4. IsSequence(rows) /\ Len(rows) = n /\ \A k \in 1 .. n : rows[k] = row(order[k])
    <2>1. rows = [k \in 1 .. n |-> rows[k]]
        BY <1>2, <1>3
    <2> QED BY <1>2, <1>3, <2>1, IndexedSequence
<1>5. rows = <<>> <=> n = 0
    BY <1>4, EmptySequence, SequencesEqual
<1>6. \A k \in 1 .. n : order[k] \in 1 .. n
    BY <1>2 DEF SortedOrder, Permutes1To
<1>7. PICK m \in Nat : m = h - n /\ h = n + m
    OBVIOUS
<1>8. PICK template : template = IF rows = <<>>
                                 THEN [clk |-> 0, instruction_type |-> Padding,
                                       ram_pointer |-> 0, ram_value |-> 0]
                                 ELSE [rows[Len(rows)] EXCEPT !.instruction_type = Padding]
    OBVIOUS
<1>9. PICK table : table = PaddedRamTable(h)
    OBVIOUS
<1>10. IsPadded(table, rows, template, m)
    <2>1. table = rows \o Repeat(template, m)
        BY <1>3, <1>4, <1>7, <1>8, <1>9 DEF PaddedRamTable
    <2> QED BY <1>4, <2>1, PaddedBehind
<1>11. /\ DOMAIN table = 1 .. h /\ Len(table) = h
       /\ \A k \in 1 .. n : table[k] = row(order[k])
       /\ \A k \in 1 .. h : k > n => table[k] = template
    <2>1. DOMAIN table = 1 .. h /\ Len(table) = h
        BY <1>4, <1>7, <1>10 DEF IsPadded, IsSequence
    <2>2. \A k \in 1 .. n : table[k] = row(order[k])
        BY <1>4, <1>10 DEF IsPadded
    <2>3. ASSUME NEW k \in 1 .. h, k > n PROVE table[k] = template
        <3>1. k - n \in 1 .. m /\ n + (k - n) = k
            BY <1>7, <2>3
        <3> QED BY <1>4, <1>10, <3>1 DEF IsPadded
    <2> QED BY <2>1, <2>2, <2>3
<1>12. /\ template.instruction_type = Padding /\ template.ram_pointer \in Int
       /\ n > 0 => /\ template.ram_pointer = row(order[n]).ram_pointer
                   /\ template.ram_value = row(order[n]).ram_value
    <2>1. CASE n = 0
        BY <1>5, <1>8, <2>1
    <2>2. CASE n > 0
        <3>1. n \in 1 .. n /\ rows[n] = row(order[n]) /\ order[n] \in 1 .. n
            BY <1>4, <1>6, <2>2
        <3>2. template = [row(order[n]) EXCEPT !.instruction_type = Padding]
            BY <1>4, <1>5, <1>8, <2>2, <3>1
        <3>3. ram_trace[order[n]].ram_pointer \in Int
            BY <3>1 DEF CoherentAccesses
        <3> QED BY <2>2, <3>2, <3>3 DEF RamTableRow
    <2> QED BY <2>1, <2>2
<1>13. \A k \in 1 .. n : /\ row(order[k]).ram_pointer = major[order[k]]
                         /\ major[order[k]] \in Int
                         /\ row(order[k]).instruction_type # Padding
    BY <1>6 DEF RamTableRow, Padding, CoherentAccesses
<1>14. \A k, l \in 1 .. n : k < l => major[order[k]] <= major[order[l]]
    <2> SUFFICES ASSUME NEW k \in 1 .. n, NEW l \in 1 .. n, k < l
                 PROVE  major[order[k]] <= major[order[l]]
        OBVIOUS
    <2>1. Earlier(major, minor, order[k], order[l])
        BY <1>2 DEF SortedOrder
    <2>2. major[order[k]] \in Int /\ major[order[l]] \in Int
        BY <1>13
    <2> HIDE DEF major, minor
    <2> QED BY <2>1, <2>2 DEF Earlier, Lower
<1>15. ASSUME NEW k \in 1 .. (n - 1)
       PROVE  RamTransition(row(order[k]), row(order[k + 1]))
    <2>1. Neighbours(n, major, minor, order[k], order[k + 1])
        <3> HIDE DEF major, minor
        <3> QED BY <1>2, SortedNeighbours
    <2> QED BY <2>1, RamNeighbours
<1> HIDE DEF row, major, minor
<1>16. RamPointersAreContiguous(table)
    <2>1. \A k \in 1 .. h : table[k].ram_pointer \in Int
        BY <1>11, <1>12, <1>13
    <2>2. ASSUME NEW k \in 1 .. h, NEW l \in 1 .. h, k <= l
          PROVE  table[k].ram_pointer <= table[l].ram_pointer
        <3>1. CASE k = l
            BY <2>1, <3>1
        <3>2. CASE k < l /\ l <= n
            <4>1. k \in 1 .. n /\ l \in 1 .. n
                BY <3>2
            <4> QED BY <1>11, <1>13, <1>14, <3>2, <4>1
        <3>3. CASE k <= n /\ l > n
            <4>1. k \in 1 .. n /\ n \in 1 .. n /\ n > 0
                BY <3>3
            <4>2. table[l].ram_pointer = major[order[n]]
                BY <1>11, <1>12, <1>13, <3>3, <4>1
            <4>3. major[order[k]] <= major[order[n]]
                <5>1. CASE k = n
                    BY <1>13, <4>1, <5>1
                <5>2. CASE k < n
                    BY <1>14, <4>1, <5>2
                <5> QED BY <4>1, <5>1, <5>2
            <4> QED BY <1>11, <1>13, <4>1, <4>2, <4>3
        <3>4. CASE k > n
            <4>1. table[k] = template /\ table[l] = template
                BY <1>11, <2>2, <3>4
            <4> QED BY <1>12, <4>1
        <3> QED BY <2>2, <3>1, <3>2, <3>3, <3>4
    <2> QED BY <1>11, <2>1, <2>2, SortedPointersAreContiguous
<1>17. ASSUME NEW k \in 1 .. (h - 1)
       PROVE  RamTransition(table[k], table[k + 1])
    <2>1. k \in 1 .. h /\ k + 1 \in 1 .. h
        OBVIOUS
    <2>2. CASE k + 1 <= n
        <3>1. k \in 1 .. (n - 1) /\ k \in 1 .. n /\ k + 1 \in 1 .. n
            BY <2>2
        <3> QED BY <1>11, <1>15, <3>1
    <2>3. CASE k = n
        <3>1. n > 0 /\ n \in 1 .. n /\ k + 1 > n
            BY <2>3
        <3>2. table[k] = row(order[n]) /\ table[k + 1] = template
            BY <1>11, <2>1, <2>3, <3>1
        <3> QED BY <1>12, <1>13, <3>1, <3>2 DEF RamTransition
    <2>4. CASE k > n
        <3>1. table[k] = template /\ table[k + 1] = template
            BY <1>11, <2>1, <2>4
        <3> QED BY <1>12, <3>1 DEF RamTransition
    <2> QED BY <2>2, <2>3, <2>4
<1>18. ASSUME NEW pair \in ConsecutiveRows(table)
       PROVE  RamTransition(pair[1], pair[2])
    <2>1. PICK k \in 1 .. (Len(table) - 1) : pair = <<table[k], table[k + 1]>>
        BY DEF ConsecutiveRows
    <2> QED BY <1>11, <1>17, <2>1
<1> QED BY <1>9, <1>16, <1>18
------------------------------------------------------------------------------
(* The op stack table. *)

\* The accesses of underflow memory: their clock never runs backwards, every location
\* down to the registers is accessed, and a read sees what was last accessed there.
CoherentUnderflow(n, trace) ==
    /\ \A i \in 1 .. n : /\ trace[i].clk \in Nat /\ trace[i].stack_pointer \in Int
                         /\ trace[i].stack_pointer >= NumRegisters
                         /\ trace[i].shrink_stack \in {0, 1}
                         /\ DOMAIN trace[i] = {"clk", "shrink_stack", "stack_pointer",
                                               "first_underflow_element"}
    /\ \A i, j \in 1 .. n : i < j => trace[i].clk <= trace[j].clk
    /\ \A i \in 1 .. n : trace[i].stack_pointer > NumRegisters =>
           \E j \in 1 .. n : trace[j].stack_pointer = trace[i].stack_pointer - 1
    /\ \A i, j \in 1 .. n :
           /\ i < j /\ trace[i].stack_pointer = trace[j].stack_pointer
           /\ \A k \in (i + 1) .. (j - 1) : trace[k].stack_pointer # trace[i].stack_pointer
           => \/ trace[j].first_underflow_element = trace[i].first_underflow_element
              \/ trace[j].shrink_stack = 0

\* Neighbouring rows are of one location, and coherent, or of one and the next.
LEMMA UnderflowNeighbours ==
    ASSUME NEW n \in Nat, NEW trace, CoherentUnderflow(n, trace), NEW i, NEW j,
           Neighbours(n, [k \in 1 .. n |-> trace[k].stack_pointer],
                         [k \in 1 .. n |-> trace[k].clk], i, j)
    PROVE  OpStackTransition(trace[i], trace[j])
<1> DEFINE major == [k \in 1 .. n |-> trace[k].stack_pointer]
           minor == [k \in 1 .. n |-> trace[k].clk]
<1>1. /\ i \in 1 .. n /\ j \in 1 .. n /\ Earlier(major, minor, i, j)
      /\ \A x \in 1 .. n :
             x = i \/ x = j \/ Earlier(major, minor, x, i) \/ Earlier(major, minor, j, x)
    BY DEF Neighbours
<1>2. \A k \in 1 .. n : /\ major[k] = trace[k].stack_pointer /\ minor[k] = trace[k].clk
                        /\ major[k] \in Int /\ minor[k] \in Int
    BY DEF CoherentUnderflow
<1>3. \A k, l \in 1 .. n : k < l => minor[k] <= minor[l]
    BY <1>2 DEF CoherentUnderflow
<1>4. \A k \in 1 .. n : trace[k].shrink_stack \in {0, 1} /\ major[k] >= NumRegisters
    BY <1>2 DEF CoherentUnderflow
<1> HIDE DEF major, minor
<1>5. \A k, l \in 1 .. n : major[k] = major[l] /\ Earlier(major, minor, k, l) => k < l
    BY <1>2, <1>3 DEF Earlier, Lower
<1>6. \A k, l \in 1 .. n : Earlier(major, minor, k, l) => major[k] <= major[l]
    BY <1>2 DEF Earlier, Lower
<1>7. CASE major[i] = major[j]
    <2>1. i < j
        BY <1>1, <1>5, <1>7
    <2>2. ASSUME NEW k \in (i + 1) .. (j - 1), major[k] = major[i] PROVE FALSE
        <3>1. k \in 1 .. n /\ k # i /\ k # j /\ ~(k < i) /\ ~(j < k)
            BY <1>1, <2>1
        <3> QED BY <1>1, <1>5, <1>7, <2>2, <3>1
    <2>3. \A k \in (i + 1) .. (j - 1) : trace[k].stack_pointer # trace[i].stack_pointer
        <3>1. \A k \in (i + 1) .. (j - 1) : k \in 1 .. n
            BY <1>1
        <3> QED BY <1>1, <1>2, <2>2, <3>1
    <2>4. \/ trace[j].first_underflow_element = trace[i].first_underflow_element
          \/ trace[j].shrink_stack = 0
        BY <1>1, <1>2, <1>7, <2>1, <2>3 DEF CoherentUnderflow
    <2>5. trace[j].stack_pointer = trace[i].stack_pointer
        BY <1>1, <1>2, <1>7
    <2>6. trace[i].shrink_stack # Padding
        BY <1>1, <1>4 DEF Padding
    <2> QED BY <2>4, <2>5, <2>6 DEF OpStackTransition
<1>8. CASE major[i] # major[j]
    <2>1. major[i] < major[j]
        BY <1>1, <1>2, <1>6, <1>8
    <2>2. major[j] = major[i] + 1
        <3>1. SUFFICES ASSUME major[j] > major[i] + 1 PROVE FALSE
            BY <1>1, <1>2, <2>1
        <3>2. major[j] > NumRegisters
            BY <1>1, <1>2, <1>4, <2>1, RegisterAssumption
        <3>3. PICK x \in 1 .. n : major[x] = major[j] - 1
            <4>1. \A k \in 1 .. n : trace[k].stack_pointer > NumRegisters =>
                      \E x \in 1 .. n : trace[x].stack_pointer = trace[k].stack_pointer - 1
                BY DEF CoherentUnderflow
            <4>2. j \in 1 .. n /\ trace[j].stack_pointer > NumRegisters
                BY <1>1, <1>2, <3>2
            <4>3. PICK x \in 1 .. n : trace[x].stack_pointer = trace[j].stack_pointer - 1
                BY ONLY <4>1, <4>2
            <4> QED BY <1>2, <4>2, <4>3
        <3>4. ~Earlier(major, minor, x, i) /\ ~Earlier(major, minor, j, x)
            BY <1>1, <1>2, <1>6, <3>1, <3>3
        <3>5. x # i /\ x # j
            BY <1>1, <1>2, <3>1, <3>3
        <3> QED BY <1>1, <3>4, <3>5
    <2>3. trace[j].stack_pointer = trace[i].stack_pointer + 1
        BY <1>1, <1>2, <2>2
    <2>4. trace[i].shrink_stack # Padding
        BY <1>1, <1>4 DEF Padding
    <2> QED BY <2>3, <2>4 DEF OpStackTransition
<1> QED BY <1>7, <1>8

\* The op stack table satisfies its constraints, at every height.
LEMMA OpStackTableIsConsistent ==
    ASSUME NEW n \in Nat, IsSequence(op_stack_underflow_trace),
           Len(op_stack_underflow_trace) = n, CoherentUnderflow(n, op_stack_underflow_trace),
           NEW h \in Nat \ {0}, n <= h
    PROVE  /\ OpStackFirstRow(PaddedOpStackTable(h)[1])
           /\ \A pair \in ConsecutiveRows(PaddedOpStackTable(h)) :
                  OpStackTransition(pair[1], pair[2])
<1> DEFINE major == [i \in 1 .. n |-> op_stack_underflow_trace[i].stack_pointer]
           minor == [i \in 1 .. n |-> op_stack_underflow_trace[i].clk]
           row(i) == op_stack_underflow_trace[i]
<1>1. AreNumbers(n, major) /\ AreNumbers(n, minor) /\ DOMAIN op_stack_underflow_trace = 1 .. n
    BY DEF AreNumbers, CoherentUnderflow, IsSequence
<1>2. PICK order : SortedOrder(order, n, major, minor)
                   /\ FilledOpStackTable = [k \in 1 .. n |-> row(order[k])]
    BY <1>1, OpStackTableSorted
<1>3. PICK rows : rows = FilledOpStackTable
    OBVIOUS
<1>4. IsSequence(rows) /\ Len(rows) = n /\ \A k \in 1 .. n : rows[k] = row(order[k])
    <2>1. rows = [k \in 1 .. n |-> rows[k]]
        BY <1>2, <1>3
    <2> QED BY <1>2, <1>3, <2>1, IndexedSequence
<1>5. rows = <<>> <=> n = 0
    BY <1>4, EmptySequence, SequencesEqual
<1>6. \A k \in 1 .. n : order[k] \in 1 .. n
    BY <1>2 DEF SortedOrder, Permutes1To
<1>7. PICK m \in Nat : m = h - n /\ h = n + m
    OBVIOUS
<1>8. PICK template : template = IF rows = <<>>
                                 THEN [clk |-> 0, shrink_stack |-> Padding,
                                       stack_pointer |-> NumRegisters,
                                       first_underflow_element |-> 0]
                                 ELSE [rows[Len(rows)] EXCEPT !.shrink_stack = Padding]
    OBVIOUS
<1>9. PICK table : table = PaddedOpStackTable(h)
    OBVIOUS
<1>10. IsPadded(table, rows, template, m)
    <2>1. table = rows \o Repeat(template, m)
        BY <1>3, <1>4, <1>7, <1>8, <1>9 DEF PaddedOpStackTable
    <2> QED BY <1>4, <2>1, PaddedBehind
<1>11. /\ Len(table) = h
       /\ \A k \in 1 .. n : table[k] = row(order[k])
       /\ \A k \in 1 .. h : k > n => table[k] = template
    <2>1. Len(table) = h
        BY <1>4, <1>7, <1>10 DEF IsPadded
    <2>2. \A k \in 1 .. n : table[k] = row(order[k])
        BY <1>4, <1>10 DEF IsPadded
    <2>3. ASSUME NEW k \in 1 .. h, k > n PROVE table[k] = template
        <3>1. k - n \in 1 .. m /\ n + (k - n) = k
            BY <1>7, <2>3
        <3> QED BY <1>4, <1>10, <3>1 DEF IsPadded
    <2> QED BY <2>1, <2>2, <2>3
<1>12. /\ template.shrink_stack = Padding
       /\ n = 0 => template.stack_pointer = NumRegisters
       /\ n > 0 => /\ template.stack_pointer = row(order[n]).stack_pointer
                   /\ template.first_underflow_element = row(order[n]).first_underflow_element
    <2>1. CASE n = 0
        BY <1>5, <1>8, <2>1
    <2>2. CASE n > 0
        <3>1. n \in 1 .. n /\ rows[n] = row(order[n]) /\ order[n] \in 1 .. n
            BY <1>4, <1>6, <2>2
        <3>2. template = [row(order[n]) EXCEPT !.shrink_stack = Padding]
            BY <1>4, <1>5, <1>8, <2>2, <3>1
        <3>3. DOMAIN row(order[n]) = {"clk", "shrink_stack", "stack_pointer",
                                      "first_underflow_element"}
            BY <3>1 DEF CoherentUnderflow
        <3> HIDE DEF row
        <3> QED BY <2>2, <3>2, <3>3
    <2> QED BY <2>1, <2>2
<1>13. \A k \in 1 .. n : /\ row(order[k]).stack_pointer = major[order[k]]
                         /\ row(order[k]).shrink_stack # Padding
    <2>1. \A i \in 1 .. n : row(i).stack_pointer = major[i] /\ row(i).shrink_stack \in {0, 1}
        BY DEF CoherentUnderflow
    <2>2. \A i \in 1 .. n : row(i).shrink_stack # Padding
        BY <2>1 DEF Padding
    <2> HIDE DEF row, major
    <2> QED BY <1>6, <2>1, <2>2
<1>14. ASSUME NEW k \in 1 .. (n - 1)
       PROVE  OpStackTransition(row(order[k]), row(order[k + 1]))
    <2>1. Neighbours(n, major, minor, order[k], order[k + 1])
        <3> HIDE DEF major, minor
        <3> QED BY <1>2, SortedNeighbours
    <2> QED BY <2>1, UnderflowNeighbours
<1>15. OpStackFirstRow(table[1])
    <2>1. CASE n = 0
        <3>1. table[1] = template
            BY <1>11, <2>1
        <3> QED BY <1>12, <2>1, <3>1 DEF OpStackFirstRow
    <2>2. CASE n > 0
        <3>1. PICK i \in 1 .. n : /\ i = order[1]
                                  /\ \A x \in 1 .. n : x = i \/ Earlier(major, minor, i, x)
            <4> HIDE DEF major, minor
            <4> QED BY <1>2, <2>2, SortedFirst
        <3>2. /\ \A x \in 1 .. n : major[x] \in Int /\ minor[x] \in Int
              /\ major[i] = row(i).stack_pointer /\ major[i] >= NumRegisters
              /\ major[i] > NumRegisters => \E x \in 1 .. n : major[x] = major[i] - 1
            BY DEF CoherentUnderflow
        <3>3. major[i] = NumRegisters
            <4>1. \A x \in 1 .. n : ~(major[x] = major[i] - 1)
                <5> HIDE DEF major, minor
                <5> QED BY <3>1, <3>2 DEF Earlier, Lower
            <4> HIDE DEF major, minor
            <4> QED BY <3>1, <3>2, <4>1, RegisterAssumption
        <3>4. table[1] = row(i)
            BY <1>11, <2>2, <3>1
        <3> QED BY <3>2, <3>3, <3>4 DEF OpStackFirstRow
    <2> QED BY <2>1, <2>2
<1> HIDE DEF row, major, minor
<1>16. ASSUME NEW k \in 1 .. (h - 1)
       PROVE  OpStackTransition(table[k], table[k + 1])
    <2>1. k \in 1 .. h /\ k + 1 \in 1 .. h
        OBVIOUS
    <2>2. CASE k + 1 <= n
        <3>1. k \in 1 .. (n - 1) /\ k \in 1 .. n /\ k + 1 \in 1 .. n
            BY <2>2
        <3> QED BY <1>11, <1>14, <3>1
    <2>3. CASE k = n
        <3>1. n > 0 /\ n \in 1 .. n /\ k + 1 > n
            BY <2>3
        <3>2. table[k] = row(order[n]) /\ table[k + 1] = template
            BY <1>11, <2>1, <2>3, <3>1
        <3> QED BY <1>12, <1>13, <3>1, <3>2 DEF OpStackTransition
    <2>4. CASE k > n
        <3>1. table[k] = template /\ table[k + 1] = template
            BY <1>11, <2>1, <2>4
        <3> QED BY <1>12, <3>1 DEF OpStackTransition
    <2> QED BY <2>2, <2>3, <2>4
<1>17. ASSUME NEW pair \in ConsecutiveRows(table)
       PROVE  OpStackTransition(pair[1], pair[2])
    <2>1. PICK k \in 1 .. (Len(table) - 1) : pair = <<table[k], table[k + 1]>>
        BY DEF ConsecutiveRows
    <2> QED BY <1>11, <1>16, <2>1
<1> QED BY <1>9, <1>15, <1>17

\* Entries of the op stack table for a location of underflow memory written or read.
WriteAt(clk, pointer, value) ==
    [clk |-> clk, shrink_stack |-> 0, stack_pointer |-> pointer,
     first_underflow_element |-> value]
ReadAt(clk, pointer, value) ==
    [clk |-> clk, shrink_stack |-> 1, stack_pointer |-> pointer,
     first_underflow_element |-> value]

(***************************************************************************)
(* The stack s, r elements of which are in registers, becomes t: `batch`   *)
(* writes the elements that enter underflow memory, or reads those that    *)
(* leave it.                                                               *)
(***************************************************************************)
UnderflowMoves(clk, r, s, t, batch) ==
    /\ IsSequence(batch)
    /\ \/ /\ Len(t) = Len(s) + Len(batch)
          /\ \A k \in 1 .. Len(batch) :
                 batch[k] = WriteAt(clk, Len(s) + k - 1, t[Len(s) + k - r])
       \/ /\ Len(t) = Len(s) - Len(batch)
          /\ \A k \in 1 .. Len(batch) :
                 batch[k] = ReadAt(clk, Len(s) - k, s[Len(s) - k + 1 - r])
    /\ \A k \in 1 .. (Len(s) - r) : k <= Len(t) - r => t[k] = s[k]

\* The entries of w writes of u from position b on, and of a reads of u down to b.
WritesOf(batch, w, clk, after, u, b) ==
    /\ IsSequence(batch) /\ Len(batch) = w
    /\ \A k \in 1 .. w : batch[k] = WriteAt(clk, after - w + k - 1, u[b + k])
ReadsOf(batch, a, clk, after, u, b) ==
    /\ IsSequence(batch) /\ Len(batch) = a
    /\ \A k \in 1 .. a : batch[k] = ReadAt(clk, after + a - k, u[b + a + 1 - k])

\* The entries of a canonical sequence of writes.
LEMMA EntriesWritten ==
    ASSUME NEW clk, NEW after \in Nat, NEW io_calls, NEW w \in Nat, NEW u, NEW b \in Nat,
           ReadsThenWrites(Canonicalize[io_calls], u, b, 0, w)
    PROVE  WritesOf(FromUnderflowIoSequence(clk, after, io_calls), w, clk, after, u, b)
<1>1. PICK c : c = Canonicalize[io_calls]
    OBVIOUS
<1>2. /\ IsSequence(c) /\ Len(c) = w /\ DOMAIN c = 1 .. w
      /\ \A i \in 1 .. w : c[i] = [kind |-> "Write", payload |-> u[b + i]]
    <2>1. IsSequence(c) /\ Len(c) = 0 + w
        BY <1>1 DEF ReadsThenWrites
    <2>2. \A i \in 1 .. w : c[0 + i] = [kind |-> "Write", payload |-> u[b + i]]
        BY <1>1 DEF ReadsThenWrites
    <2>3. 0 + w = w /\ \A i \in 1 .. w : 0 + i = i
        OBVIOUS
    <2>4. IsSequence(c) /\ Len(c) = w
        BY <2>1, <2>3
    <2>5. DOMAIN c = 1 .. w
        BY <2>4 DEF IsSequence
    <2> QED BY <2>2, <2>3, <2>4, <2>5
<1>3. \A k \in DOMAIN c : c[k].kind = "Write" /\ c[k].kind # "Read" /\ c[k].payload = u[b + k]
    BY <1>2
<1> DEFINE entries == FromUnderflowIoSequence(clk, after, io_calls)
<1>4. entries = [k \in 1 .. w |-> WriteAt(clk, after - w + k - 1, u[b + k])]
    BY <1>1, <1>2, <1>3 DEF FromUnderflowIoSequence, WriteAt
<1> HIDE DEF entries
<1>5. entries = [k \in 1 .. w |-> entries[k]]
    BY <1>4
<1>6. IsSequence(entries) /\ Len(entries) = w
    BY <1>5, IndexedSequence
<1>7. WritesOf(entries, w, clk, after, u, b)
    BY <1>4, <1>6 DEF WritesOf
<1> QED BY <1>7 DEF entries

\* The entries of a canonical sequence of reads, of which there is at least one.
LEMMA EntriesRead ==
    ASSUME NEW clk, NEW after \in Nat, NEW io_calls, NEW a \in Nat \ {0}, NEW u, NEW b \in Nat,
           ReadsThenWrites(Canonicalize[io_calls], u, b, a, 0)
    PROVE  ReadsOf(FromUnderflowIoSequence(clk, after, io_calls), a, clk, after, u, b)
<1>1. PICK c : c = Canonicalize[io_calls]
    OBVIOUS
<1>2. /\ IsSequence(c) /\ Len(c) = a /\ DOMAIN c = 1 .. a
      /\ \A i \in 1 .. a : c[i] = [kind |-> "Read", payload |-> u[b + a + 1 - i]]
    <2>1. IsSequence(c) /\ Len(c) = a + 0
        BY <1>1 DEF ReadsThenWrites
    <2>2. \A i \in 1 .. a : c[i] = [kind |-> "Read", payload |-> u[b + a + 1 - i]]
        BY <1>1 DEF ReadsThenWrites
    <2>3. IsSequence(c) /\ Len(c) = a
        BY <2>1
    <2>4. DOMAIN c = 1 .. a
        BY <2>3 DEF IsSequence
    <2> QED BY <2>2, <2>3, <2>4
<1>3. \A k \in DOMAIN c : c[k].kind = "Read" /\ c[k].kind # "Write"
                          /\ c[k].payload = u[b + a + 1 - k]
    BY <1>2
<1>4. 1 \in DOMAIN c
    BY <1>2
<1> DEFINE entries == FromUnderflowIoSequence(clk, after, io_calls)
<1>5. entries = [k \in 1 .. a |-> ReadAt(clk, after + a - k, u[b + a + 1 - k])]
    <2>1. ~(\A k \in DOMAIN c : c[k].kind = "Write")
        BY <1>3, <1>4
    <2>2. entries = [k \in DOMAIN c |->
                        [clk |-> clk, shrink_stack |-> IF c[k].kind = "Read" THEN 1 ELSE 0,
                         stack_pointer |-> IF c[k].kind = "Read" THEN (after + Len(c)) - k
                                           ELSE (after + Len(c)) + k - 1,
                         first_underflow_element |-> c[k].payload]]
        BY <1>1, <2>1 DEF FromUnderflowIoSequence
    <2> HIDE DEF entries
    <2> QED BY <1>2, <1>3, <2>2 DEF ReadAt
<1> HIDE DEF entries
<1>6. entries = [k \in 1 .. a |-> entries[k]]
    BY <1>5
<1>7. IsSequence(entries) /\ Len(entries) = a
    BY <1>6, IndexedSequence
<1>8. ReadsOf(entries, a, clk, after, u, b)
    BY <1>5, <1>7 DEF ReadsOf
<1> QED BY <1>8 DEF entries

\* What a step that succeeds moves between registers and underflow memory.
LEMMA StepMovesUnderflow ==
    ASSUME VMTypeOK, VMTypeOK', Step, error' = NoError
    PROVE  UnderflowMoves(cycle_count, NumRegisters, op_stack, op_stack',
               FromUnderflowIoSequence(cycle_count, Len(op_stack'), underflow_io'))
<1>1. AccessesOfStep
    BY StepAccesses
<1>2. PICK s, t, r, clk, calls_made : /\ s = op_stack /\ t = op_stack' /\ r = NumRegisters
                                      /\ clk = cycle_count /\ calls_made = underflow_io'
    OBVIOUS
<1>3. /\ r \in Nat /\ Len(s) \in Nat /\ Len(t) \in Nat /\ Len(s) >= r /\ Len(t) >= r
    <2>1. /\ op_stack \in Seq(Field) /\ Len(op_stack) >= NumRegisters
          /\ op_stack' \in Seq(Field) /\ Len(op_stack') >= NumRegisters
        BY DEF VMTypeOK
    <2> QED BY <1>2, <2>1, RegisterAssumption
<1>4. PICK n \in 0 .. r, m \in 0 .. r : \E b, u :
          /\ b = (IF n <= m THEN n ELSE m)
          /\ Len(t) = Len(s) - n + m
          /\ u = UnderflowOf(s, t, n, m)
          /\ ReadsThenWrites(Canonicalize[calls_made], u, b, n - b, m - b)
          /\ \A k \in 1 .. Len(s) : k <= Len(s) - r \/ k <= Len(t) - r => t[k] = s[k]
    BY <1>1, <1>2 DEF AccessesOfStep
<1>5. PICK b, u :
          /\ b = (IF n <= m THEN n ELSE m)
          /\ Len(t) = Len(s) - n + m
          /\ u = UnderflowOf(s, t, n, m)
          /\ ReadsThenWrites(Canonicalize[calls_made], u, b, n - b, m - b)
          /\ \A k \in 1 .. Len(s) : k <= Len(s) - r \/ k <= Len(t) - r => t[k] = s[k]
    BY <1>4
<1>6. n \in Nat /\ m \in Nat
    BY <1>3, <1>5
<1>7. PICK batch : batch = FromUnderflowIoSequence(clk, Len(t), calls_made)
    OBVIOUS
<1>8. \A k \in 1 .. (Len(s) - r) : k <= Len(t) - r => t[k] = s[k]
    <2>1. \A k \in 1 .. (Len(s) - r) : k \in 1 .. Len(s) /\ k <= Len(s) - r
        BY <1>3
    <2> QED BY <1>5, <2>1
<1>9. CASE n <= m
    <2>1. PICK w \in Nat : w = m - n
        BY <1>6, <1>9
    <2>2. b = n /\ n - b = 0 /\ m - b = w
        BY <1>5, <1>6, <1>9, <2>1
    <2>3. /\ IsSequence(batch) /\ Len(batch) = w
          /\ \A k \in 1 .. w : batch[k] = WriteAt(clk, Len(t) - w + k - 1, u[n + k])
        <3>1. PICK after : after = Len(t)
            OBVIOUS
        <3>2. /\ after \in Nat /\ w \in Nat /\ n \in Nat
              /\ ReadsThenWrites(Canonicalize[calls_made], u, n, 0, w)
            BY <1>3, <1>5, <1>6, <2>2, <3>1
        <3>3. WritesOf(FromUnderflowIoSequence(clk, after, calls_made), w, clk, after, u, n)
            BY ONLY <3>2, EntriesWritten
        <3>4. WritesOf(batch, w, clk, after, u, n)
            BY <1>7, <3>1, <3>3
        <3> QED BY ONLY <3>1, <3>4 DEF WritesOf
    <2>4. Len(t) = Len(s) + w
        BY <1>3, <1>5, <1>6, <2>1
    <2>5. ASSUME NEW k \in 1 .. w
          PROVE  batch[k] = WriteAt(clk, Len(s) + k - 1, t[Len(s) + k - r])
        <3>1. Len(t) - w + k - 1 = Len(s) + k - 1
            BY <1>3, <2>4
        <3>2. n + k \in 1 .. (IF n >= m THEN n ELSE m) /\ ~(n + k <= n)
            BY <1>6, <1>9, <2>1
        <3>3. u[n + k] = FirstUnderflowElement(t, Len(t) - m + (n + k))
            BY <1>5, <3>2 DEF UnderflowOf
        <3>4. PICK q \in Nat : q = Len(t) - m + (n + k) /\ q = Len(s) + k /\ q > r
            <4>1. Len(t) - m + (n + k) = Len(s) + k /\ Len(s) + k \in Nat /\ Len(s) + k > r
                BY <1>3, <1>5, <1>6
            <4> QED BY <4>1
        <3>5. u[n + k] = t[q - r]
            BY <1>2, <3>3, <3>4 DEF FirstUnderflowElement
        <3>6. q - r = Len(s) + k - r
            BY ONLY <1>3, <3>4
        <3>7. batch[k] = WriteAt(clk, Len(t) - w + k - 1, u[n + k])
            BY <2>3
        <3> QED BY <3>1, <3>5, <3>6, <3>7
    <2>6. UnderflowMoves(clk, r, s, t, batch)
        BY <1>8, <2>3, <2>4, <2>5 DEF UnderflowMoves
    <2> QED BY <1>2, <1>7, <2>6
<1>10. CASE n > m
    <2>1. PICK a \in Nat \ {0} : a = n - m
        BY <1>6, <1>10
    <2>2. b = m /\ n - b = a /\ m - b = 0 /\ b \in Nat
        BY <1>5, <1>6, <1>10, <2>1
    <2>3. /\ IsSequence(batch) /\ Len(batch) = a
          /\ \A k \in 1 .. a : batch[k] = ReadAt(clk, Len(t) + a - k, u[m + a + 1 - k])
        <3>1. PICK after : after = Len(t)
            OBVIOUS
        <3>2. /\ after \in Nat /\ a \in Nat \ {0} /\ m \in Nat
              /\ ReadsThenWrites(Canonicalize[calls_made], u, m, a, 0)
            BY <1>3, <1>5, <1>6, <2>2, <3>1
        <3>3. ReadsOf(FromUnderflowIoSequence(clk, after, calls_made), a, clk, after, u, m)
            BY ONLY <3>2, EntriesRead
        <3>4. ReadsOf(batch, a, clk, after, u, m)
            BY <1>7, <3>1, <3>3
        <3> QED BY ONLY <3>1, <3>4 DEF ReadsOf
    <2>4. Len(t) = Len(s) - a
        BY <1>3, <1>5, <1>6, <2>1
    <2>5. ASSUME NEW k \in 1 .. a
          PROVE  batch[k] = ReadAt(clk, Len(s) - k, s[Len(s) - k + 1 - r])
        <3>1. Len(t) + a - k = Len(s) - k
            BY <1>3, <2>4
        <3>2. PICK j \in 1 .. n : j = n + 1 - k /\ j = m + a + 1 - k
            <4>1. n + 1 - k \in 1 .. n /\ n + 1 - k = m + a + 1 - k
                BY <1>6, <2>1
            <4> QED BY <4>1
        <3>3. j \in 1 .. (IF n >= m THEN n ELSE m) /\ j <= n
            BY <1>6, <1>10, <3>2
        <3>4. u[j] = FirstUnderflowElement(s, Len(s) - n + j)
            BY <1>5, <3>3 DEF UnderflowOf
        <3>5. PICK q \in Nat : q = Len(s) - n + j /\ q = Len(s) - k + 1 /\ q > r
            <4>1. Len(s) - n + j = Len(s) - k + 1
                BY <1>3, <1>6, <3>2
            <4>2. Len(s) - k + 1 > r /\ Len(s) - k + 1 \in Nat
                BY <1>3, <2>1, <2>4
            <4> QED BY <4>1, <4>2
        <3>6. u[j] = s[q - r]
            BY <1>2, <3>4, <3>5 DEF FirstUnderflowElement
        <3>7. q - r = Len(s) - k + 1 - r
            BY ONLY <1>3, <3>5
        <3>8. batch[k] = ReadAt(clk, Len(t) + a - k, u[j])
            BY <2>3, <3>2
        <3> QED BY <3>1, <3>6, <3>7, <3>8
    <2>6. UnderflowMoves(clk, r, s, t, batch)
        BY <1>8, <2>3, <2>4, <2>5 DEF UnderflowMoves
    <2> QED BY <1>2, <1>7, <2>6
<1> QED BY <1>6, <1>9, <1>10

\* The last access, of the first n, of the location of underflow memory that holds v.
LastAccess(n, trace, i, q, v) ==
    /\ i \in 1 .. n /\ trace[i].stack_pointer = q /\ trace[i].first_underflow_element = v
    /\ \A k \in (i + 1) .. n : trace[k].stack_pointer # q

(***************************************************************************)
(* The accesses before cycle clk are coherent, and what was last accessed  *)
(* at every location of underflow memory is what the op stack s has there. *)
(***************************************************************************)
UnderflowHolds(n, trace, clk, s) ==
    /\ CoherentUnderflow(n, trace)
    /\ \A i \in 1 .. n : trace[i].clk < clk
    /\ \A q \in NumRegisters .. (Len(s) - 1) :
           \E i \in 1 .. n : LastAccess(n, trace, i, q, s[q - NumRegisters + 1])

\* The m accesses of cycle clk, recorded behind n earlier ones, are coherent with them.
BatchCoheres(n, m, longer, clk) ==
    /\ \A k \in (n + 1) .. (n + m) :
           /\ longer[k].clk = clk /\ longer[k].stack_pointer \in Int
           /\ longer[k].stack_pointer >= NumRegisters
           /\ longer[k].shrink_stack \in {0, 1}
           /\ DOMAIN longer[k] = {"clk", "shrink_stack", "stack_pointer",
                                  "first_underflow_element"}
    /\ \A k \in (n + 1) .. (n + m) : longer[k].stack_pointer > NumRegisters =>
           \E j \in 1 .. (n + m) : longer[j].stack_pointer = longer[k].stack_pointer - 1
    /\ \A i \in 1 .. (n + m), j \in (n + 1) .. (n + m) :
           /\ i < j /\ longer[i].stack_pointer = longer[j].stack_pointer
           /\ \A k \in (i + 1) .. (j - 1) : longer[k].stack_pointer # longer[i].stack_pointer
           => \/ longer[j].first_underflow_element = longer[i].first_underflow_element
              \/ longer[j].shrink_stack = 0

\* What the coherence of one more batch comes to.
LEMMA LongerUnderflow ==
    ASSUME NEW n \in Nat, NEW m \in Nat, NEW trace, NEW longer, NEW clk \in Nat,
           CoherentUnderflow(n, trace), \A i \in 1 .. n : trace[i].clk < clk,
           \A k \in 1 .. n : longer[k] = trace[k],
           BatchCoheres(n, m, longer, clk)
    PROVE  /\ CoherentUnderflow(n + m, longer)
           /\ \A i \in 1 .. (n + m) : longer[i].clk < clk + 1
<1>1. \A k \in 1 .. (n + m) : k \in 1 .. n \/ k \in (n + 1) .. (n + m)
    OBVIOUS
<1>2. \A k \in 1 .. n : k \in 1 .. (n + m)
    OBVIOUS
<1>3. ASSUME NEW i \in 1 .. (n + m)
      PROVE  /\ longer[i].clk \in Nat /\ longer[i].stack_pointer \in Int
             /\ longer[i].stack_pointer >= NumRegisters
             /\ longer[i].shrink_stack \in {0, 1}
             /\ DOMAIN longer[i] = {"clk", "shrink_stack", "stack_pointer",
                                    "first_underflow_element"}
    <2>1. CASE i \in 1 .. n
        BY <2>1 DEF CoherentUnderflow
    <2>2. CASE i \in (n + 1) .. (n + m)
        BY <2>2 DEF BatchCoheres
    <2> QED BY <1>1, <2>1, <2>2
<1>4. ASSUME NEW i \in 1 .. (n + m)
      PROVE  longer[i].clk <= clk /\ longer[i].clk < clk + 1 /\ (i > n => longer[i].clk = clk)
    <2>1. CASE i \in 1 .. n
        <3>1. longer[i].clk < clk /\ ~(i > n)
            BY <2>1
        <3> QED BY <1>3, <3>1
    <2>2. CASE i \in (n + 1) .. (n + m)
        BY <2>2 DEF BatchCoheres
    <2> QED BY <1>1, <2>1, <2>2
<1>5. ASSUME NEW i \in 1 .. (n + m), NEW j \in 1 .. (n + m), i < j
      PROVE  longer[i].clk <= longer[j].clk
    <2>1. CASE j \in 1 .. n
        <3>1. i \in 1 .. n
            BY <1>5, <2>1
        <3> QED BY <1>5, <2>1, <3>1 DEF CoherentUnderflow
    <2>2. CASE j \in (n + 1) .. (n + m)
        <3>1. longer[j].clk = clk
            BY <2>2 DEF BatchCoheres
        <3> QED BY <1>4, <3>1
    <2> QED BY <1>1, <2>1, <2>2
<1>6. ASSUME NEW i \in 1 .. (n + m), longer[i].stack_pointer > NumRegisters
      PROVE  \E j \in 1 .. (n + m) : longer[j].stack_pointer = longer[i].stack_pointer - 1
    <2>1. CASE i \in 1 .. n
        <3>1. trace[i].stack_pointer > NumRegisters
            BY <1>6, <2>1
        <3>2. PICK j \in 1 .. n : trace[j].stack_pointer = trace[i].stack_pointer - 1
            BY <2>1, <3>1 DEF CoherentUnderflow
        <3> QED BY <1>2, <2>1, <3>2
    <2>2. CASE i \in (n + 1) .. (n + m)
        BY <1>6, <2>2 DEF BatchCoheres
    <2> QED BY <1>1, <2>1, <2>2
<1>7. ASSUME NEW i \in 1 .. (n + m), NEW j \in 1 .. (n + m), i < j,
             longer[i].stack_pointer = longer[j].stack_pointer,
             \A k \in (i + 1) .. (j - 1) : longer[k].stack_pointer # longer[i].stack_pointer
      PROVE  \/ longer[j].first_underflow_element = longer[i].first_underflow_element
             \/ longer[j].shrink_stack = 0
    <2>1. CASE j \in 1 .. n
        <3>1. i \in 1 .. n /\ longer[i] = trace[i] /\ longer[j] = trace[j]
            BY <1>7, <2>1
        <3>2. \A k \in (i + 1) .. (j - 1) : k \in 1 .. n
            BY <2>1, <3>1
        <3>3. \A k \in (i + 1) .. (j - 1) : trace[k].stack_pointer # trace[i].stack_pointer
            BY <1>7, <3>1, <3>2
        <3> QED BY <1>7, <2>1, <3>1, <3>3 DEF CoherentUnderflow
    <2>2. CASE j \in (n + 1) .. (n + m)
        BY <1>7, <2>2 DEF BatchCoheres
    <2> QED BY <1>1, <2>1, <2>2
<1>8. CoherentUnderflow(n + m, longer)
    BY <1>3, <1>5, <1>6, <1>7 DEF CoherentUnderflow
<1> QED BY <1>4, <1>8

\* One more cycle.
LEMMA UnderflowKept ==
    ASSUME NEW n \in Nat, NEW m \in Nat, NEW trace, NEW longer, NEW clk \in Nat,
           NEW s, NEW t, NEW batch, Len(s) \in Nat, Len(t) \in Nat,
           Len(s) >= NumRegisters, Len(t) >= NumRegisters,
           UnderflowHolds(n, trace, clk, s),
           UnderflowMoves(clk, NumRegisters, s, t, batch), Len(batch) = m,
           \A k \in 1 .. n : longer[k] = trace[k],
           \A k \in 1 .. m : longer[n + k] = batch[k]
    PROVE  UnderflowHolds(n + m, longer, clk + 1, t)
<1>1. PICK r \in Nat : r = NumRegisters
    BY RegisterAssumption
<1>2. PICK d \in Nat, e \in Nat : d = Len(s) /\ e = Len(t) /\ d >= r /\ e >= r
    BY <1>1
<1>3. \A k \in (n + 1) .. (n + m) : k - n \in 1 .. m /\ longer[k] = batch[k - n]
    <2>1. \A k \in (n + 1) .. (n + m) : k - n \in 1 .. m /\ n + (k - n) = k
        OBVIOUS
    <2> QED BY <2>1
<1>4. /\ CoherentUnderflow(n, trace) /\ \A i \in 1 .. n : trace[i].clk < clk
      /\ \A q \in r .. (d - 1) : \E i \in 1 .. n : LastAccess(n, trace, i, q, s[q - r + 1])
    BY <1>1, <1>2 DEF UnderflowHolds
<1>5. \A k \in 1 .. (d - r) : k <= e - r => t[k] = s[k]
    BY <1>1, <1>2 DEF UnderflowMoves
<1>6. \A k \in 1 .. n : longer[k].stack_pointer \in Int
    BY <1>4 DEF CoherentUnderflow
\* what stays in underflow memory was last accessed before
<1>7. ASSUME NEW q \in r .. (d - 1), q < e,
             \A k \in (n + 1) .. (n + m) : longer[k].stack_pointer # q
      PROVE  \E i \in 1 .. (n + m) : LastAccess(n + m, longer, i, q, t[q - r + 1])
    <2>1. PICK i \in 1 .. n : LastAccess(n, trace, i, q, s[q - r + 1])
        BY <1>4
    <2>2. t[q - r + 1] = s[q - r + 1]
        <3>1. q - r + 1 \in 1 .. (d - r) /\ q - r + 1 <= e - r
            BY <1>2, <1>7
        <3> QED BY <1>5, <3>1
    <2>3. /\ i \in 1 .. (n + m) /\ longer[i].stack_pointer = q
          /\ longer[i].first_underflow_element = t[q - r + 1]
        BY <2>1, <2>2 DEF LastAccess
    <2>4. \A k \in (i + 1) .. (n + m) : longer[k].stack_pointer # q
        <3>1. \A k \in (i + 1) .. (n + m) : \/ k \in (i + 1) .. n /\ k \in 1 .. n
                                            \/ k \in (n + 1) .. (n + m)
            OBVIOUS
        <3>2. \A k \in (i + 1) .. n : trace[k].stack_pointer # q
            BY <2>1 DEF LastAccess
        <3> QED BY <1>7, <3>1, <3>2
    <2> QED BY <2>3, <2>4 DEF LastAccess
<1>8. CASE /\ e = d + m
           /\ \A k \in 1 .. m : batch[k] = WriteAt(clk, d + k - 1, t[d + k - r])
    <2>1. ASSUME NEW k \in (n + 1) .. (n + m)
          PROVE  /\ longer[k] = WriteAt(clk, d + (k - n) - 1, t[d + (k - n) - r])
                 /\ longer[k].clk = clk /\ longer[k].stack_pointer = d + (k - n) - 1
                 /\ longer[k].stack_pointer \in Int /\ longer[k].stack_pointer >= r
                 /\ longer[k].stack_pointer >= d
                 /\ longer[k].shrink_stack = 0
                 /\ longer[k].first_underflow_element = t[d + (k - n) - r]
                 /\ DOMAIN longer[k] = {"clk", "shrink_stack", "stack_pointer",
                                        "first_underflow_element"}
        <3>1. longer[k] = WriteAt(clk, d + (k - n) - 1, t[d + (k - n) - r])
            BY <1>3, <1>8
        <3>2. d + (k - n) - 1 >= d /\ d + (k - n) - 1 \in Int /\ d + (k - n) - 1 >= r
            BY <1>2
        <3> QED BY <3>1, <3>2 DEF WriteAt
    <2>2. ASSUME NEW k \in (n + 1) .. (n + m), longer[k].stack_pointer > r
          PROVE  \E j \in 1 .. (n + m) : longer[j].stack_pointer = longer[k].stack_pointer - 1
        <3>1. CASE k = n + 1
            <4>1. longer[k].stack_pointer = d /\ d - 1 \in r .. (d - 1)
                BY <1>2, <2>1, <2>2, <3>1
            <4>2. PICK j \in 1 .. n : LastAccess(n, trace, j, d - 1, s[(d - 1) - r + 1])
                BY <1>4, <4>1
            <4>3. j \in 1 .. (n + m) /\ longer[j].stack_pointer = d - 1
                BY <4>2 DEF LastAccess
            <4> QED BY <4>1, <4>3
        <3>2. CASE k # n + 1
            <4>1. k - 1 \in (n + 1) .. (n + m) /\ k - 1 \in 1 .. (n + m)
                BY <3>2
            <4>2. longer[k - 1].stack_pointer = d + ((k - 1) - n) - 1
                BY <2>1, <4>1
            <4>3. longer[k - 1].stack_pointer = longer[k].stack_pointer - 1
                BY <2>1, <4>2
            <4> QED BY <4>1, <4>3
        <3> QED BY <3>1, <3>2
    <2>3. ASSUME NEW q \in r .. (e - 1)
          PROVE  \E i \in 1 .. (n + m) : LastAccess(n + m, longer, i, q, t[q - r + 1])
        <3>1. CASE q < d
            <4>1. \A k \in (n + 1) .. (n + m) : longer[k].stack_pointer # q
                BY <2>1, <3>1
            <4>2. q \in r .. (d - 1) /\ q < e
                BY <1>2, <3>1
            <4> QED BY <1>7, <4>1, <4>2
        <3>2. CASE q >= d
            <4>1. PICK i \in (n + 1) .. (n + m) : i = n + (q - d + 1)
                <5>1. n + (q - d + 1) \in (n + 1) .. (n + m)
                    BY <1>8, <3>2
                <5> QED BY <5>1
            <4>2. d + (i - n) - 1 = q /\ d + (i - n) - r = q - r + 1
                BY <4>1
            <4>3. longer[i].stack_pointer = q /\ longer[i].first_underflow_element = t[q - r + 1]
                BY <2>1, <4>2
            <4>4. \A k \in (i + 1) .. (n + m) : longer[k].stack_pointer # q
                <5>0. n \in Nat /\ m \in Nat /\ d \in Nat /\ q \in Int
                      /\ i = n + (q - d + 1) /\ q >= d
                    BY <3>2, <4>1
                <5>1. \A k \in (i + 1) .. (n + m) : k \in (n + 1) .. (n + m)
                                                    /\ d + (k - n) - 1 # q
                    BY ONLY <5>0
                <5> QED BY <2>1, <5>1
            <4>5. i \in 1 .. (n + m)
                OBVIOUS
            <4> QED BY <4>3, <4>4, <4>5 DEF LastAccess
        <3> QED BY <1>2, <3>1, <3>2
    <2>4. /\ CoherentUnderflow(n + m, longer)
          /\ \A i \in 1 .. (n + m) : longer[i].clk < clk + 1
        <3>1. BatchCoheres(n, m, longer, clk)
            BY <1>1, <2>1, <2>2 DEF BatchCoheres
        <3> QED BY <1>4, <3>1, LongerUnderflow
    <2> QED BY <1>1, <1>2, <2>3, <2>4 DEF UnderflowHolds
<1>9. CASE /\ e = d - m
           /\ \A k \in 1 .. m : batch[k] = ReadAt(clk, d - k, s[d - k + 1 - r])
    <2>1. ASSUME NEW k \in (n + 1) .. (n + m)
          PROVE  /\ longer[k].clk = clk /\ longer[k].stack_pointer = d - (k - n)
                 /\ longer[k].stack_pointer \in r .. (d - 1) /\ longer[k].stack_pointer >= e
                 /\ longer[k].shrink_stack = 1
                 /\ longer[k].first_underflow_element = s[d - (k - n) + 1 - r]
                 /\ DOMAIN longer[k] = {"clk", "shrink_stack", "stack_pointer",
                                        "first_underflow_element"}
        <3>1. longer[k] = ReadAt(clk, d - (k - n), s[d - (k - n) + 1 - r])
            BY <1>3, <1>9
        <3>2. d - (k - n) \in r .. (d - 1) /\ d - (k - n) >= e
            BY <1>2, <1>9
        <3> QED BY <3>1, <3>2 DEF ReadAt
    <2>2. ASSUME NEW k \in (n + 1) .. (n + m), longer[k].stack_pointer > r
          PROVE  \E j \in 1 .. (n + m) : longer[j].stack_pointer = longer[k].stack_pointer - 1
        <3>1. PICK q \in Int : q = longer[k].stack_pointer - 1 /\ q \in r .. (d - 1)
            <4>1. PICK p \in r .. (d - 1) : p = longer[k].stack_pointer
                BY <2>1
            <4>2. p > r /\ r \in Nat /\ d \in Nat
                BY <2>2, <4>1
            <4>3. p - 1 \in Int /\ p - 1 \in r .. (d - 1)
                BY ONLY <4>2
            <4> QED BY <4>1, <4>3
        <3>2. PICK j \in 1 .. n : LastAccess(n, trace, j, q, s[q - r + 1])
            BY <1>4, <3>1
        <3>3. j \in 1 .. (n + m) /\ longer[j].stack_pointer = q
            BY <3>2 DEF LastAccess
        <3> QED BY <3>1, <3>3
    <2>3. ASSUME NEW i \in 1 .. (n + m), NEW j \in (n + 1) .. (n + m), i < j,
                 longer[i].stack_pointer = longer[j].stack_pointer,
                 \A k \in (i + 1) .. (j - 1) :
                     longer[k].stack_pointer # longer[i].stack_pointer
          PROVE  longer[j].first_underflow_element = longer[i].first_underflow_element
        <3>1. PICK q \in r .. (d - 1) :
                  /\ longer[j].stack_pointer = q
                  /\ longer[j].first_underflow_element = s[q - r + 1]
            <4>1. d - (j - n) + 1 - r = (d - (j - n)) - r + 1
                OBVIOUS
            <4> QED BY <2>1, <4>1
        <3>2. PICK l \in 1 .. n : LastAccess(n, trace, l, q, s[q - r + 1])
            BY <1>4
        <3>3. /\ longer[l].stack_pointer = q /\ longer[l].first_underflow_element = s[q - r + 1]
              /\ \A k \in (l + 1) .. n : longer[k].stack_pointer # q
            <4>1. \A k \in (l + 1) .. n : k \in 1 .. n
                OBVIOUS
            <4> QED BY <3>2, <4>1 DEF LastAccess
        <3>4. i \in 1 .. n
            <4>1. CASE i \in (n + 1) .. (n + m)
                <5>1. longer[i].stack_pointer = d - (i - n)
                      /\ longer[j].stack_pointer = d - (j - n)
                    BY <2>1, <4>1
                <5>2. d - (i - n) = d - (j - n) /\ i < j
                    BY <2>3, <5>1
                <5> QED BY ONLY <5>2, <1>2, n \in Nat, m \in Nat, i \in 1 .. (n + m),
                                j \in (n + 1) .. (n + m)
            <4> QED BY <4>1
        <3>5. ~(i > l)
            BY <2>3, <3>1, <3>3, <3>4
        <3>6. ~(i < l)
            BY <2>3, <3>1, <3>3
        <3> QED BY <3>1, <3>3, <3>4, <3>5, <3>6
    <2>4. ASSUME NEW q \in r .. (e - 1)
          PROVE  \E i \in 1 .. (n + m) : LastAccess(n + m, longer, i, q, t[q - r + 1])
        <3>1. ASSUME NEW k \in (n + 1) .. (n + m) PROVE longer[k].stack_pointer # q
            <4>1. longer[k].stack_pointer \in Int /\ longer[k].stack_pointer >= e
                BY <2>1
            <4> QED BY ONLY <1>2, <4>1, q \in r .. (e - 1)
        <3>2. q \in r .. (d - 1) /\ q < e
            BY <1>2, <1>9
        <3> QED BY <1>7, <3>1, <3>2
    <2>5. /\ CoherentUnderflow(n + m, longer)
          /\ \A i \in 1 .. (n + m) : longer[i].clk < clk + 1
        <3>1. BatchCoheres(n, m, longer, clk)
            <4>1. ASSUME NEW k \in (n + 1) .. (n + m)
                  PROVE  /\ longer[k].clk = clk /\ longer[k].stack_pointer \in Int
                         /\ longer[k].stack_pointer >= r /\ longer[k].shrink_stack \in {0, 1}
                         /\ DOMAIN longer[k] = {"clk", "shrink_stack", "stack_pointer",
                                                "first_underflow_element"}
                BY <2>1
            <4> QED BY <1>1, <2>2, <2>3, <4>1 DEF BatchCoheres
        <3> QED BY <1>4, <3>1, LongerUnderflow
    <2> QED BY <1>1, <1>2, <2>4, <2>5 DEF UnderflowHolds
<1> QED BY <1>1, <1>2, <1>8, <1>9 DEF UnderflowMoves

(***************************************************************************)
(* The invariant: what the accesses recorded so far left in underflow      *)
(* memory is what the op stack has below its registers.                    *)
(***************************************************************************)
UnderflowInv ==
    /\ VMTypeOK
    /\ Succeeds =>
           /\ IsSequence(op_stack_underflow_trace)
           /\ UnderflowHolds(Len(op_stack_underflow_trace), op_stack_underflow_trace,
                             cycle_count, op_stack)

\* A step that succeeds records its accesses behind the earlier ones.
LEMMA UnderflowStep ==
    ASSUME UnderflowInv, VMTypeOK', TraceNext, error' = NoError
    PROVE  UnderflowInv'
<1>1. StepCompletes /\ VMTypeOK /\ Step
    BY SuccessfulStep DEF TraceNext, UnderflowInv
<1>2. /\ IsSequence(op_stack_underflow_trace)
      /\ UnderflowHolds(Len(op_stack_underflow_trace), op_stack_underflow_trace,
                        cycle_count, op_stack)
    BY <1>1 DEF UnderflowInv, StepCompletes, Succeeds
<1>3. PICK trace, longer, clk, s, t, batch :
          /\ trace = op_stack_underflow_trace /\ longer = op_stack_underflow_trace'
          /\ clk = cycle_count /\ s = op_stack /\ t = op_stack'
          /\ batch = FromUnderflowIoSequence(cycle_count, Len(op_stack'), underflow_io')
    OBVIOUS
<1>4. clk \in Nat /\ cycle_count' = clk + 1
    BY <1>1, <1>3 DEF StepCompletes, VMTypeOK
<1>5. UnderflowMoves(clk, NumRegisters, s, t, batch) /\ IsSequence(batch)
    BY <1>1, <1>3, StepMovesUnderflow DEF UnderflowMoves
<1>6. /\ Len(s) \in Nat /\ Len(t) \in Nat
      /\ Len(s) >= NumRegisters /\ Len(t) >= NumRegisters
    <2>1. /\ op_stack \in Seq(Field) /\ Len(op_stack) >= NumRegisters
          /\ op_stack' \in Seq(Field) /\ Len(op_stack') >= NumRegisters
        BY <1>1 DEF VMTypeOK
    <2> QED BY <1>3, <2>1
<1>7. longer = trace \o batch
    BY <1>3 DEF TraceNext, RecordCoProcessorCalls
<1>8. /\ IsSequence(longer) /\ Len(longer) = Len(trace) + Len(batch)
      /\ \A k \in 1 .. Len(trace) : longer[k] = trace[k]
      /\ \A k \in 1 .. Len(batch) : longer[Len(trace) + k] = batch[k]
    BY <1>2, <1>3, <1>5, <1>7, ConcatenatedSequence
<1>9. PICK n \in Nat, m \in Nat : n = Len(trace) /\ m = Len(batch)
    BY <1>2, <1>3, <1>5 DEF IsSequence
<1>10. UnderflowHolds(n + m, longer, clk + 1, t)
    <2>1. UnderflowHolds(n, trace, clk, s)
        BY <1>2, <1>3, <1>9
    <2> QED BY <1>4, <1>5, <1>6, <1>8, <1>9, <2>1, UnderflowKept
<1> QED BY <1>3, <1>4, <1>8, <1>9, <1>10 DEF UnderflowInv

\* The invariant holds in every execution.
LEMMA UnderflowInvariance == TraceSpec => []UnderflowInv
<1>1. TraceInit => UnderflowInv
    <2> SUFFICES ASSUME TraceInit PROVE UnderflowInv
        OBVIOUS
    <2>1. VMTypeOK
        BY InitTypes DEF TraceInit
    <2>2. IsSequence(op_stack_underflow_trace) /\ Len(op_stack_underflow_trace) = 0
        BY EmptySequence DEF TraceInit
    <2>3. Len(op_stack) = NumRegisters
        <3>1. PICK s : s = op_stack
            OBVIOUS
        <3>2. DOMAIN s = 1 .. NumRegisters
            BY <3>1 DEF TraceInit, Init
        <3>3. IsSequence(s)
            BY <2>1, <3>1, SeqIsSequence DEF VMTypeOK
        <3> QED BY <3>1, <3>2, <3>3, RegisterAssumption DEF IsSequence
    <2>4. UnderflowHolds(0, op_stack_underflow_trace, cycle_count, op_stack)
        BY <2>3, RegisterAssumption DEF UnderflowHolds, CoherentUnderflow
    <2> QED BY <2>1, <2>2, <2>4 DEF UnderflowInv
<1>2. UnderflowInv /\ [TraceNext]_traceVars => UnderflowInv'
    <2> SUFFICES ASSUME UnderflowInv, [TraceNext]_traceVars PROVE UnderflowInv'
        OBVIOUS
    <2>1. CASE UNCHANGED traceVars
        <3>1. UNCHANGED <<vmVars, op_stack_underflow_trace>>
            BY <2>1 DEF traceVars, aet
        <3>2. VMTypeOK'
            BY <3>1 DEF UnderflowInv, VMTypeOK, vmVars
        <3>3. UNCHANGED <<error, op_stack, cycle_count, op_stack_underflow_trace>>
            BY <3>1 DEF vmVars
        <3> QED BY <3>2, <3>3 DEF UnderflowInv, Succeeds, IsSequence
    <2>2. CASE TraceNext
        <3>1. VMTypeOK'
            BY <2>2, NextTypes DEF UnderflowInv, TraceNext, VMNext, StepIsTyped
        <3>2. CASE error' = NoError
            BY <2>2, <3>1, <3>2, UnderflowStep
        <3>3. CASE error' # NoError
            BY <3>1, <3>3 DEF UnderflowInv, Succeeds
        <3> QED BY <3>2, <3>3
    <2> QED BY <2>1, <2>2
<1> QED BY <1>1, <1>2, PTL DEF TraceSpec
------------------------------------------------------------------------------
(* The jump stack table. *)

(***************************************************************************)
(* The padded jump stack table: the rows sorted by depth up to the last    *)
(* cycle's, then m rows of padding, then the others.                       *)
(***************************************************************************)
PaddedAround(n, m, l, order, table) ==
    /\ l \in 1 .. n /\ order[l] = n
    /\ IsSequence(table) /\ Len(table) = n + m
    /\ \A k \in 1 .. l : table[k] = JumpStackRow(processor_trace[order[k]])
    /\ \A k \in 1 .. m :
           table[l + k] = [JumpStackRow(processor_trace[n]) EXCEPT !.clk = n + k - 1]
    /\ \A k \in 1 .. (n - l) :
           table[(l + m) + k] = JumpStackRow(processor_trace[order[l + k]])

\* The order of the rows of the jump stack table.
ByDepth(order, n) ==
    SortedOrder(order, n, [i \in 1 .. n |-> processor_trace[i].jsp], [i \in 1 .. n |-> 0])

\* The padded jump stack table is one.
LEMMA JumpStackTablePadded ==
    ASSUME NEW n \in Nat \ {0}, IsSequence(processor_trace), Len(processor_trace) = n,
           \A k \in 1 .. n : processor_trace[k].clk = k - 1 /\ processor_trace[k].jsp \in Int,
           NEW m \in Nat
    PROVE  \E order : \E l \in 1 .. n :
               /\ ByDepth(order, n)
               /\ FilledJumpStackTable = [k \in 1 .. n |-> JumpStackRow(processor_trace[order[k]])]
               /\ PaddedAround(n, m, l, order, PaddedJumpStackTable(n + m))
<1> DEFINE rows == FilledJumpStackTable
           row(k) == JumpStackRow(processor_trace[k])
<1>1. DOMAIN processor_trace = 1 .. n
    BY DEF IsSequence
<1>2. PICK order : ByDepth(order, n) /\ rows = [k \in 1 .. n |-> row(order[k])]
    <2>1. AreNumbers(n, [i \in 1 .. n |-> processor_trace[i].jsp])
        BY DEF AreNumbers
    <2> QED BY <1>1, <2>1, JumpStackTableSorted DEF ByDepth
<1>3. \A k \in 1 .. n : row(k).clk = k - 1
    BY DEF JumpStackRow
<1>0. Permutes1To(order, n)
    BY <1>2 DEF ByDepth, SortedOrder
<1>4. \A k \in 1 .. n : order[k] \in 1 .. n /\ rows[k] = row(order[k])
    BY <1>0, <1>2 DEF Permutes1To
<1>5. IsSequence(rows) /\ Len(rows) = n /\ DOMAIN rows = 1 .. n
    <2>1. rows = [k \in 1 .. n |-> rows[k]]
        BY <1>2
    <2> HIDE DEF rows
    <2>2. IsSequence(rows) /\ Len(rows) = n
        BY ONLY <2>1, n \in Nat, IndexedSequence
    <2> QED BY <2>1, <2>2
<1> HIDE DEF rows, row
<1>6. PICK l \in 1 .. n : l = LastClockRow(rows) /\ order[l] = n
    <2>1. PICK k \in 1 .. n : order[k] = n
        BY <1>0 DEF Permutes1To
    <2>2. k \in DOMAIN rows /\ rows[k].clk = Len(rows) - 1
        BY <1>3, <1>4, <1>5, <2>1
    <2>3. /\ LastClockRow(rows) \in 1 .. n
          /\ rows[LastClockRow(rows)].clk = n - 1
        BY <1>5, <2>2 DEF LastClockRow
    <2>4. order[LastClockRow(rows)] - 1 = n - 1
        BY <1>3, <1>4, <2>3
    <2>5. order[LastClockRow(rows)] \in 1 .. n
        BY <1>4, <2>3
    <2> QED BY <2>3, <2>4, <2>5
<1> DEFINE padding == [k \in 1 .. m |-> [rows[l] EXCEPT !.clk = n + k - 1]]
           upper == SubSeq(rows, 1, l)
           lower == SubSeq(rows, l + 1, n)
           t == (upper \o padding) \o lower
<1>8. PaddedJumpStackTable(n + m) = t
    <2>1. (n + m) - n = m
        OBVIOUS
    <2> QED BY <1>5, <1>6, <2>1 DEF PaddedJumpStackTable, rows
<1>11. \A k \in 1 .. m : padding[k] = [row(n) EXCEPT !.clk = n + k - 1]
    <2>1. rows[l] = row(n)
        BY <1>4, <1>6
    <2> QED BY <2>1
<1>12. /\ IsSequence(padding) /\ Len(padding) = m
    <2>1. padding = [k \in 1 .. m |-> padding[k]]
        OBVIOUS
    <2> HIDE DEF padding
    <2> QED BY <2>1, IndexedSequence
<1>13. /\ IsSequence(upper) /\ Len(upper) = l
       /\ \A k \in 1 .. l : upper[k] = rows[k]
    <2>1. IsSequence(rows) /\ 1 \in 1 .. (Len(rows) + 1) /\ l \in (1 - 1) .. Len(rows)
        BY <1>5
    <2>2. /\ IsSequence(SubSeq(rows, 1, l)) /\ Len(SubSeq(rows, 1, l)) = l - 1 + 1
          /\ \A i \in 1 .. (l - 1 + 1) : SubSeq(rows, 1, l)[i] = rows[1 + i - 1]
        BY ONLY <2>1, SubSequence
    <2>3. l - 1 + 1 = l /\ \A i \in 1 .. l : 1 + i - 1 = i
        OBVIOUS
    <2> QED BY <2>2, <2>3
<1>14. /\ IsSequence(lower) /\ Len(lower) = n - l
       /\ \A k \in 1 .. (n - l) : lower[k] = rows[l + k]
    <2>1. IsSequence(rows) /\ l + 1 \in 1 .. (Len(rows) + 1) /\ n \in ((l + 1) - 1) .. Len(rows)
        BY <1>5
    <2>2. /\ IsSequence(SubSeq(rows, l + 1, n)) /\ Len(SubSeq(rows, l + 1, n)) = n - (l + 1) + 1
          /\ \A i \in 1 .. (n - (l + 1) + 1) : SubSeq(rows, l + 1, n)[i] = rows[(l + 1) + i - 1]
        BY ONLY <2>1, SubSequence
    <2>3. n - (l + 1) + 1 = n - l /\ \A i \in 1 .. (n - l) : (l + 1) + i - 1 = l + i
        OBVIOUS
    <2> QED BY <2>2, <2>3
<1> HIDE DEF padding, upper, lower
<1>15. PICK q : q = upper \o padding
    OBVIOUS
<1>16. /\ IsSequence(q) /\ Len(q) = l + m
       /\ \A k \in 1 .. l : q[k] = upper[k]
       /\ \A k \in 1 .. m : q[l + k] = padding[k]
    <2>1. /\ IsSequence(upper \o padding) /\ Len(upper \o padding) = Len(upper) + Len(padding)
          /\ \A i \in 1 .. Len(upper) : (upper \o padding)[i] = upper[i]
          /\ \A i \in 1 .. Len(padding) : (upper \o padding)[Len(upper) + i] = padding[i]
        BY ONLY <1>12, <1>13, ConcatenatedSequence
    <2> QED BY <1>12, <1>13, <1>15, <2>1
<1>17. /\ IsSequence(t) /\ Len(t) = n + m
       /\ \A k \in 1 .. (l + m) : t[k] = q[k]
       /\ \A k \in 1 .. (n - l) : t[(l + m) + k] = lower[k]
    <2>0. IsSequence(q) /\ IsSequence(lower)
        BY <1>14, <1>16
    <2>1. /\ IsSequence(q \o lower) /\ Len(q \o lower) = Len(q) + Len(lower)
          /\ \A i \in 1 .. Len(q) : (q \o lower)[i] = q[i]
          /\ \A i \in 1 .. Len(lower) : (q \o lower)[Len(q) + i] = lower[i]
        BY ONLY <2>0, ConcatenatedSequence
    <2>2. (l + m) + (n - l) = n + m
        OBVIOUS
    <2> QED BY <1>14, <1>15, <1>16, <2>1, <2>2
<1> HIDE DEF t
<1>18. ASSUME NEW k \in 1 .. l PROVE t[k] = row(order[k])
    <2>1. k \in 1 .. (l + m) /\ k \in 1 .. n
        OBVIOUS
    <2>2. t[k] = rows[k]
        BY <1>13, <1>16, <1>17, <2>1
    <2> QED BY <1>4, <2>1, <2>2
<1>19. ASSUME NEW k \in 1 .. m PROVE t[l + k] = [row(n) EXCEPT !.clk = n + k - 1]
    <2>1. l + k \in 1 .. (l + m)
        OBVIOUS
    <2>2. t[l + k] = q[l + k]
        BY <1>17, <2>1
    <2>3. q[l + k] = padding[k]
        BY <1>16
    <2>4. padding[k] = [row(n) EXCEPT !.clk = n + k - 1]
        BY <1>11
    <2> QED BY <2>2, <2>3, <2>4
<1>20. ASSUME NEW k \in 1 .. (n - l) PROVE t[(l + m) + k] = row(order[l + k])
    <2>1. l + k \in 1 .. n
        OBVIOUS
    <2>2. t[(l + m) + k] = rows[l + k]
        BY <1>14, <1>17
    <2> QED BY <1>4, <2>1, <2>2
<1>21. PaddedAround(n, m, l, order, t)
    BY <1>6, <1>17, <1>18, <1>19, <1>20 DEF PaddedAround, row
<1>22. FilledJumpStackTable = [k \in 1 .. n |-> JumpStackRow(processor_trace[order[k]])]
    BY <1>2 DEF rows, row
<1> QED BY <1>2, <1>8, <1>21, <1>22

(***************************************************************************)
(* The frames of the jump stack: every depth is reached step by step, and  *)
(* between two visits of one depth the frame changes only if a return is   *)
(* the last instruction of the first visit.                                *)
(***************************************************************************)
CanReturn(row) == row.ci \in {Opcode["return"], Opcode["recurse_or_return"]}
SameFrame(row, next) == next.jso = row.jso /\ next.jsd = row.jsd

CoherentFrames(n, trace) ==
    /\ trace[1].jsp = 0 /\ trace[1].jso = 0 /\ trace[1].jsd = 0
    /\ \A i \in 1 .. n : trace[i].clk = i - 1 /\ trace[i].jsp \in Nat
    /\ \A i \in 1 .. n : trace[i].jsp > 0 => \E j \in 1 .. n : trace[j].jsp = trace[i].jsp - 1
    /\ \A i \in 1 .. (n - 1) :
           \/ trace[i + 1].jsp = trace[i].jsp
           \/ CanReturn(trace[i]) \/ trace[i].ci = Opcode["call"]
    /\ \A i, j \in 1 .. n :
           i < j /\ trace[i].jsp = trace[j].jsp
           /\ (\A k \in (i + 1) .. (j - 1) : trace[k].jsp # trace[i].jsp)
           => CanReturn(trace[i]) \/ SameFrame(trace[i], trace[j])

\* Neighbouring rows are of one depth or of one and the next.
LEMMA FrameNeighbours ==
    ASSUME NEW n \in Nat, NEW trace, CoherentFrames(n, trace), NEW i, NEW j,
           Neighbours(n, [k \in 1 .. n |-> trace[k].jsp], [k \in 1 .. n |-> 0], i, j)
    PROVE  /\ JumpStackTransition(JumpStackRow(trace[i]), JumpStackRow(trace[j]))
           /\ trace[j].jsp = trace[i].jsp => i < j
<1> DEFINE major == [k \in 1 .. n |-> trace[k].jsp]
           minor == [k \in 1 .. n |-> 0]
<1>1. /\ i \in 1 .. n /\ j \in 1 .. n /\ Earlier(major, minor, i, j)
      /\ \A x \in 1 .. n :
             x = i \/ x = j \/ Earlier(major, minor, x, i) \/ Earlier(major, minor, j, x)
    BY DEF Neighbours
<1>2. \A k \in 1 .. n : /\ major[k] = trace[k].jsp /\ minor[k] = 0 /\ major[k] \in Nat
    BY DEF CoherentFrames
<1> HIDE DEF major, minor
<1>3. \A k, l \in 1 .. n : Earlier(major, minor, k, l) <=>
          major[k] < major[l] \/ (major[k] = major[l] /\ k < l)
    BY <1>2 DEF Earlier, Lower
<1>4. /\ JumpStackRow(trace[i]).jsp = major[i] /\ JumpStackRow(trace[j]).jsp = major[j]
      /\ JumpStackRow(trace[i]).ci = trace[i].ci
      /\ JumpStackRow(trace[i]).jso = trace[i].jso /\ JumpStackRow(trace[i]).jsd = trace[i].jsd
      /\ JumpStackRow(trace[j]).jso = trace[j].jso /\ JumpStackRow(trace[j]).jsd = trace[j].jsd
      /\ JumpStackRow(trace[i]).clk = trace[i].clk /\ JumpStackRow(trace[j]).clk = trace[j].clk
    BY <1>1, <1>2 DEF JumpStackRow
<1>5. CASE major[i] = major[j]
    <2>1. i < j
        BY <1>1, <1>2, <1>3, <1>5
    <2>2. ASSUME NEW k \in (i + 1) .. (j - 1), major[k] = major[i] PROVE FALSE
        <3>1. k \in 1 .. n /\ k # i /\ k # j /\ ~(k < i) /\ ~(j < k)
            BY <1>1, <2>1
        <3> QED BY <1>1, <1>2, <1>3, <1>5, <2>2, <3>1
    <2>3. \A k \in (i + 1) .. (j - 1) : trace[k].jsp # trace[i].jsp
        <3>1. \A k \in (i + 1) .. (j - 1) : k \in 1 .. n
            BY <1>1
        <3> QED BY <1>1, <1>2, <2>2, <3>1
    <2>4. CanReturn(trace[i]) \/ SameFrame(trace[i], trace[j])
        BY <1>1, <1>2, <1>5, <2>1, <2>3 DEF CoherentFrames
    <2>5. CanReturn(trace[i]) \/ trace[i].ci = Opcode["call"] \/ trace[j].clk = trace[i].clk + 1
        <3>1. CASE j = i + 1
            BY <1>1, <3>1 DEF CoherentFrames
        <3>2. CASE j # i + 1
            <4>1. i \in 1 .. (n - 1) /\ i + 1 \in (i + 1) .. (j - 1)
                BY <1>1, <2>1, <3>2
            <4> QED BY <2>3, <4>1 DEF CoherentFrames
        <3> QED BY <3>1, <3>2
    <2>6. trace[j].jsp = trace[i].jsp
        BY <1>1, <1>2, <1>5
    <2> QED BY <1>1, <1>4, <1>5, <2>1, <2>4, <2>5, <2>6
           DEF JumpStackTransition, CanReturn, SameFrame
<1>6. CASE major[i] # major[j]
    <2>1. major[i] < major[j]
        BY <1>1, <1>3, <1>6
    <2>2. major[j] = major[i] + 1
        <3>1. SUFFICES ASSUME major[j] > major[i] + 1 PROVE FALSE
            BY <1>1, <1>2, <2>1
        <3>2. major[j] > 0
            BY <1>1, <1>2, <2>1
        <3>3. PICK x \in 1 .. n : major[x] = major[j] - 1
            <4>1. \A k \in 1 .. n : trace[k].jsp > 0 =>
                      \E x \in 1 .. n : trace[x].jsp = trace[k].jsp - 1
                BY DEF CoherentFrames
            <4>2. j \in 1 .. n /\ trace[j].jsp > 0
                BY <1>1, <1>2, <3>2
            <4>3. PICK x \in 1 .. n : trace[x].jsp = trace[j].jsp - 1
                BY ONLY <4>1, <4>2
            <4> QED BY <1>2, <4>2, <4>3
        <3>4. ~Earlier(major, minor, x, i) /\ ~Earlier(major, minor, j, x)
            BY <1>1, <1>2, <1>3, <3>1, <3>3
        <3>5. x # i /\ x # j
            BY <1>1, <1>2, <3>1, <3>3
        <3> QED BY <1>1, <3>4, <3>5
    <2> QED BY <1>1, <1>2, <1>4, <1>6, <2>2 DEF JumpStackTransition
<1> QED BY <1>5, <1>6

\* The jump stack table satisfies its constraints, at every height.
LEMMA JumpStackTableIsConsistent ==
    ASSUME NEW n \in Nat \ {0}, IsSequence(processor_trace), Len(processor_trace) = n,
           CoherentFrames(n, processor_trace), NEW h \in Nat, n <= h
    PROVE  /\ JumpStackFirstRow(PaddedJumpStackTable(h)[1])
           /\ \A pair \in ConsecutiveRows(PaddedJumpStackTable(h)) :
                  JumpStackTransition(pair[1], pair[2])
<1> DEFINE major == [i \in 1 .. n |-> processor_trace[i].jsp]
           minor == [i \in 1 .. n |-> 0]
           row(i) == JumpStackRow(processor_trace[i])
<1>1. PICK m \in Nat : m = h - n /\ h = n + m
    OBVIOUS
<1>2. PICK table : table = PaddedJumpStackTable(n + m)
    OBVIOUS
<1>3. PICK order, l : l \in 1 .. n /\ ByDepth(order, n) /\ PaddedAround(n, m, l, order, table)
    <2>1. \A k \in 1 .. n : processor_trace[k].clk = k - 1 /\ processor_trace[k].jsp \in Int
        BY DEF CoherentFrames
    <2> QED BY <1>2, <2>1, JumpStackTablePadded
<1>4. SortedOrder(order, n, major, minor)
    BY <1>3 DEF ByDepth
<1>5. /\ order[l] = n /\ Len(table) = n + m
      /\ \A k \in 1 .. l : table[k] = row(order[k])
      /\ \A k \in 1 .. m : table[l + k] = [row(n) EXCEPT !.clk = n + k - 1]
      /\ \A k \in 1 .. (n - l) : table[(l + m) + k] = row(order[l + k])
    BY <1>3 DEF PaddedAround
<1>6. \A k \in 1 .. n : order[k] \in 1 .. n
    BY <1>4 DEF SortedOrder, Permutes1To
<1>7. ASSUME NEW k \in 1 .. (n - 1)
      PROVE  /\ JumpStackTransition(row(order[k]), row(order[k + 1]))
             /\ processor_trace[order[k + 1]].jsp = processor_trace[order[k]].jsp
                    => order[k] < order[k + 1]
    <2>1. Neighbours(n, major, minor, order[k], order[k + 1])
        <3> HIDE DEF major, minor
        <3> QED BY <1>4, SortedNeighbours
    <2> QED BY <2>1, FrameNeighbours
<1>8. \A k \in 1 .. m : /\ table[l + k].clk = n + k - 1 /\ table[l + k].ci = row(n).ci
                        /\ table[l + k].jsp = row(n).jsp /\ table[l + k].jso = row(n).jso
                        /\ table[l + k].jsd = row(n).jsd
    BY <1>5 DEF JumpStackRow
<1>9. row(n).clk = n - 1 /\ row(n).jsp \in Nat
    BY DEF JumpStackRow, CoherentFrames
<1>10. JumpStackFirstRow(table[1])
    <2>1. PICK i \in 1 .. n : /\ i = order[1]
                              /\ \A x \in 1 .. n : x = i \/ Earlier(major, minor, i, x)
        <3> HIDE DEF major, minor
        <3> QED BY <1>4, SortedFirst
    <2>2. i = 1
        <3>1. \A x \in 1 .. n : major[x] \in Nat /\ minor[x] = 0
            BY DEF CoherentFrames
        <3>2. major[1] = 0
            BY DEF CoherentFrames
        <3> HIDE DEF major, minor
        <3>3. 1 = i \/ Earlier(major, minor, i, 1)
            BY <2>1
        <3> QED BY <3>1, <3>2, <3>3 DEF Earlier, Lower
    <2>3. table[1] = row(1)
        <3>1. 1 \in 1 .. l
            BY <1>3
        <3> QED BY <1>5, <2>1, <2>2, <3>1
    <2> QED BY <2>3 DEF JumpStackFirstRow, JumpStackRow, CoherentFrames
<1>11. \A k \in 1 .. (n - l) : /\ table[(l + m) + k] = row(order[l + k])
                               /\ order[l + k] \in 1 .. n
    <2>1. \A k \in 1 .. (n - l) : l + k \in 1 .. n
        BY <1>3
    <2> HIDE DEF row
    <2> QED BY <1>5, <1>6, <2>1
\* The row behind the last cycle's is one deeper.
<1>12. l < n => row(order[l + 1]).jsp = row(n).jsp + 1
    <2> SUFFICES ASSUME l < n PROVE row(order[l + 1]).jsp = row(n).jsp + 1
        OBVIOUS
    <2>1. l \in 1 .. (n - 1) /\ l + 1 \in 1 .. n
        BY <1>3
    <2>2. order[l + 1] \in 1 .. n /\ ~(order[l] < order[l + 1])
        BY <1>5, <1>6, <2>1
    <2>3. processor_trace[order[l + 1]].jsp # processor_trace[n].jsp
        BY <1>5, <1>7, <2>1, <2>2
    <2>4. JumpStackTransition(row(n), row(order[l + 1]))
        BY <1>5, <1>7, <2>1
    <2> QED BY <2>3, <2>4 DEF JumpStackTransition, JumpStackRow
<1> HIDE DEF row, major, minor
<1>13. ASSUME NEW k \in 1 .. (n + m - 1)
       PROVE  JumpStackTransition(table[k], table[k + 1])
    <2>1. CASE k + 1 <= l
        <3>1. k \in 1 .. (n - 1) /\ k \in 1 .. l /\ k + 1 \in 1 .. l
            BY <1>3, <2>1
        <3> QED BY <1>5, <1>7, <3>1
    <2>2. CASE k = l /\ m > 0
        <3>1. 1 \in 1 .. m /\ l \in 1 .. l /\ n + 1 - 1 = (n - 1) + 1
            BY <1>3, <2>2
        <3>2. table[k] = row(n)
            BY <1>5, <2>2, <3>1
        <3>3. /\ table[k + 1].clk = n + 1 - 1
              /\ table[k + 1].jsp = row(n).jsp /\ table[k + 1].jso = row(n).jso
              /\ table[k + 1].jsd = row(n).jsd
            BY <1>8, <2>2, <3>1
        <3> QED BY <1>9, <3>1, <3>2, <3>3 DEF JumpStackTransition
    <2>3. CASE k > l /\ k + 1 <= l + m
        <3>1. PICK i \in 1 .. m : i = k - l /\ l + i = k
            BY <1>3, <2>3
        <3>2. i + 1 \in 1 .. m /\ l + (i + 1) = k + 1 /\ n + (i + 1) - 1 = (n + i - 1) + 1
            BY <1>3, <2>3, <3>1
        <3>3. /\ table[k].clk = n + i - 1 /\ table[k].jsp = row(n).jsp
              /\ table[k].jso = row(n).jso /\ table[k].jsd = row(n).jsd
            BY <1>8, <3>1
        <3>4. /\ table[k + 1].clk = n + (i + 1) - 1 /\ table[k + 1].jsp = row(n).jsp
              /\ table[k + 1].jso = row(n).jso /\ table[k + 1].jsd = row(n).jsd
            BY <1>8, <3>2
        <3> QED BY <1>9, <3>2, <3>3, <3>4 DEF JumpStackTransition
    <2>4. CASE k = l + m
        <3>1. l < n /\ 1 \in 1 .. (n - l)
            BY <1>3, <2>4
        <3>2. table[k + 1].jsp = row(n).jsp + 1
            BY <1>11, <1>12, <2>4, <3>1
        <3>3. table[k].jsp = row(n).jsp
            <4>1. CASE m = 0
                <5>1. k = l /\ l \in 1 .. l
                    BY <1>3, <2>4, <4>1
                <5> QED BY <1>5, <5>1
            <4>2. CASE m > 0
                <5>1. m \in 1 .. m
                    BY <4>2
                <5> QED BY <1>8, <2>4, <5>1
            <4> QED BY <4>1, <4>2
        <3> QED BY <1>9, <3>2, <3>3 DEF JumpStackTransition
    <2>5. CASE k > l + m
        <3>1. PICK i \in 1 .. (n - l) : i = k - (l + m) /\ (l + m) + i = k
            BY <1>3, <2>5
        <3>2. i + 1 \in 1 .. (n - l) /\ (l + m) + (i + 1) = k + 1
            BY <1>3, <2>5, <3>1
        <3>3. PICK j \in 1 .. (n - 1) : j = l + i /\ j + 1 = l + (i + 1)
            BY <1>3, <3>1, <3>2
        <3> QED BY <1>5, <1>7, <3>1, <3>2, <3>3
    <2> QED BY <1>3, <2>1, <2>2, <2>3, <2>4, <2>5
<1>14. ASSUME NEW pair \in ConsecutiveRows(table)
       PROVE  JumpStackTransition(pair[1], pair[2])
    <2>1. PICK k \in 1 .. (Len(table) - 1) : pair = <<table[k], table[k + 1]>>
        BY DEF ConsecutiveRows
    <2> QED BY <1>5, <1>13, <2>1
<1> QED BY <1>1, <1>2, <1>10, <1>14

\* `s` ends with m rows of padding; `t` has its other rows in some order, and the padding
\* behind the l-th.
PaddedInTheMiddle(n, m, l, order, s, t) ==
    /\ IsSequence(s) /\ Len(s) = n + m /\ IsSequence(t) /\ Len(t) = n + m
    /\ \A k \in 1 .. l : t[k] = s[order[k]]
    /\ \A k \in 1 .. m : t[l + k] = s[n + k]
    /\ \A k \in 1 .. (n - l) : t[(l + m) + k] = s[order[l + k]]

\* Where the padding is does not matter.
LEMMA RearrangedAroundPadding ==
    ASSUME NEW n \in Nat, NEW m \in Nat, NEW l \in 1 .. n, NEW order, Permutes1To(order, n),
           NEW s, NEW t, PaddedInTheMiddle(n, m, l, order, s, t)
    PROVE  Rearranged(s, t)
<1> DEFINE p == [k \in 1 .. (n + m) |->
                    IF k <= l THEN order[k] ELSE IF k <= l + m THEN n + (k - l) ELSE order[k - m]]
<1>1. \A k \in 1 .. n : order[k] \in 1 .. n
    BY DEF Permutes1To
<1>2. ASSUME NEW k \in 1 .. (n + m)
      PROVE  \/ k \in 1 .. l /\ p[k] = order[k]
             \/ k - l \in 1 .. m /\ l + (k - l) = k /\ p[k] = n + (k - l)
             \/ /\ k - m \in (l + 1) .. n /\ p[k] = order[k - m]
                /\ k - m - l \in 1 .. (n - l) /\ (l + m) + (k - m - l) = k
                /\ l + (k - m - l) = k - m
    <2>1. CASE k <= l
        BY <2>1
    <2>2. CASE k > l /\ k <= l + m
        BY <2>2
    <2>3. CASE k > l + m
        <3>1. p[k] = order[k - m]
            BY <2>3
        <3> QED BY <2>3, <3>1
    <2> QED BY <2>1, <2>2, <2>3
<1>3. p = [k \in 1 .. (n + m) |-> p[k]]
    OBVIOUS
<1>4. /\ \A k \in 1 .. l : p[k] = order[k]
      /\ \A k \in 1 .. m : p[l + k] = n + k
      /\ \A k \in (l + 1) .. n : p[k + m] = order[k]
    <2>1. ASSUME NEW k \in 1 .. l PROVE p[k] = order[k]
        BY <2>1
    <2>2. ASSUME NEW k \in 1 .. m PROVE p[l + k] = n + k
        <3>1. l + k \in 1 .. (n + m) /\ ~(l + k <= l) /\ l + k <= l + m /\ n + ((l + k) - l) = n + k
            OBVIOUS
        <3> QED BY <3>1
    <2>3. ASSUME NEW k \in (l + 1) .. n PROVE p[k + m] = order[k]
        <3>1. k + m \in 1 .. (n + m) /\ ~(k + m <= l) /\ ~(k + m <= l + m) /\ (k + m) - m = k
            OBVIOUS
        <3> QED BY <3>1
    <2> QED BY <2>1, <2>2, <2>3
<1> HIDE DEF p
<1>5. ASSUME NEW k \in 1 .. (n + m)
      PROVE  p[k] \in 1 .. (n + m) /\ t[k] = s[p[k]]
    <2>1. CASE k \in 1 .. l /\ p[k] = order[k]
        BY <1>1, <2>1 DEF PaddedInTheMiddle
    <2>2. CASE k - l \in 1 .. m /\ l + (k - l) = k /\ p[k] = n + (k - l)
        <3>1. PICK j \in 1 .. m : j = k - l /\ l + j = k
            BY <2>2
        <3>2. t[l + j] = s[n + j]
            BY DEF PaddedInTheMiddle
        <3> QED BY <2>2, <3>1, <3>2
    <2>3. CASE /\ k - m \in (l + 1) .. n /\ p[k] = order[k - m]
               /\ k - m - l \in 1 .. (n - l) /\ (l + m) + (k - m - l) = k
               /\ l + (k - m - l) = k - m
        <3>1. PICK j \in 1 .. (n - l) : j = k - m - l
            BY <2>3
        <3>2. t[(l + m) + j] = s[order[l + j]]
            BY DEF PaddedInTheMiddle
        <3>3. (l + m) + j = k /\ l + j = k - m /\ l + j \in 1 .. n
            BY <2>3, <3>1
        <3>4. PICK i \in 1 .. n : i = order[l + j]
            BY <1>1, <3>3
        <3>5. p[k] = i /\ t[k] = s[i]
            BY <2>3, <3>2, <3>3, <3>4
        <3> QED BY <3>5
    <2> QED BY <1>2, <2>1, <2>2, <2>3
<1>6. p \in [1 .. (n + m) -> 1 .. (n + m)]
    BY <1>3, <1>5
<1>7. \A j \in 1 .. (n + m) : \E k \in 1 .. (n + m) : p[k] = j
    <2> SUFFICES ASSUME NEW j \in 1 .. (n + m) PROVE \E k \in 1 .. (n + m) : p[k] = j
        OBVIOUS
    <2>1. CASE j > n
        <3>1. j - n \in 1 .. m /\ n + (j - n) = j /\ l + (j - n) \in 1 .. (n + m)
            BY <2>1
        <3> QED BY <1>4, <3>1
    <2>2. CASE j <= n
        <3>1. PICK k \in 1 .. n : order[k] = j
            BY <2>2 DEF Permutes1To
        <3>2. CASE k <= l
            BY <1>4, <3>1, <3>2
        <3>3. CASE k > l
            <4>1. k \in (l + 1) .. n /\ k + m \in 1 .. (n + m)
                BY <3>3
            <4> QED BY <1>4, <3>1, <4>1
        <3> QED BY <3>2, <3>3
    <2> QED BY <2>1, <2>2
<1>8. \A i, j \in 1 .. (n + m) : p[i] = p[j] => i = j
    <2>1. IsFiniteSet(1 .. (n + m))
        BY FS_Interval
    <2>2. p \in Surjection(1 .. (n + m), 1 .. (n + m))
        BY <1>6, <1>7 DEF Surjection
    <2>3. p \in Injection(1 .. (n + m), 1 .. (n + m))
        BY <2>1, <2>2, FS_Surjection
    <2> QED BY <2>3 DEF Injection, IsInjective
<1>9. Permutes1To(p, n + m)
    BY <1>6, <1>7, <1>8 DEF Permutes1To
<1> QED BY <1>5, <1>9 DEF Rearranged, PaddedInTheMiddle

\* The padded jump stack table has the rows of the padded processor table.
LEMMA PaddedTablesMatch ==
    ASSUME NEW n \in Nat \ {0}, IsSequence(processor_trace), Len(processor_trace) = n,
           \A k \in 1 .. n : processor_trace[k].clk = k - 1 /\ processor_trace[k].jsp \in Int,
           NEW h \in Nat, n <= h
    PROVE  S!ToBag([k \in DOMAIN PaddedProcessorTable(h) |->
                       JumpStackRow(PaddedProcessorTable(h)[k])])
           = S!ToBag(PaddedJumpStackTable(h))
<1> DEFINE row(k) == JumpStackRow(processor_trace[k])
           s == [k \in DOMAIN PaddedProcessorTable(h) |->
                    JumpStackRow(PaddedProcessorTable(h)[k])]
<1>1. PICK m \in Nat : m = h - n /\ h = n + m
    OBVIOUS
<1>2. PICK t : t = PaddedJumpStackTable(n + m)
    OBVIOUS
<1>3. PICK order, l : l \in 1 .. n /\ ByDepth(order, n) /\ PaddedAround(n, m, l, order, t)
    BY <1>2, JumpStackTablePadded
<1>4. /\ IsSequence(t) /\ Len(t) = n + m
      /\ \A k \in 1 .. l : t[k] = row(order[k])
      /\ \A k \in 1 .. m : t[l + k] = [row(n) EXCEPT !.clk = n + k - 1]
      /\ \A k \in 1 .. (n - l) : t[(l + m) + k] = row(order[l + k])
    BY <1>3 DEF PaddedAround
<1>5. Permutes1To(order, n) /\ \A k \in 1 .. n : order[k] \in 1 .. n
    BY <1>3 DEF ByDepth, SortedOrder, Permutes1To
<1>6. IsSequence(s) /\ Len(s) = n + m
    <2>1. s = [k \in 1 .. h |-> s[k]]
        BY DEF PaddedProcessorTable
    <2> HIDE DEF s
    <2> QED BY <1>1, <2>1, IndexedSequence
<1>7. \A k \in 1 .. n : s[k] = row(k)
    <2> SUFFICES ASSUME NEW k \in 1 .. n PROVE s[k] = row(k)
        OBVIOUS
    <2>1. k \in 1 .. h /\ k <= n
        BY <1>1
    <2>2. PICK x : x = PaddedProcessorTable(h)[k]
        OBVIOUS
    <2>3. /\ x.clk = processor_trace[k].clk /\ x.ci = processor_trace[k].ci
          /\ x.jsp = processor_trace[k].jsp /\ x.jso = processor_trace[k].jso
          /\ x.jsd = processor_trace[k].jsd
        BY <2>1, <2>2 DEF PaddedProcessorTable
    <2>4. s[k] = JumpStackRow(x)
        BY <2>1, <2>2 DEF PaddedProcessorTable
    <2> QED BY <2>3, <2>4 DEF JumpStackRow
<1>8. ASSUME NEW k \in 1 .. m PROVE s[n + k] = [row(n) EXCEPT !.clk = n + k - 1]
    <2>1. n + k \in 1 .. h /\ ~(n + k <= n)
        BY <1>1
    <2>2. s[n + k] = [clk |-> n + k - 1, ci |-> processor_trace[n].ci,
                      jsp |-> processor_trace[n].jsp, jso |-> processor_trace[n].jso,
                      jsd |-> processor_trace[n].jsd]
        BY <2>1 DEF PaddedProcessorTable, JumpStackRow
    <2> QED BY <2>2 DEF JumpStackRow
<1> HIDE DEF s, row
<1>9. \A k \in 1 .. l : t[k] = s[order[k]]
    <2>1. \A k \in 1 .. l : k \in 1 .. n
        BY <1>3
    <2> QED BY <1>4, <1>5, <1>7, <2>1
<1>10. \A k \in 1 .. m : t[l + k] = s[n + k]
    BY <1>4, <1>8
<1>11. \A k \in 1 .. (n - l) : t[(l + m) + k] = s[order[l + k]]
    <2>1. \A k \in 1 .. (n - l) : l + k \in 1 .. n
        BY <1>3
    <2> QED BY <1>4, <1>5, <1>7, <2>1
<1>12. Rearranged(s, t)
    <2>1. PaddedInTheMiddle(n, m, l, order, s, t)
        BY <1>4, <1>6, <1>9, <1>10, <1>11 DEF PaddedInTheMiddle
    <2>2. n \in Nat
        OBVIOUS
    <2> QED BY ONLY <1>3, <1>5, <2>1, <2>2, m \in Nat, RearrangedAroundPadding
<1>13. S!ToBag(s) = S!ToBag(t)
    BY <1>12, RearrangedBags
<1> QED BY <1>1, <1>2, <1>13 DEF s
------------------------------------------------------------------------------
(* Powers of two. *)

\* Twice a power of two is one.
LEMMA DoubledPower ==
    ASSUME NEW m \in Nat \ {0}, IsPowerOfTwo(m)
    PROVE  IsPowerOfTwo(2 * m)
<1> SUFFICES ASSUME NEW d \in 1 .. (2 * m), (2 * m) % d = 0, d % 2 = 1
             PROVE  d = 1
    BY DEF IsPowerOfTwo
<1>1. PICK q \in Nat : 2 * m = d * q
    <2>1. PICK x \in Nat \ {0} : x = 2 * m
        OBVIOUS
    <2>2. x = d * (x \div d) + (x % d) /\ x \div d \in Nat
        OBVIOUS
    <2> QED BY <2>1, <2>2
<1>2. PICK e \in Nat : d = 2 * e + 1
    <2>1. d = 2 * (d \div 2) + 1 /\ d \div 2 \in Nat
        OBVIOUS
    <2> QED BY <2>1
<1>3. PICK r \in Int : r = m - e * q
    OBVIOUS
<1>4. q = 2 * r
    <2>1. PICK c \in Int : c = e * q
        OBVIOUS
    <2>2. d * q = 2 * c + q
        BY <1>2, <2>1
    <2> QED BY <1>1, <1>3, <2>1, <2>2
<1>5. m = d * r /\ r \in Nat \ {0}
    <2>1. PICK c \in Int : c = d * r
        OBVIOUS
    <2>2. 2 * m = 2 * c
        BY <1>1, <1>4, <2>1
    <2>3. q # 0
        BY <1>1
    <2> QED BY <1>4, <2>1, <2>2, <2>3
<1>6. d <= m
    BY <1>5
<1>7. m % d = 0
    <2>1. (d * r) % d = 0
        OBVIOUS
    <2> QED BY <1>5, <2>1
<1> QED BY <1>6, <1>7 DEF IsPowerOfTwo

\* There is a power of two between a number and its double.
LEMMA PowerBetween ==
    ASSUME NEW n \in Nat \ {0}
    PROVE  \E m \in n .. (2 * n - 1) : IsPowerOfTwo(m)
<1> DEFINE Q(k) == \E m \in (k + 1) .. (2 * k + 1) : IsPowerOfTwo(m)
           T == {k \in Nat : Q(k)}
<1>1. 0 \in T
    <2>1. IsPowerOfTwo(1)
        BY DEF IsPowerOfTwo
    <2> QED BY <2>1
<1>2. ASSUME NEW k \in Nat, Q(k) PROVE Q(k + 1)
    <2>1. PICK m \in (k + 1) .. (2 * k + 1) : IsPowerOfTwo(m)
        BY <1>2
    <2>2. CASE m = k + 1
        <3>1. IsPowerOfTwo(2 * m)
            BY <2>1, DoubledPower
        <3>2. 2 * m \in ((k + 1) + 1) .. (2 * (k + 1) + 1)
            BY <2>2
        <3> QED BY <3>1, <3>2
    <2>3. CASE m # k + 1
        BY <2>1, <2>3
    <2> QED BY <2>2, <2>3
<1>3. \A k \in Nat : k \in T => k + 1 \in T
    BY <1>2
<1>4. \A k \in Nat : k \in T
    <2> HIDE DEF T
    <2> QED BY <1>1, <1>3, Induction
<1>5. n - 1 \in T
    <2> HIDE DEF T
    <2>1. n - 1 \in Nat
        OBVIOUS
    <2> QED BY <1>4, <2>1
<1>6. (n - 1) + 1 = n /\ 2 * (n - 1) + 1 = 2 * n - 1
    OBVIOUS
<1> QED BY <1>5, <1>6

\* So the height of the tables is at least their length.
LEMMA NextPowerFacts ==
    ASSUME NEW n \in Nat \ {0}
    PROVE  NextPowerOfTwo(n) \in Nat /\ n <= NextPowerOfTwo(n)
<1>1. NextPowerOfTwo(n) \in n .. (2 * n - 1)
    BY PowerBetween DEF NextPowerOfTwo
<1> QED BY <1>1

\* The tallest of four.
LEMMA TallestFacts ==
    ASSUME NEW a \in Nat, NEW b \in Nat, NEW c \in Nat, NEW d \in Nat
    PROVE  /\ S!Max({a, b, c, d}) \in Nat
           /\ b <= S!Max({a, b, c, d}) /\ c <= S!Max({a, b, c, d}) /\ d <= S!Max({a, b, c, d})
<1>1. \E x \in {a, b, c, d} : \A y \in {a, b, c, d} : x >= y
    <2>1. CASE a >= b /\ a >= c /\ a >= d
        BY <2>1
    <2>2. CASE b >= a /\ b >= c /\ b >= d
        BY <2>2
    <2>3. CASE c >= a /\ c >= b /\ c >= d
        BY <2>3
    <2>4. CASE d >= a /\ d >= b /\ d >= c
        BY <2>4
    <2> QED BY <2>1, <2>2, <2>3, <2>4
<1>2. /\ S!Max({a, b, c, d}) \in {a, b, c, d}
      /\ \A y \in {a, b, c, d} : S!Max({a, b, c, d}) >= y
    BY <1>1 DEF S!Max
<1> QED BY <1>2

\* Every table fits into the padded height, the processor table too.
LEMMA HeightsFit ==
    ASSUME Len(processor_trace) \in Nat \ {0}, Len(op_stack_underflow_trace) \in Nat,
           Len(ram_trace) \in Nat, NEW h \in PaddedHeights
    PROVE  /\ h \in Nat /\ Len(processor_trace) <= h
           /\ Len(op_stack_underflow_trace) <= h /\ Len(ram_trace) <= h
<1>1. PICK other \in OtherHeights :
          h = NextPowerOfTwo(S!Max({other, Len(processor_trace), Len(op_stack_underflow_trace),
                                    Len(ram_trace)}))
    BY DEF PaddedHeights
<1>2. other \in Nat
    BY HeightAssumption
<1>3. PICK tallest : tallest = S!Max({other, Len(processor_trace), Len(op_stack_underflow_trace),
                                      Len(ram_trace)})
    OBVIOUS
<1>4. /\ tallest \in Nat /\ Len(processor_trace) <= tallest
      /\ Len(op_stack_underflow_trace) <= tallest /\ Len(ram_trace) <= tallest
    BY <1>2, <1>3, TallestFacts
<1>5. tallest \in Nat \ {0} /\ h = NextPowerOfTwo(tallest)
    BY <1>1, <1>3, <1>4
<1>6. NextPowerOfTwo(tallest) \in Nat /\ tallest <= NextPowerOfTwo(tallest)
    BY <1>5, NextPowerFacts
<1> QED BY <1>4, <1>5, <1>6
------------------------------------------------------------------------------
(* The rows of the processor table. *)

(***************************************************************************)
(* The invariant: the processor table has one row for every cycle that has *)
(* passed, in order; an execution that has halted has one.                 *)
(***************************************************************************)
ClockInv ==
    /\ VMTypeOK
    /\ Succeeds =>
           /\ IsSequence(processor_trace)
           /\ Len(processor_trace) = cycle_count
           /\ \A k \in 1 .. cycle_count : processor_trace[k].clk = k - 1
                                          /\ processor_trace[k].jsp \in Int
           /\ halting => cycle_count > 0

\* A step that succeeds records the row of its cycle.
LEMMA ClockStepCounts ==
    ASSUME ClockInv, VMTypeOK', TraceNext, error' = NoError
    PROVE  ClockInv'
<1>1. StepCompletes /\ VMTypeOK
    BY SuccessfulStep DEF TraceNext, ClockInv
<1>2. /\ IsSequence(processor_trace) /\ Len(processor_trace) = cycle_count
      /\ \A k \in 1 .. cycle_count : processor_trace[k].clk = k - 1
                                     /\ processor_trace[k].jsp \in Int
    BY <1>1 DEF ClockInv, StepCompletes, Succeeds
<1>3. PICK trace, row, longer, clk :
          trace = processor_trace /\ row = ProcessorRow /\ longer = processor_trace'
          /\ clk = cycle_count
    OBVIOUS
<1>4. clk \in Nat /\ clk \in Field /\ cycle_count' = clk + 1
    BY <1>1, <1>3, LinkingAssumption, InputAssumption, FieldFacts
       DEF StepCompletes, Field, VMTypeOK
<1>5. longer = Append(trace, row)
    BY <1>1, <1>3 DEF TraceNext, RecordState, StepCompletes
<1>6. /\ IsSequence(longer) /\ Len(longer) = clk + 1 /\ longer[clk + 1] = row
      /\ \A k \in 1 .. clk : longer[k] = trace[k]
    BY <1>2, <1>3, <1>5, AppendedSequence
<1>7. row.clk = clk /\ row.jsp \in Int
    <2>1. row.clk = clk % P /\ row.jsp = Len(jump_stack)
        BY <1>3 DEF ProcessorRow
    <2>2. Len(jump_stack) \in Nat
        BY <1>1 DEF VMTypeOK
    <2> QED BY <1>4, <2>1, <2>2, ReducedIsUnchanged
<1>8. ASSUME NEW k \in 1 .. (clk + 1)
      PROVE  longer[k].clk = k - 1 /\ longer[k].jsp \in Int
    <2>1. CASE k \in 1 .. clk
        BY <1>2, <1>3, <1>6, <2>1
    <2>2. CASE k = clk + 1
        BY <1>4, <1>6, <1>7, <2>2
    <2> QED BY <1>4, <2>1, <2>2
<1>9. /\ IsSequence(processor_trace)' /\ Len(processor_trace)' = cycle_count'
      /\ \A k \in 1 .. cycle_count' : processor_trace'[k].clk = k - 1
                                      /\ processor_trace'[k].jsp \in Int
    BY <1>3, <1>4, <1>6, <1>8 DEF IsSequence
<1> QED BY <1>4, <1>9 DEF ClockInv

\* The invariant holds in every execution.
LEMMA ClockInvariance == TraceSpec => []ClockInv
<1>1. TraceInit => ClockInv
    <2> SUFFICES ASSUME TraceInit PROVE ClockInv
        OBVIOUS
    <2>1. VMTypeOK /\ cycle_count = 0 /\ halting = FALSE
        BY InitTypes DEF TraceInit, Init
    <2>2. IsSequence(processor_trace) /\ Len(processor_trace) = 0
        BY EmptySequence DEF TraceInit
    <2> QED BY <2>1, <2>2 DEF ClockInv
<1>2. ClockInv /\ [TraceNext]_traceVars => ClockInv'
    <2> SUFFICES ASSUME ClockInv, [TraceNext]_traceVars PROVE ClockInv'
        OBVIOUS
    <2>1. CASE UNCHANGED traceVars
        <3>1. UNCHANGED <<vmVars, processor_trace>>
            BY <2>1 DEF traceVars, aet
        <3>2. VMTypeOK'
            BY <3>1 DEF ClockInv, VMTypeOK, vmVars
        <3>3. UNCHANGED <<error, halting, cycle_count, processor_trace>>
            BY <3>1 DEF vmVars
        <3> QED BY <3>2, <3>3 DEF ClockInv, Succeeds, IsSequence
    <2>2. CASE TraceNext
        <3>1. VMTypeOK'
            BY <2>2, NextTypes DEF ClockInv, TraceNext, VMNext, StepIsTyped
        <3>2. CASE error' = NoError
            BY <2>2, <3>1, <3>2, ClockStepCounts
        <3>3. CASE error' # NoError
            BY <3>1, <3>3 DEF ClockInv, Succeeds
        <3> QED BY <3>2, <3>3
    <2> QED BY <2>1, <2>2
<1> QED BY <1>1, <1>2, PTL DEF TraceSpec

(***************************************************************************)
(* The padded jump stack table is a permutation of the padded processor    *)
(* table's rows, at every padded height: sorting keeps the rows, and the   *)
(* copies of the last row that the one table has in the middle are the     *)
(* ones the other has at its end.                                          *)
(***************************************************************************)
THEOREM JumpStackArgument == TraceSpec => []JumpStackArgumentBalances
<1>1. ClockInv /\ MemoryInv => JumpStackArgumentBalances
    <2> SUFFICES ASSUME ClockInv, MemoryInv, Finished, NEW h \in PaddedHeights
                 PROVE  S!ToBag(PaddedJumpStackTable(h)) =
                            S!ToBag([k \in DOMAIN PaddedProcessorTable(h) |->
                                        JumpStackRow(PaddedProcessorTable(h)[k])])
        BY DEF JumpStackArgumentBalances
    <2>1. PICK n \in Nat \ {0} :
              /\ n = Len(processor_trace) /\ IsSequence(processor_trace)
              /\ \A k \in 1 .. n : processor_trace[k].clk = k - 1
                                   /\ processor_trace[k].jsp \in Int
        <3>1. Succeeds /\ halting
            BY DEF Finished, Succeeds
        <3>2. cycle_count \in Nat \ {0}
            BY <3>1 DEF ClockInv, VMTypeOK
        <3> QED BY <3>1, <3>2 DEF ClockInv
    <2>2. Len(op_stack_underflow_trace) \in Nat /\ Len(ram_trace) \in Nat
        BY DEF MemoryInv, Finished, Succeeds, Rearranged, IsSequence
    <2>3. h \in Nat /\ n <= h
        BY <2>1, <2>2, HeightsFit
    <2> QED BY <2>1, <2>3, PaddedTablesMatch
<1> QED BY <1>1, ClockInvariance, MemoryInvariance, PTL

\* What a step does to the jump stack.
CallsDeeper(op) ==
    op = "call" /\ \E frame \in [origin : Field, destination : Field] :
                       jump_stack' = Append(jump_stack, frame)
ReturnsFrom(op) ==
    op \in {"return", "recurse_or_return"} /\ jump_stack # <<>> /\ PopJumpStack
JumpStackOfStep(op) == jump_stack' = jump_stack \/ CallsDeeper(op) \/ ReturnsFrom(op)

\* The jump stack grows across a call and shrinks across a return, by one.
LEMMA StepMovesFrames ==
    ASSUME VMTypeOK, Step, error' = NoError
    PROVE  JumpStackOfStep(CurrentInstruction.op)
<1> USE DEF Executes, Fails, NoError, OnStackOnly, memory, vmState
<1>1. CASE StackInstruction
    BY <1>1 DEF StackInstruction, Pop, Push, Divine, Pick, Place, Dup, Swap, JumpStackOfStep
<1>2. CASE ControlInstruction
    <2>1. CASE Call
        <3>1. CurrentInstruction.op = "call"
            BY <2>1 DEF Call
        <3>2. jump_stack' = Append(jump_stack, [origin |-> (instruction_pointer + 2) % P,
                                                destination |-> Arg])
            BY <2>1 DEF Call
        <3>3. (instruction_pointer + 2) % P \in Field
            <4>1. P \in Nat \ {0} /\ instruction_pointer \in Nat
                BY FieldFacts DEF VMTypeOK
            <4>2. \A x \in Nat : x % P \in 0 .. (P - 1)
                BY <4>1
            <4> QED BY <4>1, <4>2 DEF Field
        <3>4. Arg \in Field
            <4>1. CurrentInstruction \in Instruction
                BY <2>1, InstructionTypes DEF Call
            <4> HIDE DEF Executes, Fails, NoError, OnStackOnly, memory, vmState
            <4> QED BY <3>1, <4>1, InstructionTypes, FieldFacts
                   DEF Instruction, Arg, NumWordsOps, RegisterOps, ElementOps, SingleWordOps
        <3> HIDE DEF Executes, Fails, NoError, OnStackOnly, memory, vmState
        <3> QED BY <3>1, <3>2, <3>3, <3>4 DEF JumpStackOfStep, CallsDeeper
    <2>2. CASE Nop \/ Skiz \/ Recurse \/ AssertInstruction \/ Halt
        BY <2>2 DEF Nop, Skiz, Recurse, AssertInstruction, Halt, JumpStackOfStep
    <2>3. CASE Return
        BY <2>3 DEF Return, JumpStackOfStep, ReturnsFrom
    <2>4. CASE RecurseOrReturn
        BY <2>4 DEF RecurseOrReturn, JumpStackOfStep, ReturnsFrom
    <2> QED BY <1>2, <2>1, <2>2, <2>3, <2>4 DEF ControlInstruction
<1>3. CASE MemoryInstruction
    BY <1>3 DEF MemoryInstruction, ReadMem, WriteMem, JumpStackOfStep
<1>4. CASE HashInstruction
    BY <1>4 DEF HashInstruction, Hash, SpongeInit, SpongeAbsorb, SpongeAbsorbMem,
                SpongeSqueeze, AssertVector, JumpStackOfStep
<1>5. CASE FieldInstruction
    BY <1>5 DEF FieldInstruction, Add, AddI, Mul, Invert, Eq, JumpStackOfStep
<1>6. CASE U32Instruction
    BY <1>6 DEF U32Instruction, Split, Lt, And, Xor, Log2Floor, Pow, DivMod, PopCount,
                WithU32Calls, JumpStackOfStep
<1>7. CASE ExtensionInstruction
    BY <1>7 DEF ExtensionInstruction, XxAdd, XxMul, XInvert, XbMul, JumpStackOfStep
<1>8. CASE IoInstruction
    BY <1>8 DEF IoInstruction, WriteIo, ReadIo, JumpStackOfStep
<1>9. CASE ManyInOneInstruction
    BY <1>9 DEF ManyInOneInstruction, MerkleStep, MerkleStepMem, XxDotStep, XbDotStep,
                MerkleStepTo, DotStep, JumpStackOfStep
<1>10. CASE InstructionPointerOverflow \/ TooShallow
    BY <1>10 DEF InstructionPointerOverflow, TooShallow
<1> HIDE DEF Executes, Fails, NoError, OnStackOnly, memory, vmState
<1> QED
    BY <1>1, <1>2, <1>3, <1>4, <1>5, <1>6, <1>7, <1>8, <1>9, <1>10 DEF Step

\* A row shows the frame at depth d of a jump stack; there is none at depth 0.
ShowsFrame(row, s, d) ==
    /\ row.jso = IF d = 0 THEN 0 ELSE s[d].origin
    /\ row.jsd = IF d = 0 THEN 0 ELSE s[d].destination

\* The jump stack s becomes t after the cycle of `row`.
FramesMove(s, t, row) ==
    /\ Len(s) \in Nat /\ Len(t) \in Nat
    /\ \/ Len(t) = Len(s)
       \/ Len(t) = Len(s) + 1 /\ row.ci = Opcode["call"]
       \/ Len(t) = Len(s) - 1 /\ CanReturn(row)
    /\ \A k \in 1 .. Len(s) : k <= Len(t) => t[k] = s[k]

(***************************************************************************)
(* The rows so far are coherent, and the last visit of every depth shows   *)
(* the frame that the jump stack still has there, unless that visit ended  *)
(* in a return.                                                            *)
(***************************************************************************)
FramesHold(n, trace, s) ==
    /\ n = 0 => Len(s) = 0
    /\ n > 0 => CoherentFrames(n, trace)
    /\ Len(s) > 0 => \E j \in 1 .. n : trace[j].jsp = Len(s) - 1
    /\ n > 0 => \/ trace[n].jsp = Len(s)
                \/ CanReturn(trace[n]) \/ trace[n].ci = Opcode["call"]
    /\ \A i \in 1 .. n :
           (\A k \in (i + 1) .. n : trace[k].jsp # trace[i].jsp) =>
               \/ CanReturn(trace[i])
               \/ trace[i].jsp <= Len(s) /\ ShowsFrame(trace[i], s, trace[i].jsp)

\* One more cycle.
LEMMA FramesKept ==
    ASSUME NEW n \in Nat, NEW trace, NEW longer, NEW s, NEW t,
           FramesHold(n, trace, s), FramesMove(s, t, longer[n + 1]),
           \A k \in 1 .. n : longer[k] = trace[k],
           longer[n + 1].clk = n, longer[n + 1].jsp = Len(s),
           ShowsFrame(longer[n + 1], s, Len(s))
    PROVE  FramesHold(n + 1, longer, t)
<1>1. PICK d \in Nat : d = Len(s)
    BY DEF FramesMove
<1>2. PICK e \in Nat : e = Len(t)
    BY DEF FramesMove
<1>3. PICK row : row = longer[n + 1] /\ row.clk = n /\ row.jsp = d /\ ShowsFrame(row, s, d)
    BY <1>1
<1>4. /\ e = d \/ (e = d + 1 /\ row.ci = Opcode["call"]) \/ (e = d - 1 /\ CanReturn(row))
      /\ \A k \in 1 .. d : k <= e => t[k] = s[k]
    BY <1>1, <1>2, <1>3 DEF FramesMove
<1>5. /\ \A k \in 1 .. n : longer[k] = trace[k] /\ trace[k].jsp \in Nat /\ trace[k].clk = k - 1
      /\ longer[n + 1] = row
    <2>1. CASE n = 0
        BY <1>3, <2>1
    <2>2. CASE n > 0
        BY <1>3, <2>2 DEF FramesHold, CoherentFrames
    <2> QED BY <2>1, <2>2
<1>6. \A k \in 1 .. (n + 1) : k = n + 1 \/ k \in 1 .. n
    OBVIOUS
<1>7. n > 0 => CoherentFrames(n, trace)
    BY DEF FramesHold
\* the depth above the one recorded has been visited
<1>8. d > 0 => \E j \in 1 .. n : trace[j].jsp = d - 1
    BY <1>1 DEF FramesHold
<1>9. ASSUME NEW i \in 1 .. n, trace[i].jsp > 0
      PROVE  \E j \in 1 .. n : trace[j].jsp = trace[i].jsp - 1
    <2>1. n > 0
        OBVIOUS
    <2> QED BY <1>7, <1>9, <2>1 DEF CoherentFrames
\* the frame of a depth that is recorded again
<1>10. ASSUME NEW i \in 1 .. n, \A k \in (i + 1) .. n : trace[k].jsp # trace[i].jsp
       PROVE  \/ CanReturn(trace[i])
              \/ trace[i].jsp <= d /\ ShowsFrame(trace[i], s, trace[i].jsp)
    BY <1>1, <1>10 DEF FramesHold
<1>11. CoherentFrames(n + 1, longer)
    <2>1. longer[1].jsp = 0 /\ longer[1].jso = 0 /\ longer[1].jsd = 0
        <3>1. CASE n = 0
            <4>1. d = 0
                BY <1>1, <3>1 DEF FramesHold
            <4> QED BY <1>3, <3>1, <4>1 DEF ShowsFrame
        <3>2. CASE n > 0
            <4>1. 1 \in 1 .. n
                BY <3>2
            <4> QED BY <1>5, <1>7, <3>2, <4>1 DEF CoherentFrames
        <3> QED BY <3>1, <3>2
    <2>2. \A i \in 1 .. (n + 1) : longer[i].clk = i - 1 /\ longer[i].jsp \in Nat
        BY <1>3, <1>5, <1>6
    <2>3. ASSUME NEW i \in 1 .. (n + 1), longer[i].jsp > 0
          PROVE  \E j \in 1 .. (n + 1) : longer[j].jsp = longer[i].jsp - 1
        <3>1. \E j \in 1 .. n : trace[j].jsp = longer[i].jsp - 1
            <4>1. CASE i = n + 1
                BY <1>3, <1>5, <1>8, <2>3, <4>1
            <4>2. CASE i \in 1 .. n
                BY <1>5, <1>9, <2>3, <4>2
            <4> QED BY <1>6, <4>1, <4>2
        <3>2. PICK j \in 1 .. n : trace[j].jsp = longer[i].jsp - 1
            BY <3>1
        <3>3. j \in 1 .. (n + 1) /\ longer[j].jsp = longer[i].jsp - 1
            BY <1>5, <3>2
        <3> QED BY <3>3
    <2>4. ASSUME NEW i \in 1 .. ((n + 1) - 1)
          PROVE  \/ longer[i + 1].jsp = longer[i].jsp
                 \/ CanReturn(longer[i]) \/ longer[i].ci = Opcode["call"]
        <3>1. i \in 1 .. n /\ longer[i] = trace[i]
            BY <1>5
        <3>2. CASE i = n
            <4>1. n > 0
                BY <3>1
            <4>2. \/ trace[n].jsp = d \/ CanReturn(trace[n]) \/ trace[n].ci = Opcode["call"]
                BY <1>1, <4>1 DEF FramesHold
            <4> QED BY <1>3, <3>1, <3>2, <4>2
        <3>3. CASE i # n
            <4>1. i \in 1 .. (n - 1) /\ i + 1 \in 1 .. n /\ n > 0
                BY <3>1, <3>3
            <4>2. longer[i + 1] = trace[i + 1]
                BY <1>5, <4>1
            <4> QED BY <1>7, <3>1, <4>1, <4>2 DEF CoherentFrames
        <3> QED BY <3>2, <3>3
    <2>5. ASSUME NEW i \in 1 .. (n + 1), NEW j \in 1 .. (n + 1), i < j,
                 longer[i].jsp = longer[j].jsp,
                 \A k \in (i + 1) .. (j - 1) : longer[k].jsp # longer[i].jsp
          PROVE  CanReturn(longer[i]) \/ SameFrame(longer[i], longer[j])
        <3>1. i \in 1 .. n /\ longer[i] = trace[i]
            BY <1>5, <2>5
        <3>2. CASE j = n + 1
            <4>1. \A k \in (i + 1) .. n : trace[k].jsp # trace[i].jsp
                <5>1. \A k \in (i + 1) .. n : k \in 1 .. n /\ k \in (i + 1) .. (j - 1)
                    BY <3>1, <3>2
                <5> QED BY <1>5, <2>5, <3>1, <5>1
            <4>2. trace[i].jsp = d /\ longer[j] = row
                BY <1>3, <2>5, <3>1, <3>2
            <4>3. CanReturn(trace[i]) \/ ShowsFrame(trace[i], s, d)
                BY <1>10, <3>1, <4>1, <4>2
            <4> QED BY <1>3, <3>1, <4>2, <4>3 DEF ShowsFrame, SameFrame
        <3>3. CASE j # n + 1
            <4>0. j \in 1 .. n /\ n > 0
                BY <3>1, <3>3
            <4>1. j \in 1 .. n /\ longer[j] = trace[j] /\ n > 0
                BY <1>5, <4>0
            <4>2. \A k \in (i + 1) .. (j - 1) : trace[k].jsp # trace[i].jsp
                <5>1. \A k \in (i + 1) .. (j - 1) : k \in 1 .. n
                    BY <3>1, <4>1
                <5> QED BY <1>5, <2>5, <3>1, <5>1
            <4>3. trace[i].jsp = trace[j].jsp
                BY <2>5, <3>1, <4>1
            <4>4. CoherentFrames(n, trace)
                BY <1>7, <4>1
            <4> QED BY <2>5, <3>1, <4>1, <4>2, <4>3, <4>4 DEF CoherentFrames
        <3> QED BY <3>2, <3>3
    <2> QED BY <2>1, <2>2, <2>3, <2>4, <2>5 DEF CoherentFrames
<1>12. ASSUME e > 0
       PROVE  \E j \in 1 .. (n + 1) : longer[j].jsp = e - 1
    <2>1. CASE e = d + 1
        <3>1. n + 1 \in 1 .. (n + 1) /\ longer[n + 1].jsp = e - 1
            BY <1>3, <2>1
        <3> QED BY <3>1
    <2>2. CASE e = d
        <3>1. PICK j \in 1 .. n : trace[j].jsp = d - 1
            BY <1>8, <1>12, <2>2
        <3>2. j \in 1 .. (n + 1) /\ longer[j].jsp = e - 1
            BY <1>5, <2>2, <3>1
        <3> QED BY <3>2
    <2>3. CASE e = d - 1
        <3>1. PICK i \in 1 .. n : trace[i].jsp = d - 1
            BY <1>8, <1>12, <2>3
        <3>2. PICK j \in 1 .. n : trace[j].jsp = trace[i].jsp - 1
            BY <1>9, <1>12, <2>3, <3>1
        <3>3. j \in 1 .. (n + 1) /\ longer[j].jsp = e - 1
            BY <1>5, <2>3, <3>1, <3>2
        <3> QED BY <3>3
    <2> QED BY <1>4, <2>1, <2>2, <2>3
<1>13. \/ longer[n + 1].jsp = e
       \/ CanReturn(longer[n + 1]) \/ longer[n + 1].ci = Opcode["call"]
    BY <1>3, <1>4
<1>14. ASSUME NEW i \in 1 .. (n + 1),
              \A k \in (i + 1) .. (n + 1) : longer[k].jsp # longer[i].jsp
       PROVE  \/ CanReturn(longer[i])
              \/ longer[i].jsp <= e /\ ShowsFrame(longer[i], t, longer[i].jsp)
    <2>1. ASSUME NEW x, NEW c \in Nat, c <= d, c <= e, ShowsFrame(x, s, c)
          PROVE  ShowsFrame(x, t, c)
        <3>1. c > 0 => t[c] = s[c]
            BY <1>4, <2>1
        <3> QED BY <2>1, <3>1 DEF ShowsFrame
    <2>2. CASE i = n + 1
        <3>1. longer[i] = row
            BY <1>3, <2>2
        <3>2. CASE CanReturn(row)
            BY <3>1, <3>2
        <3>3. CASE d <= e
            BY <1>3, <2>1, <3>1, <3>3
        <3> QED BY <1>4, <3>2, <3>3
    <2>3. CASE i \in 1 .. n
        <3>1. longer[i] = trace[i] /\ trace[i].jsp \in Nat
            BY <1>5, <2>3
        <3>2. trace[i].jsp # d
            <4>1. n + 1 \in (i + 1) .. (n + 1)
                BY <2>3
            <4> QED BY <1>3, <1>14, <3>1, <4>1
        <3>3. \A k \in (i + 1) .. n : trace[k].jsp # trace[i].jsp
            <4>1. \A k \in (i + 1) .. n : k \in 1 .. n /\ k \in (i + 1) .. (n + 1)
                BY <2>3
            <4> QED BY <1>5, <1>14, <3>1, <4>1
        <3>4. \/ CanReturn(trace[i])
              \/ trace[i].jsp <= d /\ ShowsFrame(trace[i], s, trace[i].jsp)
            BY <1>10, <2>3, <3>3
        <3>5. CASE trace[i].jsp <= d /\ ShowsFrame(trace[i], s, trace[i].jsp)
            <4>1. trace[i].jsp <= e
                BY <1>4, <3>1, <3>2, <3>5
            <4> QED BY <2>1, <3>1, <3>5, <4>1
        <3> QED BY <3>1, <3>4, <3>5
    <2> QED BY <1>6, <2>2, <2>3
<1>15. (n + 1 = 0 => e = 0) /\ n + 1 > 0
    OBVIOUS
<1> QED BY <1>2, <1>11, <1>12, <1>13, <1>14, <1>15 DEF FramesHold

(***************************************************************************)
(* The invariant: what the rows recorded so far show of the jump stack.    *)
(***************************************************************************)
FramesInv ==
    /\ ClockInv
    /\ Succeeds => FramesHold(Len(processor_trace), processor_trace, jump_stack)

\* A step that succeeds records the frame it starts from.
LEMMA FramesStep ==
    ASSUME FramesInv, ClockInv', TraceNext, error' = NoError
    PROVE  FramesInv'
<1>1. StepCompletes /\ VMTypeOK /\ Step
    BY SuccessfulStep DEF TraceNext, FramesInv, ClockInv
<1>2. Succeeds /\ FramesHold(Len(processor_trace), processor_trace, jump_stack)
    BY <1>1 DEF FramesInv, StepCompletes, Succeeds
<1>3. PICK trace, row, longer, clk :
          trace = processor_trace /\ row = ProcessorRow /\ longer = processor_trace'
          /\ clk = cycle_count
    OBVIOUS
<1>4. /\ clk \in Nat /\ clk \in Field /\ cycle_count' = clk + 1
      /\ IsSequence(trace) /\ Len(trace) = clk
    <2>1. clk \in Nat /\ clk \in Field /\ cycle_count' = clk + 1
        BY <1>1, <1>3, LinkingAssumption, InputAssumption, FieldFacts
           DEF StepCompletes, Field, VMTypeOK
    <2> QED BY <1>2, <1>3, <2>1 DEF FramesInv, ClockInv
<1>5. longer = Append(trace, row)
    BY <1>1, <1>3 DEF TraceNext, RecordState, StepCompletes
<1>6. /\ IsSequence(longer) /\ Len(longer) = clk + 1 /\ longer[clk + 1] = row
      /\ \A k \in 1 .. clk : longer[k] = trace[k]
    BY <1>4, <1>5, AppendedSequence
<1>7. PICK s, t : s = jump_stack /\ t = jump_stack'
    OBVIOUS
<1>8. /\ s \in Seq([origin : Field, destination : Field]) /\ Len(s) \in Nat /\ IsSequence(s)
      /\ s = <<>> <=> Len(s) = 0
    BY <1>1, <1>7, SeqIsSequence, EmptySeq DEF VMTypeOK
<1>9. row.clk = clk /\ row.jsp = Len(s) /\ ShowsFrame(row, s, Len(s))
    <2>1. row.clk = clk
        BY <1>3, <1>4, ReducedIsUnchanged DEF ProcessorRow
    <2>2. row.jsp = Len(s)
        BY <1>3, <1>7 DEF ProcessorRow
    <2>3. /\ row.jso = IF s = <<>> THEN 0 ELSE s[Len(s)].origin
          /\ row.jsd = IF s = <<>> THEN 0 ELSE s[Len(s)].destination
        BY <1>3, <1>7 DEF ProcessorRow, JumpStackTop
    <2> QED BY <1>8, <2>1, <2>2, <2>3 DEF ShowsFrame
<1>10. FramesMove(s, t, row)
    <2>1. row.ci = Opcode[CurrentInstruction.op]
        BY <1>1, <1>3, InstructionRow DEF StepCompletes
    <2>2. JumpStackOfStep(CurrentInstruction.op)
        BY <1>1, StepMovesFrames
    <2>3. CASE t = s
        BY <1>8, <2>3 DEF FramesMove
    <2>4. CASE CallsDeeper(CurrentInstruction.op)
        <3>1. PICK frame \in [origin : Field, destination : Field] : t = Append(s, frame)
            BY <1>7, <2>4 DEF CallsDeeper
        <3>2. Len(t) = Len(s) + 1 /\ \A k \in 1 .. Len(s) : t[k] = s[k]
            BY <1>8, <3>1, AppendedSequence
        <3>3. row.ci = Opcode["call"]
            BY <2>1, <2>4 DEF CallsDeeper
        <3> QED BY <1>8, <3>2, <3>3 DEF FramesMove
    <2>5. CASE ReturnsFrom(CurrentInstruction.op)
        <3>1. t = SubSeq(s, 1, Len(s) - 1) /\ Len(s) > 0
            BY <1>7, <1>8, <2>5 DEF ReturnsFrom, PopJumpStack
        <3>2. Len(t) = Len(s) - 1 /\ \A k \in 1 .. (Len(s) - 1) : t[k] = s[k]
            <4>1. PICK d \in Nat : d = Len(s) /\ d > 0
                BY <1>8, <3>1
            <4>2. IsSequence(s) /\ 1 \in 1 .. (Len(s) + 1) /\ d - 1 \in (1 - 1) .. Len(s)
                BY <1>8, <4>1
            <4>3. /\ Len(SubSeq(s, 1, d - 1)) = (d - 1) - 1 + 1
                  /\ \A i \in 1 .. ((d - 1) - 1 + 1) : SubSeq(s, 1, d - 1)[i] = s[1 + i - 1]
                BY ONLY <4>2, SubSequence
            <4>4. (d - 1) - 1 + 1 = d - 1 /\ \A i \in 1 .. (d - 1) : 1 + i - 1 = i
                BY <4>1
            <4> QED BY <3>1, <4>1, <4>3, <4>4
        <3>3. CanReturn(row)
            BY <2>1, <2>5 DEF ReturnsFrom, CanReturn
        <3> QED BY <1>8, <3>2, <3>3 DEF FramesMove
    <2> QED BY <1>7, <2>2, <2>3, <2>4, <2>5 DEF JumpStackOfStep
<1>11. FramesHold(clk + 1, longer, t)
    <2>1. FramesHold(clk, trace, s)
        BY <1>2, <1>3, <1>4, <1>7
    <2>2. /\ FramesMove(s, t, longer[clk + 1])
          /\ longer[clk + 1].clk = clk /\ longer[clk + 1].jsp = Len(s)
          /\ ShowsFrame(longer[clk + 1], s, Len(s))
        BY <1>6, <1>9, <1>10
    <2> QED BY <1>4, <1>6, <2>1, <2>2, FramesKept
<1> QED BY <1>3, <1>6, <1>7, <1>11 DEF FramesInv

\* The invariant holds in every execution.
LEMMA FramesInvariance == TraceSpec => []FramesInv
<1>1. TraceInit /\ ClockInv => FramesInv
    <2> SUFFICES ASSUME TraceInit, ClockInv PROVE FramesInv
        OBVIOUS
    <2>1. jump_stack = <<>> /\ processor_trace = <<>>
        BY DEF TraceInit, Init
    <2>2. Len(jump_stack) = 0 /\ Len(processor_trace) = 0
        BY <2>1, EmptySequence
    <2>3. FramesHold(0, processor_trace, jump_stack)
        BY <2>2 DEF FramesHold
    <2> QED BY <2>2, <2>3 DEF FramesInv
<1>2. FramesInv /\ ClockInv' /\ [TraceNext]_traceVars => FramesInv'
    <2> SUFFICES ASSUME FramesInv, ClockInv', [TraceNext]_traceVars PROVE FramesInv'
        OBVIOUS
    <2>1. CASE UNCHANGED traceVars
        <3>1. UNCHANGED <<error, jump_stack, processor_trace>>
            BY <2>1 DEF traceVars, vmVars, aet
        <3>2. Succeeds' = Succeeds
            BY <3>1 DEF Succeeds
        <3> QED BY <3>1, <3>2 DEF FramesInv
    <2>2. CASE TraceNext
        <3>1. CASE error' = NoError
            BY <2>2, <3>1, FramesStep
        <3>2. CASE error' # NoError
            BY <3>2 DEF FramesInv, Succeeds
        <3> QED BY <3>1, <3>2
    <2> QED BY <2>1, <2>2
<1> QED BY <1>1, <1>2, ClockInvariance, PTL DEF TraceSpec
------------------------------------------------------------------------------
(* The three tables. *)

\* The RAM trace has the types and clocks of RamTraceInv in every execution.
LEMMA RamTraceInvariance == TraceSpec => []TraceInv
<1>1. TraceInit => TraceInv
    BY InitLogs
<1>2. TraceInv /\ [TraceNext]_traceVars => TraceInv'
    <2>1. CASE UNCHANGED traceVars
        BY <2>1 DEF traceVars, vmVars, aet, TraceInv, RamTraceInv, VMTypeOK
    <2> QED BY <2>1, TraceNextKeepsInv
<1> QED BY <1>1, <1>2, PTL DEF TraceSpec

\* The promise of a logged memory is what the sorted table needs.
LEMMA CoherentRamTrace ==
    ASSUME TraceInv, RamTraceIsCoherent
    PROVE  IsSequence(ram_trace) /\ CoherentAccesses(Len(ram_trace), ram_trace)
<1>1. PICK trace : trace = ram_trace
    OBVIOUS
<1>2. trace \in Seq(RamTableCall)
    BY <1>1 DEF TraceInv, RamTraceInv
<1>3. IsSequence(trace)
    BY <1>2, SeqIsSequence
<1>4. PICK n \in Nat : n = Len(trace) /\ DOMAIN trace = 1 .. n
    BY <1>3 DEF IsSequence
<1>5. \A i \in 1 .. n : trace[i].clk \in Int /\ trace[i].ram_pointer \in Int
    <2>1. \A i \in 1 .. n : trace[i] \in RamTableCall
        BY <1>2, <1>4
    <2> QED BY <2>1, FieldFacts DEF RamTableCall, Field
<1>6. \A i, j \in 1 .. n : i < j =>
          /\ trace[i].clk <= trace[j].clk
          /\ trace[i].ram_pointer = trace[j].ram_pointer
                 /\ (\A k \in (i + 1) .. j : trace[k].ram_pointer = trace[i].ram_pointer
                                                 => ~trace[k].is_write)
             => trace[j].ram_value = trace[i].ram_value
    BY <1>1, <1>4 DEF RamTraceIsCoherent, Memory!LogIsCoherent
<1>7. CoherentAccesses(n, trace)
    BY <1>5, <1>6 DEF CoherentAccesses
<1> QED BY <1>1, <1>3, <1>4, <1>7

(***************************************************************************)
(* The op stack, RAM and jump stack tables, filled from the trace of any   *)
(* execution, sorted and padded to any height, satisfy their constraints.  *)
(***************************************************************************)
THEOREM MemoryTablesAreConsistent == TraceSpec => []MemoryTablesSatisfyAir
<1>1. FramesInv /\ UnderflowInv /\ TraceInv /\ RamTraceIsCoherent => MemoryTablesSatisfyAir
    <2> SUFFICES ASSUME FramesInv, UnderflowInv, TraceInv, RamTraceIsCoherent
                 PROVE  MemoryTablesSatisfyAir
        OBVIOUS
    <2>1. ASSUME Finished, NEW h \in PaddedHeights
          PROVE  /\ OpStackFirstRow(PaddedOpStackTable(h)[1])
                 /\ \A pair \in ConsecutiveRows(PaddedOpStackTable(h)) :
                        OpStackTransition(pair[1], pair[2])
                 /\ RamPointersAreContiguous(PaddedRamTable(h))
                 /\ \A pair \in ConsecutiveRows(PaddedRamTable(h)) :
                        RamTransition(pair[1], pair[2])
                 /\ JumpStackFirstRow(PaddedJumpStackTable(h)[1])
                 /\ \A pair \in ConsecutiveRows(PaddedJumpStackTable(h)) :
                        JumpStackTransition(pair[1], pair[2])
        <3>1. Succeeds /\ halting
            BY <2>1 DEF Finished, Succeeds
        <3>2. PICK n \in Nat \ {0} : /\ n = Len(processor_trace) /\ IsSequence(processor_trace)
                                     /\ CoherentFrames(n, processor_trace)
            <4>1. /\ cycle_count \in Nat \ {0} /\ Len(processor_trace) = cycle_count
                  /\ IsSequence(processor_trace)
                BY <3>1 DEF FramesInv, ClockInv, VMTypeOK
            <4>2. FramesHold(Len(processor_trace), processor_trace, jump_stack)
                BY <3>1 DEF FramesInv
            <4> QED BY <4>1, <4>2 DEF FramesHold
        <3>3. PICK m \in Nat : /\ m = Len(op_stack_underflow_trace)
                               /\ IsSequence(op_stack_underflow_trace)
                               /\ CoherentUnderflow(m, op_stack_underflow_trace)
            BY <3>1 DEF UnderflowInv, UnderflowHolds, IsSequence
        <3>4. PICK l \in Nat : /\ l = Len(ram_trace) /\ IsSequence(ram_trace)
                               /\ CoherentAccesses(l, ram_trace)
            BY CoherentRamTrace DEF IsSequence
        <3>5. h \in Nat /\ n <= h /\ m <= h /\ l <= h
            BY <3>2, <3>3, <3>4, HeightsFit
        <3>6. h \in Nat \ {0}
            BY <3>2, <3>5
        <3>7. /\ OpStackFirstRow(PaddedOpStackTable(h)[1])
              /\ \A pair \in ConsecutiveRows(PaddedOpStackTable(h)) :
                     OpStackTransition(pair[1], pair[2])
            BY <3>3, <3>5, <3>6, OpStackTableIsConsistent
        <3>8. /\ RamPointersAreContiguous(PaddedRamTable(h))
              /\ \A pair \in ConsecutiveRows(PaddedRamTable(h)) : RamTransition(pair[1], pair[2])
            BY <3>4, <3>5, RamTableIsConsistent
        <3>9. /\ JumpStackFirstRow(PaddedJumpStackTable(h)[1])
              /\ \A pair \in ConsecutiveRows(PaddedJumpStackTable(h)) :
                     JumpStackTransition(pair[1], pair[2])
            BY <3>2, <3>5, JumpStackTableIsConsistent
        <3> QED BY <3>7, <3>8, <3>9
    <2> QED BY <2>1 DEF MemoryTablesSatisfyAir, OpStackTableSatisfiesAir,
                        RamTableSatisfiesAir, JumpStackTableSatisfiesAir
<1> QED BY <1>1, FramesInvariance, UnderflowInvariance, RamTraceInvariance, RamCoherence, PTL
------------------------------------------------------------------------------
(* How often an element occurs in a sequence. *)

\* How often an element occurs.
Occurrences(s, x) == Cardinality(Places(s, x))

\* What a concatenation has is what its parts have.
LEMMA OccurrencesAdd ==
    ASSUME NEW s, NEW t, IsSequence(s), IsSequence(t), NEW x
    PROVE  /\ Occurrences(s \o t, x) = Occurrences(s, x) + Occurrences(t, x)
           /\ Occurrences(s, x) \in Nat /\ Occurrences(t, x) \in Nat
<1>1. PICK m, n \in Nat : m = Len(s) /\ n = Len(t)
    BY DEF IsSequence
<1>2. PICK u : u = s \o t
    OBVIOUS
<1>3. /\ IsSequence(u) /\ Len(u) = m + n
      /\ \A i \in 1 .. m : u[i] = s[i]
      /\ \A i \in 1 .. n : u[m + i] = t[i]
    BY <1>1, <1>2, ConcatenatedSequence
<1>4. DOMAIN s = 1 .. m /\ DOMAIN t = 1 .. n /\ DOMAIN u = 1 .. (m + n) /\ m \in Nat
    BY <1>1, <1>3 DEF IsSequence
<1>5. PICK A, B, C : /\ A = {i \in 1 .. m : s[i] = x} /\ B = {i \in 1 .. n : t[i] = x}
                     /\ C = {i \in 1 .. (m + n) : u[i] = x}
    OBVIOUS
<1> DEFINE D == {m + i : i \in B}
           f == [i \in B |-> m + i]
<1>6. IsFiniteSet(A) /\ IsFiniteSet(B)
    <2>1. IsFiniteSet(1 .. m) /\ IsFiniteSet(1 .. n)
        BY FS_Interval
    <2>2. A \subseteq 1 .. m /\ B \subseteq 1 .. n
        BY <1>5
    <2> QED BY <2>1, <2>2, FS_Subset
<1>7. IsFiniteSet(D) /\ Cardinality(D) = Cardinality(B)
    <2>1. f \in Surjection(B, D)
        BY DEF Surjection
    <2>2. \A i, j \in B : f[i] = f[j] => i = j
        BY <1>1, <1>5
    <2>3. f \in Bijection(B, D)
        BY <2>1, <2>2 DEF Surjection, Bijection, Injection, IsInjective
    <2>4. ExistsBijection(B, D)
        BY <2>3 DEF ExistsBijection
    <2> HIDE DEF D, f
    <2> QED BY <1>6, <2>4, FS_Bijection
<1>8. C = A \cup D
    <2>1. ASSUME NEW i \in C PROVE i \in A \cup D
        <3>1. CASE i <= m
            BY <1>1, <1>3, <1>5, <3>1
        <3>2. CASE i > m
            <4>1. i - m \in 1 .. n /\ i = m + (i - m)
                BY <1>1, <1>5, <3>2
            <4>2. i - m \in B
                BY <1>3, <1>5, <4>1
            <4> QED BY <4>1, <4>2
        <3> QED BY <1>1, <1>5, <3>1, <3>2
    <2>2. ASSUME NEW i \in A PROVE i \in C
        BY <1>1, <1>3, <1>5
    <2>3. ASSUME NEW i \in B PROVE m + i \in C
        BY <1>1, <1>3, <1>5
    <2> QED BY <2>1, <2>2, <2>3
<1>9. A \cap D = {}
    BY <1>1, <1>5
<1> HIDE DEF D, f
<1>10. Cardinality(C) = Cardinality(A) + Cardinality(B)
    <2>1. /\ Cardinality(A) \in Nat /\ Cardinality(D) \in Nat
        BY <1>6, <1>7, FS_CardinalityType
    <2>2. Cardinality(A \cap D) = 0
        BY <1>9, FS_EmptySet
    <2>3. Cardinality(A \cup D) = Cardinality(A) + Cardinality(D) - Cardinality(A \cap D)
        BY <1>6, <1>7, FS_Union
    <2> QED BY <1>7, <1>8, <2>1, <2>2, <2>3
<1>11. A = Places(s, x) /\ B = Places(t, x) /\ C = Places(u, x)
    BY <1>4, <1>5 DEF Places
<1> QED BY <1>2, <1>6, <1>10, <1>11, FS_CardinalityType DEF Occurrences

\* An element occurs if and only if its number of occurrences is positive.
LEMMA OccursIfCounted ==
    ASSUME NEW s, IsSequence(s), NEW x
    PROVE  Occurrences(s, x) > 0 <=> \E i \in 1 .. Len(s) : s[i] = x
<1>1. PICK n \in Nat : n = Len(s) /\ DOMAIN s = 1 .. n
    BY DEF IsSequence
<1>2. PICK A : A = Places(s, x)
    OBVIOUS
<1>3. IsFiniteSet(A)
    <2>1. IsFiniteSet(1 .. n) /\ A \subseteq 1 .. n
        BY <1>1, <1>2, FS_Interval DEF Places
    <2> QED BY <2>1, FS_Subset
<1>4. Cardinality(A) \in Nat /\ (Cardinality(A) = 0 <=> A = {})
    BY <1>3, FS_CardinalityType, FS_EmptySet
<1> QED BY <1>1, <1>2, <1>4 DEF Occurrences, Places

\* At most one element at each place.
AtMostOneEach(ds) == \A k \in 1 .. Len(ds) : ds[k] = <<>> \/ \E v : ds[k] = <<v>>

\* The places that have x alone.
PlacesOfOne(ds, n, x) == {k \in 1 .. n : ds[k] = <<x>>}

\* What such a sequence flattens to has as many x as it has places with x.
LEMMA FlattenedOccurrences ==
    ASSUME NEW ds, IsSequence(ds), AtMostOneEach(ds)
    PROVE  /\ IsSequence(S!FlattenSeq(ds))
           /\ \A x : Occurrences(S!FlattenSeq(ds), x) = Cardinality(PlacesOfOne(ds, Len(ds), x))
<1>1. PICK n \in Nat : n = Len(ds) /\ ds = [k \in 1 .. n |-> ds[k]]
    BY DEF IsSequence
<1> DEFINE prefix(k) == [i \in 1 .. k |-> ds[i]]
           flat(k) == S!FlattenSeq(prefix(k))
           T == {k \in 0 .. n : IsSequence(flat(k)) /\ \A x : Occurrences(flat(k), x) =
                                                 Cardinality(PlacesOfOne(ds, k, x))}
<1>2. \A k \in 0 .. n : IsSequence(prefix(k)) /\ Len(prefix(k)) = k
    <2> SUFFICES ASSUME NEW k \in 0 .. n PROVE IsSequence(prefix(k)) /\ Len(prefix(k)) = k
        OBVIOUS
    <2>1. PICK s : s = prefix(k)
        OBVIOUS
    <2>2. s = [i \in 1 .. k |-> s[i]] /\ k \in Nat
        BY <2>1
    <2>3. IsSequence(s) /\ Len(s) = k
        BY <2>2, IndexedSequence
    <2> QED BY <2>1, <2>3
<1>3. 0 \in T
    <2>1. flat(0) = <<>>
        <3>0. 0 \in 0 .. n
            OBVIOUS
        <3>1. Len(prefix(0)) = 0 /\ IsSequence(prefix(0))
            BY <1>2, <3>0
        <3> HIDE DEF prefix
        <3> QED BY <3>1 DEF S!FlattenSeq, IsSequence
    <2>2. \A x : Occurrences(<<>>, x) = 0
        BY FS_EmptySet DEF Occurrences, Places
    <2>3. \A x : PlacesOfOne(ds, 0, x) = {}
        BY DEF PlacesOfOne
    <2>4. \A x : Cardinality(PlacesOfOne(ds, 0, x)) = 0
        BY <2>3, FS_EmptySet
    <2>5. IsSequence(<<>>) /\ 0 \in 0 .. n
        BY EmptySequence
    <2> HIDE DEF prefix
    <2> QED BY <2>1, <2>2, <2>4, <2>5
<1>4. ASSUME NEW k \in 0 .. (n - 1), k \in T PROVE k + 1 \in T
    <2>1. PICK p, q, d : p = prefix(k) /\ q = prefix(k + 1) /\ d = ds[k + 1]
        OBVIOUS
    <2>2. k \in 0 .. n /\ k + 1 \in 0 .. n /\ k + 1 \in 1 .. n
        OBVIOUS
    <2>3. /\ IsSequence(p) /\ Len(p) = k /\ IsSequence(q) /\ Len(q) = k + 1
        BY <1>2, <2>1, <2>2
    <2>4. /\ \A i \in 1 .. k : p[i] = ds[i]
          /\ \A i \in 1 .. (k + 1) : q[i] = ds[i]
        BY <2>1
    <2>5. q = Append(p, d)
        <3>1. PICK r : r = Append(p, d)
            OBVIOUS
        <3>2. /\ IsSequence(r) /\ Len(r) = k + 1 /\ r[k + 1] = d
              /\ \A i \in 1 .. k : r[i] = p[i]
            BY <2>3, <3>1, AppendedSequence
        <3>3. \A i \in 1 .. (k + 1) : q[i] = r[i]
            BY <2>1, <2>4, <3>2
        <3>4. q = r
            BY <2>3, <3>2, <3>3, SequencesEqual
        <3> QED BY <3>1, <3>4
    <2>6. d = <<>> \/ \E v : d = <<v>>
        BY <1>1, <2>1, <2>2 DEF AtMostOneEach
    <2>7. IsSequence(d)
        <3>1. CASE d = <<>>
            BY <3>1, EmptySequence
        <3>2. ASSUME NEW v, d = <<v>> PROVE IsSequence(d)
            BY <3>2 DEF IsSequence
        <3> QED BY <2>6, <3>1, <3>2
    <2>8. PICK a, b : a = flat(k) /\ b = flat(k + 1)
        OBVIOUS
    <2>9. /\ IsSequence(a) /\ \A x : Occurrences(a, x) = Cardinality(PlacesOfOne(ds, k, x))
        BY <1>4, <2>8
    <2>10. b = a \o d
        <3>1. a = S!FlattenSeq(p) /\ b = S!FlattenSeq(q)
            BY <2>1, <2>8
        <3>2. S!FlattenSeq(Append(p, d)) = S!FlattenSeq(p) \o d
            BY <2>3, <2>7, FlattenAppended
        <3> QED BY <2>5, <3>1, <3>2
    <2>11. IsSequence(b)
        BY <2>7, <2>9, <2>10, ConcatenatedSequence
    <2>12. ASSUME NEW x
           PROVE  Occurrences(b, x) = Cardinality(PlacesOfOne(ds, k + 1, x))
        <3>1. Occurrences(b, x) = Occurrences(a, x) + Occurrences(d, x)
            BY <2>7, <2>9, <2>10, OccurrencesAdd
        <3>2. PICK A, B : A = PlacesOfOne(ds, k, x) /\ B = PlacesOfOne(ds, k + 1, x)
            OBVIOUS
        <3>3. IsFiniteSet(A) /\ k + 1 \notin A /\ Cardinality(A) \in Nat
            <4>1. IsFiniteSet(1 .. k) /\ A \subseteq 1 .. k /\ k + 1 \notin 1 .. k
                BY <3>2, FS_Interval DEF PlacesOfOne
            <4> QED BY <4>1, FS_Subset, FS_CardinalityType
        <3>4. CASE d = <<x>>
            <4>1. B = A \cup {k + 1}
                <5>1. \A i : i \in 1 .. (k + 1) <=> i \in 1 .. k \/ i = k + 1
                    OBVIOUS
                <5>2. ds[k + 1] = <<x>>
                    BY <2>1, <3>4
                <5> QED BY <3>2, <5>1, <5>2 DEF PlacesOfOne
            <4>2. Cardinality(B) = Cardinality(A) + 1
                BY <3>3, <4>1, FS_AddElement
            <4>3. Places(d, x) = {1}
                BY <3>4 DEF Places
            <4>4. Occurrences(d, x) = 1
                BY <4>3, FS_Singleton DEF Occurrences
            <4> QED BY <2>9, <3>1, <3>2, <4>2, <4>4
        <3>5. CASE d # <<x>>
            <4>1. B = A
                BY <2>1, <3>2, <3>5 DEF PlacesOfOne
            <4>2. Places(d, x) = {}
                <5>1. CASE d = <<>>
                    BY <5>1 DEF Places
                <5>2. ASSUME NEW v, d = <<v>> PROVE Places(d, x) = {}
                    BY <3>5, <5>2 DEF Places
                <5> QED BY <2>6, <5>1, <5>2
            <4>3. Occurrences(d, x) = 0
                BY <4>2, FS_EmptySet DEF Occurrences
            <4> QED BY <2>9, <3>1, <3>2, <3>3, <4>1, <4>3
        <3> QED BY <3>4, <3>5
    <2> QED BY <2>2, <2>8, <2>11, <2>12
<1>5. \A k \in 0 .. n : k \in T
    <2> HIDE DEF T
    <2> QED BY <1>3, <1>4, InductionUpTo
<1>6. prefix(n) = ds /\ n \in 0 .. n
    BY <1>1
<1>7. /\ IsSequence(flat(n))
      /\ \A x : Occurrences(flat(n), x) = Cardinality(PlacesOfOne(ds, n, x))
    BY <1>5, <1>6
<1> HIDE DEF prefix
<1> QED BY <1>1, <1>6, <1>7
------------------------------------------------------------------------------
(* Clock jump differences. *)

\* The pairs of consecutive rows of one pointer whose clocks differ by x.
JumpsBy(rows, pointer, x) ==
    {k \in 1 .. (Len(rows) - 1) : /\ rows[k][pointer] = rows[k + 1][pointer]
                                  /\ Minus(rows[k + 1].clk, rows[k].clk) = x}

\* A difference occurs as often as there are such pairs.
LEMMA DifferencesCounted ==
    ASSUME NEW rows, IsSequence(rows), NEW pointer
    PROVE  /\ IsSequence(ClockJumpDifferences(rows, pointer))
           /\ \A x : Occurrences(ClockJumpDifferences(rows, pointer), x) =
                         Cardinality(JumpsBy(rows, pointer, x))
<1>1. PICK n \in Nat : n = Len(rows)
    BY DEF IsSequence
<1>2. PICK e \in Nat : 1 .. (n - 1) = 1 .. e
    <2>1. CASE n = 0
        <3>1. 1 .. (n - 1) = 1 .. 0
            BY <2>1
        <3> QED BY <3>1
    <2>2. CASE n > 0
        <3>1. n - 1 \in Nat
            BY <2>2
        <3> QED BY <3>1
    <2> QED BY <2>1, <2>2
<1>3. PICK ds : ds = [k \in 1 .. e |->
                         IF rows[k][pointer] = rows[k + 1][pointer]
                         THEN <<Minus(rows[k + 1].clk, rows[k].clk)>> ELSE <<>>]
    OBVIOUS
<1>4. IsSequence(ds) /\ Len(ds) = e
    <2>1. ds = [k \in 1 .. e |-> ds[k]]
        BY <1>3
    <2> QED BY <2>1, IndexedSequence
<1>5. AtMostOneEach(ds)
    BY <1>3, <1>4 DEF AtMostOneEach
<1>6. ClockJumpDifferences(rows, pointer) = S!FlattenSeq(ds)
    BY <1>1, <1>2, <1>3 DEF ClockJumpDifferences
<1>7. ASSUME NEW x PROVE PlacesOfOne(ds, e, x) = JumpsBy(rows, pointer, x)
    <2>1. ASSUME NEW k \in 1 .. e
          PROVE  ds[k] = <<x>> <=> /\ rows[k][pointer] = rows[k + 1][pointer]
                                   /\ Minus(rows[k + 1].clk, rows[k].clk) = x
        BY <1>3
    <2> QED BY <1>1, <1>2, <2>1 DEF PlacesOfOne, JumpsBy
<1> QED BY <1>4, <1>5, <1>6, <1>7, FlattenedOccurrences

\* Clocks of n rows that count cycles before len, in order at each pointer.
ClocksInOrder(rows, pointer, n, len) ==
    /\ \A k \in 1 .. n : rows[k].clk \in 0 .. (len - 1)
    /\ \A k \in 1 .. (n - 1) : rows[k][pointer] = rows[k + 1][pointer] =>
                                   rows[k].clk <= rows[k + 1].clk

\* The differences are cycles, too.
LEMMA DifferencesAreCycles ==
    ASSUME NEW rows, IsSequence(rows), NEW pointer, NEW len \in Nat, len <= P,
           ClocksInOrder(rows, pointer, Len(rows), len), NEW x,
           Occurrences(ClockJumpDifferences(rows, pointer), x) > 0
    PROVE  x \in 0 .. (len - 1)
<1>1. PICK n \in Nat : n = Len(rows)
    BY DEF IsSequence
<1>2. PICK A : A = JumpsBy(rows, pointer, x) /\ Cardinality(A) > 0
    BY DifferencesCounted
<1>3. A # {}
    BY <1>2, FS_EmptySet
<1>4. PICK k \in A : TRUE
    BY <1>3
<1>5. /\ k \in 1 .. (n - 1) /\ rows[k][pointer] = rows[k + 1][pointer]
      /\ Minus(rows[k + 1].clk, rows[k].clk) = x
    BY <1>1, <1>2, <1>4 DEF JumpsBy
<1>6. k \in 1 .. n /\ k + 1 \in 1 .. n
    BY <1>5
<1>7. PICK a, b \in 0 .. (len - 1) : a = rows[k].clk /\ b = rows[k + 1].clk /\ a <= b
    BY <1>1, <1>5, <1>6 DEF ClocksInOrder
<1>8. x = (b - a) % P
    BY <1>5, <1>7 DEF Minus
<1>9. b - a \in 0 .. (len - 1) /\ b - a \in Field /\ b - a \in Int
    <2>1. PICK d \in 0 .. (len - 1) : d = b - a
        BY <1>7
    <2>2. P \in Nat /\ d \in 0 .. (P - 1)
        BY <2>1, FieldFacts
    <2> QED BY <2>1, <2>2 DEF Field
<1>10. (b - a) % P = b - a
    BY <1>9, ReducedIsUnchanged
<1> QED BY <1>8, <1>9, <1>10

\* A table with n rows before its padding.
PaddedFrom(table, rows, n, column) ==
    /\ IsSequence(rows) /\ Len(rows) = n
    /\ IsSequence(table) /\ n <= Len(table)
    /\ \A k \in 1 .. n : table[k] = rows[k] /\ rows[k][column] # Padding
    /\ \A k \in (n + 1) .. Len(table) : table[k][column] = Padding

\* Padding looks up nothing.
LEMMA PaddingLooksUpNothing ==
    ASSUME NEW table, NEW rows, NEW n \in Nat, NEW column, NEW pointer,
           PaddedFrom(table, rows, n, column)
    PROVE  /\ IsSequence(LookedUpBeforePadding(table, pointer, column))
           /\ \A x : Occurrences(LookedUpBeforePadding(table, pointer, column), x) =
                         Occurrences(ClockJumpDifferences(rows, pointer), x)
<1>1. PICK h \in Nat : h = Len(table) /\ n <= h
    BY DEF PaddedFrom, IsSequence
<1>2. PICK e \in Nat : 1 .. (h - 1) = 1 .. e /\ (h > 0 => e = h - 1) /\ (h = 0 => e = 0)
    <2>1. CASE h = 0
        <3>1. 1 .. (h - 1) = 1 .. 0
            BY <2>1
        <3> QED BY <2>1, <3>1
    <2>2. CASE h > 0
        <3>1. h - 1 \in Nat
            BY <2>2
        <3> QED BY <2>2, <3>1
    <2> QED BY <2>1, <2>2
<1>3. PICK ds : ds = [k \in 1 .. e |->
                         IF table[k + 1][column] # Padding
                            /\ table[k][pointer] = table[k + 1][pointer]
                         THEN <<Minus(table[k + 1].clk, table[k].clk)>> ELSE <<>>]
    OBVIOUS
<1>4. IsSequence(ds) /\ Len(ds) = e
    <2>1. ds = [k \in 1 .. e |-> ds[k]]
        BY <1>3
    <2> QED BY <2>1, IndexedSequence
<1>5. AtMostOneEach(ds)
    BY <1>3, <1>4 DEF AtMostOneEach
<1>6. LookedUpBeforePadding(table, pointer, column) = S!FlattenSeq(ds)
    BY <1>1, <1>2, <1>3 DEF LookedUpBeforePadding
<1>7. ASSUME NEW x PROVE PlacesOfOne(ds, e, x) = JumpsBy(rows, pointer, x)
    <2>1. ASSUME NEW k \in 1 .. e
          PROVE  ds[k] = <<x>> <=> /\ table[k + 1][column] # Padding
                                   /\ table[k][pointer] = table[k + 1][pointer]
                                   /\ Minus(table[k + 1].clk, table[k].clk) = x
        BY <1>3
    <2>2. ASSUME NEW k \in 1 .. e, k <= n - 1
          PROVE  ds[k] = <<x>> <=> /\ rows[k][pointer] = rows[k + 1][pointer]
                                   /\ Minus(rows[k + 1].clk, rows[k].clk) = x
        <3>1. k \in 1 .. n /\ k + 1 \in 1 .. n
            BY <2>2
        <3>2. table[k] = rows[k] /\ table[k + 1] = rows[k + 1] /\ rows[k + 1][column] # Padding
            BY <3>1 DEF PaddedFrom
        <3> QED BY <2>1, <3>2
    <2>3. ASSUME NEW k \in 1 .. e, ~(k <= n - 1) PROVE ds[k] # <<x>>
        <3>1. k + 1 \in (n + 1) .. h
            BY <1>1, <1>2, <2>3
        <3>2. table[k + 1][column] = Padding
            BY <1>1, <3>1 DEF PaddedFrom
        <3> QED BY <2>1, <3>2
    <2>4. \A k \in 1 .. (n - 1) : k \in 1 .. e
        BY <1>1, <1>2
    <2>5. Len(rows) = n
        BY DEF PaddedFrom
    <2> QED BY <2>2, <2>3, <2>4, <2>5 DEF PlacesOfOne, JumpsBy
<1>8. IsSequence(rows)
    BY DEF PaddedFrom
<1> QED BY <1>4, <1>5, <1>6, <1>7, <1>8, FlattenedOccurrences, DifferencesCounted

\* Sorting puts clocks in order.
LEMMA SortedClocks ==
    ASSUME NEW n \in Nat, NEW major, NEW minor, NEW order, SortedOrder(order, n, major, minor),
           AreNumbers(n, major), AreNumbers(n, minor), NEW k \in 1 .. (n - 1),
           major[order[k]] = major[order[k + 1]]
    PROVE  minor[order[k]] <= minor[order[k + 1]]
<1>1. k \in 1 .. n /\ k + 1 \in 1 .. n /\ k < k + 1
    OBVIOUS
<1>2. PICK i, j \in 1 .. n : i = order[k] /\ j = order[k + 1] /\ Earlier(major, minor, i, j)
    BY <1>1 DEF SortedOrder, Permutes1To
<1>3. /\ major[i] \in Int /\ major[j] \in Int /\ minor[i] \in Int /\ minor[j] \in Int
      /\ major[i] = major[j]
    BY <1>2 DEF AreNumbers
<1> QED BY <1>2, <1>3 DEF Earlier, Lower

\* Of the op stack table, the rows recorded look up cycles, and padding looks up nothing.
LEMMA OpStackTableLookups ==
    ASSUME NEW n \in Nat, IsSequence(op_stack_underflow_trace),
           Len(op_stack_underflow_trace) = n, CoherentUnderflow(n, op_stack_underflow_trace),
           NEW len \in Nat, \A i \in 1 .. n : op_stack_underflow_trace[i].clk < len,
           NEW h \in Nat, n <= h
    PROVE  /\ PaddedFrom(PaddedOpStackTable(h), FilledOpStackTable, n, "shrink_stack")
           /\ ClocksInOrder(FilledOpStackTable, "stack_pointer", n, len)
<1> DEFINE major == [i \in 1 .. n |-> op_stack_underflow_trace[i].stack_pointer]
           minor == [i \in 1 .. n |-> op_stack_underflow_trace[i].clk]
           row(i) == op_stack_underflow_trace[i]
<1>1. AreNumbers(n, major) /\ AreNumbers(n, minor) /\ DOMAIN op_stack_underflow_trace = 1 .. n
    BY DEF AreNumbers, CoherentUnderflow, IsSequence
<1>2. PICK order : SortedOrder(order, n, major, minor)
                   /\ FilledOpStackTable = [k \in 1 .. n |-> row(order[k])]
    BY <1>1, OpStackTableSorted
<1>3. PICK rows : rows = FilledOpStackTable
    OBVIOUS
<1>4. IsSequence(rows) /\ Len(rows) = n /\ \A k \in 1 .. n : rows[k] = row(order[k])
    <2>1. rows = [k \in 1 .. n |-> rows[k]]
        BY <1>2, <1>3
    <2> QED BY <1>2, <1>3, <2>1, IndexedSequence
<1>5. \A k \in 1 .. n : order[k] \in 1 .. n
    BY <1>2 DEF SortedOrder, Permutes1To
<1>6. \A i \in 1 .. n : /\ row(i).clk \in Nat /\ row(i).clk < len /\ row(i).shrink_stack \in {0, 1}
                        /\ DOMAIN row(i) = {"clk", "shrink_stack", "stack_pointer",
                                            "first_underflow_element"}
    BY DEF CoherentUnderflow
<1>7. PICK m \in Nat : m = h - n /\ h = n + m
    OBVIOUS
<1>8. PICK template : template = IF rows = <<>>
                                 THEN [clk |-> 0, shrink_stack |-> Padding,
                                       stack_pointer |-> NumRegisters,
                                       first_underflow_element |-> 0]
                                 ELSE [rows[Len(rows)] EXCEPT !.shrink_stack = Padding]
    OBVIOUS
<1>9. PICK table : table = PaddedOpStackTable(h)
    OBVIOUS
<1>10. IsPadded(table, rows, template, m)
    <2>1. table = rows \o Repeat(template, m)
        BY <1>3, <1>4, <1>7, <1>8, <1>9 DEF PaddedOpStackTable
    <2> QED BY <1>4, <2>1, PaddedBehind
<1>11. template.shrink_stack = Padding
    <2>1. CASE rows = <<>>
        BY <1>8, <2>1
    <2>2. CASE rows # <<>>
        <3>1. n # 0
            BY <1>4, <2>2, EmptySequence, SequencesEqual
        <3>2. n \in 1 .. n
            BY <3>1
        <3>3. PICK r : r = rows[n] /\ "shrink_stack" \in DOMAIN r
            <4>1. rows[n] = row(order[n]) /\ order[n] \in 1 .. n
                BY <1>4, <1>5, <3>2
            <4> HIDE DEF row
            <4> QED BY <1>6, <4>1
        <3>4. template = [r EXCEPT !.shrink_stack = Padding]
            BY <1>4, <1>8, <2>2, <3>3
        <3> QED BY <3>3, <3>4
    <2> QED BY <2>1, <2>2
<1>12. PaddedFrom(table, rows, n, "shrink_stack")
    <2>1. IsSequence(table) /\ Len(table) = h
        BY <1>4, <1>7, <1>10 DEF IsPadded
    <2>2. ASSUME NEW k \in 1 .. n PROVE table[k] = rows[k] /\ rows[k].shrink_stack # Padding
        <3>1. rows[k] = row(order[k]) /\ order[k] \in 1 .. n
            BY <1>4, <1>5
        <3>2. row(order[k]).shrink_stack \in {0, 1}
            <4> HIDE DEF row
            <4> QED BY <1>6, <3>1
        <3> QED BY <1>4, <1>10, <3>1, <3>2 DEF IsPadded, Padding
    <2>3. ASSUME NEW k \in (n + 1) .. h PROVE table[k].shrink_stack = Padding
        <3>1. k - n \in 1 .. m /\ n + (k - n) = k
            BY <1>7, <2>3
        <3>2. table[n + (k - n)] = template
            BY <1>4, <1>10, <3>1 DEF IsPadded
        <3> QED BY <1>11, <3>1, <3>2
    <2> QED BY <1>4, <2>1, <2>2, <2>3 DEF PaddedFrom
<1>13. ClocksInOrder(rows, "stack_pointer", n, len)
    <2>1. ASSUME NEW k \in 1 .. n PROVE rows[k].clk \in 0 .. (len - 1)
        <3>1. rows[k] = row(order[k]) /\ order[k] \in 1 .. n
            BY <1>4, <1>5
        <3>2. PICK c \in Nat : c = row(order[k]).clk /\ c < len
            <4> HIDE DEF row
            <4> QED BY <1>6, <3>1
        <3> QED BY <3>1, <3>2
    <2>2. ASSUME NEW k \in 1 .. (n - 1), rows[k].stack_pointer = rows[k + 1].stack_pointer
          PROVE  rows[k].clk <= rows[k + 1].clk
        <3>1. k \in 1 .. n /\ k + 1 \in 1 .. n
            OBVIOUS
        <3>2. /\ rows[k] = row(order[k]) /\ order[k] \in 1 .. n
              /\ rows[k + 1] = row(order[k + 1]) /\ order[k + 1] \in 1 .. n
            BY <1>4, <1>5, <3>1
        <3>3. /\ major[order[k]] = rows[k].stack_pointer /\ minor[order[k]] = rows[k].clk
              /\ major[order[k + 1]] = rows[k + 1].stack_pointer
              /\ minor[order[k + 1]] = rows[k + 1].clk
            BY <3>2
        <3> HIDE DEF major, minor
        <3> QED BY <1>1, <1>2, <2>2, <3>3, SortedClocks
    <2> QED BY <2>1, <2>2 DEF ClocksInOrder
<1> QED BY <1>3, <1>9, <1>12, <1>13

\* Of the RAM table, too.
LEMMA RamTableLookups ==
    ASSUME NEW n \in Nat, IsSequence(ram_trace), Len(ram_trace) = n,
           NEW len \in Nat,
           \A i \in 1 .. n : ram_trace[i].clk \in 0 .. (len - 1) /\ ram_trace[i].ram_pointer \in Int,
           NEW h \in Nat, n <= h
    PROVE  /\ PaddedFrom(PaddedRamTable(h), FilledRamTable, n, "instruction_type")
           /\ ClocksInOrder(FilledRamTable, "ram_pointer", n, len)
<1> DEFINE major == [i \in 1 .. n |-> ram_trace[i].ram_pointer]
           minor == [i \in 1 .. n |-> ram_trace[i].clk]
           row(i) == RamTableRow(ram_trace[i])
<1>1. AreNumbers(n, major) /\ AreNumbers(n, minor) /\ DOMAIN ram_trace = 1 .. n
    BY DEF AreNumbers, IsSequence
<1>2. PICK order : SortedOrder(order, n, major, minor)
                   /\ FilledRamTable = [k \in 1 .. n |-> row(order[k])]
    BY <1>1, RamTableSorted
<1>3. PICK rows : rows = FilledRamTable
    OBVIOUS
<1>4. IsSequence(rows) /\ Len(rows) = n /\ \A k \in 1 .. n : rows[k] = row(order[k])
    <2>1. rows = [k \in 1 .. n |-> rows[k]]
        BY <1>2, <1>3
    <2> QED BY <1>2, <1>3, <2>1, IndexedSequence
<1>5. \A k \in 1 .. n : order[k] \in 1 .. n
    BY <1>2 DEF SortedOrder, Permutes1To
<1>6. \A i \in 1 .. n : /\ row(i).clk = ram_trace[i].clk /\ row(i).clk \in 0 .. (len - 1)
                        /\ row(i).ram_pointer = ram_trace[i].ram_pointer
                        /\ row(i).instruction_type # Padding
                        /\ "instruction_type" \in DOMAIN row(i)
    BY DEF RamTableRow, Padding
<1>7. PICK m \in Nat : m = h - n /\ h = n + m
    OBVIOUS
<1>8. PICK template : template = IF rows = <<>>
                                 THEN [clk |-> 0, instruction_type |-> Padding,
                                       ram_pointer |-> 0, ram_value |-> 0]
                                 ELSE [rows[Len(rows)] EXCEPT !.instruction_type = Padding]
    OBVIOUS
<1>9. PICK table : table = PaddedRamTable(h)
    OBVIOUS
<1>10. IsPadded(table, rows, template, m)
    <2>1. table = rows \o Repeat(template, m)
        BY <1>3, <1>4, <1>7, <1>8, <1>9 DEF PaddedRamTable
    <2> QED BY <1>4, <2>1, PaddedBehind
<1> HIDE DEF row
<1>11. template.instruction_type = Padding
    <2>1. CASE rows = <<>>
        BY <1>8, <2>1
    <2>2. CASE rows # <<>>
        <3>1. n # 0
            BY <1>4, <2>2, EmptySequence, SequencesEqual
        <3>2. n \in 1 .. n
            BY <3>1
        <3>3. PICK r : r = rows[n] /\ "instruction_type" \in DOMAIN r
            BY <1>4, <1>5, <1>6, <3>2
        <3>4. template = [r EXCEPT !.instruction_type = Padding]
            BY <1>4, <1>8, <2>2, <3>3
        <3> QED BY <3>3, <3>4
    <2> QED BY <2>1, <2>2
<1>12. PaddedFrom(table, rows, n, "instruction_type")
    <2>1. IsSequence(table) /\ Len(table) = h
        BY <1>4, <1>7, <1>10 DEF IsPadded
    <2>2. ASSUME NEW k \in 1 .. n PROVE table[k] = rows[k] /\ rows[k].instruction_type # Padding
        BY <1>4, <1>5, <1>6, <1>10 DEF IsPadded
    <2>3. ASSUME NEW k \in (n + 1) .. h PROVE table[k].instruction_type = Padding
        <3>1. k - n \in 1 .. m /\ n + (k - n) = k
            BY <1>7, <2>3
        <3>2. table[n + (k - n)] = template
            BY <1>4, <1>10, <3>1 DEF IsPadded
        <3> QED BY <1>11, <3>1, <3>2
    <2> QED BY <1>4, <2>1, <2>2, <2>3 DEF PaddedFrom
<1>13. ClocksInOrder(rows, "ram_pointer", n, len)
    <2>1. \A k \in 1 .. n : rows[k].clk \in 0 .. (len - 1)
        BY <1>4, <1>5, <1>6
    <2>2. ASSUME NEW k \in 1 .. (n - 1), rows[k].ram_pointer = rows[k + 1].ram_pointer
          PROVE  rows[k].clk <= rows[k + 1].clk
        <3>1. k \in 1 .. n /\ k + 1 \in 1 .. n
            OBVIOUS
        <3>2. /\ rows[k] = row(order[k]) /\ order[k] \in 1 .. n
              /\ rows[k + 1] = row(order[k + 1]) /\ order[k + 1] \in 1 .. n
            BY <1>4, <1>5, <3>1
        <3>3. /\ major[order[k]] = rows[k].ram_pointer /\ minor[order[k]] = rows[k].clk
              /\ major[order[k + 1]] = rows[k + 1].ram_pointer
              /\ minor[order[k + 1]] = rows[k + 1].clk
            BY <1>6, <3>2
        <3> HIDE DEF major, minor
        <3> QED BY <1>1, <1>2, <2>2, <3>3, SortedClocks
    <2> QED BY <2>1, <2>2 DEF ClocksInOrder
<1> QED BY <1>3, <1>9, <1>12, <1>13

\* m rows of padding behind row l, whose clocks count on from it; no row of that pointer
\* follows.
CountingOn(table, rows, pointer, n, m, l) ==
    /\ IsSequence(rows) /\ Len(rows) = n /\ IsSequence(table) /\ Len(table) = n + m
    /\ \A k \in 1 .. l : table[k] = rows[k]
    /\ \A k \in 1 .. m : /\ table[l + k][pointer] = rows[l][pointer]
                         /\ table[l + k].clk = rows[l].clk + k
    /\ \A k \in 1 .. (n - l) : table[(l + m) + k] = rows[l + k]
    /\ l < n => rows[l + 1][pointer] # rows[l][pointer]
    /\ rows[l].clk \in Nat

\* Such padding looks up 1, as often as it has rows.
LEMMA CountingPaddingLooksUpOne ==
    ASSUME NEW n \in Nat, NEW m \in Nat, NEW l \in 1 .. n, NEW rows, NEW table, NEW pointer,
           CountingOn(table, rows, pointer, n, m, l), NEW x
    PROVE  /\ Cardinality(JumpsBy(rows, pointer, x)) \in Nat
           /\ Cardinality(JumpsBy(table, pointer, x)) =
                  Cardinality(JumpsBy(rows, pointer, x)) + IF x = 1 THEN m ELSE 0
<1> DEFINE Jumps(t, k) == /\ t[k][pointer] = t[k + 1][pointer]
                          /\ Minus(t[k + 1].clk, t[k].clk) = x
           A == {k \in 1 .. (l - 1) : Jumps(rows, k)}
           B == {k \in (l + 1) .. (n - 1) : Jumps(rows, k)}
           C == IF x = 1 THEN l .. (l + m - 1) ELSE {}
           D == {k + m : k \in B}
           f == [k \in B |-> k + m]
<1>1. /\ Len(rows) = n /\ Len(table) = n + m
      /\ \A k \in 1 .. l : table[k] = rows[k]
      /\ \A k \in 1 .. m : /\ table[l + k][pointer] = rows[l][pointer]
                           /\ table[l + k].clk = rows[l].clk + k
      /\ \A k \in 1 .. (n - l) : table[(l + m) + k] = rows[l + k]
      /\ l < n => rows[l + 1][pointer] # rows[l][pointer]
      /\ rows[l].clk \in Nat
    BY DEF CountingOn
<1>2. JumpsBy(rows, pointer, x) = A \cup B
    <2>1. ASSUME NEW k \in 1 .. (n - 1), Jumps(rows, k)
          PROVE  k \in 1 .. (l - 1) \/ k \in (l + 1) .. (n - 1)
        <3>1. k # l
            BY <1>1, <2>1
        <3> QED BY <3>1
    <2>2. \A k : k \in 1 .. (l - 1) \/ k \in (l + 1) .. (n - 1) => k \in 1 .. (n - 1)
        OBVIOUS
    <2> QED BY <1>1, <2>1, <2>2 DEF JumpsBy
<1>3. ASSUME NEW k \in 1 .. (l - 1) PROVE Jumps(table, k) <=> Jumps(rows, k)
    <2>1. k \in 1 .. l /\ k + 1 \in 1 .. l
        OBVIOUS
    <2> QED BY <1>1, <2>1
<1>4. ASSUME NEW k \in l .. (l + m - 1) PROVE Jumps(table, k) <=> x = 1
    <2>1. PICK j \in 0 .. (m - 1) : j = k - l /\ k = l + j /\ k + 1 = l + (j + 1)
        BY <1>1
    <2>2. /\ table[l + j][pointer] = rows[l][pointer]
          /\ table[l + j].clk = rows[l].clk + j
        <3>1. CASE j = 0
            <4>1. l + j = l /\ l \in 1 .. l /\ rows[l].clk + j = rows[l].clk
                BY <1>1, <3>1
            <4> QED BY <1>1, <4>1
        <3>2. CASE j # 0
            <4>1. j \in 1 .. m
                BY <3>2
            <4> QED BY <1>1, <4>1
        <3> QED BY <3>1, <3>2
    <2>3. /\ table[l + (j + 1)][pointer] = rows[l][pointer]
          /\ table[l + (j + 1)].clk = rows[l].clk + (j + 1)
        <3>1. j + 1 \in 1 .. m
            OBVIOUS
        <3> QED BY <1>1, <3>1
    <2>4. PICK c \in Nat : c = rows[l].clk
        BY <1>1
    <2>5. (c + (j + 1)) - (c + j) = 1
        OBVIOUS
    <2>6. Minus(c + (j + 1), c + j) = 1
        <3>1. 1 \in Field /\ 1 % P = 1
            BY FieldFacts, ReducedIsUnchanged
        <3> QED BY <2>5, <3>1 DEF Minus
    <2> QED BY <2>1, <2>2, <2>3, <2>4, <2>6
<1>5. l < n => ~Jumps(table, l + m)
    <2> SUFFICES ASSUME l < n PROVE ~Jumps(table, l + m)
        OBVIOUS
    <2>1. table[l + m][pointer] = rows[l][pointer]
        <3>1. CASE m = 0
            <4>1. l + m = l /\ l \in 1 .. l
                BY <3>1
            <4> QED BY <1>1, <4>1
        <3>2. CASE m # 0
            <4>1. m \in 1 .. m
                BY <3>2
            <4> QED BY <1>1, <4>1
        <3> QED BY <3>1, <3>2
    <2>2. table[(l + m) + 1] = rows[l + 1]
        <3>1. 1 \in 1 .. (n - l)
            OBVIOUS
        <3> QED BY <1>1, <3>1
    <2> QED BY <1>1, <2>1, <2>2
<1>6. ASSUME NEW k \in (l + 1) .. (n - 1) PROVE Jumps(table, k + m) <=> Jumps(rows, k)
    <2>1. PICK j \in 1 .. (n - l) : j = k - l /\ k = l + j /\ k + m = (l + m) + j
                                    /\ j + 1 \in 1 .. (n - l)
                                    /\ (k + m) + 1 = (l + m) + (j + 1) /\ k + 1 = l + (j + 1)
        OBVIOUS
    <2>2. table[(l + m) + j] = rows[l + j] /\ table[(l + m) + (j + 1)] = rows[l + (j + 1)]
        BY <1>1, <2>1
    <2> QED BY <2>1, <2>2
<1> HIDE DEF Jumps
<1>7. JumpsBy(table, pointer, x) = A \cup C \cup D
    <2>1. ASSUME NEW k \in 1 .. (n + m - 1), Jumps(table, k) PROVE k \in A \cup C \cup D
        <3>1. CASE k <= l - 1
            <4>1. k \in 1 .. (l - 1)
                BY <3>1
            <4> QED BY <1>3, <2>1, <4>1
        <3>2. CASE k >= l /\ k <= l + m - 1
            <4>1. k \in l .. (l + m - 1)
                BY <3>2
            <4> QED BY <1>4, <2>1, <4>1
        <3>3. CASE k >= l + m
            <4>1. k # l + m
                <5>1. l < n
                    BY <3>3
                <5> QED BY <1>5, <2>1, <5>1
            <4>2. PICK j \in (l + 1) .. (n - 1) : k = j + m
                <5>1. k - m \in (l + 1) .. (n - 1) /\ k = (k - m) + m
                    BY <3>3, <4>1
                <5> QED BY <5>1
            <4>3. j \in B
                BY <1>6, <2>1, <4>2
            <4> QED BY <4>2, <4>3
        <3> QED BY <3>1, <3>2, <3>3
    <2>2. ASSUME NEW k \in A PROVE k \in 1 .. (n + m - 1) /\ Jumps(table, k)
        BY <1>3
    <2>3. ASSUME NEW k \in C PROVE k \in 1 .. (n + m - 1) /\ Jumps(table, k)
        <3>1. x = 1 /\ k \in l .. (l + m - 1)
            BY <2>3
        <3> QED BY <1>4, <3>1
    <2>4. ASSUME NEW k \in B PROVE k + m \in 1 .. (n + m - 1) /\ Jumps(table, k + m)
        BY <1>6
    <2>5. \A k \in D : k \in 1 .. (n + m - 1) /\ Jumps(table, k)
        BY <2>4
    <2>6. JumpsBy(table, pointer, x) = {k \in 1 .. (n + m - 1) : Jumps(table, k)}
        BY <1>1 DEF JumpsBy, Jumps
    <2> HIDE DEF A, C, D
    <2> QED BY <2>1, <2>2, <2>3, <2>5, <2>6
<1>8. /\ IsFiniteSet(A) /\ IsFiniteSet(B) /\ IsFiniteSet(C)
      /\ Cardinality(C) = IF x = 1 THEN m ELSE 0
    <2>1. IsFiniteSet(1 .. (l - 1)) /\ IsFiniteSet((l + 1) .. (n - 1))
        BY FS_Interval
    <2>2. A \subseteq 1 .. (l - 1) /\ B \subseteq (l + 1) .. (n - 1)
        OBVIOUS
    <2>3. IsFiniteSet(A) /\ IsFiniteSet(B)
        BY <2>1, <2>2, FS_Subset
    <2>4. CASE x = 1
        <3>1. l \in Int /\ l + m - 1 \in Int
            OBVIOUS
        <3>2. IsFiniteSet(l .. (l + m - 1))
              /\ Cardinality(l .. (l + m - 1)) =
                     IF l > l + m - 1 THEN 0 ELSE (l + m - 1) - l + 1
            BY ONLY <3>1, FS_Interval
        <3>3. (IF l > l + m - 1 THEN 0 ELSE (l + m - 1) - l + 1) = m
            OBVIOUS
        <3> QED BY <2>3, <2>4, <3>2, <3>3
    <2>5. CASE x # 1
        BY <2>3, <2>5, FS_EmptySet
    <2> QED BY <2>4, <2>5
<1>9. IsFiniteSet(D) /\ Cardinality(D) = Cardinality(B)
    <2>1. f \in Surjection(B, D)
        BY DEF Surjection
    <2>2. \A i, j \in B : f[i] = f[j] => i = j
        OBVIOUS
    <2>3. f \in Bijection(B, D)
        BY <2>1, <2>2 DEF Surjection, Bijection, Injection, IsInjective
    <2>4. ExistsBijection(B, D)
        BY <2>3 DEF ExistsBijection
    <2> HIDE DEF B, D, f
    <2> QED BY <1>8, <2>4, FS_Bijection
<1>10. A \cap B = {} /\ A \cap C = {} /\ (A \cup C) \cap D = {}
    OBVIOUS
<1> HIDE DEF A, B, C, D
<1>11. /\ IsFiniteSet(A \cup B) /\ Cardinality(A \cup B) = Cardinality(A) + Cardinality(B)
       /\ IsFiniteSet(A \cup C) /\ Cardinality(A \cup C) = Cardinality(A) + Cardinality(C)
       /\ Cardinality((A \cup C) \cup D) = Cardinality(A \cup C) + Cardinality(D)
       /\ Cardinality(A) \in Nat /\ Cardinality(B) \in Nat /\ Cardinality(C) \in Nat
    <2>1. /\ Cardinality(A) \in Nat /\ Cardinality(B) \in Nat /\ Cardinality(C) \in Nat
          /\ Cardinality(D) \in Nat /\ Cardinality({}) = 0
        BY <1>8, <1>9, FS_CardinalityType, FS_EmptySet
    <2>2. /\ IsFiniteSet(A \cup B)
          /\ Cardinality(A \cup B) = Cardinality(A) + Cardinality(B) - Cardinality(A \cap B)
        BY <1>8, FS_Union
    <2>3. /\ IsFiniteSet(A \cup C)
          /\ Cardinality(A \cup C) = Cardinality(A) + Cardinality(C) - Cardinality(A \cap C)
        BY <1>8, FS_Union
    <2>4. Cardinality((A \cup C) \cup D) =
              Cardinality(A \cup C) + Cardinality(D) - Cardinality((A \cup C) \cap D)
        BY <1>9, <2>3, FS_Union
    <2>5. Cardinality(A \cup C) \in Nat
        BY <2>3, FS_CardinalityType
    <2>6. /\ Cardinality(A \cap B) = 0 /\ Cardinality(A \cap C) = 0
          /\ Cardinality((A \cup C) \cap D) = 0
        BY <1>10, <2>1
    <2> QED BY <2>1, <2>2, <2>3, <2>4, <2>5, <2>6
<1> QED BY <1>2, <1>7, <1>8, <1>9, <1>11

\* The jump stack table looks up what its unpadded rows do, and 1 for every padding row.
LEMMA JumpStackTableLookups ==
    ASSUME NEW n \in Nat \ {0}, IsSequence(processor_trace), Len(processor_trace) = n,
           \A k \in 1 .. n : processor_trace[k].clk = k - 1 /\ processor_trace[k].jsp \in Int,
           NEW m \in Nat
    PROVE  /\ IsSequence(FilledJumpStackTable) /\ Len(FilledJumpStackTable) = n
           /\ IsSequence(PaddedJumpStackTable(n + m))
           /\ ClocksInOrder(FilledJumpStackTable, "jsp", n, n)
           /\ \E l \in 1 .. n : CountingOn(PaddedJumpStackTable(n + m), FilledJumpStackTable,
                                           "jsp", n, m, l)
<1> DEFINE row(k) == JumpStackRow(processor_trace[k])
           major == [i \in 1 .. n |-> processor_trace[i].jsp]
           minor == [i \in 1 .. n |-> 0]
<1>1. PICK rows, table : rows = FilledJumpStackTable /\ table = PaddedJumpStackTable(n + m)
    OBVIOUS
<1>2. PICK order, l : /\ l \in 1 .. n /\ ByDepth(order, n)
                      /\ rows = [k \in 1 .. n |-> row(order[k])]
                      /\ PaddedAround(n, m, l, order, table)
    BY <1>1, JumpStackTablePadded
<1>3. IsSequence(rows) /\ Len(rows) = n /\ \A k \in 1 .. n : rows[k] = row(order[k])
    <2>1. rows = [k \in 1 .. n |-> rows[k]]
        BY <1>2
    <2> QED BY <1>2, <2>1, IndexedSequence
<1>4. SortedOrder(order, n, major, minor) /\ \A k \in 1 .. n : order[k] \in 1 .. n
    BY <1>2 DEF ByDepth, SortedOrder, Permutes1To
<1>5. \A i \in 1 .. n : /\ row(i).clk = i - 1 /\ row(i).jsp = major[i] /\ major[i] \in Int
                        /\ minor[i] = 0
    BY DEF JumpStackRow
<1>6. /\ order[l] = n /\ IsSequence(table) /\ Len(table) = n + m
      /\ \A k \in 1 .. l : table[k] = row(order[k])
      /\ \A k \in 1 .. m : table[l + k] = [row(n) EXCEPT !.clk = n + k - 1]
      /\ \A k \in 1 .. (n - l) : table[(l + m) + k] = row(order[l + k])
    BY <1>2 DEF PaddedAround
<1>7. \A k \in 1 .. m : table[l + k].clk = n + k - 1 /\ table[l + k].jsp = row(n).jsp
    BY <1>6 DEF JumpStackRow
<1> HIDE DEF row, major, minor
<1>8. \A i, j \in 1 .. n : i < j /\ major[order[i]] = major[order[j]] => order[i] < order[j]
    <2> SUFFICES ASSUME NEW i \in 1 .. n, NEW j \in 1 .. n, i < j,
                        major[order[i]] = major[order[j]]
                 PROVE  order[i] < order[j]
        OBVIOUS
    <2>1. Earlier(major, minor, order[i], order[j])
        BY <1>4 DEF SortedOrder
    <2>2. PICK a, b \in 1 .. n : a = order[i] /\ b = order[j]
        BY <1>4
    <2>3. major[a] \in Int /\ major[b] = major[a] /\ minor[a] = 0 /\ minor[b] = 0
        BY <1>5, <2>2
    <2> QED BY <2>1, <2>2, <2>3 DEF Earlier, Lower
<1>9. ClocksInOrder(rows, "jsp", n, n)
    <2>1. ASSUME NEW k \in 1 .. n PROVE rows[k].clk \in 0 .. (n - 1)
        <3>1. PICK i \in 1 .. n : i = order[k] /\ rows[k].clk = i - 1
            BY <1>3, <1>4, <1>5
        <3> QED BY <3>1
    <2>2. ASSUME NEW k \in 1 .. (n - 1), rows[k].jsp = rows[k + 1].jsp
          PROVE  rows[k].clk <= rows[k + 1].clk
        <3>1. k \in 1 .. n /\ k + 1 \in 1 .. n /\ k < k + 1
            OBVIOUS
        <3>2. PICK i, j \in 1 .. n : /\ i = order[k] /\ j = order[k + 1]
                                     /\ rows[k] = row(i) /\ rows[k + 1] = row(j)
            BY <1>3, <1>4, <3>1
        <3>3. major[i] = major[j]
            BY <1>5, <2>2, <3>2
        <3>4. i < j
            BY <1>8, <3>1, <3>2, <3>3
        <3>5. rows[k].clk = i - 1 /\ rows[k + 1].clk = j - 1
            BY <1>5, <3>2
        <3> QED BY <3>4, <3>5
    <2> QED BY <2>1, <2>2 DEF ClocksInOrder
<1>10. CountingOn(table, rows, "jsp", n, m, l)
    <2>1. rows[l] = row(n) /\ n \in 1 .. n /\ rows[l].clk = n - 1 /\ n - 1 \in Nat
        BY <1>2, <1>3, <1>5, <1>6
    <2>2. ASSUME NEW k \in 1 .. l PROVE table[k] = rows[k]
        <3>1. k \in 1 .. n
            BY <1>2
        <3> QED BY <1>3, <1>6, <3>1
    <2>3. ASSUME NEW k \in 1 .. m
          PROVE  table[l + k].jsp = rows[l].jsp /\ table[l + k].clk = rows[l].clk + k
        <3>1. (n - 1) + k = n + k - 1
            OBVIOUS
        <3> QED BY <1>7, <2>1, <3>1
    <2>4. ASSUME NEW k \in 1 .. (n - l) PROVE table[(l + m) + k] = rows[l + k]
        <3>1. l + k \in 1 .. n
            BY <1>2
        <3> QED BY <1>3, <1>6, <3>1
    <2>5. ASSUME l < n, rows[l + 1].jsp = rows[l].jsp PROVE FALSE
        <3>1. l + 1 \in 1 .. n /\ l \in 1 .. n /\ l < l + 1
            BY <1>2, <2>5
        <3>2. PICK j \in 1 .. n : j = order[l + 1] /\ rows[l + 1] = row(j)
            BY <1>3, <1>4, <3>1
        <3>3. major[n] = major[j]
            BY <1>5, <2>1, <2>5, <3>2
        <3>4. n < j
            BY <1>6, <1>8, <3>1, <3>2, <3>3
        <3> QED BY <3>4
    <2> QED BY <1>3, <1>6, <2>1, <2>2, <2>3, <2>4, <2>5 DEF CountingOn
<1> QED BY <1>1, <1>2, <1>3, <1>6, <1>9, <1>10

\* The bag of a sequence counts its elements.
LEMMA BagCounts ==
    ASSUME NEW s, IsSequence(s)
    PROVE  /\ S!ToBag(s) = [x \in {s[i] : i \in 1 .. Len(s)} |-> Occurrences(s, x)]
           /\ \A x : x \in {s[i] : i \in 1 .. Len(s)} <=> Occurrences(s, x) > 0
<1>1. PICK n \in Nat : n = Len(s) /\ DOMAIN s = 1 .. n
    BY DEF IsSequence
<1>2. S!Range(s) = {s[i] : i \in 1 .. n}
    BY <1>1 DEF S!Range
<1>3. ASSUME NEW x PROVE S!Cardinality({i \in DOMAIN s : s[i] = x}) = Occurrences(s, x)
    BY DEF S!Cardinality, Cardinality, Occurrences, Places
<1>4. S!ToBag(s) = [x \in {s[i] : i \in 1 .. n} |-> Occurrences(s, x)]
    BY <1>2, <1>3 DEF S!ToBag
<1>5. ASSUME NEW x PROVE x \in {s[i] : i \in 1 .. n} <=> Occurrences(s, x) > 0
    <2>1. Occurrences(s, x) > 0 <=> \E i \in 1 .. n : s[i] = x
        BY <1>1, OccursIfCounted
    <2> QED BY <2>1
<1> QED BY <1>1, <1>4, <1>5

\* What three sequences have together.
LEMMA ThreeOccurrences ==
    ASSUME NEW a, NEW b, NEW c, IsSequence(a), IsSequence(b), IsSequence(c)
    PROVE  /\ IsSequence(a \o b \o c)
           /\ \A x : /\ Occurrences(a \o b \o c, x) =
                            Occurrences(a, x) + Occurrences(b, x) + Occurrences(c, x)
                     /\ Occurrences(a, x) \in Nat /\ Occurrences(b, x) \in Nat
                     /\ Occurrences(c, x) \in Nat
<1>1. PICK d : d = a \o b
    OBVIOUS
<1>2. IsSequence(d)
    BY <1>1, ConcatenatedSequence
<1>3. IsSequence(d \o c)
    BY <1>2, ConcatenatedSequence
<1>4. ASSUME NEW x
      PROVE  /\ Occurrences(d \o c, x) =
                    Occurrences(a, x) + Occurrences(b, x) + Occurrences(c, x)
             /\ Occurrences(a, x) \in Nat /\ Occurrences(b, x) \in Nat
             /\ Occurrences(c, x) \in Nat
    <2>1. /\ Occurrences(a \o b, x) = Occurrences(a, x) + Occurrences(b, x)
          /\ Occurrences(a, x) \in Nat /\ Occurrences(b, x) \in Nat
        BY OccurrencesAdd
    <2>2. /\ Occurrences(d \o c, x) = Occurrences(d, x) + Occurrences(c, x)
          /\ Occurrences(c, x) \in Nat
        BY <1>2, OccurrencesAdd
    <2> QED BY <1>1, <2>1, <2>2
<1> QED BY <1>1, <1>3, <1>4

\* The lengths and clocks of the traces that the tables are filled from.
ClocksOfTraces(n, n1, n2) ==
    /\ IsSequence(processor_trace) /\ Len(processor_trace) = n
    /\ \A k \in 1 .. n : processor_trace[k].clk = k - 1 /\ processor_trace[k].jsp \in Int
    /\ IsSequence(op_stack_underflow_trace) /\ Len(op_stack_underflow_trace) = n1
    /\ CoherentUnderflow(n1, op_stack_underflow_trace)
    /\ \A i \in 1 .. n1 : op_stack_underflow_trace[i].clk < n
    /\ IsSequence(ram_trace) /\ Len(ram_trace) = n2
    /\ \A i \in 1 .. n2 : ram_trace[i].clk \in 0 .. (n - 1) /\ ram_trace[i].ram_pointer \in Int

\* The differences counted before padding.
FilledDifferences ==
    ClockJumpDifferences(FilledOpStackTable, "stack_pointer")
        \o ClockJumpDifferences(FilledRamTable, "ram_pointer")
        \o ClockJumpDifferences(FilledJumpStackTable, "jsp")

\* The padded tables look up what the filled ones do, and 1 for every padding row.
LEMMA PaddedTablesLookUp ==
    ASSUME NEW n \in Nat \ {0}, NEW n1 \in Nat, NEW n2 \in Nat, ClocksOfTraces(n, n1, n2),
           n <= P, NEW h \in Nat, n <= h, n1 <= h, n2 <= h
    PROVE  /\ IsSequence(FilledDifferences) /\ IsSequence(LookedUpDifferences(h))
           /\ \A x : /\ Occurrences(FilledDifferences, x) \in Nat
                     /\ Occurrences(FilledDifferences, x) > 0 => x \in 0 .. (n - 1)
                     /\ Occurrences(LookedUpDifferences(h), x) =
                            Occurrences(FilledDifferences, x) + PaddingLookups(x, h - n)
<1>1. PICK m \in Nat : m = h - n /\ h = n + m
    OBVIOUS
<1>2. PICK r1, r2, r3, t1, t2, t3 :
          /\ r1 = FilledOpStackTable /\ r2 = FilledRamTable /\ r3 = FilledJumpStackTable
          /\ t1 = PaddedOpStackTable(h) /\ t2 = PaddedRamTable(h) /\ t3 = PaddedJumpStackTable(h)
    OBVIOUS
<1>3. /\ PaddedFrom(t1, r1, n1, "shrink_stack") /\ ClocksInOrder(r1, "stack_pointer", n1, n)
    BY <1>2, OpStackTableLookups DEF ClocksOfTraces
<1>4. /\ PaddedFrom(t2, r2, n2, "instruction_type") /\ ClocksInOrder(r2, "ram_pointer", n2, n)
    BY <1>2, RamTableLookups DEF ClocksOfTraces
<1>5. /\ IsSequence(r3) /\ Len(r3) = n /\ IsSequence(t3) /\ ClocksInOrder(r3, "jsp", n, n)
      /\ \E l \in 1 .. n : CountingOn(t3, r3, "jsp", n, m, l)
    <2>1. /\ IsSequence(FilledJumpStackTable) /\ Len(FilledJumpStackTable) = n
          /\ IsSequence(PaddedJumpStackTable(n + m))
          /\ ClocksInOrder(FilledJumpStackTable, "jsp", n, n)
          /\ \E l \in 1 .. n : CountingOn(PaddedJumpStackTable(n + m), FilledJumpStackTable,
                                          "jsp", n, m, l)
        BY JumpStackTableLookups DEF ClocksOfTraces
    <2> QED BY <1>1, <1>2, <2>1
<1>6. IsSequence(r1) /\ Len(r1) = n1 /\ IsSequence(r2) /\ Len(r2) = n2
    BY <1>3, <1>4 DEF PaddedFrom
<1>7. PICK a1, a2, a3, b1, b2, b3 :
          /\ a1 = ClockJumpDifferences(r1, "stack_pointer")
          /\ a2 = ClockJumpDifferences(r2, "ram_pointer")
          /\ a3 = ClockJumpDifferences(r3, "jsp")
          /\ b1 = LookedUpBeforePadding(t1, "stack_pointer", "shrink_stack")
          /\ b2 = LookedUpBeforePadding(t2, "ram_pointer", "instruction_type")
          /\ b3 = ClockJumpDifferences(t3, "jsp")
    OBVIOUS
<1>8. /\ FilledDifferences = a1 \o a2 \o a3
      /\ LookedUpDifferences(h) = b1 \o b2 \o b3
    BY <1>2, <1>7 DEF FilledDifferences, LookedUpDifferences
<1>9. /\ IsSequence(a1) /\ IsSequence(a2) /\ IsSequence(a3)
      /\ IsSequence(b1) /\ IsSequence(b2) /\ IsSequence(b3)
    BY <1>3, <1>4, <1>5, <1>6, <1>7, DifferencesCounted, PaddingLooksUpNothing
<1>10. ASSUME NEW x
       PROVE  /\ Occurrences(b1, x) = Occurrences(a1, x)
              /\ Occurrences(b2, x) = Occurrences(a2, x)
              /\ Occurrences(b3, x) = Occurrences(a3, x) + PaddingLookups(x, m)
    <2>1. Occurrences(b1, x) = Occurrences(a1, x)
        BY <1>3, <1>7, PaddingLooksUpNothing
    <2>2. Occurrences(b2, x) = Occurrences(a2, x)
        BY <1>4, <1>7, PaddingLooksUpNothing
    <2>3. /\ Occurrences(a3, x) = Cardinality(JumpsBy(r3, "jsp", x))
          /\ Occurrences(b3, x) = Cardinality(JumpsBy(t3, "jsp", x))
        BY <1>5, <1>7, DifferencesCounted
    <2>4. PICK l \in 1 .. n : CountingOn(t3, r3, "jsp", n, m, l)
        BY <1>5
    <2>5. Cardinality(JumpsBy(t3, "jsp", x)) =
              Cardinality(JumpsBy(r3, "jsp", x)) + IF x = 1 THEN m ELSE 0
        <3>1. n \in Nat
            OBVIOUS
        <3> QED BY ONLY <3>1, m \in Nat, l \in 1 .. n, <2>4, CountingPaddingLooksUpOne
    <2> QED BY <2>1, <2>2, <2>3, <2>5 DEF PaddingLookups
<1>11. ASSUME NEW x
       PROVE  /\ Occurrences(a1, x) > 0 => x \in 0 .. (n - 1)
              /\ Occurrences(a2, x) > 0 => x \in 0 .. (n - 1)
              /\ Occurrences(a3, x) > 0 => x \in 0 .. (n - 1)
    <2>1. Occurrences(a1, x) > 0 => x \in 0 .. (n - 1)
        BY <1>3, <1>6, <1>7, DifferencesAreCycles
    <2>2. Occurrences(a2, x) > 0 => x \in 0 .. (n - 1)
        BY <1>4, <1>6, <1>7, DifferencesAreCycles
    <2>3. Occurrences(a3, x) > 0 => x \in 0 .. (n - 1)
        BY <1>5, <1>7, DifferencesAreCycles
    <2> QED BY <2>1, <2>2, <2>3
<1>12. PICK A, L : A = a1 \o a2 \o a3 /\ L = b1 \o b2 \o b3
    OBVIOUS
<1>13. IsSequence(A) /\ IsSequence(L)
    BY <1>9, <1>12, ThreeOccurrences
<1>14. ASSUME NEW x
       PROVE  /\ Occurrences(A, x) \in Nat
              /\ Occurrences(A, x) > 0 => x \in 0 .. (n - 1)
              /\ Occurrences(L, x) = Occurrences(A, x) + PaddingLookups(x, h - n)
    <2>1. PICK p, q, r : p = Occurrences(a1, x) /\ q = Occurrences(a2, x) /\ r = Occurrences(a3, x)
        OBVIOUS
    <2>2. Occurrences(A, x) = p + q + r /\ p \in Nat /\ q \in Nat /\ r \in Nat
        BY <1>9, <1>12, <2>1, ThreeOccurrences
    <2>3. Occurrences(L, x) = p + q + (r + PaddingLookups(x, m))
        <3>1. Occurrences(L, x) = Occurrences(b1, x) + Occurrences(b2, x) + Occurrences(b3, x)
            BY <1>9, <1>12, ThreeOccurrences
        <3> QED BY <1>10, <2>1, <3>1
    <2>4. PaddingLookups(x, m) \in Nat /\ m = h - n
        BY <1>1 DEF PaddingLookups
    <2>5. PICK e \in Nat : e = PaddingLookups(x, h - n) /\ e = PaddingLookups(x, m)
        BY <2>4
    <2>6. Occurrences(L, x) = Occurrences(A, x) + PaddingLookups(x, h - n)
        BY <2>2, <2>3, <2>5
    <2>7. Occurrences(A, x) > 0 => p > 0 \/ q > 0 \/ r > 0
        BY <2>2
    <2> QED BY <1>11, <2>1, <2>2, <2>6, <2>7
<1> QED BY <1>8, <1>12, <1>13, <1>14

\* What the padded processor table serves.
LEMMA ServedMultiplicities ==
    ASSUME NEW n \in Nat \ {0}, Len(processor_trace) = n,
           \A k \in 1 .. n : processor_trace[k].clk = k - 1,
           IsSequence(FilledDifferences),
           \A x : /\ Occurrences(FilledDifferences, x) \in Nat
                  /\ Occurrences(FilledDifferences, x) > 0 => x \in 0 .. (n - 1),
           NEW h \in Nat, n <= h
    PROVE  /\ DOMAIN PaddedProcessorTable(h) = 1 .. h
           /\ \A k \in 1 .. h :
                  /\ PaddedProcessorTable(h)[k].clk = k - 1
                  /\ PaddedProcessorTable(h)[k].cjd_multiplicity =
                         Occurrences(FilledDifferences, k - 1) + PaddingLookups(k - 1, h - n)
<1>1. PICK bag : bag = S!ToBag(FilledDifferences) /\ bag = FilledMultiplicities
    BY DEF FilledDifferences, FilledMultiplicities
<1>2. /\ \A x : BagIn(x, bag) <=> Occurrences(FilledDifferences, x) > 0
      /\ \A x : BagIn(x, bag) => bag[x] = Occurrences(FilledDifferences, x)
    <2>1. PICK D : D = {FilledDifferences[i] : i \in 1 .. Len(FilledDifferences)}
        OBVIOUS
    <2>2. /\ bag = [x \in D |-> Occurrences(FilledDifferences, x)]
          /\ \A x : x \in D <=> Occurrences(FilledDifferences, x) > 0
        BY <1>1, <2>1, BagCounts
    <2>3. DOMAIN bag = D /\ \A x \in D : bag[x] = Occurrences(FilledDifferences, x)
        BY <2>2
    <2> QED BY <2>2, <2>3 DEF BagIn, BagToSet
<1>3. PICK table : table = PaddedProcessorTable(h)
    OBVIOUS
<1>4. /\ DOMAIN table = 1 .. h
      /\ \A k \in 1 .. h :
             /\ table[k].clk = IF k <= n THEN processor_trace[IF k <= n THEN k ELSE n].clk ELSE k - 1
             /\ table[k].cjd_multiplicity =
                    (IF k - 1 < n /\ BagIn(k - 1, bag) THEN bag[k - 1] ELSE 0)
                        + PaddingLookups(k - 1, h - n)
    BY <1>1, <1>3 DEF PaddedProcessorTable
<1>5. ASSUME NEW k \in 1 .. h
      PROVE  /\ table[k].clk = k - 1
             /\ table[k].cjd_multiplicity =
                    Occurrences(FilledDifferences, k - 1) + PaddingLookups(k - 1, h - n)
    <2>1. table[k].clk = k - 1
        BY <1>4
    <2>2. (IF k - 1 < n /\ BagIn(k - 1, bag) THEN bag[k - 1] ELSE 0) =
              Occurrences(FilledDifferences, k - 1)
        <3>1. PICK c \in Nat : c = Occurrences(FilledDifferences, k - 1)
            OBVIOUS
        <3>2. CASE BagIn(k - 1, bag)
            <4>1. c > 0 /\ bag[k - 1] = c /\ k - 1 \in 0 .. (n - 1)
                BY <1>2, <3>1, <3>2
            <4> QED BY <3>1, <3>2, <4>1
        <3>3. CASE ~BagIn(k - 1, bag)
            <4>1. c = 0
                BY <1>2, <3>1, <3>3
            <4> QED BY <3>1, <3>3, <4>1
        <3> QED BY <3>2, <3>3
    <2> QED BY <1>4, <2>1, <2>2
<1> QED BY <1>3, <1>4, <1>5

\* At one height, the processor table serves what is looked up.
LookupsAreServed(h) ==
    LET processor_table == PaddedProcessorTable(h)
        served == {k \in DOMAIN processor_table : processor_table[k].cjd_multiplicity > 0}
    IN  S!ToBag(LookedUpDifferences(h)) =
            [clk \in {processor_table[k].clk : k \in served} |->
                processor_table[clk + 1].cjd_multiplicity]

\* It does.
LEMMA ServedIsLookedUp ==
    ASSUME NEW n \in Nat \ {0}, NEW n1 \in Nat, NEW n2 \in Nat, ClocksOfTraces(n, n1, n2),
           n <= P, NEW h \in Nat, n <= h, n1 <= h, n2 <= h
    PROVE  LookupsAreServed(h)
<1>1. /\ IsSequence(FilledDifferences) /\ IsSequence(LookedUpDifferences(h))
      /\ \A x : /\ Occurrences(FilledDifferences, x) \in Nat
                /\ Occurrences(FilledDifferences, x) > 0 => x \in 0 .. (n - 1)
                /\ Occurrences(LookedUpDifferences(h), x) =
                       Occurrences(FilledDifferences, x) + PaddingLookups(x, h - n)
    BY PaddedTablesLookUp
<1>2. PICK L, table : L = LookedUpDifferences(h) /\ table = PaddedProcessorTable(h)
    OBVIOUS
<1>3. /\ DOMAIN table = 1 .. h
      /\ \A k \in 1 .. h : /\ table[k].clk = k - 1
                           /\ table[k].cjd_multiplicity = Occurrences(L, k - 1)
    <2>1. Len(processor_trace) = n /\ \A k \in 1 .. n : processor_trace[k].clk = k - 1
        BY DEF ClocksOfTraces
    <2>2. /\ DOMAIN PaddedProcessorTable(h) = 1 .. h
          /\ \A k \in 1 .. h :
                  /\ PaddedProcessorTable(h)[k].clk = k - 1
                  /\ PaddedProcessorTable(h)[k].cjd_multiplicity =
                         Occurrences(FilledDifferences, k - 1) + PaddingLookups(k - 1, h - n)
        BY <1>1, <2>1, ServedMultiplicities
    <2> QED BY <1>1, <1>2, <2>2
<1>4. ASSUME NEW x, Occurrences(L, x) > 0 PROVE x \in 0 .. (h - 1)
    <2>1. PICK c \in Nat : c = Occurrences(FilledDifferences, x)
        BY <1>1
    <2>2. c > 0 => x \in 0 .. (n - 1)
        BY <1>1, <2>1
    <2>3. Occurrences(L, x) = c + IF x = 1 THEN h - n ELSE 0
        BY <1>1, <1>2, <2>1 DEF PaddingLookups
    <2>4. CASE c > 0
        BY <2>2, <2>4
    <2>5. CASE c = 0
        <3>1. x = 1 /\ h - n > 0
            BY <1>4, <2>3, <2>5
        <3> QED BY <3>1
    <2> QED BY <2>4, <2>5
<1> DEFINE served == {k \in DOMAIN table : table[k].cjd_multiplicity > 0}
           D == {table[k].clk : k \in served}
           E == {L[i] : i \in 1 .. Len(L)}
<1>5. /\ S!ToBag(L) = [x \in E |-> Occurrences(L, x)]
      /\ \A x : x \in E <=> Occurrences(L, x) > 0
    <2>1. IsSequence(L)
        BY <1>1, <1>2
    <2> QED BY ONLY <2>1, BagCounts
<1> HIDE DEF E
<1>6. ASSUME NEW x \in E PROVE x \in D /\ table[x + 1].cjd_multiplicity = Occurrences(L, x)
    <2>1. Occurrences(L, x) > 0 /\ x \in 0 .. (h - 1)
        BY <1>4, <1>5
    <2>2. PICK k \in 1 .. h : k = x + 1 /\ k - 1 = x
        BY <2>1
    <2>3. table[k].clk = x /\ table[k].cjd_multiplicity = Occurrences(L, x)
        BY <1>3, <2>2
    <2> QED BY <1>3, <2>1, <2>2, <2>3
<1>7. ASSUME NEW x \in D PROVE x \in E
    <2>1. PICK k \in 1 .. h : x = table[k].clk /\ table[k].cjd_multiplicity > 0
        BY <1>3
    <2>2. x = k - 1 /\ Occurrences(L, x) > 0
        BY <1>3, <2>1
    <2> QED BY <1>5, <2>2
<1> HIDE DEF D
<1>8. D = E
    BY <1>6, <1>7
<1>9. S!ToBag(L) = [clk \in D |-> table[clk + 1].cjd_multiplicity]
    BY <1>5, <1>6, <1>8
<1> QED BY <1>2, <1>9 DEF D, LookupsAreServed

(***************************************************************************)
(* The clock jump differences that the memory-like tables look up, padding *)
(* included, are the multiplicities that the processor table serves.       *)
(***************************************************************************)
THEOREM ClockJumpLookups == TraceSpec => []ClockJumpLookupBalances
<1>1. ClockInv /\ UnderflowInv /\ TraceInv => ClockJumpLookupBalances
    <2> SUFFICES ASSUME ClockInv, UnderflowInv, TraceInv, Finished, NEW h \in PaddedHeights
                 PROVE  LookupsAreServed(h)
        BY DEF ClockJumpLookupBalances, LookupsAreServed
    <2>1. Succeeds /\ halting
        BY DEF Finished, Succeeds
    <2>2. PICK n \in Nat \ {0} : /\ n = cycle_count /\ n = Len(processor_trace) /\ n <= P
                                 /\ IsSequence(processor_trace)
                                 /\ \A k \in 1 .. n : processor_trace[k].clk = k - 1
                                                      /\ processor_trace[k].jsp \in Int
        <3>1. cycle_count \in 0 .. MaxCycles /\ cycle_count > 0
            BY <2>1 DEF ClockInv, VMTypeOK
        <3>2. MaxCycles \in Nat /\ MaxCycles < P /\ P \in Nat
            BY LinkingAssumption, InputAssumption, FieldFacts
        <3>3. cycle_count \in Nat \ {0} /\ cycle_count <= P
            BY ONLY <3>1, <3>2
        <3> QED BY <2>1, <3>3 DEF ClockInv
    <2>3. PICK n1 \in Nat : /\ n1 = Len(op_stack_underflow_trace)
                            /\ IsSequence(op_stack_underflow_trace)
                            /\ CoherentUnderflow(n1, op_stack_underflow_trace)
                            /\ \A i \in 1 .. n1 : op_stack_underflow_trace[i].clk < n
        BY <2>1, <2>2 DEF UnderflowInv, UnderflowHolds, IsSequence
    <2>4. PICK n2 \in Nat : /\ n2 = Len(ram_trace) /\ IsSequence(ram_trace)
                            /\ \A i \in 1 .. n2 : /\ ram_trace[i].clk \in 0 .. (n - 1)
                                                  /\ ram_trace[i].ram_pointer \in Int
        <3>1. PICK trace : trace = ram_trace /\ trace \in Seq(RamTableCall)
            BY DEF TraceInv, RamTraceInv
        <3>2. IsSequence(trace)
            BY <3>1, SeqIsSequence
        <3>3. PICK k \in Nat : k = Len(trace) /\ DOMAIN trace = 1 .. k
            BY <3>2 DEF IsSequence
        <3>4. ASSUME NEW i \in 1 .. k
              PROVE  trace[i].clk \in 0 .. (n - 1) /\ trace[i].ram_pointer \in Int
            <4>1. trace[i] \in RamTableCall /\ trace[i].clk < n
                BY <2>2, <3>1, <3>3 DEF TraceInv, RamTraceInv
            <4>2. trace[i].clk \in Nat /\ trace[i].ram_pointer \in Field
                BY <4>1 DEF RamTableCall
            <4>3. trace[i].clk \in Nat /\ trace[i].ram_pointer \in Int
                BY <4>2, FieldFacts
            <4> QED BY <4>1, <4>3
        <3> QED BY <3>1, <3>2, <3>3, <3>4
    <2>5. h \in Nat /\ n <= h /\ n1 <= h /\ n2 <= h
        BY <2>2, <2>3, <2>4, HeightsFit
    <2>6. ClocksOfTraces(n, n1, n2)
        BY <2>2, <2>3, <2>4 DEF ClocksOfTraces
    <2>7. /\ n \in Nat \ {0} /\ n1 \in Nat /\ n2 \in Nat /\ n <= P
          /\ h \in Nat /\ n <= h /\ n1 <= h /\ n2 <= h
        BY <2>2, <2>5
    <2> QED BY ONLY <2>6, <2>7, ServedIsLookedUp
<1> QED BY <1>1, ClockInvariance, UnderflowInvariance, RamTraceInvariance, PTL
==============================================================================
