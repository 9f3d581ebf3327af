------------------------------ MODULE VM_proofs ------------------------------
(***************************************************************************)
(* What holds of the virtual machine for every program, every input, every *)
(* word size and every number of registers.                                *)
(***************************************************************************)
EXTENDS VMTypes, SequenceTheorems, TLAPS

------------------------------------------------------------------------------
(* The field. *)

\* The prime is at least as large as a word, and reduction lands in the field.
LEMMA FieldFacts ==
    /\ P \in Nat \ {0}
    /\ WordSize \in Nat \ {0}
    /\ WordSize <= P
    /\ 1 < P
    /\ Field \subseteq Nat
    /\ \A a \in Field : a \in Int
    /\ Word \subseteq Field
    /\ 0 \in Field
    /\ 1 \in Field
    /\ \A a \in Int : a % P \in Field
<1>1. WordSize \in Nat /\ WordSize >= 2
    BY SizeAssumption
<1>2. WordSize * WordSize >= 2 * WordSize
    BY <1>1
<1>3. WordSize * WordSize \in Nat
    BY <1>1
<1>4. P \in Nat /\ P >= WordSize + 1
    BY <1>1, <1>2, <1>3 DEF P
<1>5. \A a \in Int : a % P \in Field
    BY <1>1, <1>4 DEF Field
<1> QED
    BY <1>1, <1>4, <1>5 DEF Field, Word

\* Halving and splitting a field element stays in the field.
LEMMA DivisionFacts ==
    /\ \A a \in Field : a \div 2 \in Field
    /\ \A a \in Field : a \div WordSize \in Field /\ a % WordSize \in Field
    /\ \A a \in Field, b \in Word \ {0} : a % b \in Field /\ a \div b \in Field
<1>1. \A a \in Nat, b \in Nat \ {0} : a \div b \in 0 .. a
    OBVIOUS
<1>2. \A a \in Nat, b \in Nat \ {0} : a % b \in 0 .. (b - 1)
    OBVIOUS
<1>3. ASSUME NEW a \in Field, NEW b \in Nat \ {0}
      PROVE  a \div b \in Field
    <2>1. a \in Nat /\ a \div b \in 0 .. a
        BY <1>1, FieldFacts
    <2> QED
        BY <2>1, FieldFacts DEF Field
<1>4. \A a \in Field, b \in Nat \ {0} : b <= P => a % b \in Field
    BY <1>2, FieldFacts DEF Field
<1>5. \A b \in Word \ {0} : b \in Nat \ {0} /\ b <= P
    BY FieldFacts DEF Word
<1>6. \A a \in Field : a \div 2 \in Field
    BY <1>3
<1>7. \A a \in Field : a \div WordSize \in Field /\ a % WordSize \in Field
    BY <1>3, <1>4, FieldFacts
<1> QED
    BY <1>3, <1>4, <1>5, <1>6, <1>7
LEMMA SumFacts ==
    ASSUME NEW a \in Int, NEW b \in Int
    PROVE  Plus(a, b) \in Field /\ Times(a, b) \in Field /\ (a - b) % P \in Field
BY FieldFacts DEF Plus, Times
------------------------------------------------------------------------------
(* Sequences given by a function. *)

LEMMA FunctionIsSequence ==
    ASSUME NEW S, NEW n \in Nat, NEW f \in [1 .. n -> S]
    PROVE  f \in Seq(S) /\ Len(f) = n
OBVIOUS

\* What an instruction sees of a stack with enough elements.
LEMMA StackAccess ==
    ASSUME VMTypeOK
    PROVE  /\ Len(op_stack) \in Nat
           /\ \A i \in 0 .. (Len(op_stack) - 1) : St(i) \in Field
           /\ \A i, n \in Nat : i + n <= Len(op_stack) =>
                  Tops(i, n) \in [1 .. n -> Field]
           /\ \A n \in 0 .. Len(op_stack) :
                  Below(n) \in Seq(Field) /\ Len(Below(n)) = Len(op_stack) - n
<1>1. op_stack \in Seq(Field) /\ Len(op_stack) \in Nat
    BY DEF VMTypeOK
<1>2. \A k \in 1 .. Len(op_stack) : op_stack[k] \in Field
    BY <1>1, ElementOfSeq
<1>3. \A i \in 0 .. (Len(op_stack) - 1) : St(i) \in Field
    BY <1>1, <1>2 DEF St
<1>4. \A i, n \in Nat : i + n <= Len(op_stack) => Tops(i, n) \in [1 .. n -> Field]
    BY <1>1, <1>3 DEF Tops
<1>5. ASSUME NEW n \in 0 .. Len(op_stack)
      PROVE  Below(n) \in Seq(Field) /\ Len(Below(n)) = Len(op_stack) - n
    <2>1. \A k \in 1 .. (Len(op_stack) - n) : op_stack[k] \in Field
        BY <1>1, <1>2
    <2> QED
        BY <1>1, <2>1, SubSeqProperties DEF Below
<1> QED
    BY <1>1, <1>3, <1>4, <1>5
------------------------------------------------------------------------------
(* The instruction being executed. *)

\* Program memories hold instructions, so the argument's range is the mnemonic's.
LEMMA InstructionTypes ==
    ASSUME VMTypeOK, InBounds(instruction_pointer)
    PROVE  /\ CurrentInstruction \in Instruction
           /\ CurrentInstruction.op \in NumWordsOps => Arg \in 1 .. MaxNumWords
           /\ CurrentInstruction.op \in RegisterOps => Arg \in Register
           /\ CurrentInstruction.op \in ElementOps => Arg \in Field
           /\ NextAddress \in Nat
<1>1. program \in Seq(Instruction) /\ instruction_pointer \in Nat
    BY InputAssumption DEF VMTypeOK, IsProgramMemory
<1>2. Len(program) \in Nat /\ instruction_pointer + 1 \in 1 .. Len(program)
    BY <1>1 DEF InBounds
<1>3. CurrentInstruction \in Instruction
    BY <1>1, <1>2, ElementOfSeq DEF CurrentInstruction, InstructionAt
<1>4. /\ CurrentInstruction.op \in NumWordsOps => Arg \in 1 .. MaxNumWords
      /\ CurrentInstruction.op \in RegisterOps => Arg \in Register
      /\ CurrentInstruction.op \in ElementOps => Arg \in Field
    BY <1>3 DEF Arg, Instruction, NumWordsOps, RegisterOps, ElementOps, SingleWordOps
<1>5. NextAddress \in Nat
    BY <1>1 DEF NextAddress, Size
<1> QED
    BY <1>3, <1>4, <1>5
------------------------------------------------------------------------------
(* Changes of the stack. *)

\* Every element the op stack records is one it holds, or zero.
LEMMA RecordedTypes ==
    ASSUME NEW s \in Seq(Field), NEW t \in Seq(Field),
           NEW pops \in Nat, NEW pushes \in Nat
    PROVE  RecordedIO(s, t, pops, pushes) \in Seq(UnderflowIO)
<1>1. ASSUME NEW u \in Seq(Field), NEW len \in Int, len <= Len(u)
      PROVE  FirstUnderflowElement(u, len) \in Field
    <2>1. CASE len > NumRegisters
        <3>1. len - NumRegisters \in 1 .. Len(u)
            BY <1>1, <2>1, RegisterAssumption
        <3> QED
            BY <2>1, <3>1, ElementOfSeq DEF FirstUnderflowElement
    <2>2. CASE ~(len > NumRegisters)
        BY <2>2, FieldFacts DEF FirstUnderflowElement
    <2> QED
        BY <2>1, <2>2
<1>2. Len(s) \in Nat /\ Len(t) \in Nat
    OBVIOUS
<1>3. [k \in 1 .. pops |->
          [kind |-> "Read", payload |-> FirstUnderflowElement(s, Len(s) - k + 1)]]
      \in Seq(UnderflowIO)
    <2>1. \A k \in 1 .. pops : FirstUnderflowElement(s, Len(s) - k + 1) \in Field
        BY <1>1, <1>2
    <2> QED
        BY <2>1, FunctionIsSequence DEF UnderflowIO
<1>4. [k \in 1 .. pushes |->
          [kind |-> "Write",
           payload |-> FirstUnderflowElement(t, Len(t) - pushes + k)]]
      \in Seq(UnderflowIO)
    <2>1. \A k \in 1 .. pushes :
              FirstUnderflowElement(t, Len(t) - pushes + k) \in Field
        BY <1>1, <1>2
    <2> QED
        BY <2>1, FunctionIsSequence DEF UnderflowIO
<1> QED
    BY <1>3, <1>4, ConcatProperties DEF RecordedIO

\* The stack grows by `delta` elements and keeps its type.
StackGrows(delta) ==
    /\ op_stack' \in Seq(Field)
    /\ Len(op_stack') = Len(op_stack) + delta
    /\ underflow_io' \in Seq(UnderflowIO)

LEMMA StackBecomesTypes ==
    ASSUME VMTypeOK, NEW t \in Seq(Field), NEW pops \in Nat, NEW pushes \in Nat,
           StackBecomes(t, pops, pushes)
    PROVE  StackGrows(Len(t) - Len(op_stack))
BY RecordedTypes DEF StackBecomes, StackGrows, VMTypeOK

LEMMA RearrangedTypes ==
    ASSUME VMTypeOK, NEW t \in [1 .. Len(op_stack) -> Field],
           NEW pops \in Nat, NEW pushes \in Nat,
           StackBecomes(t, pops, pushes)
    PROVE  StackGrows(0)
<1>1. Len(op_stack) \in Nat
    BY StackAccess
<1>2. t \in Seq(Field) /\ Len(t) = Len(op_stack)
    BY <1>1, FunctionIsSequence
<1> QED
    BY <1>1, <1>2, StackBecomesTypes

LEMMA UnchangedTypes ==
    ASSUME VMTypeOK, StackUnchanged
    PROVE  StackGrows(0)
<1>1. op_stack \in Seq(Field) /\ Len(op_stack) - Len(op_stack) = 0
    BY DEF VMTypeOK
<1>2. StackGrows(Len(op_stack) - Len(op_stack))
    BY <1>1, StackBecomesTypes DEF StackUnchanged
<1> QED
    BY <1>1, <1>2

LEMMA ReplaceTypes ==
    ASSUME VMTypeOK, NEW n \in 0 .. Len(op_stack), NEW m \in Nat,
           NEW tops \in [1 .. m -> Field],
           Replace(n, tops)
    PROVE  StackGrows(m - n)
<1> DEFINE pushed == [k \in 1 .. Len(tops) |-> tops[Len(tops) + 1 - k]]
<1>1. Len(tops) = m
    BY FunctionIsSequence
<1>2. pushed \in Seq(Field) /\ Len(pushed) = m
    <2>1. pushed \in [1 .. m -> Field]
        BY <1>1
    <2> QED
        BY <2>1, FunctionIsSequence
<1> HIDE DEF pushed
<1>3. Below(n) \in Seq(Field) /\ Len(Below(n)) = Len(op_stack) - n
    BY StackAccess
<1>4. /\ Below(n) \o pushed \in Seq(Field)
      /\ Len(Below(n) \o pushed) = Len(op_stack) - n + m
    BY <1>2, <1>3, ConcatProperties
<1>5. StackBecomes(Below(n) \o pushed, n, m)
    BY <1>1 DEF Replace, pushed
<1>6. Len(op_stack) \in Nat
    BY StackAccess
<1>7. n \in Nat
    BY <1>6
<1>8. \A t \in Seq(Field) : StackBecomes(t, n, m) => StackGrows(Len(t) - Len(op_stack))
    BY <1>7, StackBecomesTypes
<1>9. StackGrows(Len(Below(n) \o pushed) - Len(op_stack))
    BY <1>4, <1>5, <1>8
<1>10. Len(Below(n) \o pushed) - Len(op_stack) = m - n
    BY <1>4, <1>6
<1> QED
    BY <1>9, <1>10
------------------------------------------------------------------------------
(* A step. *)

\* What is left of the type invariant next to the stack and the program.
OtherTypes ==
    /\ public_input \in Seq(Field)
    /\ public_output \in Seq(Field)
    /\ secret_individual_tokens \in Seq(Field)
    /\ secret_digests \in Seq(Digest)
    /\ ram \in Ram
    /\ jump_stack \in Seq([origin : Field, destination : Field])
    /\ sponge \in SpongeState \cup {NoSponge}
    /\ halting \in BOOLEAN
    /\ ram_calls \in Seq(RamTableCall)
    /\ tip5_calls \in Seq(Tip5Call)
    /\ u32_calls \in Seq(U32TableEntry)

\* A step preserves the types and, if it completes, keeps the promised depth.
StepIsTyped ==
    /\ VMTypeOK'
    /\ cycle_count' = cycle_count + 1 =>
           Len(op_stack') = Len(op_stack) + OpStackSizeInfluence(CurrentInstruction)

LEMMA FailureTypes ==
    ASSUME VMTypeOK, NEW err \in Errors, Fails(err)
    PROVE  StepIsTyped
<1>1. underflow_io' = <<>> /\ ram_calls' = <<>> /\ tip5_calls' = <<>> /\ u32_calls' = <<>>
    BY DEF Fails
<1>2. /\ underflow_io' \in Seq(UnderflowIO) /\ ram_calls' \in Seq(RamTableCall)
      /\ tip5_calls' \in Seq(Tip5Call) /\ u32_calls' \in Seq(U32TableEntry)
    BY <1>1
<1>3. UNCHANGED <<program, public_input, public_output, secret_individual_tokens,
                  secret_digests, ram, jump_stack, sponge, op_stack, cycle_count,
                  instruction_pointer, halting>>
    BY DEF Fails, vmState, io, memory
<1>4. error' \in Errors
    BY DEF Fails
<1>5. cycle_count \in Int /\ cycle_count' # cycle_count + 1
    BY <1>3 DEF VMTypeOK
<1> QED
    BY <1>2, <1>3, <1>4, <1>5 DEF StepIsTyped, VMTypeOK

\* An instruction completes: its influence was checked, so the stack stays deep enough.
LEMMA CompletionTypes ==
    ASSUME VMTypeOK, NEW op, Executes(op), NEW target \in Nat, Completes(target),
           NEW delta \in Int, delta = OpStackSizeInfluence(CurrentInstruction),
           StackGrows(delta), OtherTypes'
    PROVE  StepIsTyped
<1>1. cycle_count' \in 0 .. MaxCycles
    BY InputAssumption DEF VMTypeOK, Executes, Completes
<1>2. Len(op_stack) \in Nat
    BY DEF VMTypeOK
<1>3. Len(op_stack') >= NumRegisters
    BY <1>2, RegisterAssumption DEF Executes, WouldBeTooShallow, StackGrows
<1>4. UNCHANGED <<program, error>> /\ instruction_pointer' = target
    BY DEF Completes
<1> QED
    BY <1>1, <1>3, <1>4 DEF StepIsTyped, VMTypeOK, OtherTypes, StackGrows

LEMMA OnStackOnlyTypes ==
    ASSUME VMTypeOK, OnStackOnly
    PROVE  OtherTypes'
BY DEF VMTypeOK, OtherTypes, OnStackOnly, NoCalls, NoRamCalls, NoTip5Calls,
       NoU32Calls, io

\* The instructions that touch nothing but the stack and move on.
LEMMA StackOnlyTypes ==
    ASSUME VMTypeOK, NEW op, Executes(op), Completes(NextAddress), OnStackOnly,
           NEW delta \in Int, delta = OpStackSizeInfluence(CurrentInstruction),
           StackGrows(delta)
    PROVE  StepIsTyped
<1>1. NextAddress \in Nat
    BY InstructionTypes DEF Executes
<1>2. OtherTypes'
    BY OnStackOnlyTypes
<1> QED
    BY <1>1, <1>2, CompletionTypes
\* The declared influence of each instruction.
LEMMA Influences ==
    ASSUME NEW i
    PROVE  /\ i.op \in {"push", "dup", "split"} => OpStackSizeInfluence(i) = 1
           /\ i.op \in {"divine", "read_mem", "read_io"} => OpStackSizeInfluence(i) = i.arg
           /\ i.op \in {"pop", "write_mem", "write_io"} => OpStackSizeInfluence(i) = -i.arg
           /\ i.op \in ShrinkByOne => OpStackSizeInfluence(i) = -1
           /\ i.op \in {"hash", "assert_vector"} => OpStackSizeInfluence(i) = -DigestLen
           /\ i.op = "sponge_absorb" => OpStackSizeInfluence(i) = -Rate
           /\ i.op = "sponge_squeeze" => OpStackSizeInfluence(i) = Rate
           /\ i.op \in {"xx_add", "xx_mul"} => OpStackSizeInfluence(i) = -ExtensionDegree
           /\ i.op \in {"pick", "place", "swap", "nop", "call", "return", "recurse",
                        "recurse_or_return", "halt", "sponge_init", "sponge_absorb_mem",
                        "addi", "invert", "log_2_floor", "div_mod", "pop_count",
                        "x_invert", "merkle_step", "merkle_step_mem", "xx_dot_step",
                        "xb_dot_step"} => OpStackSizeInfluence(i) = 0
BY DEF OpStackSizeInfluence, ShrinkByOne

\* How deep the stack is, and that every operand an instruction names exists.
LEMMA DepthFacts ==
    ASSUME VMTypeOK
    PROVE  /\ Len(op_stack) \in Nat
           /\ NumRegisters \in Nat
           /\ DigestLen \in Nat \ {0}
           /\ ExtensionDegree \in Nat \ {0}
           /\ Len(op_stack) >= NumRegisters
           /\ Rate = 2 * DigestLen
           /\ Len(op_stack) >= Rate
           /\ Len(op_stack) >= DigestLen + 3
           /\ Len(op_stack) >= 2 * ExtensionDegree
           /\ Len(op_stack) >= ExtensionDegree + 2
           /\ MaxNumWords \in 1 .. (Len(op_stack) - 1)
           /\ 1 \in 0 .. Len(op_stack)
           /\ \A i \in 0 .. (NumRegisters - 1) : St(i) \in Field
           /\ St(0) \in Field /\ St(0) \in Int
<1>1. Rate = 2 * DigestLen
    BY DEF Rate
<1>2. Len(op_stack) \in Nat /\ Len(op_stack) >= NumRegisters
    BY DEF VMTypeOK
<1>3. Rate \in Nat
    BY <1>1, SizeAssumption
<1>4. \A i \in 0 .. (NumRegisters - 1) : St(i) \in Field
    BY <1>2, StackAccess, RegisterAssumption
<1>5. St(0) \in Field /\ St(0) \in Int
    <2>1. 0 \in 0 .. (NumRegisters - 1)
        BY RegisterAssumption
    <2> QED
        BY <1>4, <2>1, FieldFacts
<1> QED
    BY <1>1, <1>2, <1>3, <1>4, <1>5, SizeAssumption, RegisterAssumption
------------------------------------------------------------------------------
(* Op stack manipulation. *)

LEMMA StackInstructionTypes ==
    ASSUME VMTypeOK, StackInstruction
    PROVE  StepIsTyped
<1>1. ASSUME Pop PROVE StepIsTyped
    <2>1. Executes("pop") /\ CurrentInstruction.op = "pop" /\ Arg \in 1 .. MaxNumWords
        BY <1>1, InstructionTypes DEF Pop, Executes, NumWordsOps
    <2>2. OpStackSizeInfluence(CurrentInstruction) = -Arg
        BY <2>1, Influences DEF Arg
    <2>3. StackGrows(0 - Arg)
        <3>1. Arg \in 0 .. Len(op_stack) /\ <<>> \in [1 .. 0 -> Field]
            BY <2>1, DepthFacts
        <3> QED
            BY <1>1, <3>1, ReplaceTypes DEF Pop
    <2>4. 0 - Arg = -Arg /\ -Arg \in Int
        BY <2>1, DepthFacts
    <2> QED
        BY <1>1, <2>1, <2>2, <2>3, <2>4, StackOnlyTypes DEF Pop
<1>2. ASSUME Push PROVE StepIsTyped
    <2>1. Executes("push") /\ CurrentInstruction.op = "push" /\ Arg \in Field
        BY <1>2, InstructionTypes DEF Push, Executes, ElementOps
    <2>2. OpStackSizeInfluence(CurrentInstruction) = 1
        BY <2>1, Influences
    <2>3. StackGrows(1 - 0)
        <3>1. 0 \in 0 .. Len(op_stack) /\ <<Arg>> \in [1 .. 1 -> Field]
            BY <2>1, DepthFacts
        <3> QED
            BY <1>2, <3>1, ReplaceTypes DEF Push
    <2> QED
        BY <1>2, <2>1, <2>2, <2>3, StackOnlyTypes DEF Push
<1>3. ASSUME Divine PROVE StepIsTyped
    <2> DEFINE tokens == [k \in 1 .. Arg |-> secret_individual_tokens[Arg + 1 - k]]
    <2>1. Executes("divine") /\ CurrentInstruction.op = "divine" /\ Arg \in 1 .. MaxNumWords
        BY <1>3, InstructionTypes DEF Divine, Executes, NumWordsOps
    <2>2. CASE Fails("EmptySecretInput")
        BY <2>2, FailureTypes DEF Errors
    <2>3. CASE ~Fails("EmptySecretInput")
        <3>1. /\ Len(secret_individual_tokens) >= Arg
              /\ Replace(0, tokens)
              /\ secret_individual_tokens' =
                     SubSeq(secret_individual_tokens, Arg + 1, Len(secret_individual_tokens))
              /\ Completes(NextAddress)
              /\ NoCalls
              /\ UNCHANGED <<public_input, public_output, secret_digests, jump_stack, halting>>
            BY <1>3, <2>3 DEF Divine
        <3>2. secret_individual_tokens \in Seq(Field) /\ Arg \in Nat
            BY <2>1, DepthFacts DEF VMTypeOK
        <3>3. OpStackSizeInfluence(CurrentInstruction) = Arg
            BY <2>1, Influences DEF Arg
        <3>4. StackGrows(Arg - 0)
            <4>1. tokens \in [1 .. Arg -> Field]
                BY <3>1, <3>2, ElementOfSeq
            <4>2. 0 \in 0 .. Len(op_stack)
                BY DepthFacts
            <4> HIDE DEF tokens
            <4> QED
                BY <3>1, <3>2, <4>1, <4>2, ReplaceTypes
        <3>5. secret_individual_tokens' \in Seq(Field)
            <4>1. \A k \in (Arg + 1) .. Len(secret_individual_tokens) :
                      secret_individual_tokens[k] \in Field
                BY <3>2, ElementOfSeq
            <4> QED
                BY <3>1, <3>2, <4>1, SubSeqProperties
        <3>6. OtherTypes'
            BY <3>1, <3>5 DEF VMTypeOK, OtherTypes, NoCalls, NoRamCalls, NoTip5Calls,
                   NoU32Calls
        <3>7. NextAddress \in Nat
            BY <2>1, InstructionTypes DEF Executes
        <3> QED
            BY <2>1, <3>1, <3>2, <3>3, <3>4, <3>6, <3>7, CompletionTypes
    <2> QED
        BY <2>2, <2>3
<1>4. ASSUME Pick PROVE StepIsTyped
    <2> DEFINE depth == Len(op_stack)
               at == depth - Arg
               t == [k \in 1 .. depth |->
                        IF k < at THEN op_stack[k]
                        ELSE IF k < depth THEN op_stack[k + 1] ELSE op_stack[at]]
    <2>1. Executes("pick") /\ CurrentInstruction.op = "pick" /\ Arg \in Register
        BY <1>4, InstructionTypes DEF Pick, Executes, RegisterOps
    <2>2. OpStackSizeInfluence(CurrentInstruction) = 0
        BY <2>1, Influences
    <2>3. at \in 1 .. depth /\ depth \in Nat
        BY <2>1, DepthFacts DEF Register
    <2>4. t \in [1 .. depth -> Field]
        BY <2>3, ElementOfSeq DEF VMTypeOK
    <2>5. StackBecomes(t, 1, 1)
        BY <1>4 DEF Pick
    <2> HIDE DEF t
    <2>6. StackGrows(0)
        BY <2>4, <2>5, RearrangedTypes
    <2> QED
        BY <1>4, <2>1, <2>2, <2>6, StackOnlyTypes DEF Pick
<1>5. ASSUME Place PROVE StepIsTyped
    <2> DEFINE depth == Len(op_stack)
               at == depth - Arg
               t == [k \in 1 .. depth |->
                        IF k < at THEN op_stack[k]
                        ELSE IF k = at THEN op_stack[depth] ELSE op_stack[k - 1]]
    <2>1. Executes("place") /\ CurrentInstruction.op = "place" /\ Arg \in Register
        BY <1>5, InstructionTypes DEF Place, Executes, RegisterOps
    <2>2. OpStackSizeInfluence(CurrentInstruction) = 0
        BY <2>1, Influences
    <2>3. at \in 1 .. depth /\ depth \in Nat
        BY <2>1, DepthFacts DEF Register
    <2>4. t \in [1 .. depth -> Field]
        BY <2>3, ElementOfSeq DEF VMTypeOK
    <2>5. StackBecomes(t, 1, 1)
        BY <1>5 DEF Place
    <2> HIDE DEF t
    <2>6. StackGrows(0)
        BY <2>4, <2>5, RearrangedTypes
    <2> QED
        BY <1>5, <2>1, <2>2, <2>6, StackOnlyTypes DEF Place
<1>6. ASSUME Dup PROVE StepIsTyped
    <2>1. Executes("dup") /\ CurrentInstruction.op = "dup" /\ Arg \in Register
        BY <1>6, InstructionTypes DEF Dup, Executes, RegisterOps
    <2>2. OpStackSizeInfluence(CurrentInstruction) = 1
        BY <2>1, Influences
    <2>3. StackGrows(1 - 0)
        <3>1. 0 \in 0 .. Len(op_stack) /\ <<St(Arg)>> \in [1 .. 1 -> Field]
            BY <2>1, DepthFacts DEF Register
        <3> QED
            BY <1>6, <3>1, ReplaceTypes DEF Dup
    <2> QED
        BY <1>6, <2>1, <2>2, <2>3, StackOnlyTypes DEF Dup
<1>7. ASSUME Swap PROVE StepIsTyped
    <2> DEFINE t == [op_stack EXCEPT ![Len(op_stack)] = St(Arg),
                                     ![Len(op_stack) - Arg] = St(0)]
    <2>1. Executes("swap") /\ CurrentInstruction.op = "swap" /\ Arg \in Register
        BY <1>7, InstructionTypes DEF Swap, Executes, RegisterOps
    <2>2. OpStackSizeInfluence(CurrentInstruction) = 0
        BY <2>1, Influences
    <2>3. t \in [1 .. Len(op_stack) -> Field]
        <3>1. op_stack \in [1 .. Len(op_stack) -> Field]
            BY LenProperties DEF VMTypeOK
        <3>2. St(Arg) \in Field /\ St(0) \in Field
            BY <2>1, DepthFacts, RegisterAssumption DEF Register
        <3> QED
            BY <3>1, <3>2
    <2>4. StackBecomes(t, 0, 0)
        BY <1>7 DEF Swap
    <2> HIDE DEF t
    <2>5. StackGrows(0)
        BY <2>3, <2>4, RearrangedTypes
    <2> QED
        BY <1>7, <2>1, <2>2, <2>5, StackOnlyTypes DEF Swap
<1> QED
    BY <1>1, <1>2, <1>3, <1>4, <1>5, <1>6, <1>7 DEF StackInstruction
\* An instruction that replaces the top of the stack and moves on.
LEMMA ReplacingTypes ==
    ASSUME VMTypeOK, NEW op, Executes(op), Completes(NextAddress),
           NEW n \in 0 .. Len(op_stack), NEW m \in Nat, NEW tops \in [1 .. m -> Field],
           Replace(n, tops),
           OpStackSizeInfluence(CurrentInstruction) = m - n,
           OtherTypes'
    PROVE  StepIsTyped
<1>1. StackGrows(m - n)
    BY ReplaceTypes
<1>2. m - n \in Int
    BY DepthFacts
<1>3. NextAddress \in Nat
    BY InstructionTypes DEF Executes
<1> QED
    BY <1>1, <1>2, <1>3, CompletionTypes
------------------------------------------------------------------------------
(* Control flow. *)

\* The jump stack holds addresses.
LEMMA JumpStackTypes ==
    ASSUME VMTypeOK, jump_stack # <<>>
    PROVE  /\ JumpStackTop.origin \in Nat
           /\ JumpStackTop.destination \in Nat
           /\ SubSeq(jump_stack, 1, Len(jump_stack) - 1)
                  \in Seq([origin : Field, destination : Field])
<1>1. jump_stack \in Seq([origin : Field, destination : Field])
    BY DEF VMTypeOK
<1>2. Len(jump_stack) \in Nat \ {0}
    BY <1>1, EmptySeq
<1>3. \A k \in 1 .. Len(jump_stack) : jump_stack[k] \in [origin : Field, destination : Field]
    BY <1>1, ElementOfSeq
<1>4. JumpStackTop \in [origin : Field, destination : Field]
    BY <1>2, <1>3 DEF JumpStackTop
<1>5. SubSeq(jump_stack, 1, Len(jump_stack) - 1)
          \in Seq([origin : Field, destination : Field])
    <2>1. \A k \in 1 .. (Len(jump_stack) - 1) :
              jump_stack[k] \in [origin : Field, destination : Field]
        BY <1>2, <1>3
    <2>2. 1 \in Int /\ Len(jump_stack) - 1 \in Int
        BY <1>2
    <2> QED
        BY <2>1, <2>2, SubSeqProperties
<1> QED
    BY <1>4, <1>5, FieldFacts

\* The jumps leave the stack as it is.
LEMMA JumpTypes ==
    ASSUME VMTypeOK, NEW op, Executes(op), NEW target \in Nat, Completes(target),
           StackUnchanged, NoCalls, UNCHANGED <<io, halting>>,
           OpStackSizeInfluence(CurrentInstruction) = 0,
           jump_stack' \in Seq([origin : Field, destination : Field])
    PROVE  StepIsTyped
<1>1. OtherTypes'
    BY DEF VMTypeOK, OtherTypes, NoCalls, NoRamCalls, NoTip5Calls, NoU32Calls, io
<1>2. StackGrows(0)
    BY UnchangedTypes
<1> QED
    BY <1>1, <1>2, CompletionTypes

LEMMA ControlInstructionTypes ==
    ASSUME VMTypeOK, ControlInstruction
    PROVE  StepIsTyped
<1> USE DEF Errors
<1>0. OnStackOnly => jump_stack' = jump_stack /\ NoCalls /\ UNCHANGED <<io, halting>>
    BY DEF OnStackOnly
<1>9. jump_stack \in Seq([origin : Field, destination : Field])
    BY DEF VMTypeOK
<1>1. ASSUME Nop PROVE StepIsTyped
    <2>1. Executes("nop") /\ OpStackSizeInfluence(CurrentInstruction) = 0
        BY <1>1, Influences DEF Nop, Executes
    <2>2. StackGrows(0)
        BY <1>1, UnchangedTypes DEF Nop
    <2> QED
        BY <1>1, <2>1, <2>2, StackOnlyTypes DEF Nop
<1>2. ASSUME Skiz PROVE StepIsTyped
    <2>1. /\ Executes("skiz") /\ OpStackSizeInfluence(CurrentInstruction) = -1
          /\ InBounds(instruction_pointer)
        BY <1>2, Influences DEF Skiz, Executes, ShrinkByOne
    <2>2. 1 \in 0 .. Len(op_stack) /\ <<>> \in [1 .. 0 -> Field] /\ 0 - 1 = -1
        BY DepthFacts, RegisterAssumption
    <2>3. CASE Replace(1, <<>>) /\ Completes(NextAddress) /\ OnStackOnly
        <3>1. OtherTypes'
            BY <2>3, OnStackOnlyTypes
        <3> QED
            BY <2>1, <2>2, <2>3, <3>1, ReplacingTypes
    <2>4. CASE /\ Replace(1, <<>>) /\ InBounds(NextAddress)
               /\ Completes(AddressBehindSkipped) /\ OnStackOnly
        <3>1. AddressBehindSkipped \in Nat
            BY <2>1, InstructionTypes DEF AddressBehindSkipped, Size
        <3>2. StackGrows(0 - 1)
            BY <2>2, <2>4, ReplaceTypes
        <3>3. OtherTypes'
            BY <2>4, OnStackOnlyTypes
        <3> QED
            BY <2>1, <2>2, <2>4, <3>1, <3>2, <3>3, CompletionTypes
    <2>5. CASE /\ error' = "InstructionPointerOverflow"
               /\ op_stack' = Below(1)
               /\ underflow_io' = <<>>
               /\ NoCalls
               /\ UNCHANGED <<program, io, jump_stack, cycle_count,
                              instruction_pointer, halting>>
        <3>1. op_stack' \in Seq(Field) /\ Len(op_stack') = Len(op_stack) - 1
            BY <2>2, <2>5, StackAccess
        <3>2. Len(op_stack') >= NumRegisters
            BY <2>1, <3>1, DepthFacts DEF Executes, WouldBeTooShallow
        <3>3. underflow_io' \in Seq(UnderflowIO)
            BY <2>5
        <3>4. OtherTypes'
            BY <2>5 DEF VMTypeOK, OtherTypes, NoCalls, NoRamCalls, NoTip5Calls,
                   NoU32Calls, io
        <3>5. cycle_count' # cycle_count + 1
            BY <2>5 DEF VMTypeOK
        <3> QED
            BY <2>5, <3>1, <3>2, <3>3, <3>4, <3>5 DEF StepIsTyped, VMTypeOK, OtherTypes
    <2> QED
        BY <1>2, <2>3, <2>4, <2>5 DEF Skiz
<1>3. ASSUME Call PROVE StepIsTyped
    <2>1. /\ Executes("call") /\ OpStackSizeInfluence(CurrentInstruction) = 0
          /\ Arg \in Field
        BY <1>3, Influences, InstructionTypes DEF Call, Executes, ElementOps
    <2>2. (instruction_pointer + 2) % P \in Field
        <3>1. instruction_pointer + 2 \in Int
            BY DEF VMTypeOK
        <3> QED
            BY <3>1, FieldFacts
    <2>3. jump_stack' \in Seq([origin : Field, destination : Field])
        BY <1>3, <1>9, <2>1, <2>2, AppendProperties DEF Call
    <2>4. Arg \in Nat
        BY <2>1, FieldFacts
    <2> QED
        BY <1>3, <2>1, <2>3, <2>4, JumpTypes DEF Call
<1>4. ASSUME Return PROVE StepIsTyped
    <2>1. Executes("return") /\ OpStackSizeInfluence(CurrentInstruction) = 0
        BY <1>4, Influences DEF Return, Executes
    <2>2. CASE Fails("JumpStackIsEmpty")
        BY <2>2, FailureTypes
    <2>3. CASE ~Fails("JumpStackIsEmpty")
        BY <1>4, <2>1, <2>3, JumpStackTypes, JumpTypes DEF Return, PopJumpStack
    <2> QED
        BY <2>2, <2>3
<1>5. ASSUME Recurse PROVE StepIsTyped
    <2>1. Executes("recurse") /\ OpStackSizeInfluence(CurrentInstruction) = 0
        BY <1>5, Influences DEF Recurse, Executes
    <2>2. CASE Fails("JumpStackIsEmpty")
        BY <2>2, FailureTypes
    <2>3. CASE ~Fails("JumpStackIsEmpty")
        BY <1>0, <1>9, <1>5, <2>1, <2>3, JumpStackTypes, JumpTypes DEF Recurse
    <2> QED
        BY <2>2, <2>3
<1>6. ASSUME RecurseOrReturn PROVE StepIsTyped
    <2>1. Executes("recurse_or_return") /\ OpStackSizeInfluence(CurrentInstruction) = 0
        BY <1>6, Influences DEF RecurseOrReturn, Executes
    <2>2. CASE Fails("JumpStackIsEmpty")
        BY <2>2, FailureTypes
    <2>3. CASE /\ jump_stack # <<>> /\ PopJumpStack /\ StackUnchanged
               /\ Completes(JumpStackTop.origin) /\ NoCalls /\ UNCHANGED <<io, halting>>
        BY <2>1, <2>3, JumpStackTypes, JumpTypes DEF PopJumpStack
    <2>4. CASE /\ jump_stack # <<>> /\ StackUnchanged
               /\ Completes(JumpStackTop.destination) /\ OnStackOnly
        BY <1>0, <1>9, <2>1, <2>4, JumpStackTypes, JumpTypes
    <2> QED
        BY <1>6, <2>2, <2>3, <2>4 DEF RecurseOrReturn
<1>7. ASSUME AssertInstruction PROVE StepIsTyped
    <2>1. Executes("assert") /\ OpStackSizeInfluence(CurrentInstruction) = -1
        BY <1>7, Influences DEF AssertInstruction, Executes, ShrinkByOne
    <2>2. CASE Fails("AssertionFailed")
        BY <2>2, FailureTypes
    <2>3. CASE Replace(1, <<>>) /\ Completes(NextAddress) /\ OnStackOnly
        <3>1. 1 \in 0 .. Len(op_stack) /\ <<>> \in [1 .. 0 -> Field] /\ 0 - 1 = -1
            BY DepthFacts, RegisterAssumption
        <3>2. OtherTypes'
            BY <2>3, OnStackOnlyTypes
        <3> QED
            BY <2>1, <2>3, <3>1, <3>2, ReplacingTypes
    <2> QED
        BY <1>7, <2>2, <2>3 DEF AssertInstruction
<1>8. ASSUME Halt PROVE StepIsTyped
    <2>1. /\ Executes("halt") /\ OpStackSizeInfluence(CurrentInstruction) = 0
          /\ NextAddress \in Nat
        BY <1>8, Influences, InstructionTypes DEF Halt, Executes
    <2>2. StackGrows(0)
        BY <1>8, UnchangedTypes DEF Halt
    <2>3. OtherTypes'
        BY <1>8 DEF Halt, VMTypeOK, OtherTypes, NoCalls, NoRamCalls, NoTip5Calls,
               NoU32Calls, io
    <2> QED
        BY <1>8, <2>1, <2>2, <2>3, CompletionTypes DEF Halt
<1> QED
    BY <1>1, <1>2, <1>3, <1>4, <1>5, <1>6, <1>7, <1>8 DEF ControlInstruction
------------------------------------------------------------------------------
(* Memory access. *)

\* Memory holds field elements at every address.
LEMMA RamTypes ==
    ASSUME VMTypeOK, NEW n \in Nat, NEW pointers \in [1 .. n -> Field]
    PROVE  /\ RamRead(pointers) \in Seq(RamTableCall)
           /\ Contents(pointers) \in [1 .. n -> Field]
           /\ \A values \in [1 .. n -> Field] : Written(pointers, values) \in Ram
<1>1. ram \in [Field -> Field] /\ cycle_count \in Nat
    BY InputAssumption DEF VMTypeOK, Ram
<1>2. RamRead(pointers) \in [1 .. n -> RamTableCall]
    BY <1>1 DEF RamRead, RamTableCall
<1>3. RamRead(pointers) \in Seq(RamTableCall)
    BY <1>2, FunctionIsSequence
<1>4. Contents(pointers) \in [1 .. n -> Field]
    BY <1>1 DEF Contents
<1>5. ASSUME NEW values \in [1 .. n -> Field]
      PROVE  Written(pointers, values) \in Ram
    <2>1. ASSUME NEW a \in Field
          PROVE  (IF \E k \in DOMAIN pointers : pointers[k] = a
                  THEN values[CHOOSE k \in DOMAIN pointers : pointers[k] = a]
                  ELSE ram[a]) \in Field
        <3>1. CASE \E k \in DOMAIN pointers : pointers[k] = a
            <4>1. (CHOOSE k \in DOMAIN pointers : pointers[k] = a) \in 1 .. n
                BY <3>1
            <4> QED
                BY <3>1, <4>1
        <3>2. CASE ~ \E k \in DOMAIN pointers : pointers[k] = a
            BY <1>1, <3>2
        <3> QED
            BY <3>1, <3>2
    <2> QED
        BY <2>1 DEF Written, Ram
<1> QED
    BY <1>3, <1>4, <1>5

LEMMA AddressTypes ==
    ASSUME NEW p \in Int, NEW n \in Nat
    PROVE  /\ Addresses(p, 1, n) \in [1 .. n -> Field]
           /\ Addresses(p, -1, n) \in [1 .. n -> Field]
<1>1. \A k \in 1 .. n : p + 1 * (k - 1) \in Int /\ p + (-1) * (k - 1) \in Int
    OBVIOUS
<1> QED
    BY <1>1, FieldFacts DEF Addresses

LEMMA MemoryInstructionTypes ==
    ASSUME VMTypeOK, MemoryInstruction
    PROVE  StepIsTyped
<1>1. ASSUME ReadMem PROVE StepIsTyped
    <2> DEFINE pointers == Addresses(St(0), -1, Arg)
               read == [k \in 1 .. Arg |-> ram[pointers[Arg + 1 - k]]]
               tops == <<(St(0) - Arg) % P>> \o read
    <2>1. /\ Executes("read_mem") /\ Arg \in 1 .. MaxNumWords
          /\ OpStackSizeInfluence(CurrentInstruction) = Arg
        BY <1>1, InstructionTypes, Influences DEF ReadMem, Executes, NumWordsOps, Arg
    <2>2. Arg \in Nat /\ Arg \in Int /\ St(0) \in Field /\ St(0) \in Int /\ 1 \in 0 .. Len(op_stack)
        BY <2>1, DepthFacts
    <2>3. pointers \in [1 .. Arg -> Field]
        BY <2>2, AddressTypes
    <2> HIDE DEF pointers
    <2>4. ram_calls' \in Seq(RamTableCall)
        BY <1>1, <2>2, <2>3, RamTypes DEF ReadMem, pointers
    <2>5. tops \in [1 .. (Arg + 1) -> Field]
        <3>1. read \in Seq(Field) /\ Len(read) = Arg
            <4>1. read \in [1 .. Arg -> Field]
                BY <2>2, <2>3 DEF VMTypeOK, Ram
            <4> QED
                BY <2>2, <4>1, FunctionIsSequence
        <3>2. (St(0) - Arg) % P \in Field
            BY <2>2, SumFacts
        <3>3. <<(St(0) - Arg) % P>> \in Seq(Field) /\ Len(<<(St(0) - Arg) % P>>) = 1
            BY <3>2
        <3> HIDE DEF read
        <3>4. tops \in Seq(Field) /\ Len(tops) = 1 + Arg
            BY <3>1, <3>3, ConcatProperties
        <3> HIDE DEF tops
        <3> QED
            BY <3>4, <2>2, LenProperties
    <2>6. Replace(1, tops)
        BY <1>1 DEF ReadMem, pointers
    <2> HIDE DEF tops
    <2>7. OtherTypes'
        BY <1>1, <2>4 DEF ReadMem, VMTypeOK, OtherTypes, NoTip5Calls, NoU32Calls, io
    <2>8. OpStackSizeInfluence(CurrentInstruction) = (Arg + 1) - 1
        BY <2>1, <2>2
    <2> QED
        BY <1>1, <2>1, <2>2, <2>5, <2>6, <2>7, <2>8, ReplacingTypes DEF ReadMem
<1>2. ASSUME WriteMem PROVE StepIsTyped
    <2> DEFINE pointers == Addresses(St(0), 1, Arg)
               values == Tops(1, Arg)
    <2>1. /\ Executes("write_mem") /\ Arg \in 1 .. MaxNumWords
          /\ OpStackSizeInfluence(CurrentInstruction) = -Arg
        BY <1>2, InstructionTypes, Influences DEF WriteMem, Executes, NumWordsOps, Arg
    <2>2. Arg \in Nat /\ Arg \in Int /\ St(0) \in Field /\ St(0) \in Int /\ Arg + 1 \in 0 .. Len(op_stack)
        BY <2>1, DepthFacts
    <2>3. pointers \in [1 .. Arg -> Field]
        BY <2>2, AddressTypes
    <2>4. values \in [1 .. Arg -> Field]
        <3>1. 1 \in Nat /\ 1 + Arg <= Len(op_stack)
            BY <2>2, DepthFacts
        <3> QED
            BY <2>2, <3>1, StackAccess
    <2>5. /\ ram_calls' = [k \in 1 .. Arg |->
                [clk |-> cycle_count, ram_pointer |-> pointers[k],
                 ram_value |-> values[k], is_write |-> TRUE]]
          /\ ram' = Written(pointers, values)
        BY <1>2 DEF WriteMem
    <2> HIDE DEF pointers, values
    <2>6. ram_calls' \in Seq(RamTableCall)
        <3>1. ram_calls' \in [1 .. Arg -> RamTableCall]
            BY <2>3, <2>4, <2>5, InputAssumption DEF VMTypeOK, RamTableCall
        <3> QED
            BY <2>2, <3>1, FunctionIsSequence
    <2>7. ram' \in Ram
        BY <2>2, <2>3, <2>4, <2>5, RamTypes
    <2>8. OtherTypes'
        BY <1>2, <2>6, <2>7 DEF WriteMem, VMTypeOK, OtherTypes, NoTip5Calls, NoU32Calls, io
    <2>9. OpStackSizeInfluence(CurrentInstruction) = 1 - (Arg + 1)
        BY <2>1, <2>2
    <2>10. <<Plus(St(0), Arg)>> \in [1 .. 1 -> Field]
        <3>1. Plus(St(0), Arg) \in Field
            BY <2>2, SumFacts
        <3> QED
            BY <3>1
    <2> QED
        BY <1>2, <2>1, <2>2, <2>8, <2>9, <2>10, ReplacingTypes DEF WriteMem
<1> QED
    BY <1>1, <1>2 DEF MemoryInstruction
------------------------------------------------------------------------------
(* Hashing. *)

\* The permutation's input and output are full sponge states.
LEMMA SpongeFacts ==
    /\ Rate \in Nat /\ StateSize \in Nat /\ Rate <= StateSize /\ DigestLen <= Rate
    /\ \A rate \in [1 .. Rate -> Field] : FixedLength(rate) \in SpongeState
    /\ \A state \in SpongeState, rate \in [1 .. Rate -> Field] :
           Overwrite(state, rate) \in SpongeState
    /\ SpongeInitState \in SpongeState
    /\ \A state \in SpongeState : Tip5(state) \in SpongeState
    /\ \A state \in SpongeState, n \in 0 .. StateSize :
           SubSeq(state, 1, n) \in [1 .. n -> Field]
<1>1. Rate \in Nat /\ StateSize \in Nat /\ Rate <= StateSize /\ DigestLen <= Rate
    BY SizeAssumption DEF Rate, StateSize
<1>2. \A rate \in [1 .. Rate -> Field] : FixedLength(rate) \in SpongeState
    BY <1>1, FieldFacts DEF FixedLength, SpongeState
<1>3. \A state \in SpongeState, rate \in [1 .. Rate -> Field] :
          Overwrite(state, rate) \in SpongeState
    BY <1>1 DEF Overwrite, SpongeState
<1>4. SpongeInitState \in SpongeState
    BY FieldFacts DEF SpongeInitState, SpongeState
<1>5. \A state \in SpongeState : Tip5(state) \in SpongeState
    BY ExternalRanges DEF HashRanges
<1>6. ASSUME NEW state \in SpongeState, NEW n \in 0 .. StateSize
      PROVE  SubSeq(state, 1, n) \in [1 .. n -> Field]
    <2>1. \A i \in 1 .. n : state[i] \in Field
        BY <1>1 DEF SpongeState
    <2>2. 1 \in Int /\ n \in Int /\ n \in Nat
        BY <1>1
    <2>3. /\ SubSeq(state, 1, n) \in Seq(Field)
          /\ Len(SubSeq(state, 1, n)) = IF 1 <= n THEN n - 1 + 1 ELSE 0
        BY <2>1, <2>2, SubSeqProperties
    <2>4. Len(SubSeq(state, 1, n)) = n
        BY <2>2, <2>3
    <2> QED
        BY <2>3, <2>4, LenProperties
<1> QED
    BY <1>1, <1>2, <1>3, <1>4, <1>5, <1>6

LEMMA PermutesTypes ==
    ASSUME NEW ci \in {"hash", "sponge_init", "sponge_absorb", "sponge_squeeze"},
           NEW state \in SpongeState, Permutes(ci, state)
    PROVE  tip5_calls' \in Seq(Tip5Call)
<1>1. [ci |-> ci, state |-> state] \in Tip5Call
    BY DEF Tip5Call
<1> QED
    BY <1>1 DEF Permutes

LEMMA HashInstructionTypes ==
    ASSUME VMTypeOK, HashInstruction
    PROVE  StepIsTyped
<1> USE DEF Errors
<1>0. /\ Tops(0, Rate) \in [1 .. Rate -> Field]
      /\ Rate \in Nat /\ DigestLen \in Nat
      /\ Rate \in 0 .. Len(op_stack) /\ Rate \in 0 .. StateSize
      /\ DigestLen \in 0 .. Len(op_stack) /\ DigestLen \in 0 .. StateSize
    <2>1. 0 \in Nat /\ Rate \in Nat /\ 0 + Rate <= Len(op_stack)
        BY DepthFacts, SpongeFacts
    <2>2. Tops(0, Rate) \in [1 .. Rate -> Field]
        BY <2>1, StackAccess
    <2> QED
        BY <2>1, <2>2, DepthFacts, SpongeFacts
<1>9. /\ <<>> \in [1 .. 0 -> Field] /\ 0 \in Nat
      /\ sponge # NoSponge => sponge \in SpongeState
    BY DEF VMTypeOK
<1>1. ASSUME Hash PROVE StepIsTyped
    <2> DEFINE input == FixedLength(Tops(0, Rate))
    <2>1. Executes("hash") /\ OpStackSizeInfluence(CurrentInstruction) = -DigestLen
        BY <1>1, Influences DEF Hash, Executes
    <2>2. input \in SpongeState
        BY <1>0, SpongeFacts
    <2>3. /\ Permutes("hash", input)
          /\ Replace(Rate, SubSeq(Tip5(input), 1, DigestLen))
        BY <1>1 DEF Hash
    <2> HIDE DEF input
    <2>4. SubSeq(Tip5(input), 1, DigestLen) \in [1 .. DigestLen -> Field]
        BY <1>0, <2>2, SpongeFacts
    <2>5. tip5_calls' \in Seq(Tip5Call)
        BY <2>2, <2>3, PermutesTypes
    <2>6. OtherTypes'
        BY <1>1, <2>5 DEF Hash, VMTypeOK, OtherTypes, NoRamCalls, NoU32Calls, io
    <2>7. OpStackSizeInfluence(CurrentInstruction) = DigestLen - Rate
        BY <2>1, DepthFacts
    <2> QED
        BY <1>0, <1>1, <2>1, <2>3, <2>4, <2>6, <2>7, ReplacingTypes DEF Hash
<1>2. ASSUME SpongeInit PROVE StepIsTyped
    <2>1. /\ Executes("sponge_init") /\ OpStackSizeInfluence(CurrentInstruction) = 0
          /\ NextAddress \in Nat
        BY <1>2, Influences, InstructionTypes DEF SpongeInit, Executes
    <2>2. tip5_calls' \in Seq(Tip5Call) /\ sponge' \in SpongeState
        BY <1>2, SpongeFacts, PermutesTypes DEF SpongeInit
    <2>3. OtherTypes'
        BY <1>2, <2>2 DEF SpongeInit, VMTypeOK, OtherTypes, NoRamCalls, NoU32Calls, io
    <2>4. StackGrows(0)
        BY <1>2, UnchangedTypes DEF SpongeInit
    <2> QED
        BY <1>2, <2>1, <2>3, <2>4, CompletionTypes DEF SpongeInit
<1>3. ASSUME SpongeAbsorb PROVE StepIsTyped
    <2> DEFINE absorbed == Overwrite(sponge, Tops(0, Rate))
    <2>1. Executes("sponge_absorb") /\ OpStackSizeInfluence(CurrentInstruction) = -Rate
        BY <1>3, Influences DEF SpongeAbsorb, Executes
    <2>2. CASE Fails("SpongeNotInitialized")
        BY <2>2, FailureTypes
    <2>3. CASE ~Fails("SpongeNotInitialized")
        <3>1. /\ sponge # NoSponge
              /\ Permutes("sponge_absorb", absorbed) /\ sponge' = Tip5(absorbed)
              /\ Replace(Rate, <<>>) /\ Completes(NextAddress)
              /\ NoRamCalls /\ NoU32Calls /\ UNCHANGED <<io, jump_stack, halting>>
            BY <1>3, <2>3 DEF SpongeAbsorb
        <3>2. absorbed \in SpongeState
            BY <1>0, <1>9, <3>1, SpongeFacts
        <3> HIDE DEF absorbed
        <3>3. tip5_calls' \in Seq(Tip5Call) /\ sponge' \in SpongeState
            BY <3>1, <3>2, SpongeFacts, PermutesTypes
        <3>4. OtherTypes'
            BY <3>1, <3>3 DEF VMTypeOK, OtherTypes, NoRamCalls, NoU32Calls, io
        <3>5. OpStackSizeInfluence(CurrentInstruction) = 0 - Rate
            BY <2>1, <1>0
        <3> QED
            BY <1>0, <1>9, <2>1, <3>1, <3>4, <3>5, ReplacingTypes
    <2> QED
        BY <2>2, <2>3
<1>4. ASSUME SpongeAbsorbMem PROVE StepIsTyped
    <2> DEFINE pointers == Addresses(St(0), 1, Rate)
               elements == Contents(pointers)
               absorbed == Overwrite(sponge, elements)
               depth == Len(op_stack)
               t == [k \in 1 .. depth |->
                        IF k = depth THEN Plus(St(0), Rate)
                        ELSE IF depth - k <= Rate - NumHelpers THEN elements[depth - k]
                        ELSE op_stack[k]]
    <2>1. /\ Executes("sponge_absorb_mem") /\ OpStackSizeInfluence(CurrentInstruction) = 0
          /\ NextAddress \in Nat
        BY <1>4, Influences, InstructionTypes DEF SpongeAbsorbMem, Executes
    <2>2. CASE Fails("SpongeNotInitialized")
        BY <2>2, FailureTypes
    <2>3. CASE ~Fails("SpongeNotInitialized")
        <3>1. /\ sponge # NoSponge
              /\ ram_calls' = RamRead(pointers)
              /\ Permutes("sponge_absorb", absorbed) /\ sponge' = Tip5(absorbed)
              /\ StackBecomes(t, 1, 1) /\ Completes(NextAddress)
              /\ NoU32Calls /\ UNCHANGED <<io, ram, jump_stack, halting>>
            BY <1>4, <2>3 DEF SpongeAbsorbMem
        <3>2. pointers \in [1 .. Rate -> Field]
            BY <1>0, DepthFacts, AddressTypes
        <3> HIDE DEF pointers
        <3>3. elements \in [1 .. Rate -> Field] /\ ram_calls' \in Seq(RamTableCall)
            BY <1>0, <3>1, <3>2, RamTypes
        <3> HIDE DEF elements
        <3>4. absorbed \in SpongeState
            BY <1>9, <3>1, <3>3, SpongeFacts
        <3>5. t \in [1 .. depth -> Field]
            <4>1. Plus(St(0), Rate) \in Field /\ depth \in Nat
                BY <1>0, DepthFacts, SumFacts
            <4>2. \A k \in 1 .. depth : op_stack[k] \in Field
                BY ElementOfSeq DEF VMTypeOK
            <4>3. ASSUME NEW k \in 1 .. depth, k # depth, depth - k <= Rate - NumHelpers
                  PROVE  elements[depth - k] \in Field
                <5>1. depth - k \in 1 .. Rate
                    BY <1>0, <4>1, <4>3, RegisterAssumption
                <5> QED
                    BY <3>3, <5>1
            <4> HIDE DEF depth
            <4> QED
                BY <4>1, <4>2, <4>3
        <3> HIDE DEF absorbed, t
        <3>6. tip5_calls' \in Seq(Tip5Call) /\ sponge' \in SpongeState
            BY <3>1, <3>4, SpongeFacts, PermutesTypes
        <3>7. OtherTypes'
            BY <3>1, <3>3, <3>6 DEF VMTypeOK, OtherTypes, NoU32Calls, io
        <3>8. StackGrows(0)
            BY <3>1, <3>5, RearrangedTypes
        <3> QED
            BY <2>1, <3>1, <3>7, <3>8, CompletionTypes
    <2> QED
        BY <2>2, <2>3
<1>5. ASSUME SpongeSqueeze PROVE StepIsTyped
    <2>1. Executes("sponge_squeeze") /\ OpStackSizeInfluence(CurrentInstruction) = Rate
        BY <1>5, Influences DEF SpongeSqueeze, Executes
    <2>2. CASE Fails("SpongeNotInitialized")
        BY <2>2, FailureTypes
    <2>3. CASE ~Fails("SpongeNotInitialized")
        <3>1. /\ sponge # NoSponge
              /\ Replace(0, SubSeq(sponge, 1, Rate))
              /\ Permutes("sponge_squeeze", sponge) /\ sponge' = Tip5(sponge)
              /\ Completes(NextAddress)
              /\ NoRamCalls /\ NoU32Calls /\ UNCHANGED <<io, jump_stack, halting>>
            BY <1>5, <2>3 DEF SpongeSqueeze
        <3>2. SubSeq(sponge, 1, Rate) \in [1 .. Rate -> Field]
            BY <1>0, <1>9, <3>1, SpongeFacts
        <3>3. tip5_calls' \in Seq(Tip5Call) /\ sponge' \in SpongeState
            BY <1>9, <3>1, SpongeFacts, PermutesTypes
        <3>4. OtherTypes'
            BY <3>1, <3>3 DEF VMTypeOK, OtherTypes, NoRamCalls, NoU32Calls, io
        <3>5. /\ OpStackSizeInfluence(CurrentInstruction) = Rate - 0
              /\ 0 \in 0 .. Len(op_stack)
            BY <2>1, <1>0
        <3> QED
            BY <1>0, <2>1, <3>1, <3>2, <3>4, <3>5, ReplacingTypes
    <2> QED
        BY <2>2, <2>3
<1>6. ASSUME AssertVector PROVE StepIsTyped
    <2>1. Executes("assert_vector") /\ OpStackSizeInfluence(CurrentInstruction) = -DigestLen
        BY <1>6, Influences DEF AssertVector, Executes
    <2>2. CASE Fails("VectorAssertionFailed")
        BY <2>2, FailureTypes
    <2>3. CASE Replace(DigestLen, <<>>) /\ Completes(NextAddress) /\ OnStackOnly
        <3>1. OpStackSizeInfluence(CurrentInstruction) = 0 - DigestLen
            BY <2>1, <1>0
        <3>2. OtherTypes'
            BY <2>3, OnStackOnlyTypes
        <3> QED
            BY <1>0, <1>9, <2>1, <2>3, <3>1, <3>2, ReplacingTypes
    <2> QED
        BY <1>6, <2>2, <2>3 DEF AssertVector
<1> QED
    BY <1>1, <1>2, <1>3, <1>4, <1>5, <1>6 DEF HashInstruction
------------------------------------------------------------------------------
(* Base field arithmetic. *)

LEMMA FieldInstructionTypes ==
    ASSUME VMTypeOK, FieldInstruction
    PROVE  StepIsTyped
<1> USE DEF Errors
<1>0. /\ 1 \in Nat /\ 1 \in 0 .. Len(op_stack) /\ 2 \in 0 .. Len(op_stack)
      /\ St(0) \in Field /\ St(0) \in Int /\ St(1) \in Field /\ St(1) \in Int
    <2>1. 1 \in 0 .. (NumRegisters - 1)
        BY DepthFacts, RegisterAssumption
    <2>2. St(1) \in Field
        BY <2>1, DepthFacts
    <2>3. St(1) \in Int
        BY <2>2, FieldFacts
    <2> QED
        BY <2>2, <2>3, DepthFacts
<1>8. ASSUME NEW op \in ShrinkByOne, Executes(op), NEW x \in Field, Replace(2, <<x>>),
             Completes(NextAddress), OnStackOnly
      PROVE  StepIsTyped
    <2>1. OpStackSizeInfluence(CurrentInstruction) = 1 - 2
        BY <1>8, Influences DEF Executes
    <2>2. <<x>> \in [1 .. 1 -> Field]
        OBVIOUS
    <2>3. OtherTypes'
        BY <1>8, OnStackOnlyTypes
    <2> QED
        BY <1>0, <1>8, <2>1, <2>2, <2>3, ReplacingTypes
<1>1. ASSUME Add PROVE StepIsTyped
    <2>1. Plus(St(0), St(1)) \in Field /\ "add" \in ShrinkByOne
        BY <1>0, SumFacts DEF ShrinkByOne
    <2> QED
        BY <1>1, <1>8, <2>1 DEF Add
<1>2. ASSUME AddI PROVE StepIsTyped
    <2> DEFINE t == [op_stack EXCEPT ![Len(op_stack)] = Plus(St(0), Arg)]
    <2>1. /\ Executes("addi") /\ OpStackSizeInfluence(CurrentInstruction) = 0
          /\ Arg \in Field
        BY <1>2, Influences, InstructionTypes DEF AddI, Executes, ElementOps
    <2>2. Plus(St(0), Arg) \in Field
        <3>1. Arg \in Int
            BY <2>1, FieldFacts
        <3> QED
            BY <1>0, <3>1, SumFacts
    <2>3. t \in [1 .. Len(op_stack) -> Field]
        <3>1. op_stack \in [1 .. Len(op_stack) -> Field]
            BY LenProperties DEF VMTypeOK
        <3> QED
            BY <2>2, <3>1
    <2>4. StackBecomes(t, 0, 0)
        BY <1>2 DEF AddI
    <2> HIDE DEF t
    <2>5. StackGrows(0)
        BY <2>3, <2>4, RearrangedTypes
    <2> QED
        BY <1>2, <2>1, <2>5, StackOnlyTypes DEF AddI
<1>3. ASSUME Mul PROVE StepIsTyped
    <2>1. Times(St(0), St(1)) \in Field /\ "mul" \in ShrinkByOne
        BY <1>0, SumFacts DEF ShrinkByOne
    <2> QED
        BY <1>3, <1>8, <2>1 DEF Mul
<1>4. ASSUME Invert PROVE StepIsTyped
    <2>1. Executes("invert") /\ OpStackSizeInfluence(CurrentInstruction) = 1 - 1
        BY <1>4, Influences DEF Invert, Executes
    <2>2. CASE Fails("InverseOfZero")
        BY <2>2, FailureTypes
    <2>3. CASE ~Fails("InverseOfZero")
        <3>1. /\ St(0) # 0 /\ Replace(1, <<InverseOf(St(0))>>)
              /\ Completes(NextAddress) /\ OnStackOnly
            BY <1>4, <2>3 DEF Invert
        <3>2. St(0) \in Field \ {0}
            BY <1>0, <3>1
        <3>3. InverseOf(St(0)) \in Field
            BY <3>2, ExternalRanges DEF ArithmeticRanges
        <3>4. <<InverseOf(St(0))>> \in [1 .. 1 -> Field]
            BY <3>3
        <3>5. OtherTypes'
            BY <3>1, OnStackOnlyTypes
        <3> QED
            BY <1>0, <2>1, <3>1, <3>4, <3>5, ReplacingTypes
    <2> QED
        BY <2>2, <2>3
<1>5. ASSUME Eq PROVE StepIsTyped
    <2>1. (IF St(0) = St(1) THEN 1 ELSE 0) \in Field /\ "eq" \in ShrinkByOne
        BY FieldFacts DEF ShrinkByOne
    <2> QED
        BY <1>5, <1>8, <2>1 DEF Eq
<1> QED
    BY <1>1, <1>2, <1>3, <1>4, <1>5 DEF FieldInstruction
------------------------------------------------------------------------------
(* Bitwise arithmetic. *)

\* What the u32 co-processor is handed has the table's type.
LEMMA U32CallTypes ==
    ASSUME VMTypeOK, NEW entries \in Seq(U32TableEntry), WithU32Calls(entries)
    PROVE  OtherTypes'
BY DEF WithU32Calls, VMTypeOK, OtherTypes, NoRamCalls, NoTip5Calls, io

\* A u32 instruction that replaces the top of the stack.
LEMMA U32ReplacingTypes ==
    ASSUME VMTypeOK, NEW op, Executes(op),
           NEW n \in 0 .. Len(op_stack), NEW m \in Nat, NEW tops \in [1 .. m -> Field],
           Replace(n, tops),
           OpStackSizeInfluence(CurrentInstruction) = m - n,
           NEW entries \in Seq(U32TableEntry), WithU32Calls(entries)
    PROVE  StepIsTyped
<1>1. OtherTypes'
    BY U32CallTypes
<1>2. Completes(NextAddress)
    BY DEF WithU32Calls
<1> QED
    BY <1>1, <1>2, ReplacingTypes

LEMMA EntryTypes ==
    ASSUME NEW instruction \in {"split", "lt", "and", "log_2_floor", "pow", "pop_count"},
           NEW left \in Field, NEW right \in Field
    PROVE  Entry(instruction, left, right) \in U32TableEntry
BY DEF Entry, U32TableEntry

LEMMA U32InstructionTypes ==
    ASSUME VMTypeOK, U32Instruction
    PROVE  StepIsTyped
<1> USE DEF Errors
<1>0. /\ 1 \in Nat /\ 2 \in Nat /\ 1 \in 0 .. Len(op_stack) /\ 2 \in 0 .. Len(op_stack)
      /\ St(0) \in Field /\ St(1) \in Field /\ 0 \in Field
      /\ \A x \in Word : x \in Field
      /\ \A x : IsU32(x) => x \in Word
    <2>1. 1 \in 0 .. (NumRegisters - 1) /\ 2 \in 0 .. Len(op_stack)
        BY DepthFacts, RegisterAssumption
    <2>2. St(0) \in Field /\ St(1) \in Field
        BY <2>1, DepthFacts
    <2>3. 0 \in Field /\ \A x \in Word : x \in Field
        BY FieldFacts
    <2>4. \A x : IsU32(x) => x \in Word
        BY DEF IsU32
    <2> QED
        BY <2>1, <2>2, <2>3, <2>4, DepthFacts
\* an instruction that takes two operands and calls the co-processor once
<1>9. ASSUME NEW op \in ShrinkByOne, Executes(op), NEW x \in Field, Replace(2, <<x>>),
             NEW entry \in U32TableEntry, WithU32Calls(<<entry>>)
      PROVE  StepIsTyped
    <2>1. OpStackSizeInfluence(CurrentInstruction) = 1 - 2
        BY <1>9, Influences DEF Executes
    <2>2. <<x>> \in [1 .. 1 -> Field] /\ <<entry>> \in Seq(U32TableEntry)
        OBVIOUS
    <2> QED
        BY <1>0, <1>9, <2>1, <2>2, U32ReplacingTypes
\* an instruction that takes one operand and calls the co-processor once
<1>10. ASSUME NEW op \in {"log_2_floor", "pop_count"}, Executes(op),
              NEW x \in Field, Replace(1, <<x>>),
              NEW entry \in U32TableEntry, WithU32Calls(<<entry>>)
       PROVE  StepIsTyped
    <2>1. OpStackSizeInfluence(CurrentInstruction) = 1 - 1
        BY <1>10, Influences DEF Executes
    <2>2. <<x>> \in [1 .. 1 -> Field] /\ <<entry>> \in Seq(U32TableEntry)
        OBVIOUS
    <2> QED
        BY <1>0, <1>10, <2>1, <2>2, U32ReplacingTypes
<1>1. ASSUME Split PROVE StepIsTyped
    <2> DEFINE lo == St(0) % WordSize
               hi == St(0) \div WordSize
    <2>1. Executes("split") /\ OpStackSizeInfluence(CurrentInstruction) = 2 - 1
        BY <1>1, Influences DEF Split, Executes
    <2>2. Replace(1, <<lo, hi>>) /\ WithU32Calls(<<Entry("split", lo, hi)>>)
        BY <1>1 DEF Split
    <2>3. lo \in Field /\ hi \in Field
        BY <1>0, DivisionFacts
    <2> HIDE DEF lo, hi
    <2>4. <<lo, hi>> \in [1 .. 2 -> Field]
        BY <2>3
    <2>5. <<Entry("split", lo, hi)>> \in Seq(U32TableEntry)
        BY <2>3, EntryTypes
    <2> QED
        BY <1>0, <2>1, <2>2, <2>4, <2>5, U32ReplacingTypes
<1>2. ASSUME Lt PROVE StepIsTyped
    <2>1. CASE Fails("FailedU32Conversion")
        BY <2>1, FailureTypes
    <2>2. CASE ~Fails("FailedU32Conversion")
        <3>1. (IF St(0) < St(1) THEN 1 ELSE 0) \in Field /\ "lt" \in ShrinkByOne
            BY FieldFacts DEF ShrinkByOne
        <3>2. Entry("lt", St(0), St(1)) \in U32TableEntry
            BY <1>0, EntryTypes
        <3> QED
            BY <1>2, <1>9, <2>2, <3>1, <3>2 DEF Lt
    <2> QED
        BY <2>1, <2>2
<1>3. ASSUME And PROVE StepIsTyped
    <2>1. CASE Fails("FailedU32Conversion")
        BY <2>1, FailureTypes
    <2>2. CASE ~Fails("FailedU32Conversion")
        <3>1. BitAnd(St(0), St(1)) \in Field /\ "and" \in ShrinkByOne
            BY <1>0, <1>3, <2>2, ExternalRanges DEF And, ArithmeticRanges, ShrinkByOne
        <3>2. Entry("and", St(0), St(1)) \in U32TableEntry
            BY <1>0, EntryTypes
        <3> QED
            BY <1>3, <1>9, <2>2, <3>1, <3>2 DEF And
    <2> QED
        BY <2>1, <2>2
<1>4. ASSUME Xor PROVE StepIsTyped
    <2>1. CASE Fails("FailedU32Conversion")
        BY <2>1, FailureTypes
    <2>2. CASE ~Fails("FailedU32Conversion")
        <3>1. BitXor(St(0), St(1)) \in Field /\ "xor" \in ShrinkByOne
            BY <1>0, <1>4, <2>2, ExternalRanges DEF Xor, ArithmeticRanges, ShrinkByOne
        <3>2. Entry("and", St(0), St(1)) \in U32TableEntry
            BY <1>0, EntryTypes
        <3> QED
            BY <1>4, <1>9, <2>2, <3>1, <3>2 DEF Xor
    <2> QED
        BY <2>1, <2>2
<1>5. ASSUME Log2Floor PROVE StepIsTyped
    <2>1. CASE Fails("FailedU32Conversion") \/ Fails("LogarithmOfZero")
        BY <2>1, FailureTypes
    <2>2. CASE ~(Fails("FailedU32Conversion") \/ Fails("LogarithmOfZero"))
        <3>1. Ilog2(St(0)) \in Field
            BY <1>0, <1>5, <2>2, ExternalRanges DEF Log2Floor, ArithmeticRanges
        <3>2. Entry("log_2_floor", St(0), 0) \in U32TableEntry
            BY <1>0, EntryTypes
        <3> QED
            BY <1>5, <1>10, <2>2, <3>1, <3>2 DEF Log2Floor
    <2> QED
        BY <2>1, <2>2
<1>6. ASSUME Pow PROVE StepIsTyped
    <2>1. CASE Fails("FailedU32Conversion")
        BY <2>1, FailureTypes
    <2>2. CASE ~Fails("FailedU32Conversion")
        <3>1. ModPow(St(0), St(1)) \in Field /\ "pow" \in ShrinkByOne
            BY <1>0, <1>6, <2>2, ExternalRanges DEF Pow, ArithmeticRanges, ShrinkByOne
        <3>2. Entry("pow", St(0), St(1)) \in U32TableEntry
            BY <1>0, EntryTypes
        <3> QED
            BY <1>6, <1>9, <2>2, <3>1, <3>2 DEF Pow
    <2> QED
        BY <2>1, <2>2
<1>7. ASSUME DivMod PROVE StepIsTyped
    <2> DEFINE quotient == St(0) \div St(1)
               remainder == St(0) % St(1)
               entries == <<Entry("lt", remainder, St(1)), Entry("split", St(0), quotient)>>
    <2>1. Executes("div_mod") /\ OpStackSizeInfluence(CurrentInstruction) = 2 - 2
        BY <1>7, Influences DEF DivMod, Executes
    <2>2. CASE Fails("FailedU32Conversion") \/ Fails("DivisionByZero")
        BY <2>2, FailureTypes
    <2>3. CASE ~(Fails("FailedU32Conversion") \/ Fails("DivisionByZero"))
        <3>1. /\ IsU32(St(1)) /\ St(1) # 0
              /\ Replace(2, <<remainder, quotient>>) /\ WithU32Calls(entries)
            BY <1>7, <2>3 DEF DivMod
        <3>2. remainder \in Field /\ quotient \in Field
            BY <1>0, <3>1, DivisionFacts
        <3> HIDE DEF remainder, quotient
        <3>3. <<remainder, quotient>> \in [1 .. 2 -> Field]
            BY <3>2
        <3>4. entries \in Seq(U32TableEntry)
            <4>1. /\ Entry("lt", remainder, St(1)) \in U32TableEntry
                  /\ Entry("split", St(0), quotient) \in U32TableEntry
                BY <1>0, <3>2, EntryTypes
            <4> QED
                BY <4>1
        <3> HIDE DEF entries
        <3> QED
            BY <1>0, <2>1, <3>1, <3>3, <3>4, U32ReplacingTypes
    <2> QED
        BY <2>2, <2>3
<1>8. ASSUME PopCount PROVE StepIsTyped
    <2>1. CASE Fails("FailedU32Conversion")
        BY <2>1, FailureTypes
    <2>2. CASE ~Fails("FailedU32Conversion")
        <3>1. CountOnes(St(0)) \in Field
            BY <1>0, <1>8, <2>2, ExternalRanges DEF PopCount, ArithmeticRanges
        <3>2. Entry("pop_count", St(0), 0) \in U32TableEntry
            BY <1>0, EntryTypes
        <3> QED
            BY <1>8, <1>10, <2>2, <3>1, <3>2 DEF PopCount
    <2> QED
        BY <2>1, <2>2
<1> QED
    BY <1>1, <1>2, <1>3, <1>4, <1>5, <1>6, <1>7, <1>8 DEF U32Instruction
------------------------------------------------------------------------------
(* Extension field arithmetic. *)

\* Three elements of the stack are an extension field element.
LEMMA ExtensionFacts ==
    ASSUME VMTypeOK
    PROVE  /\ ExtensionDegree \in Nat
           /\ ExtensionDegree \in 0 .. Len(op_stack)
           /\ 2 * ExtensionDegree \in 0 .. Len(op_stack)
           /\ 1 + ExtensionDegree \in 0 .. Len(op_stack)
           /\ 2 + ExtensionDegree \in 0 .. Len(op_stack)
           /\ XTop(0) \in XField /\ XTop(1) \in XField /\ XTop(2) \in XField
           /\ XTop(ExtensionDegree) \in XField
           /\ \A a, b \in XField : XPlus(a, b) \in XField /\ XMul(a, b) \in XField
           /\ \A b \in Field : Lift(b) \in XField
           /\ XField = [1 .. ExtensionDegree -> Field]
<1>1. /\ ExtensionDegree \in Nat /\ 0 \in Nat /\ 1 \in Nat /\ 2 \in Nat
      /\ ExtensionDegree \in 0 .. Len(op_stack)
      /\ 2 * ExtensionDegree \in 0 .. Len(op_stack)
      /\ 1 + ExtensionDegree \in 0 .. Len(op_stack)
      /\ 2 + ExtensionDegree \in 0 .. Len(op_stack)
      /\ 0 + ExtensionDegree <= Len(op_stack)
      /\ 1 + ExtensionDegree <= Len(op_stack)
      /\ 2 + ExtensionDegree <= Len(op_stack)
      /\ ExtensionDegree + ExtensionDegree <= Len(op_stack)
    BY DepthFacts
<1>2. XTop(0) \in XField
    BY <1>1, StackAccess DEF XTop, XField
<1>3. XTop(1) \in XField
    BY <1>1, StackAccess DEF XTop, XField
<1>4. XTop(2) \in XField
    BY <1>1, StackAccess DEF XTop, XField
<1>5. XTop(ExtensionDegree) \in XField
    BY <1>1, StackAccess DEF XTop, XField
<1>6. ASSUME NEW a \in XField, NEW b \in XField
      PROVE  XPlus(a, b) \in XField /\ XMul(a, b) \in XField
    <2>1. \A i \in 1 .. ExtensionDegree : Plus(a[i], b[i]) \in Field
        BY FieldFacts, SumFacts DEF XField
    <2> QED
        BY <2>1, ExternalRanges DEF XPlus, XField, ArithmeticRanges
<1>7. \A b \in Field : Lift(b) \in XField
    BY FieldFacts DEF Lift, XField
<1> QED
    BY <1>1, <1>2, <1>3, <1>4, <1>5, <1>6, <1>7 DEF XField

LEMMA ExtensionInstructionTypes ==
    ASSUME VMTypeOK, ExtensionInstruction
    PROVE  StepIsTyped
<1> USE DEF Errors
\* an instruction that leaves one extension element
<1>9. ASSUME NEW op, Executes(op), NEW n \in 0 .. Len(op_stack),
             NEW x \in XField, Replace(n, x),
             OpStackSizeInfluence(CurrentInstruction) = ExtensionDegree - n,
             Completes(NextAddress), OnStackOnly
      PROVE  StepIsTyped
    <2>1. x \in [1 .. ExtensionDegree -> Field] /\ ExtensionDegree \in Nat
        BY <1>9, ExtensionFacts
    <2>2. OtherTypes'
        BY <1>9, OnStackOnlyTypes
    <2> QED
        BY <1>9, <2>1, <2>2, ReplacingTypes
<1>1. ASSUME XxAdd PROVE StepIsTyped
    <2>1. /\ Executes("xx_add")
          /\ OpStackSizeInfluence(CurrentInstruction) = ExtensionDegree - 2 * ExtensionDegree
        BY <1>1, Influences, ExtensionFacts DEF XxAdd, Executes
    <2>2. XPlus(XTop(0), XTop(ExtensionDegree)) \in XField
        BY ExtensionFacts
    <2> QED
        BY <1>1, <1>9, <2>1, <2>2, ExtensionFacts DEF XxAdd
<1>2. ASSUME XxMul PROVE StepIsTyped
    <2>1. /\ Executes("xx_mul")
          /\ OpStackSizeInfluence(CurrentInstruction) = ExtensionDegree - 2 * ExtensionDegree
        BY <1>2, Influences, ExtensionFacts DEF XxMul, Executes
    <2>2. XMul(XTop(0), XTop(ExtensionDegree)) \in XField
        BY ExtensionFacts
    <2> QED
        BY <1>2, <1>9, <2>1, <2>2, ExtensionFacts DEF XxMul
<1>3. ASSUME XInvert PROVE StepIsTyped
    <2>1. /\ Executes("x_invert")
          /\ OpStackSizeInfluence(CurrentInstruction) = ExtensionDegree - ExtensionDegree
        BY <1>3, Influences, ExtensionFacts DEF XInvert, Executes
    <2>2. CASE Fails("InverseOfZero")
        BY <2>2, FailureTypes
    <2>3. CASE ~Fails("InverseOfZero")
        <3>1. /\ XTop(0) # XZero /\ Replace(ExtensionDegree, XInverse(XTop(0)))
              /\ Completes(NextAddress) /\ OnStackOnly
            BY <1>3, <2>3 DEF XInvert
        <3>2. XInverse(XTop(0)) \in XField
            BY <3>1, ExtensionFacts, ExternalRanges DEF ArithmeticRanges
        <3> QED
            BY <1>9, <2>1, <3>1, <3>2, ExtensionFacts
    <2> QED
        BY <2>2, <2>3
<1>4. ASSUME XbMul PROVE StepIsTyped
    <2>1. Executes("xb_mul") /\ OpStackSizeInfluence(CurrentInstruction) = -1
        BY <1>4, Influences DEF XbMul, Executes, ShrinkByOne
    <2>2. -1 = ExtensionDegree - (1 + ExtensionDegree)
        BY ExtensionFacts
    <2>3. Lift(St(0)) \in XField
        BY DepthFacts, ExtensionFacts
    <2>4. XMul(Lift(St(0)), XTop(1)) \in XField
        BY <2>3, ExtensionFacts
    <2> QED
        BY <1>4, <1>9, <2>1, <2>2, <2>4, ExtensionFacts DEF XbMul
<1> QED
    BY <1>1, <1>2, <1>3, <1>4 DEF ExtensionInstruction
------------------------------------------------------------------------------
(* Public input and output. *)

LEMMA IoInstructionTypes ==
    ASSUME VMTypeOK, IoInstruction
    PROVE  StepIsTyped
<1> USE DEF Errors
<1>1. ASSUME WriteIo PROVE StepIsTyped
    <2>1. /\ Executes("write_io") /\ Arg \in 1 .. MaxNumWords
          /\ OpStackSizeInfluence(CurrentInstruction) = -Arg
        BY <1>1, InstructionTypes, Influences DEF WriteIo, Executes, NumWordsOps, Arg
    <2>2. /\ Arg \in Nat /\ Arg \in 0 .. Len(op_stack)
          /\ OpStackSizeInfluence(CurrentInstruction) = 0 - Arg
        BY <2>1, DepthFacts
    <2>3. public_output' \in Seq(Field)
        <3>1. 0 \in Nat /\ 0 + Arg <= Len(op_stack)
            BY <2>2, DepthFacts
        <3>2. Tops(0, Arg) \in [1 .. Arg -> Field]
            BY <2>2, <3>1, StackAccess
        <3>3. Tops(0, Arg) \in Seq(Field)
            BY <2>2, <3>2, FunctionIsSequence
        <3>4. public_output \in Seq(Field)
            BY DEF VMTypeOK
        <3> QED
            BY <1>1, <3>3, <3>4, ConcatProperties DEF WriteIo
    <2>4. OtherTypes'
        BY <1>1, <2>3 DEF WriteIo, VMTypeOK, OtherTypes, NoCalls, NoRamCalls, NoTip5Calls,
               NoU32Calls
    <2>5. <<>> \in [1 .. 0 -> Field] /\ 0 \in Nat
        OBVIOUS
    <2> QED
        BY <1>1, <2>1, <2>2, <2>4, <2>5, ReplacingTypes DEF WriteIo
<1>2. ASSUME ReadIo PROVE StepIsTyped
    <2> DEFINE read == [k \in 1 .. Arg |-> public_input[Arg + 1 - k]]
    <2>1. /\ Executes("read_io") /\ Arg \in 1 .. MaxNumWords
          /\ OpStackSizeInfluence(CurrentInstruction) = Arg
        BY <1>2, InstructionTypes, Influences DEF ReadIo, Executes, NumWordsOps, Arg
    <2>2. CASE Fails("EmptyPublicInput")
        BY <2>2, FailureTypes
    <2>3. CASE ~Fails("EmptyPublicInput")
        <3>1. /\ Len(public_input) >= Arg /\ Replace(0, read)
              /\ public_input' = SubSeq(public_input, Arg + 1, Len(public_input))
              /\ Completes(NextAddress) /\ NoCalls
              /\ UNCHANGED <<public_output, secret_individual_tokens, secret_digests,
                             jump_stack, halting>>
            BY <1>2, <2>3 DEF ReadIo
        <3>2. /\ public_input \in Seq(Field) /\ Arg \in Nat /\ 0 \in 0 .. Len(op_stack)
              /\ OpStackSizeInfluence(CurrentInstruction) = Arg - 0
            BY <2>1, DepthFacts DEF VMTypeOK
        <3>3. read \in [1 .. Arg -> Field]
            BY <3>1, <3>2, ElementOfSeq
        <3>4. public_input' \in Seq(Field)
            <4>1. \A k \in (Arg + 1) .. Len(public_input) : public_input[k] \in Field
                BY <3>2, ElementOfSeq
            <4> QED
                BY <3>1, <3>2, <4>1, SubSeqProperties
        <3>5. OtherTypes'
            BY <3>1, <3>4 DEF VMTypeOK, OtherTypes, NoCalls, NoRamCalls, NoTip5Calls,
                   NoU32Calls
        <3> HIDE DEF read
        <3> QED
            BY <2>1, <3>1, <3>2, <3>3, <3>5, ReplacingTypes
    <2> QED
        BY <2>2, <2>3
<1> QED
    BY <1>1, <1>2 DEF IoInstruction
------------------------------------------------------------------------------
(* Many-in-one instructions. *)

\* What merkle_step and merkle_step_mem share.
LEMMA MerkleStepTypes ==
    ASSUME VMTypeOK, NEW op \in {"merkle_step", "merkle_step_mem"}, Executes(op),
           NEW sibling \in Digest, NEW pointer \in Field,
           MerkleStepTo(sibling, pointer),
           ram_calls' \in Seq(RamTableCall), secret_digests' \in Seq(Digest)
    PROVE  StepIsTyped
<1> DEFINE node_index == St(DigestLen)
           accumulator == Tops(0, DigestLen)
           rate == IF node_index % 2 = 0 THEN accumulator \o sibling
                                          ELSE sibling \o accumulator
           input == FixedLength(rate)
           digest == SubSeq(Tip5(input), 1, DigestLen)
           depth == Len(op_stack)
           t == [k \in 1 .. depth |->
                    IF k > depth - DigestLen THEN digest[depth + 1 - k]
                    ELSE IF k = depth - DigestLen THEN node_index \div 2
                    ELSE IF k = depth - DigestLen - 2 THEN pointer
                    ELSE op_stack[k]]
<1>1. /\ StackBecomes(t, DigestLen, DigestLen)
      /\ Permutes("hash", input)
      /\ u32_calls' = <<Entry("split", node_index, node_index \div 2)>>
      /\ Completes(NextAddress)
      /\ UNCHANGED <<ram, sponge, jump_stack, halting,
                     public_input, public_output, secret_individual_tokens>>
    BY DEF MerkleStepTo
<1>2. /\ DigestLen \in Nat /\ depth \in Nat /\ depth >= DigestLen + 3
      /\ 0 \in Nat /\ 0 + DigestLen <= depth /\ Rate = DigestLen + DigestLen
      /\ DigestLen \in 0 .. StateSize
    BY DepthFacts, SpongeFacts
<1>3. node_index \in Field /\ node_index \div 2 \in Field
    <2>1. DigestLen \in 0 .. (depth - 1)
        BY <1>2
    <2>2. node_index \in Field
        BY <2>1, StackAccess
    <2> QED
        BY <2>2, DivisionFacts
<1>4. accumulator \in Seq(Field) /\ Len(accumulator) = DigestLen
    <2>1. accumulator \in [1 .. DigestLen -> Field]
        BY <1>2, StackAccess
    <2> QED
        BY <1>2, <2>1, FunctionIsSequence
<1>5. sibling \in Seq(Field) /\ Len(sibling) = DigestLen
    BY <1>2, FunctionIsSequence DEF Digest
<1> HIDE DEF accumulator, node_index
<1>6. rate \in [1 .. Rate -> Field]
    <2>1. accumulator \o sibling \in Seq(Field) /\ Len(accumulator \o sibling) = Rate
        <3>1. /\ accumulator \o sibling \in Seq(Field)
              /\ Len(accumulator \o sibling) = Len(accumulator) + Len(sibling)
            BY <1>4, <1>5, ConcatProperties
        <3> QED
            BY <1>2, <1>4, <1>5, <3>1
    <2>2. sibling \o accumulator \in Seq(Field) /\ Len(sibling \o accumulator) = Rate
        <3>1. /\ sibling \o accumulator \in Seq(Field)
              /\ Len(sibling \o accumulator) = Len(sibling) + Len(accumulator)
            BY <1>4, <1>5, ConcatProperties
        <3> QED
            BY <1>2, <1>4, <1>5, <3>1
    <2>3. rate \in Seq(Field) /\ Len(rate) = Rate
        BY <2>1, <2>2
    <2> HIDE DEF rate
    <2> QED
        BY <2>3, LenProperties
<1> HIDE DEF rate
<1>7. input \in SpongeState
    BY <1>6, SpongeFacts
<1> HIDE DEF input
<1>8. digest \in [1 .. DigestLen -> Field]
    BY <1>2, <1>7, SpongeFacts
<1> HIDE DEF digest
<1>9. t \in [1 .. depth -> Field]
    <2>1. \A k \in 1 .. depth : op_stack[k] \in Field
        BY ElementOfSeq DEF VMTypeOK
    <2>2. \A k \in 1 .. depth : k > depth - DigestLen => digest[depth + 1 - k] \in Field
        BY <1>2, <1>8
    <2> HIDE DEF depth
    <2> QED
        BY <1>3, <2>1, <2>2
<1> HIDE DEF t
<1>10. StackGrows(0)
    BY <1>1, <1>2, <1>9, RearrangedTypes
<1>11. tip5_calls' \in Seq(Tip5Call)
    BY <1>1, <1>7, PermutesTypes
<1>12. u32_calls' \in Seq(U32TableEntry)
    <2>1. Entry("split", node_index, node_index \div 2) \in U32TableEntry
        BY <1>3, EntryTypes
    <2> QED
        BY <1>1, <2>1
<1>13. OtherTypes'
    BY <1>1, <1>11, <1>12 DEF VMTypeOK, OtherTypes
<1>14. OpStackSizeInfluence(CurrentInstruction) = 0 /\ NextAddress \in Nat
    BY Influences, InstructionTypes DEF Executes
<1> QED
    BY <1>1, <1>10, <1>13, <1>14, CompletionTypes

\* What the two dot steps share.
LEMMA DotStepTypes ==
    ASSUME VMTypeOK, NEW op \in {"xx_dot_step", "xb_dot_step"}, Executes(op),
           NEW n \in Nat, NEW pointers \in [1 .. n -> Field],
           NEW rhs_address \in Field, NEW lhs_address \in Field, NEW product \in XField,
           DotStep(pointers, rhs_address, lhs_address, product)
    PROVE  StepIsTyped
<1> DEFINE sum == XPlus(XTop(2), product)
           tops == <<rhs_address, lhs_address>> \o sum
<1>1. /\ ram_calls' = RamRead(pointers)
      /\ Replace(2 + ExtensionDegree, tops)
      /\ Completes(NextAddress)
      /\ NoTip5Calls /\ NoU32Calls
      /\ UNCHANGED <<io, ram, jump_stack, halting>>
    BY DEF DotStep
<1>2. sum \in Seq(Field) /\ Len(sum) = ExtensionDegree
    <2>1. sum \in [1 .. ExtensionDegree -> Field] /\ ExtensionDegree \in Nat
        BY ExtensionFacts
    <2> QED
        BY <2>1, FunctionIsSequence
<1> HIDE DEF sum
<1>3. /\ <<rhs_address, lhs_address>> \in Seq(Field)
      /\ Len(<<rhs_address, lhs_address>>) = 2
    OBVIOUS
<1>4. tops \in Seq(Field) /\ Len(tops) = 2 + ExtensionDegree
    BY <1>2, <1>3, ConcatProperties
<1> HIDE DEF tops
<1>5. tops \in [1 .. (2 + ExtensionDegree) -> Field]
    BY <1>4, LenProperties
<1>6. ram_calls' \in Seq(RamTableCall)
    BY <1>1, RamTypes
<1>7. OtherTypes'
    BY <1>1, <1>6 DEF VMTypeOK, OtherTypes, NoTip5Calls, NoU32Calls, io
<1>8. /\ 2 + ExtensionDegree \in Nat /\ 2 + ExtensionDegree \in 0 .. Len(op_stack)
      /\ (2 + ExtensionDegree) - (2 + ExtensionDegree) = 0
    BY ExtensionFacts
<1>9. OpStackSizeInfluence(CurrentInstruction) = 0
    BY Influences DEF Executes
<1> QED
    BY <1>1, <1>5, <1>7, <1>8, <1>9, ReplacingTypes

LEMMA ManyInOneInstructionTypes ==
    ASSUME VMTypeOK, ManyInOneInstruction
    PROVE  StepIsTyped
<1> USE DEF Errors
<1>0. /\ ExtensionDegree \in Nat /\ 1 \in 0 .. (NumRegisters - 1)
      /\ DigestLen \in Nat /\ DigestLen + 2 \in 0 .. (Len(op_stack) - 1)
      /\ DigestLen \in Int /\ ExtensionDegree \in Int /\ 1 \in Int
    BY DepthFacts, ExtensionFacts, RegisterAssumption
<1>1. ASSUME MerkleStep PROVE StepIsTyped
    <2>1. CASE Fails("FailedU32Conversion") \/ Fails("EmptySecretDigestInput")
        BY <2>1, FailureTypes
    <2>2. CASE ~(Fails("FailedU32Conversion") \/ Fails("EmptySecretDigestInput"))
        <3>1. /\ Executes("merkle_step") /\ secret_digests # <<>>
              /\ MerkleStepTo(Head(secret_digests), St(DigestLen + 2))
              /\ secret_digests' = Tail(secret_digests) /\ ram_calls' = <<>>
            BY <1>1, <2>2 DEF MerkleStep
        <3>2. Head(secret_digests) \in Digest /\ secret_digests' \in Seq(Digest)
            BY <3>1, HeadTailProperties DEF VMTypeOK
        <3>3. St(DigestLen + 2) \in Field /\ ram_calls' \in Seq(RamTableCall)
            BY <1>0, <3>1, StackAccess
        <3> QED
            BY <3>1, <3>2, <3>3, MerkleStepTypes
    <2> QED
        BY <2>1, <2>2
<1>2. ASSUME MerkleStepMem PROVE StepIsTyped
    <2> DEFINE pointer == St(DigestLen + 2)
               pointers == Addresses(pointer, 1, DigestLen)
    <2>1. CASE Fails("FailedU32Conversion")
        BY <2>1, FailureTypes
    <2>2. CASE ~Fails("FailedU32Conversion")
        <3>1. /\ Executes("merkle_step_mem")
              /\ MerkleStepTo(Contents(pointers), Plus(pointer, DigestLen))
              /\ ram_calls' = RamRead(pointers)
              /\ UNCHANGED secret_digests
            BY <1>2, <2>2 DEF MerkleStepMem
        <3>2. pointer \in Field /\ pointer \in Int
            BY <1>0, StackAccess, FieldFacts
        <3>3. pointers \in [1 .. DigestLen -> Field] /\ Plus(pointer, DigestLen) \in Field
            BY <1>0, <3>2, AddressTypes, SumFacts
        <3> HIDE DEF pointers
        <3>4. Contents(pointers) \in Digest /\ ram_calls' \in Seq(RamTableCall)
            BY <1>0, <3>1, <3>3, RamTypes DEF Digest
        <3>5. secret_digests' \in Seq(Digest)
            BY <3>1 DEF VMTypeOK
        <3> QED
            BY <3>1, <3>3, <3>4, <3>5, MerkleStepTypes
    <2> QED
        BY <2>1, <2>2
<1>3. St(0) \in Field /\ St(0) \in Int /\ St(1) \in Field /\ St(1) \in Int
    <2>1. St(1) \in Field
        BY <1>0, DepthFacts
    <2> QED
        BY <2>1, DepthFacts, FieldFacts
<1>4. /\ Plus(St(0), ExtensionDegree) \in Field /\ Plus(St(1), ExtensionDegree) \in Field
      /\ Plus(St(0), 1) \in Field
    BY <1>0, <1>3, SumFacts
<1>5. ASSUME XxDotStep PROVE StepIsTyped
    <2> DEFINE rhs == Addresses(St(0), 1, ExtensionDegree)
               lhs == Addresses(St(1), 1, ExtensionDegree)
               pointers == [k \in 1 .. 2 * ExtensionDegree |->
                               IF k % 2 = 1 THEN rhs[(k + 1) \div 2] ELSE lhs[k \div 2]]
    <2>1. /\ Executes("xx_dot_step")
          /\ DotStep(pointers, Plus(St(0), ExtensionDegree), Plus(St(1), ExtensionDegree),
                     XMul(Contents(rhs), Contents(lhs)))
        BY <1>5 DEF XxDotStep
    <2>2. rhs \in [1 .. ExtensionDegree -> Field] /\ lhs \in [1 .. ExtensionDegree -> Field]
        BY <1>0, <1>3, AddressTypes
    <2> HIDE DEF rhs, lhs
    <2>3. Contents(rhs) \in XField /\ Contents(lhs) \in XField
        BY <1>0, <2>2, RamTypes DEF XField
    <2>4. XMul(Contents(rhs), Contents(lhs)) \in XField
        BY <2>3, ExtensionFacts
    <2>5. pointers \in [1 .. 2 * ExtensionDegree -> Field]
        <3>1. ASSUME NEW k \in 1 .. 2 * ExtensionDegree
              PROVE  (IF k % 2 = 1 THEN rhs[(k + 1) \div 2] ELSE lhs[k \div 2]) \in Field
            <4>1. /\ k % 2 = 1 => (k + 1) \div 2 \in 1 .. ExtensionDegree
                  /\ k % 2 # 1 => k \div 2 \in 1 .. ExtensionDegree
                BY <1>0
            <4> QED
                BY <2>2, <4>1
        <3> QED
            BY <3>1
    <2>6. 2 * ExtensionDegree \in Nat
        BY <1>0
    <2> HIDE DEF pointers
    <2> QED
        BY <1>4, <2>1, <2>4, <2>5, <2>6, DotStepTypes
<1>6. ASSUME XbDotStep PROVE StepIsTyped
    <2> DEFINE lhs == Addresses(St(1), 1, ExtensionDegree)
               pointers == <<St(0)>> \o lhs
    <2>1. /\ Executes("xb_dot_step")
          /\ DotStep(pointers, Plus(St(0), 1), Plus(St(1), ExtensionDegree),
                     XMul(Lift(ram[St(0)]), Contents(lhs)))
        BY <1>6 DEF XbDotStep
    <2>2. lhs \in [1 .. ExtensionDegree -> Field]
        BY <1>0, <1>3, AddressTypes
    <2> HIDE DEF lhs
    <2>3. Contents(lhs) \in XField
        BY <1>0, <2>2, RamTypes DEF XField
    <2>4. Lift(ram[St(0)]) \in XField
        <3>1. ram[St(0)] \in Field
            BY <1>3 DEF VMTypeOK, Ram
        <3> QED
            BY <3>1, ExtensionFacts
    <2>5. XMul(Lift(ram[St(0)]), Contents(lhs)) \in XField
        BY <2>3, <2>4, ExtensionFacts
    <2>6. pointers \in [1 .. (1 + ExtensionDegree) -> Field]
        <3>1. lhs \in Seq(Field) /\ Len(lhs) = ExtensionDegree
            BY <1>0, <2>2, FunctionIsSequence
        <3>2. <<St(0)>> \in Seq(Field) /\ Len(<<St(0)>>) = 1
            BY <1>3
        <3>3. pointers \in Seq(Field) /\ Len(pointers) = 1 + ExtensionDegree
            BY <3>1, <3>2, ConcatProperties
        <3> HIDE DEF pointers
        <3> QED
            BY <3>3, LenProperties
    <2>7. 1 + ExtensionDegree \in Nat
        BY <1>0
    <2> HIDE DEF pointers
    <2> QED
        BY <1>4, <2>1, <2>5, <2>6, <2>7, DotStepTypes
<1> QED
    BY <1>1, <1>2, <1>5, <1>6 DEF ManyInOneInstruction
------------------------------------------------------------------------------
(* The type invariant and the declared influence. *)

LEMMA InitTypes == Init => VMTypeOK
<1> SUFFICES ASSUME Init PROVE VMTypeOK
    OBVIOUS
<1>1. /\ program \in Programs /\ public_input \in Seq(Field)
      /\ secret_individual_tokens \in Seq(Field) /\ secret_digests \in Seq(Digest)
      /\ ram \in Ram /\ ProgramHash(program) \in [1 .. DigestLen -> Field]
      /\ MaxCycles \in Nat
    BY InputAssumption DEF Init, Digest
<1>2. op_stack \in [1 .. NumRegisters -> Field] /\ NumRegisters \in Nat
    <2>1. \A i \in 1 .. NumRegisters : i <= DigestLen => DigestLen + 1 - i \in 1 .. DigestLen
        BY SizeAssumption, RegisterAssumption
    <2> QED
        BY <1>1, <2>1, FieldFacts, RegisterAssumption DEF Init
<1>3. op_stack \in Seq(Field) /\ Len(op_stack) >= NumRegisters
    BY <1>2, FunctionIsSequence
<1>4. /\ public_output \in Seq(Field)
      /\ jump_stack \in Seq([origin : Field, destination : Field])
      /\ underflow_io \in Seq(UnderflowIO) /\ ram_calls \in Seq(RamTableCall)
      /\ tip5_calls \in Seq(Tip5Call) /\ u32_calls \in Seq(U32TableEntry)
    BY DEF Init
<1>5. /\ cycle_count = 0 /\ instruction_pointer = 0
      /\ sponge = NoSponge /\ halting = FALSE /\ error = NoError
    BY DEF Init
<1>6. cycle_count \in 0 .. MaxCycles
    BY <1>1, <1>5
<1> QED
    BY <1>1, <1>3, <1>4, <1>5, <1>6 DEF VMTypeOK

LEMMA NextTypes == VMTypeOK /\ VMNext => StepIsTyped
<1> SUFFICES ASSUME VMTypeOK, VMNext PROVE StepIsTyped
    OBVIOUS
<1>1. CASE InstructionPointerOverflow
    BY <1>1, FailureTypes DEF InstructionPointerOverflow, Errors
<1>2. CASE TooShallow
    BY <1>2, FailureTypes DEF TooShallow, Errors
<1>3. CASE MachineHalted
    BY <1>3, FailureTypes DEF MachineHalted, Errors
<1> QED
    BY <1>1, <1>2, <1>3, StackInstructionTypes, ControlInstructionTypes,
       MemoryInstructionTypes, HashInstructionTypes, FieldInstructionTypes,
       U32InstructionTypes, ExtensionInstructionTypes, IoInstructionTypes,
       ManyInOneInstructionTypes
       DEF VMNext, Step

(***************************************************************************)
(* Every state the virtual machine reaches has the types its Rust          *)
(* declarations promise, and at least NumRegisters elements on its stack:  *)
(* to_processor_row never panics.                                          *)
(***************************************************************************)
THEOREM TypeCorrectness == VMSpec => []VMTypeOK
<1>1. VMTypeOK /\ UNCHANGED vmVars => VMTypeOK'
    BY DEF VMTypeOK, vmVars
<1>2. VMTypeOK /\ [VMNext]_vmVars => VMTypeOK'
    BY <1>1, NextTypes DEF StepIsTyped
<1> QED
    BY <1>2, InitTypes, PTL DEF VMSpec

(***************************************************************************)
(* Instruction::op_stack_size_influence tells the truth about every        *)
(* instruction: a step that completes changes the depth by what it says.   *)
(***************************************************************************)
THEOREM DeclaredInfluence == VMSpec => StepHasDeclaredInfluence
<1>1. VMTypeOK /\ [VMNext]_vmVars =>
          [cycle_count' = cycle_count + 1 =>
               Len(op_stack') = Len(op_stack) + OpStackSizeInfluence(CurrentInstruction)]_vmVars
    BY NextTypes DEF StepIsTyped
<1> QED
    BY <1>1, TypeCorrectness, PTL DEF VMSpec, StepHasDeclaredInfluence
------------------------------------------------------------------------------
(* Failures and control flow. *)

\* Only the control instructions jump; all others move on or fail.
LEMMA StepShape ==
    ASSUME VMNext
    PROVE  \/ \E err : Fails(err)
           \/ /\ InBounds(instruction_pointer) /\ Completes(NextAddress)
              /\ UNCHANGED jump_stack
           \/ ControlInstruction
<1> USE DEF Executes, OnStackOnly
<1>1. CASE StackInstruction
    BY <1>1 DEF StackInstruction, Pop, Push, Divine, Pick, Place, Dup, Swap
<1>2. CASE MemoryInstruction
    BY <1>2 DEF MemoryInstruction, ReadMem, WriteMem
<1>3. CASE HashInstruction
    BY <1>3 DEF HashInstruction, Hash, SpongeInit, SpongeAbsorb, SpongeAbsorbMem,
                SpongeSqueeze, AssertVector
<1>4. CASE FieldInstruction
    BY <1>4 DEF FieldInstruction, Add, AddI, Mul, Invert, Eq
<1>5. CASE U32Instruction
    BY <1>5 DEF U32Instruction, Split, Lt, And, Xor, Log2Floor, Pow, DivMod, PopCount,
                WithU32Calls
<1>6. CASE ExtensionInstruction
    BY <1>6 DEF ExtensionInstruction, XxAdd, XxMul, XInvert, XbMul
<1>7. CASE IoInstruction
    BY <1>7 DEF IoInstruction, WriteIo, ReadIo
<1>8. CASE ManyInOneInstruction
    BY <1>8 DEF ManyInOneInstruction, MerkleStep, MerkleStepMem, XxDotStep, XbDotStep,
                MerkleStepTo, DotStep
<1>9. CASE InstructionPointerOverflow \/ TooShallow \/ MachineHalted
    BY <1>9 DEF InstructionPointerOverflow, TooShallow, MachineHalted
<1> QED
    BY <1>1, <1>2, <1>3, <1>4, <1>5, <1>6, <1>7, <1>8, <1>9 DEF VMNext, Step

\* The one step that fails after it has changed something.
SkizFails ==
    /\ InBounds(instruction_pointer) /\ CurrentInstruction.op = "skiz"
    /\ St(0) = 0
    /\ op_stack' = Below(1)
    /\ UNCHANGED <<program, io, memory, cycle_count, instruction_pointer, halting>>

LEMMA ControlShape ==
    ASSUME ControlInstruction
    PROVE  (\E err : Fails(err)) \/ (\E target : Completes(target)) \/ SkizFails
<1>1. CASE Skiz
    BY <1>1 DEF Skiz, Executes, NoCalls, NoRamCalls, NoTip5Calls, SkizFails, memory
<1>2. CASE ~Skiz
    BY <1>2 DEF ControlInstruction, Nop, Call, Return, Recurse, RecurseOrReturn,
                AssertInstruction, Halt
<1> QED
    BY <1>1, <1>2

(***************************************************************************)
(* A failing step hands out the state it failed on; skiz at the end of the *)
(* program is the only exception, and it loses exactly the condition.      *)
(***************************************************************************)
THEOREM FailuresKeepTheState == VMSpec => FailureKeepsState
<1>1. VMNext =>
          (error' # error =>
              /\ UNCHANGED <<program, io, memory, cycle_count, instruction_pointer, halting>>
              /\ \/ op_stack' = op_stack
                 \/ /\ InBounds(instruction_pointer) /\ CurrentInstruction.op = "skiz"
                    /\ op_stack' = Below(1)
                    /\ St(0) = 0)
    <2> SUFFICES ASSUME VMNext, error' # error
                 PROVE  /\ UNCHANGED <<program, io, memory, cycle_count,
                                       instruction_pointer, halting>>
                        /\ \/ op_stack' = op_stack
                           \/ /\ InBounds(instruction_pointer)
                              /\ CurrentInstruction.op = "skiz"
                              /\ op_stack' = Below(1)
                              /\ St(0) = 0
        OBVIOUS
    <2>1. ~ \E target : Completes(target)
        BY DEF Completes
    <2>2. (\E err : Fails(err)) \/ SkizFails
        BY <2>1, StepShape, ControlShape
    <2>3. CASE \E err : Fails(err)
        BY <2>3 DEF Fails, vmState
    <2>4. CASE SkizFails
        BY <2>4 DEF SkizFails
    <2> QED
        BY <2>2, <2>3, <2>4
<1> QED
    BY <1>1, PTL DEF VMSpec, FailureKeepsState
\* Reduction does not change what is already a field element.
LEMMA ReducedIsUnchanged ==
    ASSUME NEW a \in Field
    PROVE  a % P = a
<1>1. P \in Nat \ {0} /\ a \in 0 .. (P - 1)
    BY FieldFacts DEF Field
<1> QED
    BY <1>1

\* Where the program's instructions start, the next one does as well.
LEMMA StartFacts ==
    ASSUME VMTypeOK, TargetsAreStarts(program), instruction_pointer \in Starts[program],
           InBounds(instruction_pointer)
    PROVE  /\ NextAddress \in Starts[program]
           /\ NextAddress < P
           /\ InBounds(NextAddress) => AddressBehindSkipped \in Starts[program]
           /\ CurrentInstruction.op = "call" => Arg \in Starts[program]
<1>1. program \in Programs
    BY DEF VMTypeOK
<1>2. \E starts \in SUBSET (0 .. Len(program)) : AreStarts(program, starts)
    BY DEF TargetsAreStarts
<1>3. Starts[program] \in SUBSET (0 .. Len(program)) /\ AreStarts(program, Starts[program])
    BY <1>1, <1>2 DEF Starts
<1>4. NextAddress \in Starts[program]
    BY <1>3 DEF AreStarts, NextAddress, CurrentInstruction, InstructionAt, InBounds
<1>5. NextAddress < P
    <2>1. Len(program) \in Nat /\ Len(program) < P
        BY <1>1, InputAssumption DEF IsProgramMemory
    <2>2. NextAddress \in 0 .. Len(program)
        BY <1>3, <1>4
    <2> QED
        BY <2>1, <2>2, FieldFacts
<1>6. InBounds(NextAddress) => AddressBehindSkipped \in Starts[program]
    BY <1>3, <1>4 DEF AreStarts, AddressBehindSkipped, InstructionAt, InBounds
<1>7. CurrentInstruction.op = "call" => Arg \in Starts[program]
    <2>1. instruction_pointer + 1 \in 1 .. Len(program)
        BY <1>1, InputAssumption DEF VMTypeOK, InBounds, IsProgramMemory
    <2> QED
        BY <2>1 DEF TargetsAreStarts, CurrentInstruction, InstructionAt, Arg
<1> QED
    BY <1>4, <1>5, <1>6, <1>7

(***************************************************************************)
(* In a program whose calls target instructions, the instruction pointer   *)
(* and every address on the jump stack are starts of instructions: nothing *)
(* executes an argument.  Besides the types, the invariant is inductive    *)
(* because it speaks of the jump stack, which `return` jumps to.           *)
(***************************************************************************)
THEOREM ControlFlowIntegrity == VMSpec => []AtInstructionStart
<1>1. Init => AtInstructionStart
    <2> SUFFICES ASSUME Init, TargetsAreStarts(program)
                 PROVE  /\ instruction_pointer \in Starts[program]
                        /\ \A k \in DOMAIN jump_stack :
                               /\ jump_stack[k].origin \in Starts[program]
                               /\ jump_stack[k].destination \in Starts[program]
        BY DEF AtInstructionStart
    <2>1. program \in Programs /\ instruction_pointer = 0 /\ jump_stack = <<>>
        BY DEF Init
    <2>2. AreStarts(program, Starts[program])
        BY <2>1 DEF TargetsAreStarts, Starts
    <2> QED
        BY <2>1, <2>2 DEF AreStarts
<1>2. VMTypeOK /\ AtInstructionStart /\ VMNext => AtInstructionStart'
    <2> SUFFICES ASSUME VMTypeOK, AtInstructionStart, VMNext, TargetsAreStarts(program)'
                 PROVE  /\ instruction_pointer' \in Starts[program']
                        /\ \A k \in DOMAIN jump_stack' :
                               /\ jump_stack'[k].origin \in Starts[program']
                               /\ jump_stack'[k].destination \in Starts[program']
        BY DEF AtInstructionStart
    <2>1. program' = program
        <3>1. (\E err : Fails(err)) \/ (\E target : Completes(target)) \/ SkizFails
            BY StepShape, ControlShape
        <3> QED
            BY <3>1 DEF Fails, vmState, Completes, SkizFails
    <2>2. /\ TargetsAreStarts(program)
          /\ instruction_pointer \in Starts[program]
          /\ \A k \in DOMAIN jump_stack :
                 /\ jump_stack[k].origin \in Starts[program]
                 /\ jump_stack[k].destination \in Starts[program]
        BY <2>1 DEF AtInstructionStart
    <2>3. CASE UNCHANGED <<instruction_pointer, jump_stack>>
        BY <2>1, <2>2, <2>3
    <2>4. ASSUME InBounds(instruction_pointer), UNCHANGED jump_stack,
                 NEW target \in Starts[program], Completes(target)
          PROVE  /\ instruction_pointer' \in Starts[program']
                 /\ \A k \in DOMAIN jump_stack' :
                        /\ jump_stack'[k].origin \in Starts[program']
                        /\ jump_stack'[k].destination \in Starts[program']
        BY <2>1, <2>2, <2>4 DEF Completes
    <2>5. CASE ControlInstruction
        <3>1. jump_stack \in Seq([origin : Field, destination : Field])
              /\ Len(jump_stack) \in Nat
            BY DEF VMTypeOK
        <3>2. jump_stack # <<>> => /\ JumpStackTop.origin \in Starts[program]
                                   /\ JumpStackTop.destination \in Starts[program]
            <4>1. jump_stack # <<>> => Len(jump_stack) \in DOMAIN jump_stack
                BY <3>1, EmptySeq, LenProperties
            <4> QED
                BY <2>2, <4>1 DEF JumpStackTop
        <3>3. ASSUME jump_stack # <<>>, PopJumpStack, Completes(JumpStackTop.origin)
              PROVE  /\ instruction_pointer' \in Starts[program']
                     /\ \A k \in DOMAIN jump_stack' :
                            /\ jump_stack'[k].origin \in Starts[program']
                            /\ jump_stack'[k].destination \in Starts[program']
            <4>1. \A k \in DOMAIN jump_stack' :
                      k \in DOMAIN jump_stack /\ jump_stack'[k] = jump_stack[k]
                <5>1. Len(jump_stack) \in Nat \ {0}
                    BY <3>1, <3>3, EmptySeq
                <5> QED
                    BY <3>1, <3>3, <5>1 DEF PopJumpStack
            <4> QED
                BY <2>1, <2>2, <3>2, <3>3, <4>1 DEF Completes
        <3>4. CASE Nop \/ Skiz \/ AssertInstruction \/ Halt
            BY <2>2, <2>3, <2>4, <3>4, StartFacts
               DEF Nop, Skiz, AssertInstruction, Halt, Executes, OnStackOnly, Fails,
                   vmState, memory
        <3>5. CASE Call
            <4>1. /\ InBounds(instruction_pointer) /\ CurrentInstruction.op = "call"
                  /\ Completes(Arg)
                  /\ jump_stack' = Append(jump_stack,
                         [origin |-> (instruction_pointer + 2) % P, destination |-> Arg])
                BY <3>5 DEF Call, Executes
            <4>2. Arg \in Starts[program]
                BY <2>2, <4>1, StartFacts
            <4>3. (instruction_pointer + 2) % P \in Starts[program]
                <5>1. NextAddress = instruction_pointer + 2
                    BY <4>1 DEF NextAddress, Size, HasArg, DoubleWordOps, ElementOps
                <5>2. NextAddress \in Starts[program] /\ NextAddress < P /\ NextAddress \in Nat
                    BY <2>2, <4>1, StartFacts, InstructionTypes
                <5>3. NextAddress \in Field
                    BY <5>2, FieldFacts DEF Field
                <5> QED
                    BY <5>1, <5>2, <5>3, ReducedIsUnchanged
            <4>4. \A k \in DOMAIN jump_stack' :
                      \/ k \in DOMAIN jump_stack /\ jump_stack'[k] = jump_stack[k]
                      \/ jump_stack'[k] =
                             [origin |-> (instruction_pointer + 2) % P, destination |-> Arg]
                BY <3>1, <4>1
            <4> QED
                BY <2>1, <2>2, <4>1, <4>2, <4>3, <4>4 DEF Completes
        <3>6. CASE Return \/ RecurseOrReturn \/ Recurse
            BY <2>3, <2>4, <3>2, <3>3, <3>6
               DEF Return, RecurseOrReturn, Recurse, Executes, OnStackOnly, Fails,
                   vmState, memory
        <3> QED
            BY <2>5, <3>4, <3>5, <3>6 DEF ControlInstruction
    <2>6. CASE \E err : Fails(err)
        BY <2>3, <2>6 DEF Fails, vmState, memory
    <2>7. CASE /\ InBounds(instruction_pointer) /\ Completes(NextAddress)
               /\ UNCHANGED jump_stack
        BY <2>2, <2>4, <2>7, StartFacts
    <2> QED
        BY <2>5, <2>6, <2>7, StepShape
<1>3. AtInstructionStart /\ UNCHANGED vmVars => AtInstructionStart'
    BY DEF AtInstructionStart, vmVars
<1> QED
    BY <1>1, <1>2, <1>3, TypeCorrectness, PTL DEF VMSpec
==============================================================================
