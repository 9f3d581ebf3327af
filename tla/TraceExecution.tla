---------------------------- MODULE TraceExecution ----------------------------
(***************************************************************************)
(* VM::trace_execution_of_state (triton-vm/src/vm.rs) and the algebraic    *)
(* execution trace it fills (triton-vm/src/aet.rs).  Every iteration of    *)
(* its loop records the state, steps the machine and records the           *)
(* co-processor calls the step returned.                                   *)
(*                                                                         *)
(* A table row of the trace is a record of the registers it holds.  The    *)
(* permutation behind a row of the hash tables is abstracted to the state  *)
(* it starts from.                                                         *)
(***************************************************************************)
EXTENDS VM, Bags

LOCAL S == INSTANCE SequencesExt

VARIABLES
    instruction_multiplicities, processor_trace, op_stack_underflow_trace,
    ram_trace, hash_trace, sponge_trace, u32_entries

aet == <<instruction_multiplicities, processor_trace, op_stack_underflow_trace,
         ram_trace, hash_trace, sponge_trace, u32_entries>>
traceVars == <<vmVars, aet>>

TraceInit ==
    /\ Init
    /\ instruction_multiplicities = [k \in 1 .. Len(program) |-> 0]
    /\ processor_trace = <<>>
    /\ op_stack_underflow_trace = <<>>
    /\ ram_trace = <<>>
    /\ hash_trace = <<>>
    /\ sponge_trace = <<>>
    /\ u32_entries = EmptyBag
------------------------------------------------------------------------------
(* The row of the processor table. *)

InverseOrZero(x) == IF x = 0 THEN 0 ELSE InverseOf(x)
SecretDigestOrDefault ==
    IF secret_digests = <<>> THEN [k \in 1 .. DigestLen |-> 0] ELSE Head(secret_digests)

NextInstructionOrArgument ==
    IF ~InBounds(instruction_pointer) THEN 0
    ELSE IF HasArg(CurrentInstruction) THEN Arg
    ELSE IF InBounds(NextAddress) THEN Opcode[InstructionAt(NextAddress).op]
    ELSE 1  \* the separator behind the program

\* `first` in the leading helper variables, zeros in the others.
Helpers(first) ==
    [k \in 1 .. NumHelpers |-> IF k <= Len(first) THEN first[k] ELSE 0]

DecomposeArg(a) == [k \in 1 .. 4 |-> (a \div 2^(k - 1)) % 2]
DecomposeOpcodeInPairs(o) ==  \* wrong: starts with two bits
    <<o % 4, (o \div 4) % 4, (o \div 16) % 4, o \div 64, 0>>
DecomposeOpcode(o) == <<o % 2, (o \div 2) % 4, (o \div 8) % 4, (o \div 32) % 4, o \div 128>>

DeriveHelperVariables ==
    LET op == IF InBounds(instruction_pointer) THEN CurrentInstruction.op ELSE "nop"
        node_index_bit == St(DigestLen) % 2
        hi == St(0) \div WordSize
    IN  Helpers(
        CASE op \in NumWordsOps \cup RegisterOps -> DecomposeArg(Arg)
          [] op = "skiz" ->
                 <<InverseOrZero(St(0))>> \o DecomposeOpcode(NextInstructionOrArgument)
          [] op = "recurse_or_return" ->
                 <<InverseOrZero(Minus(St(DigestLen + 1), St(DigestLen)))>>
          [] op = "sponge_absorb_mem" ->
                 Contents(Addresses(Plus(St(0), Rate - NumHelpers), 1, NumHelpers))
          [] op = "merkle_step" -> SecretDigestOrDefault \o <<node_index_bit>>
          [] op = "merkle_step_mem" ->
                 Contents(Addresses(St(DigestLen + 2), 1, DigestLen)) \o <<node_index_bit>>
          [] op = "split" ->
                 <<IF St(0) % WordSize = 0 THEN 0
                   ELSE InverseOrZero(Minus(hi, WordSize - 1))>>
          [] op = "eq" -> <<InverseOrZero(Minus(St(1), St(0)))>>
          [] op = "xx_dot_step" ->
                 Contents(Addresses(St(0), 1, ExtensionDegree))
                     \o Contents(Addresses(St(1), 1, ExtensionDegree))
          [] op = "xb_dot_step" ->
                 <<ram[St(0)]>> \o Contents(Addresses(St(1), 1, ExtensionDegree))
          [] OTHER -> <<>>)

\* VMState::to_processor_row.  A row that is recorded has an address of the program,
\* which fits the code's u32.
ProcessorRow ==
    [clk |-> cycle_count % P,
     ip |-> instruction_pointer % P,
     ci |-> Opcode[IF InBounds(instruction_pointer) THEN CurrentInstruction.op ELSE "nop"],
     nia |-> NextInstructionOrArgument,
     jsp |-> Len(jump_stack),
     jso |-> IF jump_stack = <<>> THEN 0 ELSE JumpStackTop.origin,
     jsd |-> IF jump_stack = <<>> THEN 0 ELSE JumpStackTop.destination,
     st |-> Tops(0, NumRegisters),
     op_stack_pointer |-> Len(op_stack),
     hv |-> DeriveHelperVariables]
------------------------------------------------------------------------------
(* The entries of the op stack table. *)

IsDual(a, b) == a.kind # b.kind /\ a.payload = b.payload
DualPairs(s) == {k \in 1 .. (Len(s) - 1) : IsDual(s[k], s[k + 1])}
FirstDualPair(s) ==
    CHOOSE k \in DualPairs(s) : \A j \in DualPairs(s) : k <= j

\* UnderflowIO::canonicalize_sequence.
Canonicalize[s \in Seq(UnderflowIO)] ==
    IF DualPairs(s) = {} THEN s
    ELSE LET k == FirstDualPair(s)
         IN  Canonicalize[SubSeq(s, 1, k - 1) \o SubSeq(s, k + 2, Len(s))]

IsUniform(s) == \A k \in DOMAIN s : s[k].kind = s[1].kind

(***************************************************************************)
(* OpStackTableEntry::from_underflow_io_sequence.  It starts from the      *)
(* pointer the sequence started from.  A read is recorded at the pointer   *)
(* it leads to, a write at the pointer it starts from.                     *)
(***************************************************************************)
FromUnderflowIoSequence(clk, pointer_after, sequence) ==
    LET s == Canonicalize[sequence]
        is_writing == \A k \in DOMAIN s : s[k].kind = "Write"
        pointer == IF is_writing THEN pointer_after - Len(s) ELSE pointer_after + Len(s)
    IN  [k \in DOMAIN s |->
            [clk |-> clk,
             shrink_stack |-> IF s[k].kind = "Read" THEN 1 ELSE 0,
             stack_pointer |-> IF s[k].kind = "Read" THEN pointer - k ELSE pointer + k - 1,
             first_underflow_element |-> s[k].payload]]
------------------------------------------------------------------------------
(* One iteration of the loop. *)

RecordState ==
    IF InBounds(instruction_pointer)
    THEN /\ instruction_multiplicities' =
                [instruction_multiplicities EXCEPT ![instruction_pointer + 1] = @ + 1]
         /\ processor_trace' = Append(processor_trace, ProcessorRow)
    ELSE UNCHANGED <<instruction_multiplicities, processor_trace>>

RecordCoProcessorCalls ==
    /\ op_stack_underflow_trace' = op_stack_underflow_trace
           \o FromUnderflowIoSequence(cycle_count, Len(op_stack'), underflow_io')
    /\ ram_trace' = ram_trace \o ram_calls'
    /\ hash_trace' = hash_trace \o SelectSeq(tip5_calls', LAMBDA c : c.ci = "hash")
    /\ sponge_trace' = sponge_trace \o SelectSeq(tip5_calls', LAMBDA c : c.ci # "hash")
    /\ u32_entries' = u32_entries (+) S!ToBag(u32_calls')

TraceNext == Step /\ RecordState /\ RecordCoProcessorCalls

TraceSpec == TraceInit /\ [][TraceNext]_traceVars
==============================================================================
