---------------------------------- MODULE VM ---------------------------------
(***************************************************************************)
(* The virtual machine of triton-vm/src/vm.rs: VMState, its constructor    *)
(* and VMState::step, one action per instruction and one per way a step    *)
(* fails before dispatching.                                               *)
(*                                                                         *)
(* A step that succeeds returns its co-processor calls.  They are kept in  *)
(* four variables, one per co-processor, in the order the step made them:  *)
(* underflow_io (what the op stack recorded), ram_calls, tip5_calls and    *)
(* u32_calls.  A step that fails returns no calls and sets `error`, and    *)
(* the state is the one VMError carries.                                   *)
(***************************************************************************)
EXTENDS Isa

CONSTANTS
    Programs,       \* program memories, see IsProgramMemory
    PublicInputs,   \* sequences of field elements
    SecretTokens,   \* sequences of field elements
    SecretDigests,  \* sequences of digests
    InitialRams,    \* functions from Field to Field
    MaxCycles       \* bound on cycle_count, a u32 in the code

VARIABLES
    program, public_input, public_output, secret_individual_tokens,
    secret_digests, ram, op_stack, jump_stack, cycle_count,
    instruction_pointer, sponge, halting,
    underflow_io, ram_calls, tip5_calls, u32_calls,
    error

io == <<public_input, public_output, secret_individual_tokens, secret_digests>>
memory == <<ram, jump_stack, sponge>>
calls == <<underflow_io, ram_calls, tip5_calls, u32_calls>>
vmState == <<program, io, memory, op_stack, cycle_count, instruction_pointer, halting>>
vmVars == <<program, public_input, public_output, secret_individual_tokens,
            secret_digests, ram, op_stack, jump_stack, cycle_count,
            instruction_pointer, sponge, halting,
            underflow_io, ram_calls, tip5_calls, u32_calls, error>>

Ram == [Field -> Field]
NoSponge == <<>>
NoError == "none"
Errors ==
    {"MachineHalted", "InstructionPointerOverflow", "TooShallow", "EmptySecretInput",
     "EmptyPublicInput", "EmptySecretDigestInput", "JumpStackIsEmpty",
     "AssertionFailed", "VectorAssertionFailed", "SpongeNotInitialized",
     "InverseOfZero", "LogarithmOfZero", "DivisionByZero", "FailedU32Conversion"}

UnderflowIO == [kind : {"Read", "Write"}, payload : Field]
RamTableCall ==
    [clk : Nat, ram_pointer : Field, ram_value : Field, is_write : BOOLEAN]
Tip5Call ==
    [ci : {"hash", "sponge_init", "sponge_absorb", "sponge_squeeze"},
     state : SpongeState]
U32TableEntry ==
    [instruction : {"split", "lt", "and", "log_2_floor", "pow", "pop_count"},
     left : Field, right : Field]

(***************************************************************************)
(* What parser and Program::decode guarantee of a program memory: a        *)
(* double-word instruction is followed by a copy of itself.  Call targets  *)
(* are arbitrary.                                                          *)
(***************************************************************************)
IsProgramMemory(p) ==
    /\ p \in Seq(Instruction) /\ Len(p) < P
    /\ \A k \in 1 .. Len(p) : HasArg(p[k]) =>
           \/ k < Len(p) /\ p[k + 1] = p[k]
           \/ k > 1 /\ p[k - 1] = p[k]

ASSUME InputAssumption ==
    /\ \A p \in Programs : IsProgramMemory(p) /\ ProgramHash(p) \in Digest
    /\ \A s \in PublicInputs \cup SecretTokens : s \in Seq(Field)
    /\ \A s \in SecretDigests : s \in Seq(Digest)
    /\ \A r \in InitialRams : r \in Ram
    /\ MaxCycles \in Nat

Init ==
    /\ program \in Programs
    /\ public_input \in PublicInputs
    /\ public_output = <<>>
    /\ secret_individual_tokens \in SecretTokens
    /\ secret_digests \in SecretDigests
    /\ ram \in InitialRams
    \* the bottom-most DigestLen elements are the program's digest, reversed
    /\ op_stack = [i \in 1 .. NumRegisters |->
                      IF i <= DigestLen
                      THEN ProgramHash(program)[DigestLen + 1 - i] ELSE 0]
    /\ jump_stack = <<>>
    /\ cycle_count = 0
    /\ instruction_pointer = 0
    /\ sponge = NoSponge
    /\ halting = FALSE
    /\ underflow_io = <<>> /\ ram_calls = <<>> /\ tip5_calls = <<>> /\ u32_calls = <<>>
    /\ error = NoError
------------------------------------------------------------------------------
(* Reading the state. *)

InBounds(ip) == ip < Len(program)
InstructionAt(ip) == program[ip + 1]
CurrentInstruction == InstructionAt(instruction_pointer)
Arg == CurrentInstruction.arg
NextAddress == instruction_pointer + Size(CurrentInstruction)

St(i) == op_stack[Len(op_stack) - i]
Tops(i, n) == [k \in 1 .. n |-> St(i + k - 1)]
Below(n) == SubSeq(op_stack, 1, Len(op_stack) - n)
IsU32(x) == x \in Word
AddressBehindSkippedWord == NextAddress + 1  \* wrong: skips one word
AddressBehindSkipped == NextAddress + Size(InstructionAt(NextAddress))
TooShallowByTwo(delta) == Len(op_stack) + delta < NumRegisters - 1  \* wrong: off by one
WouldBeTooShallow(delta) == Len(op_stack) + delta < NumRegisters

(***************************************************************************)
(* The element op_stack.first_underflow_element() returns when the stack   *)
(* `s` is cut to its lowest `len` elements.                                *)
(***************************************************************************)
FirstUnderflowElement(s, len) ==
    IF len > NumRegisters THEN s[len - NumRegisters] ELSE 0

(***************************************************************************)
(* Popping `pops` elements off `s` and pushing until `t` is reached, which *)
(* takes `pushes` pushes: a pop records before it shrinks the stack, a     *)
(* push after it has grown it.                                             *)
(***************************************************************************)
RecordedIOBeforePush(s, t, pops, pushes) ==  \* wrong: a push records before it grows
       [k \in 1 .. pops |->
           [kind |-> "Read", payload |-> FirstUnderflowElement(s, Len(s) - k + 1)]]
    \o [k \in 1 .. pushes |->
           [kind |-> "Write",
            payload |-> FirstUnderflowElement(t, Len(t) - pushes + k - 1)]]

RecordedIO(s, t, pops, pushes) ==
       [k \in 1 .. pops |->
           [kind |-> "Read", payload |-> FirstUnderflowElement(s, Len(s) - k + 1)]]
    \o [k \in 1 .. pushes |->
           [kind |-> "Write",
            payload |-> FirstUnderflowElement(t, Len(t) - pushes + k)]]
------------------------------------------------------------------------------
(* Changing the state. *)

Executes(op) ==
    /\ error = NoError
    /\ ~halting
    /\ cycle_count < MaxCycles
    /\ InBounds(instruction_pointer)
    /\ CurrentInstruction.op = op
    /\ ~WouldBeTooShallow(OpStackSizeInfluence(CurrentInstruction))

Completes(target) ==
    /\ instruction_pointer' = target
    /\ cycle_count' = cycle_count + 1
    /\ UNCHANGED <<program, error>>

FailsInNextCycle(err) ==  \* wrong: the cycle counts
    /\ error' = err
    /\ underflow_io' = <<>> /\ ram_calls' = <<>> /\ tip5_calls' = <<>> /\ u32_calls' = <<>>
    /\ cycle_count' = cycle_count + 1
    /\ UNCHANGED <<program, io, memory, op_stack, instruction_pointer, halting>>

Fails(err) ==
    /\ error' = err
    /\ underflow_io' = <<>> /\ ram_calls' = <<>> /\ tip5_calls' = <<>> /\ u32_calls' = <<>>
    /\ UNCHANGED vmState

StackBecomes(t, pops, pushes) ==
    /\ op_stack' = t
    /\ underflow_io' = RecordedIO(op_stack, t, pops, pushes)

\* Pop n elements, then push those of `tops`, whose first one ends up on top.
Replace(n, tops) ==
    StackBecomes(Below(n) \o [k \in 1 .. Len(tops) |-> tops[Len(tops) + 1 - k]],
                 n, Len(tops))

StackUnchanged == StackBecomes(op_stack, 0, 0)

NoRamCalls == ram_calls' = <<>> /\ UNCHANGED ram
NoTip5Calls == tip5_calls' = <<>> /\ UNCHANGED sponge
NoU32Calls == u32_calls' = <<>>
NoCalls == NoRamCalls /\ NoTip5Calls /\ NoU32Calls

\* An instruction that touches nothing but the op stack.
OnStackOnly ==
    /\ NoCalls
    /\ UNCHANGED <<io, jump_stack, halting>>

RamRead(pointers) ==
    [k \in DOMAIN pointers |->
        [clk |-> cycle_count, ram_pointer |-> pointers[k],
         ram_value |-> ram[pointers[k]], is_write |-> FALSE]]

\* The addresses p, p + step, p + 2 step, ... of n accesses.
Addresses(p, step, n) == [k \in 1 .. n |-> (p + step * (k - 1)) % P]
Contents(pointers) == [k \in DOMAIN pointers |-> ram[pointers[k]]]

\* The RAM after writing `values` to the distinct `pointers`.
WrittenFirst(pointers, values) == [ram EXCEPT ![pointers[1]] = values[1]]  \* wrong
Written(pointers, values) ==
    [a \in Field |-> IF \E k \in DOMAIN pointers : pointers[k] = a
                     THEN values[CHOOSE k \in DOMAIN pointers : pointers[k] = a]
                     ELSE ram[a]]
------------------------------------------------------------------------------
(* Op stack manipulation. *)

Pop ==
    /\ Executes("pop")
    /\ Replace(Arg, <<>>)
    /\ Completes(NextAddress)
    /\ OnStackOnly

Push ==
    /\ Executes("push")
    /\ Replace(0, <<Arg>>)
    /\ Completes(NextAddress)
    /\ OnStackOnly

Divine ==
    /\ Executes("divine")
    /\ \/ /\ Len(secret_individual_tokens) < Arg
          /\ Fails("EmptySecretInput")
       \/ /\ Len(secret_individual_tokens) >= Arg
          /\ Replace(0, [k \in 1 .. Arg |-> secret_individual_tokens[Arg + 1 - k]])
          /\ secret_individual_tokens' =
                 SubSeq(secret_individual_tokens, Arg + 1, Len(secret_individual_tokens))
          /\ Completes(NextAddress)
          /\ NoCalls
          /\ UNCHANGED <<public_input, public_output, secret_digests, jump_stack, halting>>

Pick ==
    /\ Executes("pick")
    /\ LET depth == Len(op_stack)
           at == depth - Arg
       IN  StackBecomes([k \in 1 .. depth |->
               IF k < at THEN op_stack[k]
               ELSE IF k < depth THEN op_stack[k + 1] ELSE op_stack[at]], 1, 1)
    /\ Completes(NextAddress)
    /\ OnStackOnly

Place ==
    /\ Executes("place")
    /\ LET depth == Len(op_stack)
           at == depth - Arg
       IN  StackBecomes([k \in 1 .. depth |->
               IF k < at THEN op_stack[k]
               ELSE IF k = at THEN op_stack[depth] ELSE op_stack[k - 1]], 1, 1)
    /\ Completes(NextAddress)
    /\ OnStackOnly

Dup ==
    /\ Executes("dup")
    /\ Replace(0, <<St(Arg)>>)
    /\ Completes(NextAddress)
    /\ OnStackOnly

Swap ==
    /\ Executes("swap")
    /\ StackBecomes([op_stack EXCEPT ![Len(op_stack)] = St(Arg),
                                     ![Len(op_stack) - Arg] = St(0)], 0, 0)
    /\ Completes(NextAddress)
    /\ OnStackOnly
------------------------------------------------------------------------------
(* Control flow. *)

Nop ==
    /\ Executes("nop")
    /\ StackUnchanged
    /\ Completes(NextAddress)
    /\ OnStackOnly

(***************************************************************************)
(* skiz pops the condition before it looks up the size of the instruction  *)
(* to skip.  At the end of the program that look-up fails, and the state   *)
(* in the error has already lost the top of the stack.                     *)
(***************************************************************************)
Skiz ==
    /\ Executes("skiz")
    /\ \/ /\ St(0) # 0
          /\ Replace(1, <<>>)
          /\ Completes(NextAddress)
          /\ OnStackOnly
       \/ /\ St(0) = 0
          /\ InBounds(NextAddress)
          /\ Replace(1, <<>>)
          /\ Completes(AddressBehindSkipped)
          /\ OnStackOnly
       \/ /\ St(0) = 0
          /\ ~InBounds(NextAddress)
          /\ error' = "InstructionPointerOverflow"
          /\ op_stack' = Below(1)
          /\ underflow_io' = <<>>
          /\ NoCalls
          /\ UNCHANGED <<program, io, jump_stack, cycle_count,
                         instruction_pointer, halting>>

Call ==
    /\ Executes("call")
    /\ jump_stack' = Append(jump_stack,
           [origin |-> (instruction_pointer + 2) % P, destination |-> Arg])
    /\ StackUnchanged
    /\ Completes(Arg)
    /\ NoCalls
    /\ UNCHANGED <<io, halting>>

JumpStackTop == jump_stack[Len(jump_stack)]
PopNothing == UNCHANGED jump_stack  \* wrong
PopJumpStack == jump_stack' = SubSeq(jump_stack, 1, Len(jump_stack) - 1)

Return ==
    /\ Executes("return")
    /\ \/ /\ jump_stack = <<>>
          /\ Fails("JumpStackIsEmpty")
       \/ /\ jump_stack # <<>>
          /\ PopJumpStack
          /\ StackUnchanged
          /\ Completes(JumpStackTop.origin)
          /\ NoCalls
          /\ UNCHANGED <<io, halting>>

Recurse ==
    /\ Executes("recurse")
    /\ \/ /\ jump_stack = <<>>
          /\ Fails("JumpStackIsEmpty")
       \/ /\ jump_stack # <<>>
          /\ StackUnchanged
          /\ Completes(JumpStackTop.destination)
          /\ OnStackOnly

RecurseOrReturn ==
    /\ Executes("recurse_or_return")
    /\ \/ /\ jump_stack = <<>>
          /\ Fails("JumpStackIsEmpty")
       \/ /\ jump_stack # <<>>
          /\ St(DigestLen) = St(DigestLen + 1)
          /\ PopJumpStack
          /\ StackUnchanged
          /\ Completes(JumpStackTop.origin)
          /\ NoCalls
          /\ UNCHANGED <<io, halting>>
       \/ /\ jump_stack # <<>>
          /\ St(DigestLen) # St(DigestLen + 1)
          /\ StackUnchanged
          /\ Completes(JumpStackTop.destination)
          /\ OnStackOnly

AssertInstruction ==
    /\ Executes("assert")
    /\ \/ /\ St(0) # 1
          /\ Fails("AssertionFailed")
       \/ /\ St(0) = 1
          /\ Replace(1, <<>>)
          /\ Completes(NextAddress)
          /\ OnStackOnly

Halt ==
    /\ Executes("halt")
    /\ halting' = TRUE
    /\ StackUnchanged
    /\ Completes(NextAddress)
    /\ NoCalls
    /\ UNCHANGED <<io, jump_stack>>
------------------------------------------------------------------------------
(* Memory access. *)

ReadMem ==
    /\ Executes("read_mem")
    /\ LET pointers == Addresses(St(0), -1, Arg)
       IN  /\ ram_calls' = RamRead(pointers)
           \* the last word read lies directly below the decremented pointer
           /\ Replace(1, <<(St(0) - Arg) % P>> \o
                  [k \in 1 .. Arg |-> ram[pointers[Arg + 1 - k]]])
    /\ Completes(NextAddress)
    /\ NoTip5Calls /\ NoU32Calls
    /\ UNCHANGED <<io, ram, jump_stack, halting>>

WriteMem ==
    /\ Executes("write_mem")
    /\ LET pointers == Addresses(St(0), 1, Arg)
           values == Tops(1, Arg)
       IN  /\ ram_calls' = [k \in 1 .. Arg |->
                  [clk |-> cycle_count, ram_pointer |-> pointers[k],
                   ram_value |-> values[k], is_write |-> TRUE]]
           /\ ram' = Written(pointers, values)
    /\ Replace(Arg + 1, <<Plus(St(0), Arg)>>)
    /\ Completes(NextAddress)
    /\ NoTip5Calls /\ NoU32Calls
    /\ UNCHANGED <<io, jump_stack, halting>>
------------------------------------------------------------------------------
(* Hashing. *)

\* The permutation of `state` is handed to the hash co-processor as call `ci`.
Permutes(ci, state) == tip5_calls' = <<[ci |-> ci, state |-> state]>>

Overwrite(state, rate) ==
    [i \in 1 .. StateSize |-> IF i <= Rate THEN rate[i] ELSE state[i]]

Hash ==
    /\ Executes("hash")
    /\ LET input == FixedLength(Tops(0, Rate))
       IN  /\ Permutes("hash", input)
           /\ Replace(Rate, SubSeq(Tip5(input), 1, DigestLen))
    /\ Completes(NextAddress)
    /\ NoRamCalls /\ NoU32Calls
    /\ UNCHANGED <<io, jump_stack, sponge, halting>>

SpongeInit ==
    /\ Executes("sponge_init")
    /\ sponge' = SpongeInitState
    /\ Permutes("sponge_init", SpongeInitState)
    /\ StackUnchanged
    /\ Completes(NextAddress)
    /\ NoRamCalls /\ NoU32Calls
    /\ UNCHANGED <<io, jump_stack, halting>>

SpongeAbsorb ==
    /\ Executes("sponge_absorb")
    /\ \/ /\ sponge = NoSponge
          /\ Fails("SpongeNotInitialized")
       \/ /\ sponge # NoSponge
          /\ LET absorbed == Overwrite(sponge, Tops(0, Rate))
             IN  /\ Permutes("sponge_absorb", absorbed)
                 /\ sponge' = Tip5(absorbed)
          /\ Replace(Rate, <<>>)
          /\ Completes(NextAddress)
          /\ NoRamCalls /\ NoU32Calls
          /\ UNCHANGED <<io, jump_stack, halting>>

(***************************************************************************)
(* The pointer is popped and pushed back advanced by Rate; the elements    *)
(* the helper variables have no room for overwrite the registers below it. *)
(***************************************************************************)
SpongeAbsorbMem ==
    /\ Executes("sponge_absorb_mem")
    /\ \/ /\ sponge = NoSponge
          /\ Fails("SpongeNotInitialized")
       \/ /\ sponge # NoSponge
          /\ LET pointers == Addresses(St(0), 1, Rate)
                 elements == Contents(pointers)
                 absorbed == Overwrite(sponge, elements)
                 depth == Len(op_stack)
             IN  /\ ram_calls' = RamRead(pointers)
                 /\ Permutes("sponge_absorb", absorbed)
                 /\ sponge' = Tip5(absorbed)
                 /\ StackBecomes([k \in 1 .. depth |->
                        IF k = depth THEN Plus(St(0), Rate)
                        ELSE IF depth - k <= Rate - NumHelpers THEN elements[depth - k]
                        ELSE op_stack[k]], 1, 1)
          /\ Completes(NextAddress)
          /\ NoU32Calls
          /\ UNCHANGED <<io, ram, jump_stack, halting>>

SpongeSqueeze ==
    /\ Executes("sponge_squeeze")
    /\ \/ /\ sponge = NoSponge
          /\ Fails("SpongeNotInitialized")
       \/ /\ sponge # NoSponge
          /\ Replace(0, SubSeq(sponge, 1, Rate))
          /\ Permutes("sponge_squeeze", sponge)
          /\ sponge' = Tip5(sponge)
          /\ Completes(NextAddress)
          /\ NoRamCalls /\ NoU32Calls
          /\ UNCHANGED <<io, jump_stack, halting>>

AssertVector ==
    /\ Executes("assert_vector")
    /\ \/ /\ Tops(0, DigestLen) # Tops(DigestLen, DigestLen)
          /\ Fails("VectorAssertionFailed")
       \/ /\ Tops(0, DigestLen) = Tops(DigestLen, DigestLen)
          /\ Replace(DigestLen, <<>>)
          /\ Completes(NextAddress)
          /\ OnStackOnly
------------------------------------------------------------------------------
(* Base field arithmetic. *)

Add ==
    /\ Executes("add")
    /\ Replace(2, <<Plus(St(0), St(1))>>)
    /\ Completes(NextAddress)
    /\ OnStackOnly

AddI ==
    /\ Executes("addi")
    /\ StackBecomes([op_stack EXCEPT ![Len(op_stack)] = Plus(St(0), Arg)], 0, 0)
    /\ Completes(NextAddress)
    /\ OnStackOnly

Mul ==
    /\ Executes("mul")
    /\ Replace(2, <<Times(St(0), St(1))>>)
    /\ Completes(NextAddress)
    /\ OnStackOnly

Invert ==
    /\ Executes("invert")
    /\ \/ /\ St(0) = 0
          /\ Fails("InverseOfZero")
       \/ /\ St(0) # 0
          /\ Replace(1, <<InverseOf(St(0))>>)
          /\ Completes(NextAddress)
          /\ OnStackOnly

Eq ==
    /\ Executes("eq")
    /\ Replace(2, <<IF St(0) = St(1) THEN 1 ELSE 0>>)
    /\ Completes(NextAddress)
    /\ OnStackOnly
------------------------------------------------------------------------------
(* Bitwise arithmetic: these call the u32 co-processor. *)

Entry(instruction, left, right) ==
    [instruction |-> instruction, left |-> left, right |-> right]

\* An instruction that completes with the given entries of the u32 table.
WithU32Calls(entries) ==
    /\ u32_calls' = entries
    /\ Completes(NextAddress)
    /\ NoRamCalls /\ NoTip5Calls
    /\ UNCHANGED <<io, jump_stack, halting>>

Split ==
    /\ Executes("split")
    /\ LET lo == St(0) % WordSize
           hi == St(0) \div WordSize
       IN  /\ Replace(1, <<lo, hi>>)
           /\ WithU32Calls(<<Entry("split", lo, hi)>>)

Lt ==
    /\ Executes("lt")
    /\ \/ /\ ~(IsU32(St(0)) /\ IsU32(St(1)))
          /\ Fails("FailedU32Conversion")
       \/ /\ IsU32(St(0)) /\ IsU32(St(1))
          /\ Replace(2, <<IF St(0) < St(1) THEN 1 ELSE 0>>)
          /\ WithU32Calls(<<Entry("lt", St(0), St(1))>>)

And ==
    /\ Executes("and")
    /\ \/ /\ ~(IsU32(St(0)) /\ IsU32(St(1)))
          /\ Fails("FailedU32Conversion")
       \/ /\ IsU32(St(0)) /\ IsU32(St(1))
          /\ Replace(2, <<BitAnd(St(0), St(1))>>)
          /\ WithU32Calls(<<Entry("and", St(0), St(1))>>)

\* The u32 table has no `xor`; the processor derives it from `and`.
Xor ==
    /\ Executes("xor")
    /\ \/ /\ ~(IsU32(St(0)) /\ IsU32(St(1)))
          /\ Fails("FailedU32Conversion")
       \/ /\ IsU32(St(0)) /\ IsU32(St(1))
          /\ Replace(2, <<BitXor(St(0), St(1))>>)
          /\ WithU32Calls(<<Entry("and", St(0), St(1))>>)

Log2Floor ==
    /\ Executes("log_2_floor")
    /\ \/ /\ ~IsU32(St(0))
          /\ Fails("FailedU32Conversion")
       \/ /\ St(0) = 0
          /\ Fails("LogarithmOfZero")
       \/ /\ IsU32(St(0)) /\ St(0) # 0
          /\ Replace(1, <<Ilog2(St(0))>>)
          /\ WithU32Calls(<<Entry("log_2_floor", St(0), 0)>>)

Pow ==
    /\ Executes("pow")
    /\ \/ /\ ~IsU32(St(1))
          /\ Fails("FailedU32Conversion")
       \/ /\ IsU32(St(1))
          /\ Replace(2, <<ModPow(St(0), St(1))>>)
          /\ WithU32Calls(<<Entry("pow", St(0), St(1))>>)

DivMod ==
    /\ Executes("div_mod")
    /\ \/ /\ ~(IsU32(St(0)) /\ IsU32(St(1)))
          /\ Fails("FailedU32Conversion")
       \/ /\ IsU32(St(0)) /\ St(1) = 0
          /\ Fails("DivisionByZero")
       \/ /\ IsU32(St(0)) /\ IsU32(St(1)) /\ St(1) # 0
          /\ LET quotient == St(0) \div St(1)
                 remainder == St(0) % St(1)
             IN  /\ Replace(2, <<remainder, quotient>>)
                 /\ WithU32Calls(<<Entry("lt", remainder, St(1)),
                                   Entry("split", St(0), quotient)>>)

PopCount ==
    /\ Executes("pop_count")
    /\ \/ /\ ~IsU32(St(0))
          /\ Fails("FailedU32Conversion")
       \/ /\ IsU32(St(0))
          /\ Replace(1, <<CountOnes(St(0))>>)
          /\ WithU32Calls(<<Entry("pop_count", St(0), 0)>>)
------------------------------------------------------------------------------
(* Extension field arithmetic.  Coefficient 0 is the topmost element. *)

XTop(i) == Tops(i, ExtensionDegree)

XxAdd ==
    /\ Executes("xx_add")
    /\ Replace(2 * ExtensionDegree, XPlus(XTop(0), XTop(ExtensionDegree)))
    /\ Completes(NextAddress)
    /\ OnStackOnly

XxMul ==
    /\ Executes("xx_mul")
    /\ Replace(2 * ExtensionDegree, XMul(XTop(0), XTop(ExtensionDegree)))
    /\ Completes(NextAddress)
    /\ OnStackOnly

XInvert ==
    /\ Executes("x_invert")
    /\ \/ /\ XTop(0) = XZero
          /\ Fails("InverseOfZero")
       \/ /\ XTop(0) # XZero
          /\ Replace(ExtensionDegree, XInverse(XTop(0)))
          /\ Completes(NextAddress)
          /\ OnStackOnly

XbMul ==
    /\ Executes("xb_mul")
    /\ Replace(1 + ExtensionDegree, XMul(Lift(St(0)), XTop(1)))
    /\ Completes(NextAddress)
    /\ OnStackOnly
------------------------------------------------------------------------------
(* Public input and output. *)

WriteIo ==
    /\ Executes("write_io")
    /\ public_output' = public_output \o Tops(0, Arg)
    /\ Replace(Arg, <<>>)
    /\ Completes(NextAddress)
    /\ NoCalls
    /\ UNCHANGED <<public_input, secret_individual_tokens, secret_digests,
                   jump_stack, halting>>

ReadIo ==
    /\ Executes("read_io")
    /\ \/ /\ Len(public_input) < Arg
          /\ Fails("EmptyPublicInput")
       \/ /\ Len(public_input) >= Arg
          /\ Replace(0, [k \in 1 .. Arg |-> public_input[Arg + 1 - k]])
          /\ public_input' = SubSeq(public_input, Arg + 1, Len(public_input))
          /\ Completes(NextAddress)
          /\ NoCalls
          /\ UNCHANGED <<public_output, secret_individual_tokens, secret_digests,
                         jump_stack, halting>>
------------------------------------------------------------------------------
(* Many-in-one instructions. *)

(***************************************************************************)
(* merkle_step: the digest on top of the stack and its sibling are hashed  *)
(* in the order the node index below the digest tells, and the index is    *)
(* halved.  `pointer` is the new value of the register two below the index *)
(* (st7 in the code), which only merkle_step_mem changes.                  *)
(***************************************************************************)
MerkleStepTo(sibling, pointer) ==
    LET node_index == St(DigestLen)
        accumulator == Tops(0, DigestLen)
        input == FixedLength(IF node_index % 2 = 0 THEN accumulator \o sibling
                                                   ELSE sibling \o accumulator)
        digest == SubSeq(Tip5(input), 1, DigestLen)
        depth == Len(op_stack)
    IN  /\ StackBecomes([k \in 1 .. depth |->
               IF k > depth - DigestLen THEN digest[depth + 1 - k]
               ELSE IF k = depth - DigestLen THEN node_index \div 2
               ELSE IF k = depth - DigestLen - 2 THEN pointer
               ELSE op_stack[k]], DigestLen, DigestLen)
        /\ Permutes("hash", input)
        /\ u32_calls' = <<Entry("split", node_index, node_index \div 2)>>
        /\ Completes(NextAddress)
        /\ UNCHANGED <<ram, sponge, jump_stack, halting,
                       public_input, public_output, secret_individual_tokens>>

MerkleStep ==
    /\ Executes("merkle_step")
    /\ \/ /\ ~IsU32(St(DigestLen))
          /\ Fails("FailedU32Conversion")
       \/ /\ IsU32(St(DigestLen)) /\ secret_digests = <<>>
          /\ Fails("EmptySecretDigestInput")
       \/ /\ IsU32(St(DigestLen)) /\ secret_digests # <<>>
          /\ MerkleStepTo(Head(secret_digests), St(DigestLen + 2))
          /\ secret_digests' = Tail(secret_digests)
          /\ ram_calls' = <<>>

MerkleStepMem ==
    /\ Executes("merkle_step_mem")
    /\ \/ /\ ~IsU32(St(DigestLen))
          /\ Fails("FailedU32Conversion")
       \/ /\ IsU32(St(DigestLen))
          /\ LET pointer == St(DigestLen + 2)
                 pointers == Addresses(pointer, 1, DigestLen)
             IN  /\ MerkleStepTo(Contents(pointers), Plus(pointer, DigestLen))
                 /\ ram_calls' = RamRead(pointers)
          /\ UNCHANGED secret_digests

\* Multiply two RAM-resident vectors' next elements into the accumulator.
DotStep(pointers, rhs_address, lhs_address, product) ==
    /\ ram_calls' = RamRead(pointers)
    /\ Replace(2 + ExtensionDegree,
               <<rhs_address, lhs_address>> \o XPlus(XTop(2), product))
    /\ Completes(NextAddress)
    /\ NoTip5Calls /\ NoU32Calls
    /\ UNCHANGED <<io, ram, jump_stack, halting>>

XxDotStep ==
    /\ Executes("xx_dot_step")
    /\ LET rhs == Addresses(St(0), 1, ExtensionDegree)
           lhs == Addresses(St(1), 1, ExtensionDegree)
       IN  DotStep([k \in 1 .. 2 * ExtensionDegree |->
                       IF k % 2 = 1 THEN rhs[(k + 1) \div 2] ELSE lhs[k \div 2]],
                   Plus(St(0), ExtensionDegree), Plus(St(1), ExtensionDegree),
                   XMul(Contents(rhs), Contents(lhs)))

XbDotStep ==
    /\ Executes("xb_dot_step")
    /\ LET lhs == Addresses(St(1), 1, ExtensionDegree)
       IN  DotStep(<<St(0)>> \o lhs, Plus(St(0), 1), Plus(St(1), ExtensionDegree),
                   XMul(Lift(ram[St(0)]), Contents(lhs)))
------------------------------------------------------------------------------
(* Failures of step() before it dispatches. *)

InstructionPointerOverflow ==
    /\ error = NoError
    /\ ~halting
    /\ ~InBounds(instruction_pointer)
    /\ Fails("InstructionPointerOverflow")

TooShallow ==
    /\ error = NoError
    /\ ~halting
    /\ InBounds(instruction_pointer)
    /\ WouldBeTooShallow(OpStackSizeInfluence(CurrentInstruction))
    /\ Fails("TooShallow")

\* step() is public: a caller may try to step a machine that has halted.
MachineHalted ==
    /\ error = NoError
    /\ halting
    /\ Fails("MachineHalted")

StackInstruction ==
    Pop \/ Push \/ Divine \/ Pick \/ Place \/ Dup \/ Swap
ControlInstruction ==
    Nop \/ Skiz \/ Call \/ Return \/ Recurse \/ RecurseOrReturn \/ AssertInstruction \/ Halt
MemoryInstruction == ReadMem \/ WriteMem
HashInstruction ==
    Hash \/ SpongeInit \/ SpongeAbsorb \/ SpongeAbsorbMem \/ SpongeSqueeze \/ AssertVector
FieldInstruction == Add \/ AddI \/ Mul \/ Invert \/ Eq
U32Instruction == Split \/ Lt \/ And \/ Xor \/ Log2Floor \/ Pow \/ DivMod \/ PopCount
ExtensionInstruction == XxAdd \/ XxMul \/ XInvert \/ XbMul
IoInstruction == WriteIo \/ ReadIo
ManyInOneInstruction == MerkleStep \/ MerkleStepMem \/ XxDotStep \/ XbDotStep

\* VMState::step on a machine that is still running.
Step ==
    \/ StackInstruction \/ ControlInstruction \/ MemoryInstruction \/ HashInstruction
    \/ FieldInstruction \/ U32Instruction \/ ExtensionInstruction \/ IoInstruction
    \/ ManyInOneInstruction \/ InstructionPointerOverflow \/ TooShallow

VMNext == Step \/ MachineHalted

VMSpec == Init /\ [][VMNext]_vmVars
==============================================================================
