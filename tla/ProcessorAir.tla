----------------------------- MODULE ProcessorAir -----------------------------
(***************************************************************************)
(* The constraints on the registers in two consecutive rows of the         *)
(* processor table (triton-air/src/table/processor.rs): a second, purely   *)
(* relational definition of every instruction, written as polynomials that *)
(* must vanish.  A constraint is the condition under which its polynomial  *)
(* vanishes; a weighted sum of registers with one challenge per register   *)
(* vanishes when every summand does.                                       *)
(*                                                                         *)
(* What the same constraints say about RAM, underflow memory, hashes and   *)
(* 32-bit words is in TableLinking.  The columns ib0 to ib6 are the bits   *)
(* of ci and do not appear.                                                *)
(***************************************************************************)
EXTENDS TableLinking

LOCAL S == INSTANCE SequencesExt

(***************************************************************************)
(* Four bits hold an argument of type OpStackElement.  Six helper          *)
(* variables hold a condition's inverse and five chunks of an opcode.  The *)
(* numbers in a row are field elements: the opcodes, and the size a stack  *)
(* can reach while the cycle count is a u32.                               *)
(***************************************************************************)
ASSUME AirAssumption ==
    /\ NumRegisters <= 16
    /\ NumHelpers >= 6
    /\ MaxNumWords <= Rate
    /\ \A op \in DOMAIN Opcode : Opcode[op] < P
    /\ NumRegisters + MaxCycles * Rate < P

\* The last recorded row and its successor: the row of the current state, or the
\* first padding row once the machine has halted.
NewestTransition ==
    LET cur == processor_trace[Len(processor_trace)]
    IN  [cur |-> cur,
         next |-> IF halting THEN [cur EXCEPT !.clk = Plus(@, 1)] ELSE ProcessorRow,
         is_padding |-> halting]
------------------------------------------------------------------------------
(* Instruction groups. *)

ArgIsDecomposed(row) ==
    /\ \A k \in 1 .. 4 : row.hv[k] \in {0, 1}
    /\ row.nia = IndicatedArg(row)
HasLegalNumberOfWords(row) == ArgIsDecomposed(row) /\ IndicatedArg(row) \in 1 .. MaxNumWords
HelperIsInverseOrZeroOf(row, x) ==
    (row.hv[1] # 0 \/ x # 0) => Times(row.hv[1], x) = 1

\* All but the top n elements stay where they are.
RemainsExceptTop(t, n) ==
    /\ t.next.op_stack_pointer = t.cur.op_stack_pointer
    /\ \A k \in n + 1 .. NumRegisters : t.next.st[k] = t.cur.st[k]
KeepOpStack(t) == RemainsExceptTop(t, 0)
KeepOpStackHeight(t) == RemainsExceptTop(t, NumRegisters)

\* All but the top `free` elements of the new stack come from n places higher up.
Grows(t, n, free) ==
    /\ t.next.op_stack_pointer = Plus(t.cur.op_stack_pointer, n)
    /\ \A k \in free + 1 .. NumRegisters : t.next.st[k] = t.cur.st[k - n]
GrowsAboveTopTwo(t) == Grows(t, 1, 2)
GrowOpStack(t) == Grows(t, 1, 1)
GrowsBy(t, n) == Grows(t, n, n)

\* All but the top `free` elements of the new stack come from n places further down.
Shrinks(t, n, free) ==
    /\ t.next.op_stack_pointer = Minus(t.cur.op_stack_pointer, n)
    /\ \A k \in free + 1 .. NumRegisters - n : t.next.st[k] = t.cur.st[k + n]
ShrinksAboveTopThree(t) == Shrinks(t, 1, ExtensionDegree)
ShrinksByThreeAboveTopThree(t) == Shrinks(t, ExtensionDegree, ExtensionDegree)
Binop(t) == Shrinks(t, 1, 1)
ShrinkOpStack(t) == Shrinks(t, 1, 0)
ShrinksBy(t, n) == Shrinks(t, n, 0)

KeepJumpStack(t) ==
    t.next.jsp = t.cur.jsp /\ t.next.jso = t.cur.jso /\ t.next.jsd = t.cur.jsd
IpIncreasesBy(t, n) == t.next.ip = Plus(t.cur.ip, n)
Step1WithoutJumpStack(t) == IpIncreasesBy(t, 1)  \* wrong: leaves the jump stack open
Step1(t) == IpIncreasesBy(t, 1) /\ KeepJumpStack(t)
Step2(t) == IpIncreasesBy(t, 2) /\ KeepJumpStack(t)
------------------------------------------------------------------------------
(* Op stack manipulation. *)

PopConstraints(t) ==
    Step2(t) /\ HasLegalNumberOfWords(t.cur) /\ ShrinksBy(t, IndicatedArg(t.cur))
PushConstraints(t) == Step2(t) /\ GrowOpStack(t) /\ t.next.st[1] = t.cur.nia
DivineConstraints(t) ==
    Step2(t) /\ HasLegalNumberOfWords(t.cur) /\ GrowsBy(t, IndicatedArg(t.cur))

Rearranges(t, stack) ==
    Step2(t) /\ ArgIsDecomposed(t.cur) /\ KeepOpStackHeight(t) /\ t.next.st = stack
PickConstraints(t) ==
    LET i == IndicatedArg(t.cur) + 1
    IN  Rearranges(t, S!InsertAt(S!RemoveAt(t.cur.st, i), 1, t.cur.st[i]))
PlaceConstraints(t) ==
    LET i == IndicatedArg(t.cur) + 1
    IN  Rearranges(t, S!InsertAt(Tail(t.cur.st), i, t.cur.st[1]))
SwapConstraints(t) ==
    LET i == IndicatedArg(t.cur) + 1
    IN  Rearranges(t, [t.cur.st EXCEPT ![1] = t.cur.st[i], ![i] = t.cur.st[1]])
DupConstraints(t) ==
    /\ Step2(t) /\ ArgIsDecomposed(t.cur) /\ GrowOpStack(t)
    /\ t.next.st[1] = t.cur.st[IndicatedArg(t.cur) + 1]
------------------------------------------------------------------------------
(* Control flow. *)

NopConstraints(t) == Step1(t) /\ KeepOpStack(t)
HaltConstraints(t) == t.next.ci = t.cur.ci /\ Step1(t) /\ KeepOpStack(t)

\* hv1 to hv5 are chunks of the next instruction's opcode, whose lowest bit says
\* whether the instruction has an argument.
OpcodeIsDecomposed(row) ==
    /\ row.hv[2] \in 0 .. 1 /\ \A k \in 3 .. 6 : row.hv[k] \in 0 .. 3
    /\ row.nia = (row.hv[2] + 2 * row.hv[3] + 8 * row.hv[4] + 32 * row.hv[5]
                      + 128 * row.hv[6]) % P
SkizConstraints(t) ==
    LET st0 == t.cur.st[1]
    IN  /\ HelperIsInverseOrZeroOf(t.cur, st0)
        /\ OpcodeIsDecomposed(t.cur)
        /\ IpIncreasesBy(t, IF st0 # 0 THEN 1 ELSE 2 + t.cur.hv[2])
        /\ KeepJumpStack(t) /\ ShrinkOpStack(t)

CallConstraints(t) ==
    /\ t.next.jsp = Plus(t.cur.jsp, 1)
    /\ t.next.jso = Plus(t.cur.ip, 2)
    /\ t.next.jsd = t.cur.nia /\ t.next.ip = t.cur.nia
    /\ KeepOpStack(t)
ReturnConstraints(t) ==
    /\ t.next.jsp = Minus(t.cur.jsp, 1)
    /\ t.next.ip = t.cur.jso
    /\ KeepOpStack(t)
RecurseConstraints(t) == t.next.ip = t.cur.jsd /\ KeepJumpStack(t) /\ KeepOpStack(t)

\* The code adds up the constraints of the two cases, each multiplied by what
\* vanishes in the other one, which hv0 decides.
RecurseOrReturnConstraints(t) ==
    LET difference == Minus(t.cur.st[DigestLen + 2], t.cur.st[DigestLen + 1])
        differs == Times(t.cur.hv[1], difference)
        equals == Minus(1, differs)
        vanishes(if_equal, if_different) ==
            Plus(Times(equals, if_equal), Times(differs, if_different)) = 0
    IN  /\ vanishes(t.cur.hv[1], Minus(t.next.jso, t.cur.jso))
        /\ vanishes(difference, Minus(t.next.jsd, t.cur.jsd))
        /\ vanishes(Minus(t.next.ip, t.cur.jso), Minus(t.next.ip, t.cur.jsd))
        /\ vanishes(Minus(t.next.jsp, t.cur.jsp - 1), Minus(t.next.jsp, t.cur.jsp))
        /\ KeepOpStack(t)

AssertConstraints(t) == t.cur.st[1] = 1 /\ Step1(t) /\ ShrinkOpStack(t)
AssertVectorConstraints(t) ==
    /\ \A k \in 1 .. DigestLen : t.cur.st[k + DigestLen] = t.cur.st[k]
    /\ Step1(t) /\ ShrinksBy(t, DigestLen)
------------------------------------------------------------------------------
(* Memory and input. *)

ReadMemConstraints(t) ==
    LET n == IndicatedArg(t.cur)
    IN  /\ Step2(t) /\ HasLegalNumberOfWords(t.cur)
        /\ Grows(t, n, n + 1) /\ t.next.st[1] = Minus(t.cur.st[1], n)
WriteMemConstraints(t) ==
    LET n == IndicatedArg(t.cur)
    IN  /\ Step2(t) /\ HasLegalNumberOfWords(t.cur)
        /\ Shrinks(t, n, 1) /\ t.next.st[1] = Plus(t.cur.st[1], n)
ReadIoConstraints(t) == DivineConstraints(t)
WriteIoConstraints(t) == PopConstraints(t)

\* The symbols a transition appends to the running evaluations of the input,
\* which ends with the new top of the stack, and of the output.
InputSymbolsFromTop(t) ==  \* wrong: reads the topmost element first
    IF Is(t.cur, "read_io") THEN St0To(t.next, IndicatedArg(t.cur)) ELSE <<>>
InputSymbols(t) ==
    IF Is(t.cur, "read_io") THEN S!Reverse(St0To(t.next, IndicatedArg(t.cur))) ELSE <<>>
OutputSymbols(t) ==
    IF Is(t.cur, "write_io") THEN St0To(t.cur, IndicatedArg(t.cur)) ELSE <<>>
------------------------------------------------------------------------------
(* Hashing. *)

HashConstraints(t) == Step1(t) /\ Shrinks(t, DigestLen, DigestLen)

\* The node index loses its lowest bit, the helper variable behind the sibling.
MerkleStepSharedConstraints(t) ==
    LET bit == t.cur.hv[DigestLen + 1]
    IN  /\ bit \in {0, 1}
        /\ Plus(2 * t.next.st[DigestLen + 1], bit) = t.cur.st[DigestLen + 1]
        /\ Step1(t)
MerkleStepConstraints(t) ==
    MerkleStepSharedConstraints(t) /\ RemainsExceptTop(t, DigestLen + 1)
MerkleStepMemConstraints(t) ==
    /\ MerkleStepSharedConstraints(t) /\ RemainsExceptTop(t, DigestLen + 3)
    /\ t.next.st[DigestLen + 2] = t.cur.st[DigestLen + 2]
    /\ t.next.st[DigestLen + 3] = Plus(t.cur.st[DigestLen + 3], DigestLen)

SpongeInitConstraints(t) == Step1(t) /\ KeepOpStack(t)
SpongeAbsorbConstraints(t) == Step1(t) /\ ShrinksBy(t, Rate)
SpongeAbsorbMemConstraints(t) ==
    /\ t.next.st[1] = Plus(t.cur.st[1], Rate)
    /\ Step1(t) /\ RemainsExceptTop(t, 1 + (Rate - NumHelpers))
SpongeSqueezeConstraints(t) == Step1(t) /\ GrowsBy(t, Rate)
------------------------------------------------------------------------------
(* Arithmetic.  Products of extension field elements are XMul. *)

AddConstraints(t) == t.next.st[1] = Plus(t.cur.st[1], t.cur.st[2]) /\ Step1(t) /\ Binop(t)
AddIConstraints(t) ==
    t.next.st[1] = Plus(t.cur.st[1], t.cur.nia) /\ Step2(t) /\ RemainsExceptTop(t, 1)
MulConstraints(t) == t.next.st[1] = Times(t.cur.st[1], t.cur.st[2]) /\ Step1(t) /\ Binop(t)
InvertConstraints(t) ==
    Times(t.next.st[1], t.cur.st[1]) = 1 /\ Step1(t) /\ RemainsExceptTop(t, 1)
EqConstraints(t) ==
    LET difference == Minus(t.cur.st[2], t.cur.st[1])
    IN  /\ HelperIsInverseOrZeroOf(t.cur, difference)
        /\ t.next.st[1] = Minus(1, Times(t.cur.hv[1], difference))
        /\ Step1(t) /\ Binop(t)

\* Two words, low one first, that do not stand for the number plus the field's size.
SplitConstraints(t) ==
    LET lo == t.next.st[1]
        hi == t.next.st[2]
    IN  /\ t.cur.st[1] = Plus(WordSize * hi, lo)
        /\ lo = 0 \/ Times(t.cur.hv[1], hi - (WordSize - 1)) = 1
        /\ GrowsAboveTopTwo(t) /\ Step1(t)

\* lt, and, xor, pow: the result is the u32 table's.
WordBinopConstraints(t) == Step1(t) /\ Binop(t)
\* log_2_floor, pop_count
WordUnopConstraints(t) == Step1(t) /\ RemainsExceptTop(t, 1)
DivModConstraints(t) ==
    /\ t.cur.st[1] = Plus(t.cur.st[2] * t.next.st[2], t.next.st[1])
    /\ Step1(t) /\ RemainsExceptTop(t, 2)

XElement(registers, from) == SubSeq(registers, from, from + ExtensionDegree - 1)
XxAddConstraints(t) ==
    /\ \A k \in 1 .. ExtensionDegree :
           t.next.st[k] = Plus(t.cur.st[k], t.cur.st[k + ExtensionDegree])
    /\ ShrinksByThreeAboveTopThree(t) /\ Step1(t)
XxMulConstraints(t) ==
    /\ XElement(t.next.st, 1) =
           XMul(XElement(t.cur.st, 1), XElement(t.cur.st, ExtensionDegree + 1))
    /\ ShrinksByThreeAboveTopThree(t) /\ Step1(t)
XInvertConstraints(t) ==
    /\ XMul(XElement(t.cur.st, 1), XElement(t.next.st, 1)) = Lift(1)
    /\ RemainsExceptTop(t, ExtensionDegree) /\ Step1(t)
XbMulConstraints(t) ==
    /\ \A k \in 1 .. ExtensionDegree : t.next.st[k] = Times(t.cur.st[k + 1], t.cur.st[1])
    /\ ShrinksAboveTopThree(t) /\ Step1(t)

\* The accumulator below the two RAM pointers grows by `product`.
DotStepConstraints(t, rhs_size, product) ==
    /\ t.next.st[1] = Plus(t.cur.st[1], rhs_size)
    /\ t.next.st[2] = Plus(t.cur.st[2], ExtensionDegree)
    /\ \A k \in 1 .. ExtensionDegree :
           t.next.st[k + 2] = Plus(t.cur.st[k + 2], product[k])
    /\ Step1(t) /\ RemainsExceptTop(t, ExtensionDegree + 2)
XxDotStepConstraints(t) ==
    DotStepConstraints(t, ExtensionDegree,
            XMul(XElement(t.cur.hv, 1), XElement(t.cur.hv, ExtensionDegree + 1)))
XbDotStepConstraints(t) ==
    DotStepConstraints(t, 1, [k \in 1 .. ExtensionDegree |-> Times(t.cur.hv[k + 1], t.cur.hv[1])])
------------------------------------------------------------------------------
(* All constraints. *)

\* transition_constraints_for_instruction; a deselector drops the constraints of
\* every instruction but the row's.
InstructionConstraints(t) ==
    LET is(op) == Is(t.cur, op)
    IN  CASE is("pop") -> PopConstraints(t)
          [] is("push") -> PushConstraints(t)
          [] is("divine") -> DivineConstraints(t)
          [] is("pick") -> PickConstraints(t)
          [] is("place") -> PlaceConstraints(t)
          [] is("dup") -> DupConstraints(t)
          [] is("swap") -> SwapConstraints(t)
          [] is("halt") -> HaltConstraints(t)
          [] is("nop") -> NopConstraints(t)
          [] is("skiz") -> SkizConstraints(t)
          [] is("call") -> CallConstraints(t)
          [] is("return") -> ReturnConstraints(t)
          [] is("recurse") -> RecurseConstraints(t)
          [] is("recurse_or_return") -> RecurseOrReturnConstraints(t)
          [] is("assert") -> AssertConstraints(t)
          [] is("read_mem") -> ReadMemConstraints(t)
          [] is("write_mem") -> WriteMemConstraints(t)
          [] is("hash") -> HashConstraints(t)
          [] is("assert_vector") -> AssertVectorConstraints(t)
          [] is("sponge_init") -> SpongeInitConstraints(t)
          [] is("sponge_absorb") -> SpongeAbsorbConstraints(t)
          [] is("sponge_absorb_mem") -> SpongeAbsorbMemConstraints(t)
          [] is("sponge_squeeze") -> SpongeSqueezeConstraints(t)
          [] is("add") -> AddConstraints(t)
          [] is("addi") -> AddIConstraints(t)
          [] is("mul") -> MulConstraints(t)
          [] is("invert") -> InvertConstraints(t)
          [] is("eq") -> EqConstraints(t)
          [] is("split") -> SplitConstraints(t)
          [] IsAnyOf(t.cur, {"lt", "and", "xor", "pow"}) -> WordBinopConstraints(t)
          [] IsAnyOf(t.cur, {"log_2_floor", "pop_count"}) -> WordUnopConstraints(t)
          [] is("div_mod") -> DivModConstraints(t)
          [] is("xx_add") -> XxAddConstraints(t)
          [] is("xx_mul") -> XxMulConstraints(t)
          [] is("x_invert") -> XInvertConstraints(t)
          [] is("xb_mul") -> XbMulConstraints(t)
          [] is("read_io") -> ReadIoConstraints(t)
          [] is("write_io") -> WriteIoConstraints(t)
          [] is("merkle_step") -> MerkleStepConstraints(t)
          [] is("merkle_step_mem") -> MerkleStepMemConstraints(t)
          [] is("xx_dot_step") -> XxDotStepConstraints(t)
          [] is("xb_dot_step") -> XbDotStepConstraints(t)

PaddingConstraints(t) ==
    /\ t.next.ip = t.cur.ip /\ t.next.ci = t.cur.ci /\ t.next.nia = t.cur.nia
    /\ KeepJumpStack(t) /\ KeepOpStack(t)

TransitionConstraints(t) ==
    /\ t.next.clk = Plus(t.cur.clk, 1)
    /\ IF t.is_padding THEN PaddingConstraints(t) ELSE InstructionConstraints(t)

InitialConstraints(row) ==
    /\ \A r \in {"clk", "ip", "jsp", "jso", "jsd"} : row[r] = 0
    /\ \A k \in 1 .. NumRegisters - DigestLen : row.st[k] = 0
    /\ SubSeq(row.st, NumRegisters - DigestLen + 1, NumRegisters) = ProgramHash(program)
    /\ row.op_stack_pointer = NumRegisters

TerminalConstraints(row) == Is(row, "halt")
------------------------------------------------------------------------------
(***************************************************************************)
(* The virtual machine and the constraints define the same instructions.   *)
(* What an instruction does to the registers, with the helper variables    *)
(* derived before it runs, satisfies the constraints of its opcode, in     *)
(* every context; so do the first row, the last row and the padding.       *)
(***************************************************************************)
ProcessorRowsSatisfyAir ==
    Succeeds /\ processor_trace # <<>> =>
        /\ InitialConstraints(processor_trace[1])
        /\ TransitionConstraints(NewestTransition)
        /\ halting => TerminalConstraints(processor_trace[Len(processor_trace)])

\* The registers of the next row that the argument with another table, the input
\* or the prover's own choice determine.  What a shrinking stack brings back from
\* underflow memory is the op stack table's.
LinkedStackRegisters(t) ==
    LET n == IndicatedArg(t.cur)
        resurfaced == NumRegisters - Shrinkage(t.cur) + 1 .. NumRegisters
    IN  resurfaced \cup
        CASE IsAnyOf(t.cur, {"hash", "merkle_step", "merkle_step_mem"}) -> 1 .. DigestLen
          [] IsAnyOf(t.cur, {"divine", "read_io"}) -> 1 .. n
          [] Is(t.cur, "read_mem") -> 2 .. n + 1
          [] Is(t.cur, "sponge_squeeze") -> 1 .. Rate
          [] Is(t.cur, "sponge_absorb_mem") -> 2 .. 1 + (Rate - NumHelpers)
          [] IsAnyOf(t.cur, {"lt", "and", "xor", "pow", "log_2_floor", "pop_count"}) -> {1}
          [] OTHER -> {}
LinkedJumpRegisters(t) ==
    IF Is(t.cur, "return") \/ (Is(t.cur, "recurse_or_return") /\ t.cur.hv[1] = 0)
    THEN {"jso", "jsd"} ELSE {}

(***************************************************************************)
(* The constraints leave nothing open.  If one register of the next row    *)
(* had another value, a constraint of the instruction would be violated,   *)
(* except for the registers the other tables answer for.  An instruction   *)
(* of the code lists its constraint groups by hand; one group forgotten    *)
(* and proofs of wrong executions exist, while no honest run notices.      *)
(***************************************************************************)
ConstraintsPinRegisters ==
    Succeeds /\ processor_trace # <<>> =>
        LET t == NewestTransition
            registers == {"clk", "ip", "jsp", "jso", "jsd", "op_stack_pointer"}
            with(row) == [t EXCEPT !.next = row]
            stack == 1 .. NumRegisters
        IN  /\ \A r \in IF t.is_padding THEN registers \cup {"ci", "nia"}
                        ELSE registers \ LinkedJumpRegisters(t) :
                   ~TransitionConstraints(with([t.next EXCEPT ![r] = Plus(@, 1)]))
            /\ \A k \in IF t.is_padding THEN stack ELSE stack \ LinkedStackRegisters(t) :
                   ~TransitionConstraints(with([t.next EXCEPT !.st[k] = Plus(@, 1)]))

(***************************************************************************)
(* Input and output: the symbols the running evaluations of the processor  *)
(* absorb are the ones the machine consumed and produced, in order.        *)
(***************************************************************************)
IoArgumentsBalance ==
    Succeeds =>
        /\ Accumulated(InputSymbols) \o public_input \in PublicInputs
        /\ Accumulated(OutputSymbols) = public_output
==============================================================================
