-------------------------- MODULE ProcessorExtension --------------------------
(***************************************************************************)
(* ProcessorTable::extend (triton-vm/src/table/processor.rs): what the     *)
(* prover adds to the auxiliary columns of the processor table when it     *)
(* goes from one row to the next.  The constraints that check the columns  *)
(* (TableLinking, ProcessorAir) are written apart from it, and derive the  *)
(* same from other registers: the argument of an instruction from helper   *)
(* variables and not from nia, the stack's movement instruction by         *)
(* instruction and not from its declared influence.                        *)
(***************************************************************************)
EXTENDS ProcessorAir

LOCAL S == INSTANCE SequencesExt

NotAnInstruction == [op |-> "none", arg |-> 0]

\* instruction_from_row.
InstructionFromRow(row) ==
    LET op == CHOOSE op \in DOMAIN Opcode : Opcode[op] = row.ci
        change_arg_succeeds == /\ op \in NumWordsOps => row.nia \in 1 .. MaxNumWords
                               /\ op \in RegisterOps => row.nia \in Register
    IN  IF op \notin DoubleWordOps THEN [op |-> op, arg |-> 0]
        ELSE IF change_arg_succeeds THEN [op |-> op, arg |-> row.nia]
        ELSE NotAnInstruction

ExtendInput(t) ==
    LET i == InstructionFromRow(t.cur)
    IN  IF i.op = "read_io" THEN S!Reverse(St0To(t.next, i.arg)) ELSE <<>>
ExtendOutput(t) ==
    LET i == InstructionFromRow(t.cur)
    IN  IF i.op = "write_io" THEN St0To(t.cur, i.arg) ELSE <<>>

\* The helper variables hold the sibling digest.
ExtendHashInput(row) ==
    LET accumulator == St0To(row, DigestLen)
        sibling == SubSeq(row.hv, 1, DigestLen)
        is_left_sibling == row.st[DigestLen + 1] % 2 = 0
        op == InstructionFromRow(row).op
    IN  CASE op = "hash" -> <<St0To(row, Rate)>>
          [] op \in {"merkle_step", "merkle_step_mem"} /\ is_left_sibling ->
                 <<accumulator \o sibling>>
          [] op \in {"merkle_step", "merkle_step_mem"} /\ ~is_left_sibling ->
                 <<sibling \o accumulator>>
          [] OTHER -> <<>>

ExtendHashDigest(t) ==
    IF InstructionFromRow(t.cur).op \in {"hash", "merkle_step", "merkle_step_mem"}
    THEN <<St0To(t.next, DigestLen)>> ELSE <<>>

ExtendSponge(t) ==
    LET op == InstructionFromRow(t.cur).op
        absorbed == [k \in 1 .. Rate - NumHelpers |-> t.next.st[k + 1]] \o t.cur.hv
    IN  CASE op = "sponge_init" ->
                 <<[ci |-> Opcode["sponge_init"], rate |-> [k \in 1 .. Rate |-> 0]]>>
          [] op = "sponge_absorb" ->
                 <<[ci |-> Opcode["sponge_absorb"], rate |-> St0To(t.cur, Rate)]>>
          [] op = "sponge_absorb_mem" ->
                 <<[ci |-> Opcode["sponge_absorb"], rate |-> absorbed]>>
          [] op = "sponge_squeeze" ->
                 <<[ci |-> Opcode["sponge_squeeze"], rate |-> St0To(t.next, Rate)]>>
          [] OTHER -> <<>>
------------------------------------------------------------------------------
(* U32 look-ups.  A first loop collects what is to be inverted, a second   *)
(* one takes the inverses one by one.                                      *)

IsU32Instruction(op) ==
    op \in {"split", "lt", "and", "xor", "log_2_floor", "pow", "div_mod", "pop_count",
            "merkle_step", "merkle_step_mem"}

ToInvert(t) ==
    LET op == InstructionFromRow(t.cur).op
        prev == t.cur.st
        curr == t.next.st
        and_result == Times(Minus(Plus(prev[1], prev[2]), curr[1]), InverseOf(2))
    IN  CASE op = "split" -> <<U32Row("split", curr[1], curr[2], 0)>>
          [] op \in {"lt", "and", "pow"} -> <<U32Row(op, prev[1], prev[2], curr[1])>>
          [] op = "xor" -> <<U32Row("and", prev[1], prev[2], and_result)>>
          [] op \in {"log_2_floor", "pop_count"} -> <<U32Row(op, prev[1], 0, curr[1])>>
          [] op = "div_mod" -> <<U32Row("lt", curr[1], prev[2], 1),
                                 U32Row("split", prev[1], curr[2], 0)>>
          [] op \in {"merkle_step", "merkle_step_mem"} ->
                 <<U32Row("split", prev[DigestLen + 1], curr[DigestLen + 1], 0)>>
          [] OTHER -> <<>>

InversesTaken(t) ==
    LET op == InstructionFromRow(t.cur).op
    IN  (IF IsU32Instruction(op) THEN 1 ELSE 0) + (IF op = "div_mod" THEN 1 ELSE 0)
------------------------------------------------------------------------------
(* Op stack and RAM: factors of the running products. *)

FactorForOpStack(t) ==
    LET i == InstructionFromRow(t.cur)
        influence == OpStackSizeInfluence(i)
        row_with_shorter_stack == IF influence > 0 THEN t.cur ELSE t.next
    IN  IF t.is_padding \/ i = NotAnInstruction THEN <<>>
        ELSE [k \in 1 .. S!Max({influence, -influence}) |->
                 [clk |-> t.cur.clk,
                  shrink_stack |-> InstructionBit(t.cur.ci, 1),
                  stack_pointer |-> row_with_shorter_stack.op_stack_pointer + k - 1,
                  first_underflow_element |-> row_with_shorter_stack.st[NumRegisters - k + 1]]]

OffsetRamPointerAtPointer(op, row, offset) == row.st[1] + offset  \* wrong: read_mem ends below
OffsetRamPointer(op, row, offset) ==
    IF op = "read_mem" THEN row.st[1] + offset + 1 ELSE row.st[1] + offset

FactorForRam(t) ==
    LET i == InstructionFromRow(t.cur)
        prev == t.cur
        row_with_longer_stack == IF i.op = "read_mem" THEN t.next ELSE prev
        hv(from, to) == SubSeq(prev.hv, from, to)
        reads(pointer, values) ==
            [k \in DOMAIN values |-> RamRow(t, pointer + k - 1, values[k], FALSE)]
        moved == [k \in 1 .. i.arg |->
                     RamRow(t, OffsetRamPointer(i.op, row_with_longer_stack, k - 1),
                            row_with_longer_stack.st[k + 1], i.op = "write_mem")]
        absorbed == [k \in 1 .. Rate - NumHelpers |-> t.next.st[k + 1]] \o hv(1, NumHelpers)
    IN  CASE t.is_padding -> <<>>
          [] ~t.is_padding /\ i.op \in {"read_mem", "write_mem"} -> moved
          [] ~t.is_padding /\ i.op = "sponge_absorb_mem" -> reads(prev.st[1], absorbed)
          [] ~t.is_padding /\ i.op = "merkle_step_mem" ->
                 reads(prev.st[DigestLen + 3], hv(1, DigestLen))
          [] ~t.is_padding /\ i.op = "xx_dot_step" ->
                 reads(prev.st[1], hv(1, ExtensionDegree))
                     \o reads(prev.st[2], hv(ExtensionDegree + 1, 2 * ExtensionDegree))
          [] ~t.is_padding /\ i.op = "xb_dot_step" ->
                 reads(prev.st[1], hv(1, 1)) \o reads(prev.st[2], hv(2, ExtensionDegree + 1))
          [] OTHER -> <<>>
------------------------------------------------------------------------------
(***************************************************************************)
(* What extend adds to the columns of the eight arguments that depend on   *)
(* the instruction is what the constraints demand, for every instruction   *)
(* and at the first padding row, the running evaluations in their order;   *)
(* the loop that takes inverses for the u32 look-ups takes as many as were *)
(* collected, without which extend panics or shifts all later ones.        *)
(***************************************************************************)
ExtensionSatisfiesAir ==
    Succeeds /\ processor_trace # <<>> =>
        LET t == NewestTransition
        IN  /\ ExtendInput(t) = InputSymbols(t)
            /\ ExtendOutput(t) = OutputSymbols(t)
            /\ ExtendHashInput(t.cur) = HashInputs(t.cur)
            /\ ExtendHashDigest(t) = HashDigests(t)
            /\ ExtendSponge(t) = SpongeRows(t)
            /\ InversesTaken(t) = Len(ToInvert(t))
            /\ S!ToBag(ToInvert(t)) = S!ToBag(U32Rows(t))
            /\ S!ToBag(FactorForOpStack(t)) = S!ToBag(OpStackRows(t))
            /\ S!ToBag(FactorForRam(t)) = S!ToBag(RamRows(t))
==============================================================================
