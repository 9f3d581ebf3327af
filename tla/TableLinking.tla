----------------------------- MODULE TableLinking -----------------------------
(***************************************************************************)
(* The processor's side of the arguments that link its table to the        *)
(* others, from triton-air/src/table/processor.rs.  The code states them   *)
(* as constraints on running products, running evaluations and logarithmic *)
(* derivatives over compressed rows; here an argument is the bag (or the   *)
(* sequence, where the order counts) of rows it compresses.                *)
(*                                                                         *)
(* The other side is what the virtual machine recorded for the co-         *)
(* processor.  The two are written apart in the code, one in Rust, one in  *)
(* circuits, and a proof exists only where they agree.                     *)
(***************************************************************************)
EXTENDS TraceExecution, U32Table

LOCAL S == INSTANCE SequencesExt

(***************************************************************************)
(* What the derivation of rows takes from the code's constants.  The code  *)
(* decomposes an argument of type NumberOfWords, at most 5, into four      *)
(* bits; its 6 helper variables hold a digest with one more value, or two  *)
(* extension field elements; and clk, a u32, is less than the prime.       *)
(***************************************************************************)
ASSUME LinkingAssumption ==
    /\ MaxNumWords < 16
    /\ NumHelpers >= 4
    /\ NumHelpers >= DigestLen + 1
    /\ NumHelpers >= 2 * ExtensionDegree
    /\ MaxCycles < P

\* A row of the processor table and the one that follows it.  The last row is
\* followed by the row of the current state.
Transitions ==
    LET rows == Append(processor_trace, ProcessorRow)
    IN  [k \in 1 .. Len(processor_trace) |-> [cur |-> rows[k], next |-> rows[k + 1]]]

\* Every transition's rows, in the order of the transitions.
Accumulated(RowsOf(_)) ==
    S!FlattenSeq([k \in DOMAIN Transitions |-> RowsOf(Transitions[k])])

Is(row, op) == row.ci = Opcode[op]
IsAnyOf(row, ops) == \E op \in ops : Is(row, op)
St0To(row, n) == SubSeq(row.st, 1, n)
------------------------------------------------------------------------------
(* Op stack table. *)

\* The argument the helper variables of the row indicate.
IndicatedArg(row) == row.hv[1] + 2 * row.hv[2] + 4 * row.hv[3] + 8 * row.hv[4]

\* By how much the constraints of the row's instruction let the stack grow.
Growth(row) ==
    IF IsAnyOf(row, {"push", "dup", "split"}) THEN 1
    ELSE IF IsAnyOf(row, {"divine", "read_mem", "read_io"}) THEN IndicatedArg(row)
    ELSE IF Is(row, "sponge_squeeze") THEN Rate ELSE 0

Shrinkage(row) ==
    IF IsAnyOf(row, {"skiz", "assert", "add", "mul", "eq", "lt", "and", "xor", "pow",
                     "xb_mul"})
    THEN 1
    ELSE IF IsAnyOf(row, {"pop", "write_mem", "write_io"}) THEN IndicatedArg(row)
    ELSE IF IsAnyOf(row, {"hash", "assert_vector"}) THEN DigestLen
    ELSE IF IsAnyOf(row, {"xx_add", "xx_mul"}) THEN ExtensionDegree
    ELSE IF Is(row, "sponge_absorb") THEN Rate ELSE 0

\* The n underflow elements that move across the bottom register, seen in the
\* row with the shorter stack.
OpStackFactorsInReverse(t, shorter, n) ==  \* wrong: pairs pointers the other way
    [k \in 1 .. n |->
        [clk |-> t.cur.clk,
         shrink_stack |-> InstructionBit(t.cur.ci, 1),
         stack_pointer |-> shorter.op_stack_pointer + k - 1,
         first_underflow_element |-> shorter.st[NumRegisters - n + k]]]

OpStackFactors(t, shorter, n) ==
    [k \in 1 .. n |->
        [clk |-> t.cur.clk,
         shrink_stack |-> InstructionBit(t.cur.ci, 1),
         stack_pointer |-> shorter.op_stack_pointer + k - 1,
         first_underflow_element |-> shorter.st[NumRegisters - k + 1]]]

OpStackRows(t) ==
    OpStackFactors(t, t.cur, Growth(t.cur)) \o OpStackFactors(t, t.next, Shrinkage(t.cur))
------------------------------------------------------------------------------
(* RAM table. *)

RamRow(t, pointer, value, is_write) ==
    [clk |-> t.cur.clk, ram_pointer |-> pointer % P, ram_value |-> value,
     is_write |-> is_write]

\* read_from_ram_to: `destinations` receive what the consecutive words at
\* `pointer` hold.
ReadFromRamTo(t, pointer, destinations) ==
    [k \in DOMAIN destinations |-> RamRow(t, pointer + k - 1, destinations[k], FALSE)]

RamRows(t) ==
    LET cur == t.cur
        next == t.next
        n == IndicatedArg(cur)
        hv(from, count) == SubSeq(cur.hv, from, from + count - 1)
    IN  CASE Is(cur, "read_mem") ->
                 [k \in 1 .. n |-> RamRow(t, next.st[1] + k, next.st[k + 1], FALSE)]
          [] Is(cur, "write_mem") ->
                 [k \in 1 .. n |-> RamRow(t, cur.st[1] + k - 1, cur.st[k + 1], TRUE)]
          [] Is(cur, "sponge_absorb_mem") ->
                 ReadFromRamTo(t, cur.st[1],
                     SubSeq(next.st, 2, Rate - NumHelpers + 1) \o hv(1, NumHelpers))
          [] Is(cur, "merkle_step_mem") ->
                 ReadFromRamTo(t, cur.st[DigestLen + 3], hv(1, DigestLen))
          [] Is(cur, "xx_dot_step") ->
                 ReadFromRamTo(t, cur.st[1], hv(1, ExtensionDegree))
                     \o ReadFromRamTo(t, cur.st[2], hv(ExtensionDegree + 1, ExtensionDegree))
          [] Is(cur, "xb_dot_step") ->
                 ReadFromRamTo(t, cur.st[1], hv(1, 1))
                     \o ReadFromRamTo(t, cur.st[2], hv(2, ExtensionDegree))
          [] OTHER -> <<>>
------------------------------------------------------------------------------
(* Hash table. *)

\* The preimages of hash and the merkle steps.  The helper variable behind the
\* sibling tells whether the sibling is the left one.
HashInputs(row) ==
    LET accumulator == St0To(row, DigestLen)
        sibling == SubSeq(row.hv, 1, DigestLen)
    IN  IF Is(row, "hash") THEN <<St0To(row, Rate)>>
        ELSE IF ~IsAnyOf(row, {"merkle_step", "merkle_step_mem"}) THEN <<>>
        ELSE IF row.hv[DigestLen + 1] = 1 THEN <<sibling \o accumulator>>
        ELSE <<accumulator \o sibling>>

HashDigests(t) ==
    IF IsAnyOf(t.cur, {"hash", "merkle_step", "merkle_step_mem"})
    THEN <<St0To(t.next, DigestLen)>> ELSE <<>>

\* Rows of the sponge argument: the instruction and the rate.
SpongeRows(t) ==
    LET row(op, rate) == <<[ci |-> Opcode[op], rate |-> rate]>>
    IN  IF Is(t.cur, "sponge_init") THEN row("sponge_init", [k \in 1 .. Rate |-> 0])
        ELSE IF Is(t.cur, "sponge_absorb") THEN row("sponge_absorb", St0To(t.cur, Rate))
        ELSE IF Is(t.cur, "sponge_absorb_mem")
        THEN row("sponge_absorb", SubSeq(t.next.st, 2, Rate - NumHelpers + 1) \o t.cur.hv)
        ELSE IF Is(t.cur, "sponge_squeeze") THEN row("sponge_squeeze", St0To(t.next, Rate))
        ELSE <<>>
------------------------------------------------------------------------------
(* U32 table. *)

U32RowOfSwapped(op, lhs, rhs, result) ==  \* wrong: swaps the operands
    [ci |-> Opcode[op], lhs |-> rhs, rhs |-> lhs, result |-> result]

U32Row(op, lhs, rhs, result) ==
    [ci |-> Opcode[op], lhs |-> lhs, rhs |-> rhs, result |-> result]

U32Rows(t) ==
    LET cur == t.cur.st
        next == t.next.st
        binop(op) == <<U32Row(op, cur[1], cur[2], next[1])>>
        unop(op) == <<U32Row(op, cur[1], 0, next[1])>>
    IN  CASE Is(t.cur, "split") -> <<U32Row("split", next[1], next[2], 0)>>
          [] Is(t.cur, "lt") -> binop("lt")
          [] Is(t.cur, "and") -> binop("and")
          [] Is(t.cur, "pow") -> binop("pow")
          [] Is(t.cur, "xor") ->
                 <<U32Row("and", cur[1], cur[2],
                          Times(InverseOf(2), Minus(Plus(cur[1], cur[2]), next[1])))>>
          [] Is(t.cur, "log_2_floor") -> unop("log_2_floor")
          [] Is(t.cur, "pop_count") -> unop("pop_count")
          [] Is(t.cur, "div_mod") ->
                 <<U32Row("lt", next[1], cur[2], 1), U32Row("split", cur[1], next[2], 0)>>
          [] IsAnyOf(t.cur, {"merkle_step", "merkle_step_mem"}) ->
                 <<U32Row("split", cur[DigestLen + 1], next[DigestLen + 1], 0)>>
          [] OTHER -> <<>>

\* The rows U32Table::extend looks up: the first row of every section, as often
\* as the entry was recorded.
U32TableBag ==
    LET entries == BagToSet(u32_entries)
        looked_up(e) == LET first == Section(e)[1]
                        IN  [ci |-> first.ci, lhs |-> first.lhs, rhs |-> first.rhs,
                             result |-> first.result]
    IN  [r \in {looked_up(e) : e \in entries} |->
            u32_entries[CHOOSE e \in entries : looked_up(e) = r]]
------------------------------------------------------------------------------
(* Program table. *)

\* The words of a program, as Program::to_bwords lists them.
ToBwords(p) ==
    LET is_start[k \in 0 .. Len(p)] == k = 0 \/ ~(is_start[k - 1] /\ HasArg(p[k]))
    IN  [k \in 1 .. Len(p) |-> IF is_start[k - 1] THEN Opcode[p[k].op] ELSE p[k].arg]

InstructionLookups ==
    [k \in DOMAIN processor_trace |->
        [address |-> processor_trace[k].ip, instruction |-> processor_trace[k].ci,
         next |-> processor_trace[k].nia]]
------------------------------------------------------------------------------
(* The arguments.  All are about executions that have not failed: the trace *)
(* of a failed one is dropped.                                              *)

Succeeds == error = NoError

(***************************************************************************)
(* step() panics when the underflow accesses of one instruction mix reads  *)
(* and writes after the cancelling ones are removed                        *)
(* (from_underflow_io_sequence).  None does, however deep it digs          *)
(* temporarily and whatever values happen to be equal.                     *)
(***************************************************************************)
CanonicalIoIsUniform == IsUniform(Canonicalize[underflow_io])

(***************************************************************************)
(* Part of MemoryArgumentsBalance, op stack table: what the op stack       *)
(* recorded while the Rust code popped and pushed is what the constraints  *)
(* expect from looking at two rows.                                        *)
(***************************************************************************)
OpStackArgumentBalances ==
    Succeeds => S!ToBag(op_stack_underflow_trace) = S!ToBag(Accumulated(OpStackRows))

(***************************************************************************)
(* Part of MemoryArgumentsBalance, RAM table: the recorded accesses are    *)
(* the ones the constraints derive from registers and helper variables,    *)
(* for reads of overlapping or wrapping ranges too.                        *)
(***************************************************************************)
RamArgumentBalances ==
    Succeeds => S!ToBag(ram_trace) = S!ToBag(Accumulated(RamRows))

(***************************************************************************)
(* What execution records for the op stack and RAM tables is what the      *)
(* processor's constraints derive from its rows.                           *)
(***************************************************************************)
MemoryArgumentsBalance == OpStackArgumentBalances /\ RamArgumentBalances

(***************************************************************************)
(* U32 table: the results of the u32 instructions, which the processor     *)
(* takes from Rust's integer operations, are the ones the table's bitwise  *)
(* recursion arrives at, with the right multiplicities.                    *)
(***************************************************************************)
U32ArgumentBalances ==
    Succeeds => U32TableBag = S!ToBag(Accumulated(U32Rows))
==============================================================================
