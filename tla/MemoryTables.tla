----------------------------- MODULE MemoryTables -----------------------------
(***************************************************************************)
(* The three memory-like tables, op stack, RAM and jump stack, as fill and *)
(* pad build them from a finished trace (triton-vm/src/table/op_stack.rs,  *)
(* ram.rs, jump_stack.rs), and the columns of the processor table          *)
(* (processor.rs) that they are linked to.                                 *)
(*                                                                         *)
(* The RAM table's Bezout columns show that every region of one pointer is *)
(* contiguous; they are abstracted to that fact.                           *)
(***************************************************************************)
EXTENDS TraceExecution, FiniteSets

LOCAL S == INSTANCE SequencesExt

CONSTANT OtherHeights  \* heights the tallest of the tables without a model may have

ASSUME HeightAssumption == OtherHeights \subseteq Nat \ {0}

\* usize::next_power_of_two: a power of two has no odd divisor but 1.
IsPowerOfTwo(m) == \A d \in 1 .. m : m % d = 0 => d = 1 \/ d % 2 = 0
NextPowerOfTwo(n) == CHOOSE m \in n .. (2 * n - 1) : IsPowerOfTwo(m)

\* AlgebraicExecutionTrace::padded_height.
PaddedHeights ==
    {NextPowerOfTwo(S!Max({h, Len(processor_trace), Len(op_stack_underflow_trace),
                           Len(ram_trace)})) : h \in OtherHeights}

RowAt(k, placed) == (CHOOSE p \in placed : p.place = k).row

\* `rows` in the order of Before, rows it does not tell apart in the order they had:
\* a row's place is the number of rows up to it.
Sorted(rows, Before(_, _)) ==
    LET up_to(i) == {j \in DOMAIN rows : \/ Before(rows[j], rows[i])
                                         \/ j <= i /\ ~Before(rows[i], rows[j])}
        placed == {[place |-> Cardinality(up_to(i)), row |-> rows[i]] : i \in DOMAIN rows}
    IN  [k \in DOMAIN rows |-> RowAt(k, placed)]

ByClock(a, b, pointer) == a.clk < b.clk  \* wrong: the order of the trace
ByPointerThenClock(a, b, pointer) ==
    a[pointer] < b[pointer] \/ (a[pointer] = b[pointer] /\ a.clk < b.clk)

Repeat(row, n) == [k \in 1 .. n |-> row]

\* The clock differences of consecutive rows with the same pointer.
ClockJumpDifferences(rows, pointer) ==
    S!FlattenSeq([k \in 1 .. (Len(rows) - 1) |->
        IF rows[k][pointer] = rows[k + 1][pointer]
        THEN <<Minus(rows[k + 1].clk, rows[k].clk)>> ELSE <<>>])
------------------------------------------------------------------------------
(* Op stack table.  A padding row has 2 in the column shrink_stack. *)

Padding == 2

FilledOpStackTable ==
    Sorted(op_stack_underflow_trace,
           LAMBDA a, b : ByPointerThenClock(a, b, "stack_pointer"))

PaddedOpStackTable(height) ==
    LET rows == FilledOpStackTable
        template == IF rows = <<>>
                    THEN [clk |-> 0, shrink_stack |-> Padding,
                          stack_pointer |-> NumRegisters, first_underflow_element |-> 0]
                    ELSE [rows[Len(rows)] EXCEPT !.shrink_stack = Padding]
    IN  rows \o Repeat(template, height - Len(rows))
------------------------------------------------------------------------------
(* RAM table. *)

RamTableRow(access) ==
    [clk |-> access.clk, instruction_type |-> IF access.is_write THEN 0 ELSE 1,
     ram_pointer |-> access.ram_pointer, ram_value |-> access.ram_value]

FilledRamTable ==
    Sorted([k \in DOMAIN ram_trace |-> RamTableRow(ram_trace[k])],
           LAMBDA a, b : ByPointerThenClock(a, b, "ram_pointer"))

PaddedRamTable(height) ==
    LET rows == FilledRamTable
        template == IF rows = <<>>
                    THEN [clk |-> 0, instruction_type |-> Padding,
                          ram_pointer |-> 0, ram_value |-> 0]
                    ELSE [rows[Len(rows)] EXCEPT !.instruction_type = Padding]
    IN  rows \o Repeat(template, height - Len(rows))
------------------------------------------------------------------------------
(* Jump stack table. *)

JumpStackRow(row) ==
    [clk |-> row.clk, ci |-> row.ci, jsp |-> row.jsp, jso |-> row.jso, jsd |-> row.jsd]

FilledJumpStackTable ==
    Sorted([k \in DOMAIN processor_trace |-> JumpStackRow(processor_trace[k])],
           LAMBDA a, b : a.jsp < b.jsp)

LowestRow(rows) == Len(rows)  \* wrong: pads at the end of the table
LastClockRow(rows) == CHOOSE k \in DOMAIN rows : rows[k].clk = Len(rows) - 1

\* The rows below the one with the highest clock move to the end of the table;
\* the gap is filled with copies of that row whose clock counts on.
PaddedJumpStackTable(height) ==
    LET rows == FilledJumpStackTable
        len == Len(rows)
        last == LastClockRow(rows)
    IN  SubSeq(rows, 1, last)
            \o [k \in 1 .. (height - len) |-> [rows[last] EXCEPT !.clk = len + k - 1]]
            \o SubSeq(rows, last + 1, len)
------------------------------------------------------------------------------
(* Processor table: the columns the memory-like tables are linked to. *)

\* One more lookup of clock cycle d for every clock jump difference d.
FilledMultiplicities ==
    S!ToBag(ClockJumpDifferences(FilledOpStackTable, "stack_pointer")
                \o ClockJumpDifferences(FilledRamTable, "ram_pointer")
                \o ClockJumpDifferences(FilledJumpStackTable, "jsp"))

\* The jump stack table jumps by 1 into each of its padding rows.
NoPaddingLookups(clk, num_padding_rows) == 0  \* wrong
PaddingLookups(clk, num_padding_rows) == IF clk = 1 THEN num_padding_rows ELSE 0

PaddedProcessorTable(height) ==
    LET len == Len(processor_trace)
        row(k) == processor_trace[IF k <= len THEN k ELSE len]
        looked_up == FilledMultiplicities
        multiplicity(clk) == IF clk < len /\ BagIn(clk, looked_up) THEN looked_up[clk] ELSE 0
    IN  [k \in 1 .. height |->
            [clk |-> IF k <= len THEN row(k).clk ELSE k - 1, ci |-> row(k).ci, jsp |-> row(k).jsp,
             jso |-> row(k).jso, jsd |-> row(k).jsd,
             cjd_multiplicity |-> multiplicity(k - 1) + PaddingLookups(k - 1, height - len)]]
==============================================================================
