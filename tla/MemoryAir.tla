------------------------------ MODULE MemoryAir ------------------------------
(***************************************************************************)
(* What the constraints of triton-air/src/table/ demand of the memory-like *)
(* tables, and the arguments that link them to the processor table.  An    *)
(* honest prover's tables satisfy all of it, or there is no proof.         *)
(***************************************************************************)
EXTENDS MemoryTables

LOCAL S == INSTANCE SequencesExt

\* Tables are built from the trace of an execution that has halted.
Finished == halting /\ error = NoError

ConsecutiveRows(table) ==
    {<<table[k], table[k + 1]>> : k \in 1 .. (Len(table) - 1)}

\* The constraints on the first row and on consecutive rows.
OpStackFirstRow(row) == row.stack_pointer = NumRegisters
OpStackTransition(row, next) ==
    /\ next.stack_pointer \in {row.stack_pointer, row.stack_pointer + 1}
    /\ \/ next.stack_pointer = row.stack_pointer + 1
       \/ next.first_underflow_element = row.first_underflow_element
       \/ next.shrink_stack = 0
    /\ row.shrink_stack = Padding => next.shrink_stack = Padding

RamTransition(row, next) ==
    /\ \/ next.ram_pointer # row.ram_pointer
       \/ next.instruction_type = 0
       \/ next.ram_value = row.ram_value
    /\ row.instruction_type = Padding => next.instruction_type = Padding

\* The Bezout relation: no pointer's region is left and entered again.
RamPointersAreContiguous(table) ==
    LET regions == {k \in DOMAIN table :
                       k = 1 \/ table[k - 1].ram_pointer # table[k].ram_pointer}
    IN  \A j, k \in regions : table[j].ram_pointer = table[k].ram_pointer => j = k

JumpStackFirstRow(row) == row.clk = 0 /\ row.jsp = 0 /\ row.jso = 0 /\ row.jsd = 0
JumpStackTransition(row, next) ==
    LET jumps_deeper == next.jsp = row.jsp + 1
        can_return == row.ci \in {Opcode["return"], Opcode["recurse_or_return"]}
    IN  /\ next.jsp \in {row.jsp, row.jsp + 1}
        /\ jumps_deeper \/ can_return \/ (next.jso = row.jso /\ next.jsd = row.jsd)
        /\ jumps_deeper \/ can_return \/ next.clk = row.clk + 1 \/ row.ci = Opcode["call"]

\* What the auxiliary column of a table looks up: the clock differences between consecutive
\* rows of one pointer, up to the first padding row.
LookedUpBeforePadding(table, pointer, column) ==
    S!FlattenSeq([k \in 1 .. (Len(table) - 1) |->
        IF table[k + 1][column] # Padding /\ table[k][pointer] = table[k + 1][pointer]
        THEN <<Minus(table[k + 1].clk, table[k].clk)>> ELSE <<>>])

\* The differences the three tables look up.  The jump stack table cannot tell its
\* padding apart.
LookedUpDifferences(height) ==
    LookedUpBeforePadding(PaddedOpStackTable(height), "stack_pointer", "shrink_stack")
        \o LookedUpBeforePadding(PaddedRamTable(height), "ram_pointer", "instruction_type")
        \o ClockJumpDifferences(PaddedJumpStackTable(height), "jsp")
------------------------------------------------------------------------------
(***************************************************************************)
(* Part of MemoryTablesSatisfyAir: underflow memory is consistent.  What   *)
(* an instruction reads from a location of underflow memory is what was    *)
(* last written there, and memory grows one location at a time, starting   *)
(* behind the registers.                                                   *)
(***************************************************************************)
OpStackTableSatisfiesAir ==
    Finished => \A height \in PaddedHeights :
        LET table == PaddedOpStackTable(height)
        IN  /\ OpStackFirstRow(table[1])
            /\ \A pair \in ConsecutiveRows(table) : OpStackTransition(pair[1], pair[2])

(***************************************************************************)
(* Part of MemoryTablesSatisfyAir: in the RAM table, sorted by pointer and *)
(* clock, a read that follows an access of the same address sees the value *)
(* of that access, also for two reads of one address within one cycle.     *)
(***************************************************************************)
RamTableSatisfiesAir ==
    Finished => \A height \in PaddedHeights :
        LET table == PaddedRamTable(height)
        IN  /\ RamPointersAreContiguous(table)
            /\ \A pair \in ConsecutiveRows(table) : RamTransition(pair[1], pair[2])

(***************************************************************************)
(* Part of MemoryTablesSatisfyAir: at one depth of the jump stack, origin  *)
(* and destination change only across a return, and the clock jumps only   *)
(* across a call or a return; moving the rows below the highest clock      *)
(* behind the padding keeps it so.                                         *)
(***************************************************************************)
JumpStackTableSatisfiesAir ==
    Finished => \A height \in PaddedHeights :
        LET table == PaddedJumpStackTable(height)
        IN  /\ JumpStackFirstRow(table[1])
            /\ \A pair \in ConsecutiveRows(table) : JumpStackTransition(pair[1], pair[2])

(***************************************************************************)
(* The op stack, RAM and jump stack tables, filled from the trace, sorted  *)
(* and padded, satisfy their constraints.                                  *)
(***************************************************************************)
MemoryTablesSatisfyAir ==
    /\ OpStackTableSatisfiesAir
    /\ RamTableSatisfiesAir
    /\ JumpStackTableSatisfiesAir

(***************************************************************************)
(* The padded jump stack table is a permutation of the padded processor    *)
(* table's rows: the two pad differently, one in the middle and one at the *)
(* end, and the permutation argument makes no exception for padding.       *)
(***************************************************************************)
JumpStackArgumentBalances ==
    Finished => \A height \in PaddedHeights :
        LET processor_table == PaddedProcessorTable(height)
        IN  S!ToBag(PaddedJumpStackTable(height)) =
                S!ToBag([k \in DOMAIN processor_table |-> JumpStackRow(processor_table[k])])

(***************************************************************************)
(* Clock jump differences: the multiplicities in the processor table,      *)
(* counted before padding and then corrected for it, are the number of     *)
(* times the padded tables look up each clock cycle.                       *)
(***************************************************************************)
ClockJumpLookupBalances ==
    Finished => \A height \in PaddedHeights :
        LET processor_table == PaddedProcessorTable(height)
            served == {k \in DOMAIN processor_table : processor_table[k].cjd_multiplicity > 0}
        IN  S!ToBag(LookedUpDifferences(height)) =
                [clk \in {processor_table[k].clk : k \in served} |->
                    processor_table[clk + 1].cjd_multiplicity]
------------------------------------------------------------------------------
(***************************************************************************)
(* The virtual machine's RAM, seen through the calls its instructions      *)
(* record for the RAM table, is the logged memory.                         *)
(***************************************************************************)
Memory == INSTANCE LoggedMemory WITH
    Address <- Field, Value <- Field, contents <- ram, log <- ram_trace

(***************************************************************************)
(* Every iteration of trace_execution_of_state logs one batch of accesses  *)
(* that agree with the RAM's contents, or none: read_mem and write_mem,    *)
(* which touch memory word by word, and the instructions that gather       *)
(* operands from several places.                                           *)
(***************************************************************************)
RamIsLoggedMemory == Memory!LogSpec

(***************************************************************************)
(* What a read yields is what was last accessed at its address, over the   *)
(* whole trace.                                                            *)
(***************************************************************************)
RamTraceIsCoherent == Memory!LogIsCoherent
==============================================================================
