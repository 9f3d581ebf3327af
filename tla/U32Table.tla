------------------------------- MODULE U32Table -------------------------------
(***************************************************************************)
(* The sections of the u32 table (triton-vm/src/table/u32.rs).  An entry   *)
(* becomes a section of rows.  Each row drops the least significant bits   *)
(* of the row above it, until nothing is left; the results are computed    *)
(* from the last row up.                                                   *)
(***************************************************************************)
EXTENDS Isa

U32Operations == {"split", "lt", "and", "log_2_floor", "pow", "pop_count"}

\* The operands in row `i` of the section, the first row being row 0.
LhsAt(e, i) == IF e.instruction = "pow" THEN e.left ELSE e.left \div 2^i
RhsAt(e, i) == e.right \div 2^i

IsLastRow(e, i) == (LhsAt(e, i) = 0 \/ e.instruction = "pow") /\ RhsAt(e, i) = 0

LastRow(e) ==
    LET from[i \in Nat] == IF IsLastRow(e, i) THEN i ELSE from[i + 1]
    IN  from[0]

LastResultUndecided(e, i) ==  \* wrong: `lt` of zeros stays undecided
    CASE e.instruction = "lt" -> 2
      [] e.instruction = "log_2_floor" -> P - 1
      [] e.instruction = "pow" -> 1
      [] OTHER -> 0

LastResult(e, i) ==
    CASE e.instruction = "lt" -> IF i = 0 THEN 0 ELSE 2
      [] e.instruction = "log_2_floor" -> P - 1
      [] e.instruction = "pow" -> 1
      [] OTHER -> 0

\* The result in row `i`, from the one in the row below it.
ResultAbove(e, i, below) ==
    LET lsb_l == LhsAt(e, i) % 2
        lsb_r == RhsAt(e, i) % 2
    IN  CASE e.instruction = "split" -> below
          [] e.instruction = "lt" ->
                 IF below \in {0, 1} THEN below
                 ELSE IF lsb_l # lsb_r THEN lsb_r
                 ELSE IF i = 0 THEN 0 ELSE 2
          [] e.instruction = "and" -> Plus(2 * below, lsb_l * lsb_r)
          [] e.instruction = "log_2_floor" ->
                 IF LhsAt(e, i) = 0 THEN P - 1
                 ELSE IF LhsAt(e, i + 1) # 0 THEN below ELSE i
          [] e.instruction = "pow" ->
                 IF lsb_r = 0 THEN Times(below, below)
                 ELSE Times(Times(below, below), LhsAt(e, i))
          [] e.instruction = "pop_count" -> below + lsb_l

\* The section's rows.  The first one carries the copy flag.
Section(e) ==
    LET last == LastRow(e)
        result[i \in 0 .. last] ==
            IF i = last THEN LastResult(e, i) ELSE ResultAbove(e, i, result[i + 1])
    IN  [k \in 1 .. (last + 1) |->
            [copy_flag |-> IF k = 1 THEN 1 ELSE 0, bits |-> k - 1,
             ci |-> Opcode[e.instruction], lhs |-> LhsAt(e, k - 1),
             rhs |-> RhsAt(e, k - 1), result |-> result[k - 1]]]

\* U32TableEntry::table_height_contribution.
HeightWithoutLastRow(e) ==  \* wrong: off by one
    LET dominant == IF e.instruction = "pow" \/ e.right > e.left THEN e.right ELSE e.left
    IN  IF dominant = 0 THEN 1 ELSE 1 + Ilog2(dominant)
TableHeightContribution(e) ==
    LET dominant == IF e.instruction = "pow" \/ e.right > e.left THEN e.right ELSE e.left
    IN  IF dominant = 0 THEN 1 ELSE 2 + Ilog2(dominant)

\* The row with which U32Table::fill and ::pad fill the rest of the table.
PaddingRowCopied(last_row) ==  \* wrong: also behind an `lt` of zeros
    [copy_flag |-> 0, bits |-> 0, ci |-> last_row.ci, lhs |-> last_row.lhs, rhs |-> 0,
     result |-> last_row.result]
PaddingRow(last_row) ==
    [copy_flag |-> 0, bits |-> 0, ci |-> last_row.ci, lhs |-> last_row.lhs, rhs |-> 0,
     result |-> IF last_row.ci = Opcode["lt"] THEN 2 ELSE last_row.result]
==============================================================================
