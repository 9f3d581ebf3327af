-------------------------------- MODULE U32Fill -------------------------------
(***************************************************************************)
(* The construction of the whole u32 table: U32Table::fill and ::pad       *)
(* (triton-vm/src/table/u32.rs), and what the constraints of               *)
(* triton-air/src/table/u32.rs demand of it.  The entries are the keys of  *)
(* an IndexMap, so their order is that of the execution that made them:    *)
(* here, any order.                                                        *)
(***************************************************************************)
EXTENDS U32Table, FiniteSets

LOCAL S == INSTANCE SequencesExt

CONSTANTS
    EntrySets,      \* the sets of entries a table is built from
    MaxPaddingRows  \* how many padding rows are looked at

VARIABLES
    entries,    \* the entries that have no section yet
    filled,     \* the ones that have one
    u32_table,  \* the rows so far
    padded      \* whether pad has run

u32Vars == <<entries, filled, u32_table, padded>>

FillInit ==
    /\ entries \in EntrySets
    /\ filled = {}
    /\ u32_table = <<>>
    /\ padded = FALSE

FillSection(e) ==
    /\ e \in entries
    /\ u32_table' = u32_table \o Section(e)
    /\ entries' = entries \ {e}
    /\ filled' = filled \cup {e}
    /\ UNCHANGED padded

\* An empty table is padded with rows of a `split` of zeros.
EmptyTableRow ==
    [copy_flag |-> 0, bits |-> 0, ci |-> Opcode["split"], lhs |-> 0, rhs |-> 0, result |-> 0]

Pad(num_rows) ==
    /\ entries = {}
    /\ ~padded
    /\ LET row == IF u32_table = <<>> THEN EmptyTableRow
                                      ELSE PaddingRow(u32_table[Len(u32_table)])
       IN  u32_table' = u32_table \o [k \in 1 .. num_rows |-> row]
    /\ padded' = TRUE
    /\ UNCHANGED <<entries, filled>>

FillNext == (\E e \in entries : FillSection(e)) \/ (\E n \in 0 .. MaxPaddingRows : Pad(n))

FillSpec == FillInit /\ [][FillNext]_u32Vars
------------------------------------------------------------------------------
(* The constraints. *)

IsOp(row, op) == row.ci = Opcode[op]

\* Bits = 33 has no inverse of Bits - 33.
Consistent(row) ==
    /\ row.copy_flag = 1 => row.bits = 0
    /\ 2^row.bits # 2 * WordSize
    /\ LET both_are_0 == row.lhs = 0 /\ row.rhs = 0
       IN  /\ IsOp(row, "lt") /\ both_are_0 => row.result = 2 * (1 - row.copy_flag)
           /\ IsOp(row, "and") /\ both_are_0 => row.result = 0
           /\ IsOp(row, "pow") /\ row.rhs = 0 => row.result = 1
           /\ IsOp(row, "log_2_floor") /\ row.lhs = 0 =>
                  row.copy_flag = 0 /\ row.result = P - 1
           /\ IsOp(row, "pop_count") /\ row.lhs = 0 => row.result = 0

NewSection(row) == row.rhs = 0 /\ (row.lhs = 0 \/ IsOp(row, "pow"))

LtContinues(row, next, lsb_l, lsb_r) ==
    row.result = IF next.result \in {0, 1} THEN next.result
                 ELSE IF lsb_l # lsb_r THEN lsb_r
                 ELSE 2 * (1 - row.copy_flag)

Continues(row, next) ==
    LET lsb_l == Minus(row.lhs, 2 * next.lhs)
        lsb_r == Minus(row.rhs, 2 * next.rhs)
        squared == Times(next.result, next.result)
    IN  /\ next.ci = row.ci
        /\ row.rhs # 0 \/ (row.lhs # 0 /\ ~IsOp(row, "pow")) => next.bits = row.bits + 1
        /\ lsb_l \in {0, 1} \/ IsOp(row, "pow")
        /\ lsb_r \in {0, 1}
        /\ IsOp(row, "lt") => next.result \in {0, 1, 2} /\ LtContinues(row, next, lsb_l, lsb_r)
        /\ IsOp(row, "and") => row.result = Plus(2 * next.result, lsb_l * lsb_r)
        /\ IsOp(row, "log_2_floor") =>
               /\ next.lhs = 0 /\ row.lhs # 0 => row.result = row.bits
               /\ next.lhs # 0 => row.result = next.result
        /\ IsOp(row, "pow") =>
               /\ next.lhs = row.lhs
               /\ row.result = IF lsb_r = 0 THEN squared ELSE Times(squared, row.lhs)
        /\ IsOp(row, "pop_count") => row.result = Plus(next.result, lsb_l)
------------------------------------------------------------------------------
(***************************************************************************)
(* The table satisfies the constraints while it is filled and when it is   *)
(* padded, whatever entries come first and last: sections end where the    *)
(* next one may begin, and the padding continues the last one, also when   *)
(* that is an `lt` of zeros or a `pow` whose base never vanishes.          *)
(***************************************************************************)
U32TableSatisfiesAir ==
    /\ \A k \in DOMAIN u32_table : Consistent(u32_table[k])
    /\ \A k \in 1 .. (Len(u32_table) - 1) :
           LET next == u32_table[k + 1]
           IN  IF next.copy_flag = 1 THEN NewSection(u32_table[k])
                                     ELSE Continues(u32_table[k], next)

\* What the u32 instructions are documented to compute.
Meaning(e) ==
    CASE e.instruction = "split" -> 0
      [] e.instruction = "lt" -> IF e.left < e.right THEN 1 ELSE 0
      [] e.instruction = "and" -> BitAnd(e.left, e.right)
      [] e.instruction = "log_2_floor" -> Ilog2(e.left)
      [] e.instruction = "pow" -> ModPow(e.left, e.right)
      [] e.instruction = "pop_count" -> CountOnes(e.left)

(***************************************************************************)
(* The rows with the copy flag are exactly the entries with their results  *)
(* from Rust's arithmetic, which is what the processor looks up.           *)
(***************************************************************************)
CopiedRowsAreExact ==
    LET copied == {k \in DOMAIN u32_table : u32_table[k].copy_flag = 1}
    IN  {<<u32_table[k].ci, u32_table[k].lhs, u32_table[k].rhs, u32_table[k].result>> :
            k \in copied}
        = {<<Opcode[e.instruction], e.left, e.right, Meaning(e)>> : e \in filled}

(***************************************************************************)
(* aet.rs predicts the height of the table from the operands, before the   *)
(* table is built, and memory is reserved by the prediction: a section     *)
(* longer than predicted would be assigned out of bounds.                  *)
(***************************************************************************)
HeightIsPredicted ==
    ~padded => Len(u32_table) = S!FoldLeft(LAMBDA sum, e : sum + TableHeightContribution(e),
                                           0, S!SetToSeq(filled))
==============================================================================
