------------------------------ MODULE MCAssembly ------------------------------
(***************************************************************************)
(* Writing programs for the instances.                                     *)
(***************************************************************************)
EXTENDS Isa

Instr(op, arg) == [op |-> op, arg |-> arg]
Plain(op) == Instr(op, 0)

\* The program memory of a sequence of instructions.
Assemble(instructions) ==
    LET words[n \in 0 .. Len(instructions)] ==
            IF n = 0 THEN <<>>
            ELSE words[n - 1] \o [k \in 1 .. Size(instructions[n]) |-> instructions[n]]
    IN  words[Len(instructions)]

\* All sequences of `low` to `high` elements of S.
Sequences(S, low, high) == UNION {[1 .. n -> S] : n \in low .. high}
==============================================================================
