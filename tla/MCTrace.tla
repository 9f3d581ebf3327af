-------------------------------- MODULE MCTrace -------------------------------
(***************************************************************************)
(* Traced executions with the code's register counts (16 registers, 6      *)
(* helper variables, digests of 5, a rate of 10, extension degree 3) over  *)
(* the field of 241 elements, where words have 4 bits.                     *)
(***************************************************************************)
EXTENDS ProcessorExtension, MCArithmetic, MCAssembly

(***************************************************************************)
(* 15 reads bring the stack to 31 elements, then any two instructions of   *)
(* the sample run.                                                         *)
(***************************************************************************)
Prologue == <<Instr("divine", 5), Instr("divine", 5), Instr("read_io", 5)>>

Arguments(op) ==
    IF op \in NumWordsOps THEN {2, 5}
    ELSE IF op = "dup" THEN {0, 1, 15}
    ELSE IF op \in RegisterOps THEN {1, 15}
    ELSE IF op \in {"push", "addi"} THEN {7}
    ELSE IF op = "call" THEN {6} ELSE {0}

Sample == UNION {[op : {op}, arg : Arguments(op)] : op \in DoubleWordOps \cup SingleWordOps}

Pairs == {Assemble(Prologue \o <<x, y, Plain("halt")>>) : x, y \in Sample}

(***************************************************************************)
(* Any three hashing instructions, in any order, on an initialized sponge. *)
(***************************************************************************)
HashInstructions ==
    [op : {"hash", "sponge_init", "sponge_absorb", "sponge_absorb_mem", "sponge_squeeze",
           "merkle_step", "merkle_step_mem"}, arg : {0}]

SpongePrograms ==
    {Assemble(Prologue \o <<Plain("sponge_init")>> \o s \o <<Plain("halt")>>) :
        s \in Sequences(HashInstructions, 3, 3)}

(***************************************************************************)
(* A procedure of up to three instructions at address 7, which calls into  *)
(* itself, recurses and returns early.                                     *)
(***************************************************************************)
JumpInstructions ==
    {Instr("call", 7), Instr("call", 8), Instr("call", 9), Instr("pop", 1)}
        \cup [op : {"return", "recurse", "recurse_or_return", "skiz", "halt"}, arg : {0}]

JumpPrograms ==
    {Assemble(<<Instr("divine", 5), Instr("read_io", 5), Instr("call", 7), Plain("halt")>>
                  \o s \o <<Plain("return")>>) :
        s \in Sequences(JumpInstructions, 1, 3)}

MCPrograms == Pairs \cup SpongePrograms \cup JumpPrograms

(***************************************************************************)
(* Small, large, equal and zero values on the stack, RAM ranges that meet  *)
(* and one that wraps around the end of memory.                            *)
(***************************************************************************)
MCPublicInputs == {<<13, 3, 1, 6, 9>>, <<4, 7, 238, 238, 237>>, <<9, 15, 6, 0, 0>>}
MCSecretTokens == {<<1, 1, 6, 6, 0, 0, 2, 7, 7, 5>>}
MCSecretDigests == {<<<<7, 240, 3, 0, 99>>, <<1, 2, 3, 4, 5>>>>}
MCInitialRams == {[a \in Field |-> (7 * a + 3) % P]}
==============================================================================
