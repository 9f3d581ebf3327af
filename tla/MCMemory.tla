------------------------------- MODULE MCMemory -------------------------------
(***************************************************************************)
(* Memory-like tables of executions with the code's register counts over   *)
(* the field of 241 elements.                                              *)
(***************************************************************************)
EXTENDS MemoryAir, MCArithmetic, MCAssembly

Prologue == <<Instr("divine", 5), Instr("divine", 5), Instr("read_io", 5)>>

(***************************************************************************)
(* Any three instructions that access RAM or move the stack pointer in     *)
(* different ways.                                                         *)
(***************************************************************************)
RamInstructions ==
    [op : {"read_mem", "write_mem"}, arg : {1, 3}]
        \cup [op : {"xx_dot_step", "xb_dot_step", "merkle_step_mem", "sponge_absorb_mem"},
              arg : {0}]
        \cup {Instr("swap", 1), Instr("pop", 1), Instr("push", 1)}

RamPrograms ==
    {Assemble(Prologue \o <<Plain("sponge_init")>> \o s \o <<Plain("halt")>>) :
        s \in Sequences(RamInstructions, 3, 3)}

(***************************************************************************)
(* A procedure of up to four instructions at address 7, which calls into   *)
(* itself, recurses and returns early.                                     *)
(***************************************************************************)
JumpInstructions ==
    {Instr("call", 7), Instr("call", 8), Instr("call", 9), Instr("pop", 1)}
        \cup [op : {"return", "recurse", "recurse_or_return", "skiz", "halt"}, arg : {0}]

JumpPrograms ==
    {Assemble(<<Instr("read_io", 5), Instr("read_io", 3), Instr("call", 7), Plain("halt")>>
                  \o s \o <<Plain("return")>>) :
        s \in Sequences(JumpInstructions, 1, 4)}

(***************************************************************************)
(* The jump programs read all of the longest input and stop early on the   *)
(* others.                                                                 *)
(***************************************************************************)
MCPrograms == RamPrograms \cup JumpPrograms
MCPublicInputs == {<<13, 3, 1, 6, 7>>, <<4, 7, 8, 239, 239>>, <<0, 0, 7, 7, 0, 1, 0, 2>>}
MCSecretTokens == {<<1, 1, 6, 6, 0, 0, 2, 7, 7, 5>>}
MCSecretDigests == {<<>>}
MCInitialRams == {[a \in Field |-> (7 * a + 3) % P]}
==============================================================================
