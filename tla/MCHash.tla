-------------------------------- MODULE MCHash --------------------------------
(***************************************************************************)
(* Hash co-processor over the field of 241 elements: words of four bits,   *)
(* limbs of two, bytes of one, permutations of two rounds; the rate, the   *)
(* digest and the state have the code's lengths.                           *)
(***************************************************************************)
EXTENDS LookupAir, Profile, MCArithmetic, MCAssembly

MCLookupTable == [b \in Byte |-> ByteSize - 1 - b]
MCRoundConstants ==
    [r \in 0 .. (NumRounds - 1) |-> [k \in 1 .. StateSize |-> (31 * r + k * k + 5) % P]]
MCMdsFirstColumn == [k \in 0 .. (StateSize - 1) |-> (k * k * k + 2 * k + 7) % P]

MCPermutation(state) == Permutation(state)
MCHashVarlen(p) == HashVarlen(ToBwords(p))

Prologue == <<Instr("divine", 5), Instr("divine", 5), Instr("read_io", 5)>>
HashInstructions ==
    [op : {"hash", "sponge_init", "sponge_absorb", "sponge_absorb_mem", "sponge_squeeze",
           "merkle_step", "merkle_step_mem"}, arg : {0}]

(***************************************************************************)
(* Subroutines: one that recurses once, with the same u32 operation each   *)
(* time; one that is called from two depths and behind a skipped call; and *)
(* one that halts inside of a nested call.                                 *)
(***************************************************************************)
Splitting == <<Instr("push", 19), Plain("split"), Instr("pop", 2)>>
Recursing ==
    <<Instr("push", 2), Instr("place", 6), Instr("call", 7), Plain("halt")>>
        \o <<Instr("pick", 5), Instr("addi", 1), Instr("place", 5)>> \o Splitting
        \o <<Plain("recurse_or_return")>>
Sharing ==
    <<Instr("call", 10), Instr("push", 0), Plain("skiz"), Instr("call", 10),
      Instr("call", 14), Plain("halt")>>
        \o <<Plain("sponge_init"), Instr("call", 14), Plain("return")>>
        \o Splitting \o <<Plain("return")>>
Halting ==
    <<Instr("call", 3), Plain("halt")>>
        \o <<Instr("push", 5), Instr("push", 1), Instr("write_mem", 1), Instr("pop", 1),
             Instr("call", 14), Plain("return")>>
        \o <<Plain("sponge_init"), Plain("sponge_squeeze"), Plain("halt")>>

(***************************************************************************)
(* Any two hashing instructions on an initialized sponge, and programs     *)
(* that end right before, at and right behind the end of a chunk.          *)
(***************************************************************************)
MCPrograms ==
    {Assemble(Prologue \o <<Plain("sponge_init")>> \o s \o <<Plain("halt")>>) :
        s \in Sequences(HashInstructions, 1, 2)}
    \cup {Assemble([k \in 1 .. n |-> Plain("nop")] \o <<Plain("halt")>>) : n \in {0, 7, 8, 9, 18, 19}}
    \cup {Assemble(Recursing), Assemble(Sharing), Assemble(Halting)}
    \cup {Assemble(Prologue \o <<Plain("hash"), Plain("skiz"), Plain("hash"), Plain("halt")>>)}

MCPublicInputs == {<<4, 7, 238, 238, 237>>}
MCSecretTokens == {<<1, 1, 6, 6, 0, 0, 2, 7, 7, 5>>}
MCSecretDigests == {<<<<7, 240, 3, 0, 99>>, <<1, 2, 3, 4, 5>>>>}
MCInitialRams == {[a \in Field |-> (7 * a + 3) % P]}
==============================================================================
