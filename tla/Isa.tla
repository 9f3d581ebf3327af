--------------------------------- MODULE Isa ---------------------------------
(***************************************************************************)
(* The instruction set (triton-isa/src/instruction.rs).  An instruction is *)
(* a mnemonic and an argument; mnemonics without argument carry 0.  A      *)
(* program memory holds a double-word instruction twice, once at its own   *)
(* address and once at the address of its argument.                        *)
(***************************************************************************)
EXTENDS TwentyFirst

CONSTANTS
    NumRegisters,   \* OpStackElement::COUNT, 16 in the code
    NumHelpers,     \* NUM_HELPER_VARIABLE_REGISTERS, 6 in the code
    MaxNumWords     \* the largest NumberOfWords, 5 in the code

(***************************************************************************)
(* The registers the instructions name must exist: st7 of merkle_step_mem, *)
(* the rate of the sponge, and two extension elements.                     *)
(***************************************************************************)
ASSUME RegisterAssumption ==
    /\ NumRegisters \in Nat
    /\ NumRegisters >= Rate
    /\ NumRegisters >= DigestLen + 3
    /\ NumRegisters >= 2 * ExtensionDegree
    /\ NumRegisters >= ExtensionDegree + 2
    /\ NumRegisters < P
    /\ NumHelpers \in 0 .. Rate
    /\ MaxNumWords \in 1 .. (NumRegisters - 1)

NumWordsOps == {"pop", "divine", "read_mem", "write_mem", "read_io", "write_io"}
RegisterOps == {"pick", "place", "dup", "swap"}
ElementOps == {"push", "call", "addi"}
DoubleWordOps == NumWordsOps \cup RegisterOps \cup ElementOps
SingleWordOps ==
    {"halt", "nop", "skiz", "return", "recurse", "recurse_or_return", "assert",
     "hash", "assert_vector", "sponge_init", "sponge_absorb", "sponge_absorb_mem",
     "sponge_squeeze", "add", "mul", "invert", "eq", "split", "lt", "and", "xor",
     "log_2_floor", "pow", "div_mod", "pop_count", "xx_add", "xx_mul", "x_invert",
     "xb_mul", "merkle_step", "merkle_step_mem", "xx_dot_step", "xb_dot_step"}

Register == 0 .. (NumRegisters - 1)

(***************************************************************************)
(* The legal arguments are those of the types NumberOfWords,               *)
(* OpStackElement and BFieldElement.                                       *)
(***************************************************************************)
Instruction ==
         [op : NumWordsOps, arg : 1 .. MaxNumWords]
    \cup [op : RegisterOps, arg : Register]
    \cup [op : ElementOps, arg : Field]
    \cup [op : SingleWordOps, arg : {0}]

Opcode ==
    [pop |-> 3, push |-> 1, divine |-> 9, pick |-> 17, place |-> 25, dup |-> 33,
     swap |-> 41, halt |-> 0, nop |-> 8, skiz |-> 2, call |-> 49, return |-> 16,
     recurse |-> 24, recurse_or_return |-> 32, assert |-> 10, read_mem |-> 57,
     write_mem |-> 11, hash |-> 18, assert_vector |-> 26, sponge_init |-> 40,
     sponge_absorb |-> 34, sponge_absorb_mem |-> 48, sponge_squeeze |-> 56,
     add |-> 42, addi |-> 65, mul |-> 50, invert |-> 64, eq |-> 58, split |-> 4,
     lt |-> 6, and |-> 14, xor |-> 22, log_2_floor |-> 12, pow |-> 30,
     div_mod |-> 20, pop_count |-> 28, xx_add |-> 66, xx_mul |-> 74,
     x_invert |-> 72, xb_mul |-> 82, read_io |-> 73, write_io |-> 19,
     merkle_step |-> 36, merkle_step_mem |-> 44, xx_dot_step |-> 80,
     xb_dot_step |-> 88]

\* The instruction bit `n` of an opcode.
InstructionBit(opcode, n) == (opcode \div 2^n) % 2

HasArg(i) == i.op \in DoubleWordOps
Size(i) == IF HasArg(i) THEN 2 ELSE 1

\* The instructions that shrink the stack by one.
ShrinkByOneWithoutPow ==  \* wrong: one forgotten
    {"skiz", "assert", "add", "mul", "eq", "lt", "and", "xor", "xb_mul"}
ShrinkByOne ==
    {"skiz", "assert", "add", "mul", "eq", "lt", "and", "xor", "pow", "xb_mul"}

OpStackSizeInfluence(i) ==
    CASE i.op \in {"push", "dup", "split"} -> 1
      [] i.op \in {"divine", "read_mem", "read_io"} -> i.arg
      [] i.op \in {"pop", "write_mem", "write_io"} -> -i.arg
      [] i.op \in ShrinkByOne -> -1
      [] i.op \in {"hash", "assert_vector"} -> -DigestLen
      [] i.op = "sponge_absorb" -> -Rate
      [] i.op = "sponge_squeeze" -> Rate
      [] i.op \in {"xx_add", "xx_mul"} -> -ExtensionDegree
      [] OTHER -> 0
==============================================================================
