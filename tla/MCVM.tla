--------------------------------- MODULE MCVM --------------------------------
(***************************************************************************)
(* The virtual machine over the field of 13 elements (words of 2 bits),    *)
(* with digests of 2 elements, a rate of 4, extension elements of 2        *)
(* coefficients and 5 registers, on all programs of a given shape.         *)
(***************************************************************************)
EXTENDS VMTypes, MCArithmetic, MCAssembly

(***************************************************************************)
(* Five reads, two secret ones first, then any two instructions.  Every    *)
(* instruction meets every other, on stacks of 5 to 10 elements that hold  *)
(* small and large values, equal and different ones.                       *)
(***************************************************************************)
Arguments(op) ==
    IF op \in NumWordsOps THEN {1, 3}
    ELSE IF op \in RegisterOps THEN {0, 1, NumRegisters - 1}
    ELSE IF op \in {"push", "addi"} THEN {5}
    ELSE IF op = "call" THEN {4} ELSE {0}

Sample == UNION {[op : {op}, arg : Arguments(op)] : op \in DoubleWordOps \cup SingleWordOps}

Pairs ==
    {Assemble(<<Instr("divine", 2), Instr("read_io", 3), x, y>>) : x, y \in Sample}

(***************************************************************************)
(* Control flow only: three reads, then up to three instructions from a    *)
(* list with every jump, whose calls target any address of the program or  *)
(* the first behind it, then a return.                                     *)
(***************************************************************************)
JumpInstructions ==
    [op : {"return", "recurse", "recurse_or_return", "skiz", "halt"}, arg : {0}]
        \cup [op : {"call"}, arg : 0 .. 9] \cup {Instr("push", 1)}

Jumps ==
    {Assemble(<<Instr("read_io", 3)>> \o s \o <<Plain("return")>>) :
        s \in Sequences(JumpInstructions, 1, 3)}

MCPrograms == Pairs \cup Jumps

\* Public input and secret tokens of a program.
PairInputs ==
    {<<<<1, 1, 0>>, <<1, 1, 2>>>>, <<<<1, 1, 0>>, <<0, 3, 9, 4, 4>>>>,
     <<<<3, 2, 7, 1, 12>>, <<0, 3, 9, 4, 4>>>>, <<<<0, 0, 1, 1>>, <<1, 1, 2>>>>}
JumpInputs == {<<<<0, 1, 0, 1, 1, 0, 0, 1, 1>>, <<>>>>}

MCPublicInputs == {i[1] : i \in PairInputs \cup JumpInputs}
MCSecretTokens == {i[2] : i \in PairInputs \cup JumpInputs}
MCSecretDigests == {<<<<2, 11>>>>}
MCInitialRams == {[a \in Field |-> (5 * a + 3) % P]}

\* Every program runs with the inputs of its kind; pairs begin with a secret read.
InputsOfProgram == IF program[1].op = "divine" THEN PairInputs ELSE JumpInputs

MCInit == Init /\ <<public_input, secret_individual_tokens>> \in InputsOfProgram
MCSpec == MCInit /\ [][VMNext]_vmVars /\ VMFairness
==============================================================================
