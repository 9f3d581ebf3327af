----------------------------- MODULE MCAssembler -----------------------------
(***************************************************************************)
(* All sources of up to four lexemes, and all sequences of up to four      *)
(* words, from lists with the edge cases of every check.                   *)
(***************************************************************************)
EXTENDS Assembler, MCArithmetic, MCAssembly

Name(stem) == [stem |-> stem, number |-> NoNumber]
\* A name that also stands in for a missing one.
Address2 == [stem |-> "address_", number |-> 2]
PushLiteral(negative, digits) ==
    [op |-> "push", literal |-> [negative |-> negative, digits |-> digits]]

Lexemes ==
    {Plain("nop"), Plain("assert"), Instr("pop", 2)}
        \cup [op : {"call"}, label : {Name("main"), Address2}]
        \cup [declares : {Name("main"), Address2}]
        \cup {[break |-> TRUE], [error_id |-> 7]}
        \cup [hint : {"x"}, from : {1}, to : {NoEnd, 3}]

\* What single tokens may be wrong or odd about.
OddLexemes ==
    {Instr("pop", 0), Instr("pop", MaxNumWords), Instr("pop", MaxNumWords + 1),
     Instr("swap", 0), Instr("swap", NumRegisters - 1), Instr("swap", NumRegisters),
     PushLiteral(FALSE, 0), PushLiteral(TRUE, 0), PushLiteral(TRUE, 1),
     PushLiteral(FALSE, P - 1), PushLiteral(TRUE, P - 1), PushLiteral(FALSE, P),
     PushLiteral(TRUE, P), PushLiteral(FALSE, P \div 2),
     [declares |-> Name("hint")], [declares |-> Name("pop")],
     [declares |-> Name("break")], [op |-> "call", label |-> Name("swap")],
     Plain("assert_vector"), [error_id |-> 1],
     [hint |-> "x", from |-> 1, to |-> 1], [hint |-> "x", from |-> 1, to |-> 2]}

MCSources == Sequences(Lexemes, 0, 4) \cup Sequences(OddLexemes, 1, 2)

MCWords == {Opcode[op] : op \in {"halt", "push", "call", "pop", "swap", "return"}}
    \cup {0, 1, 2, 4, 5, 6, 15, 200}
MCWordSequences == Sequences(MCWords, 0, 4)
==============================================================================
