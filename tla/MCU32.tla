--------------------------------- MODULE MCU32 --------------------------------
(***************************************************************************)
(* All tables of one entry over words of 4 bits, and all tables of two     *)
(* entries from a list with the edge cases of every operation.             *)
(***************************************************************************)
EXTENDS U32Fill, MCArithmetic

Entries(ops, lefts, rights) ==
    [instruction : ops, left : lefts, right : rights]

\* What the virtual machine makes entries of.
MCEntries ==
    Entries({"split", "lt", "and"}, Word, Word)
        \cup Entries({"pow"}, Word \cup {16, 100, P - 1}, Word)
        \cup Entries({"log_2_floor"}, Word \ {0}, {0})
        \cup Entries({"pop_count"}, Word, {0})

EdgeEntries ==
    Entries({"split", "lt", "and"}, {0, 1, 15}, {0, 15})
        \cup Entries({"pow"}, {0, 100}, {0, 15})
        \cup Entries({"log_2_floor", "pop_count"}, {1, 8, 15}, {0})

MCEntrySets ==
    {{}} \cup {{e} : e \in MCEntries} \cup {{e, f} : e, f \in EdgeEntries}
==============================================================================
