----------------------------- MODULE LoggedMemory -----------------------------
(***************************************************************************)
(* What the virtual machine promises of its RAM: a memory whose accesses   *)
(* are logged in batches, one batch per clock cycle.  A batch either reads *)
(* or writes.  It is the memory the RAM table of the trace testifies to.   *)
(***************************************************************************)
EXTENDS Naturals, Sequences

CONSTANTS Address, Value

VARIABLES
    contents,   \* what every address holds
    log         \* the accesses so far

logVars == <<contents, log>>

Access == [clk : Nat, ram_pointer : Address, ram_value : Value, is_write : BOOLEAN]

LogInit == contents \in [Address -> Value] /\ log = <<>>

Batch == SubSeq(log', Len(log) + 1, Len(log'))

LogsBatch ==
    /\ Batch # <<>> /\ Batch \in Seq(Access)
    /\ log' = log \o Batch
    /\ \A k \in DOMAIN Batch : Batch[k].clk = Batch[1].clk
    /\ log # <<>> => log[Len(log)].clk < Batch[1].clk

\* Every read sees the contents.
Reads ==
    /\ LogsBatch
    /\ \A k \in DOMAIN Batch :
           ~Batch[k].is_write /\ Batch[k].ram_value = contents[Batch[k].ram_pointer]
    /\ UNCHANGED contents

\* No address is written twice in one cycle.
Writes ==
    /\ LogsBatch
    /\ \A k \in DOMAIN Batch : Batch[k].is_write
    /\ \A j, k \in DOMAIN Batch : Batch[j].ram_pointer = Batch[k].ram_pointer => j = k
    /\ contents' = [a \in Address |->
           IF \E k \in DOMAIN Batch : Batch[k].ram_pointer = a
           THEN Batch[CHOOSE k \in DOMAIN Batch : Batch[k].ram_pointer = a].ram_value
           ELSE contents[a]]

LogNext == Reads \/ Writes

LogSpec == LogInit /\ [][LogNext]_logVars
------------------------------------------------------------------------------
(***************************************************************************)
(* The promise: of two accesses of one address with no write behind the    *)
(* first, the second has the value of the first, and the clock never runs  *)
(* backwards.                                                              *)
(***************************************************************************)
LogIsCoherent ==
    \A i, j \in DOMAIN log : i < j =>
        /\ log[i].clk <= log[j].clk
        /\ log[i].ram_pointer = log[j].ram_pointer
               /\ (\A k \in (i + 1) .. j : log[k].ram_pointer = log[i].ram_pointer
                                               => ~log[k].is_write)
           => log[j].ram_value = log[i].ram_value
==============================================================================
