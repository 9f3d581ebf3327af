------------------------------ MODULE LookupAir ------------------------------
(***************************************************************************)
(* The constraints of the cascade, lookup and program tables               *)
(* (triton-air/src/table/cascade.rs, lookup.rs, program.rs), the arguments *)
(* that link them and the hash table to each other and to the processor    *)
(* (triton-air/src/cross_table_argument.rs), and what all of them owe an   *)
(* honest prover.                                                          *)
(***************************************************************************)
EXTENDS HashAir

LOCAL S == INSTANCE SequencesExt

IsBit(x) == x \in {0, 1}
------------------------------------------------------------------------------
(* Cascade table. *)

CascadeAccumulates(row, aux, aux_next) ==
    IF row.is_padding = 1 THEN aux_next = aux
    ELSE /\ aux_next.hash_server = LookedUp(aux.hash_server, LimbLookup(row), row.multiplicity)
         /\ aux_next.lookup_client =
                LookedUp(LookedUp(aux.lookup_client, LoLookup(row), 1), HiLookup(row), 1)

CascadeInitialConstraints(row, aux) == CascadeAccumulates(row, CascadeAuxInitial, aux)
CascadeConsistencyConstraints(row) == IsBit(row.is_padding)
CascadeTransitionConstraints(row, next, aux, aux_next) ==
    /\ row.is_padding = 1 => next.is_padding = 1
    /\ CascadeAccumulates(next, aux, aux_next)
------------------------------------------------------------------------------
(* Lookup table. *)

LookupInitialConstraints(row, aux) ==
    /\ row.look_in = 0
    /\ aux.cascade_server = LookedUp(EmptyBag, <<0, row.look_out>>, row.multiplicity)
    /\ aux.public = <<row.look_out>>
LookupConsistencyConstraints(row) == IsBit(row.is_padding)
LookupTransitionConstraints(row, next, aux, aux_next) ==
    /\ row.is_padding = 1 => next.is_padding = 1
    /\ next.look_in = IF next.is_padding = 1 THEN 0 ELSE Plus(row.look_in, 1)
    /\ IF next.is_padding = 1 THEN aux_next = aux
       ELSE /\ aux_next.cascade_server =
                   LookedUp(aux.cascade_server, <<next.look_in, next.look_out>>, next.multiplicity)
            /\ aux_next.public = Append(aux.public, next.look_out)
LookupTerminalConstraints(aux) == aux.public = LookupTablePublicTerminal
------------------------------------------------------------------------------
(* Program table. *)

IsMaxIndex(row) == Times(row.max_minus_index_in_chunk_inv, Rate - 1 - row.index_in_chunk) # 1

ProgramInitialConstraints(row, aux) ==
    /\ row.address = 0 /\ row.index_in_chunk = 0 /\ row.is_hash_input_padding = 0
    /\ aux.instruction_lookup = EmptyBag
    /\ aux.prepare_chunk = <<row.instruction>>
    /\ aux.send_chunk = <<>>

ProgramConsistencyConstraints(row) ==
    LET max_minus_index_in_chunk == Minus(Rate - 1, row.index_in_chunk)
    IN  /\ Times(max_minus_index_in_chunk, row.max_minus_index_in_chunk_inv) = 1
               \/ (max_minus_index_in_chunk = 0 /\ row.max_minus_index_in_chunk_inv = 0)
        /\ IsBit(row.is_hash_input_padding) /\ IsBit(row.is_table_padding)

HashInputPaddingConstraints(row, next) ==
    /\ row.is_hash_input_padding = 0
           \/ (next.is_hash_input_padding = 1 /\ next.instruction = 0)
    /\ row.is_hash_input_padding = 1 \/ next.is_hash_input_padding = 0 \/ next.instruction = 1

TablePaddingEndsChunk(row, next) ==
    row.is_hash_input_padding = 1 /\ IsMaxIndex(row) => next.is_table_padding = 1

ProgramTransitionConstraints(row, next, aux, aux_next) ==
    /\ next.address = Plus(row.address, 1)
    /\ row.is_table_padding = 0 \/ next.is_table_padding = row.is_table_padding
    /\ next.index_in_chunk = IF IsMaxIndex(row) THEN 0 ELSE Plus(row.index_in_chunk, 1)
    /\ HashInputPaddingConstraints(row, next)
    /\ TablePaddingEndsChunk(row, next)
    /\ aux_next.instruction_lookup =
           IF row.is_hash_input_padding = 1 THEN aux.instruction_lookup
           ELSE LookedUp(aux.instruction_lookup, InstructionLookup(row, next), row.multiplicity)
    /\ aux_next.prepare_chunk =
           Append(IF row.index_in_chunk = Rate - 1 THEN <<>> ELSE aux.prepare_chunk,
                  next.instruction)
    /\ aux_next.send_chunk =
           IF next.is_table_padding = 0 /\ next.index_in_chunk = Rate - 1
           THEN Append(aux.send_chunk, aux_next.prepare_chunk) ELSE aux.send_chunk

ProgramTerminalConstraints(row) ==
    /\ row.is_hash_input_padding = 1
    /\ row.index_in_chunk = Rate - 1 \/ row.is_table_padding = 1
------------------------------------------------------------------------------
(* Cross-table arguments. *)

\* What the processor table accumulates for the arguments below.
ProcessorTerminals ==
    LET inputs == [k \in DOMAIN processor_trace |-> HashInputs(processor_trace[k])]
    IN  [instruction_lookup |-> S!ToBag(InstructionLookups),
         hash_input |-> S!FlattenSeq(inputs),
         hash_digest |-> Accumulated(HashDigests),
         sponge |-> Accumulated(SpongeRows)]

\* GrandCrossTableArg::terminal_constraints, as far as these tables take part.
CrossTableTerminals(program_table, processor, hash, cascade, lookup) ==
    LET limbs == S!FlattenSeq([e \in 1 .. NumSplitAndLookup |-> hash.cascade[e]])
    IN  /\ program_table.send_chunk = hash.receive_chunk
        /\ program_table.instruction_lookup = processor.instruction_lookup
        /\ hash.hash_input = processor.hash_input
        /\ hash.hash_digest = processor.hash_digest
        /\ hash.sponge = processor.sponge
        /\ cascade.hash_server = S!FoldLeft((+), EmptyBag, limbs)
        /\ cascade.lookup_client = lookup.cascade_server
------------------------------------------------------------------------------
(***************************************************************************)
(* Part of HashAndLookupTablesSatisfyAir, hash table: the rows of the      *)
(* recorded permutations, in the order program, sponge, hash, padding,     *)
(* satisfy the constraints on one and on two consecutive rows, and so do   *)
(* the auxiliary columns that extend derives from them in Rust.            *)
(***************************************************************************)
HashTableSatisfiesAir ==
    Finished =>
        LET table == HashTable
            aux == HashAux(table)
        IN  /\ HashInitialConstraints(table[1], aux[1])
            /\ \A row \in S!ToSet(table) : HashConsistencyConstraints(row)
            /\ \A k \in 1 .. (Len(table) - 1) :
                   HashTransitionConstraints(table[k], table[k + 1], aux[k], aux[k + 1])
            /\ HashTerminalConstraints(S!Last(table))

(***************************************************************************)
(* Cascade and lookup tables satisfy their constraints.                    *)
(***************************************************************************)
LookupTablesSatisfyAir ==
    Finished =>
        LET cascade == CascadeTable
            cascade_aux == CascadeAux(cascade)
            lookup == LookupTableRows
            lookup_aux == LookupAux(lookup)
        IN  /\ CascadeInitialConstraints(cascade[1], cascade_aux[1])
            /\ LookupInitialConstraints(lookup[1], lookup_aux[1])
            /\ LookupTerminalConstraints(S!Last(lookup_aux))
            /\ \A k \in DOMAIN cascade : CascadeConsistencyConstraints(cascade[k])
            /\ \A k \in DOMAIN lookup : LookupConsistencyConstraints(lookup[k])
            /\ \A k \in 1 .. (Len(cascade) - 1) :
                  CascadeTransitionConstraints(cascade[k], cascade[k + 1],
                                               cascade_aux[k], cascade_aux[k + 1])
            /\ \A k \in 1 .. (Len(lookup) - 1) :
                  LookupTransitionConstraints(lookup[k], lookup[k + 1],
                                              lookup_aux[k], lookup_aux[k + 1])

(***************************************************************************)
(* Program table: words, hash-input padding and table padding satisfy the  *)
(* constraints for programs that end anywhere in a chunk of the rate.      *)
(***************************************************************************)
ProgramTableSatisfiesAir ==
    Finished =>
        LET table == ProgramTable
            aux == ProgramAux(table)
        IN  /\ ProgramInitialConstraints(table[1], aux[1])
            /\ \A row \in S!ToSet(table) : ProgramConsistencyConstraints(row)
            /\ \A k \in 1 .. (Len(table) - 1) :
                  ProgramTransitionConstraints(table[k], table[k + 1], aux[k], aux[k + 1])
            /\ ProgramTerminalConstraints(S!Last(table))

(***************************************************************************)
(* The hash table, the program table and the two tables they feed satisfy  *)
(* their constraints, in every mode and round and across padding.          *)
(***************************************************************************)
HashAndLookupTablesSatisfyAir ==
    /\ HashTableSatisfiesAir
    /\ ProgramTableSatisfiesAir
    /\ LookupTablesSatisfyAir

(***************************************************************************)
(* The arguments between these tables and with the processor balance.      *)
(* What the hash table receives is the padded program; what it hashes,     *)
(* digests and absorbs is what the processor shows; every limb it looks up *)
(* is in the cascade table with the right multiplicity, and that table's   *)
(* bytes in the lookup table, although a limb's bytes are only counted     *)
(* when it is first seen.                                                  *)
(***************************************************************************)
CrossTableArgumentsBalance ==
    Finished =>
        CrossTableTerminals(S!Last(ProgramAux(ProgramTable)), ProcessorTerminals,
                            S!Last(HashAux(HashTable)), S!Last(CascadeAux(CascadeTable)),
                            S!Last(LookupAux(LookupTableRows)))

(***************************************************************************)
(* fill_program_hash_trace asserts that hashing the program chunk by chunk *)
(* gives Program::hash, the digest the op stack starts with.               *)
(***************************************************************************)
ProgramIsAttested == ProgramDigest(program_hash_trace) = ProgramHash(program)

\* What the columns of a row of the hash table may hold whatever the constraints
\* say: padding is arbitrary but for its bookkeeping, a result and an initial
\* sponge state are not looked up, and a result has no round constants.
\* In two rounds, the terms of HashInputConstraint cancel.
OpenColumns(row) ==
    LET hash_input_terms_cancel == \/ InMode(row, "Sponge") /\ row.round_number = 1
                                   \/ InMode(row, "ProgramHashing") /\ row.round_number = 2
    IN  IF InMode(row, "Pad") THEN {"look_in", "look_out", "state", "cascade"}
        ELSE (IF LooksUp(row) THEN {} ELSE {"look_out"})
                 \cup (IF row.round_number = NumRounds THEN {"constants"} ELSE {})
                 \cup (IF hash_input_terms_cancel THEN {"hash_input"} ELSE {})

\* The rows that differ from `row` in one field element.
Perturbed(row) ==
    LET elements(column) == DOMAIN row[column]
        split == (1 .. NumSplitAndLookup) \X (1 .. 4)
        open == OpenColumns(row)
    IN  {[row EXCEPT ![c] = Plus(@, 1)] : c \in {"mode", "ci", "round_number"}}
            \cup UNION {{[row EXCEPT ![c][k] = Plus(@, 1)] : k \in elements(c)} :
                            c \in {"state", "inv", "constants"} \ open}
            \cup UNION {{[row EXCEPT ![c][x[1]][x[2]] = Plus(@, 1)] : x \in split} :
                            c \in {"look_in", "look_out"} \ open}

Arguments == {"receive_chunk", "hash_input", "hash_digest", "sponge", "cascade"}

\* What `aux`, the auxiliary columns of `row`, might hold instead in one of the given
\* columns: the row once more, if it adds nothing there to what the columns of the row
\* before hold, or else nothing.
PerturbedAux(row, before, aux, columns) ==
    LET rate == RateOf(row)
        symbol == [receive_chunk |-> rate, hash_input |-> rate, hash_digest |-> DigestOf(row),
                   sponge |-> [ci |-> row.ci, rate |-> rate]]
        looked_up(e, l) ==
            LookedUp(before.cascade[e][l], <<row.look_in[e][l], row.look_out[e][l]>>, 1)
        split == (1 .. NumSplitAndLookup) \X (1 .. 4)
    IN  UNION {{[aux EXCEPT ![c] = value] :
                    value \in {before[c], Append(before[c], symbol[c])} \ {aux[c]}} :
                   c \in columns \cap DOMAIN symbol}
            \cup UNION {{[aux EXCEPT !.cascade[x[1]][x[2]] = value] :
                    value \in {before.cascade[x[1]][x[2]], looked_up(x[1], x[2])}
                                  \ {aux.cascade[x[1]][x[2]]}} :
                   x \in IF "cascade" \in columns THEN split ELSE {}}

(***************************************************************************)
(* Given the row before and what the arguments have accumulated, the       *)
(* constraints of the hash table leave no other value to any main or       *)
(* auxiliary column that is in use, but for the auxiliary columns that     *)
(* OpenColumns names, and they leave these open.  The constraints select   *)
(* cases by hand-written products of modes, instructions and round         *)
(* numbers and add them up; with one factor too many or one term too few a *)
(* case is left out, and no honest run notices.                            *)
(***************************************************************************)
HashConstraintsPinNextRow ==
    Finished =>
        LET table == HashTable
            aux == HashAux(table)
            first_padding == Len(FilledHashTable) + 1
            admitted(k, row, other) ==
                /\ HashConsistencyConstraints(row)
                /\ HashTransitionConstraints(table[k - 1], row, aux[k - 1], other)
            perturbed(k, columns) == PerturbedAux(table[k], aux[k - 1], aux[k], columns)
            open(k) == OpenColumns(table[k])
        IN  \A k \in 2 .. Len(table) : k <= first_padding =>
               /\ \A row \in Perturbed(table[k]) : ~admitted(k, row, aux[k])
               /\ \A other \in perturbed(k, Arguments \ open(k)) : ~admitted(k, table[k], other)
               /\ \A other \in perturbed(k, Arguments \cap open(k)) : admitted(k, table[k], other)

(***************************************************************************)
(* specification/src/hash-table.md says of each of the hash table's        *)
(* running evaluations and logarithmic derivatives in which rows it        *)
(* accumulates what.  "Otherwise, it remains unchanged."                   *)
(***************************************************************************)
ArgumentsRemainOtherwise ==
    Finished =>
        LET table == HashTable
            aux == HashAux(table)
        IN  \A k \in 2 .. Len(table) :
               \A other \in PerturbedAux(table[k], aux[k - 1], aux[k], Arguments) :
                  ~HashTransitionConstraints(table[k - 1], table[k], aux[k - 1], other)
==============================================================================
