------------------------------ MODULE HashTables ------------------------------
(***************************************************************************)
(* The hash, cascade, lookup and program tables of a finished execution,   *)
(* as fill, pad and extend build them (triton-vm/src/table/hash.rs,        *)
(* cascade.rs, lookup.rs, program.rs).                                     *)
(*                                                                         *)
(* An auxiliary column accumulates rows compressed by random weights.      *)
(* Here it holds what it has accumulated: a running evaluation the         *)
(* sequence of rows, a logarithmic derivative the bag of rows.             *)
(***************************************************************************)
EXTENDS HashTrace, FiniteSets

LOCAL S == INSTANCE SequencesExt

\* AlgebraicExecutionTrace::height_of_table, of every table.
HashTableHeight ==
    LET rows(c) == IF c.ci = "sponge_init" THEN 1 ELSE NumRounds + 1
        height(trace) == S!FoldLeft(LAMBDA sum, c : sum + rows(c), 0, trace)
    IN  Len(program_hash_trace) * (NumRounds + 1) + height(sponge_trace) + height(hash_trace)
U32TableHeight == S!MapThenSumSet(LAMBDA e : Len(Section(e)), BagToSet(u32_entries))
TableHeights ==
    {PaddedProgramLength(program), Len(processor_trace), Len(op_stack_underflow_trace),
     Len(ram_trace), HashTableHeight, Cardinality(DOMAIN cascade_table_lookup_multiplicities),
     ByteSize, U32TableHeight}

\* AlgebraicExecutionTrace::padded_height.
PaddedHeight ==
    S!Min({m \in {2^k : k \in 0 .. 12} : \A h \in TableHeights : h <= m})

Padded(rows, template(_)) ==
    rows \o [k \in 1 .. (PaddedHeight - Len(rows)) |-> template(Len(rows) + k - 1)]
------------------------------------------------------------------------------
(* Hash table. *)

HashTableMode == [ProgramHashing |-> 1, Sponge |-> 2, Hash |-> 3, Pad |-> 0]
InMode(row, mode) == row.mode = HashTableMode[mode]

LookUpByte(b) == LookupTable[b]
\* lookup_16_bit_limb.
LookUpLimb(limb) == ByteSize * LookUpByte(HiByte(limb)) + LookUpByte(LoByte(limb))

InverseOfHighestLimb(x) ==  \* wrong: forgets the second-highest limb
    InverseOrZero(Minus(WordSize - 1, Limbs(x)[4] * LimbSize))
InverseOrZeroOfHighest2Limbs(x) ==
    InverseOrZero(Minus(WordSize - 1, Limbs(x)[4] * LimbSize + Limbs(x)[3]))

\* HashTable::tip5_round_constants_by_round_number.
RoundConstantsByRoundNumber(r) ==
    IF r >= NumRounds THEN [k \in 1 .. StateSize |-> 0] ELSE RoundConstants[r]

\* trace_row_to_table_row, with the mode and the instruction its part of the
\* table gets.  Limbs stand in the order of their significance, lowest first.
HashRow(mode, ci, state, round_number) ==
    LET split == 1 .. NumSplitAndLookup
        limbs == Row(NumSplitAndLookup, LAMBDA e : Limbs(state[e]))
    IN  [mode |-> mode, ci |-> ci, round_number |-> round_number,
         look_in |-> limbs,
         look_out |-> Row(NumSplitAndLookup, LAMBDA e : Row(4, LAMBDA l : LookUpLimb(limbs[e][l]))),
         state |-> SubSeq(state, NumSplitAndLookup + 1, StateSize),
         inv |-> Row(NumSplitAndLookup, LAMBDA e : InverseOrZeroOfHighest2Limbs(state[e])),
         constants |-> RoundConstantsByRoundNumber(round_number)]

\* trace_to_table_rows.
PermutationRows(mode, ci, state) ==
    LET trace == PermutationTrace(state)
    IN  [r \in DOMAIN trace |-> HashRow(mode, ci, trace[r], r - 1)]

FilledHashTable ==
    LET rows(mode, permutations) == S!FlattenSeq([k \in DOMAIN permutations |->
            IF permutations[k].ci = "sponge_init"
            THEN <<HashRow(HashTableMode[mode], Opcode["sponge_init"], permutations[k].state, 0)>>
            ELSE PermutationRows(HashTableMode[mode], Opcode[permutations[k].ci], permutations[k].state)])
    IN  S!FlattenSeq([k \in DOMAIN program_hash_trace |->
                        PermutationRows(HashTableMode.ProgramHashing, Opcode["hash"], program_hash_trace[k])])
            \o rows("Sponge", sponge_trace) \o rows("Hash", hash_trace)

\* Everything in a padding row is zero, except for the inverses, the constants of
\* round 0 and the instruction.
HashPaddingRow ==
    LET zeros(n) == [k \in 1 .. n |-> 0]
        zero_limbs == [e \in 1 .. NumSplitAndLookup |-> zeros(4)]
        inverse == InverseOrZeroOfHighest2Limbs(0)
    IN  [mode |-> HashTableMode.Pad, ci |-> Opcode["hash"], round_number |-> 0,
         look_in |-> zero_limbs, look_out |-> zero_limbs,
         state |-> zeros(StateSize - NumSplitAndLookup),
         inv |-> [e \in 1 .. NumSplitAndLookup |-> inverse],
         constants |-> RoundConstantsByRoundNumber(0)]

HashTable == LET padding == HashPaddingRow IN Padded(FilledHashTable, LAMBDA k : padding)

\* rate_registers.
ReCompose(limbs) ==
    Times((limbs[1] + limbs[2] * LimbSize + limbs[3] * LimbSize^2 + limbs[4] * LimbSize^3) % P,
          InverseOf(MontgomeryModulus))
RateRegisters(row) ==
    [e \in 1 .. NumSplitAndLookup |-> ReCompose(row.look_in[e])]
        \o SubSeq(row.state, 1, Rate - NumSplitAndLookup)

\* One more look-up, or m of them, of a compressed row.
LookedUp(log_derivative, row, m) ==
    IF m = 0 THEN log_derivative ELSE log_derivative (+) [r \in {row} |-> m]

HashAuxInitial ==
    [receive_chunk |-> <<>>, hash_input |-> <<>>, hash_digest |-> <<>>, sponge |-> <<>>,
     cascade |-> [e \in 1 .. NumSplitAndLookup |-> [l \in 1 .. 4 |-> EmptyBag]]]

LooksUp(row) ==
    ~InMode(row, "Pad") /\ row.round_number # NumRounds /\ row.ci # Opcode["sponge_init"]

\* What one row adds to the auxiliary columns.  With sponge_init, the rate is not
\* accumulated.
ExtendHashRow(aux, row) ==
    LET rate == RateRegisters(row)
        in_round_0 == row.round_number = 0
        in_last_round == row.round_number = NumRounds
        is_sponge_init == row.ci = Opcode["sponge_init"]
        appended(column, condition, symbol) ==
            IF condition THEN Append(column, symbol) ELSE column
    IN  [receive_chunk |->
             appended(aux.receive_chunk, InMode(row, "ProgramHashing") /\ in_round_0, rate),
         hash_input |-> appended(aux.hash_input, InMode(row, "Hash") /\ in_round_0, rate),
         hash_digest |-> appended(aux.hash_digest, InMode(row, "Hash") /\ in_last_round,
                                  SubSeq(rate, 1, DigestLen)),
         sponge |-> appended(aux.sponge, InMode(row, "Sponge") /\ in_round_0,
             [ci |-> row.ci,
              rate |-> IF is_sponge_init THEN [k \in 1 .. Rate |-> 0] ELSE rate]),
         cascade |-> Row(NumSplitAndLookup, LAMBDA e : Row(4, LAMBDA l :
             LookedUp(aux.cascade[e][l], <<row.look_in[e][l], row.look_out[e][l]>>,
                      IF LooksUp(row) THEN 1 ELSE 0)))]

\* The values of a running column, one per row.
Running(initial, table, ExtendRow(_, _)) ==
    S!Tail(S!FoldLeft(LAMBDA column, row : Append(column, ExtendRow(S!Last(column), row)),
                      <<initial>>, table))

HashAux(table) == Running(HashAuxInitial, table, ExtendHashRow)
------------------------------------------------------------------------------
(* Cascade table. *)

CascadeRow(limb) ==
    [look_in_hi |-> HiByte(limb), look_in_lo |-> LoByte(limb),
     look_out_hi |-> LookUpByte(HiByte(limb)), look_out_lo |-> LookUpByte(LoByte(limb)),
     multiplicity |-> cascade_table_lookup_multiplicities[limb], is_padding |-> 0]
CascadePaddingRow ==
    [look_in_hi |-> 0, look_in_lo |-> 0, look_out_hi |-> 0, look_out_lo |-> 0,
     multiplicity |-> 0, is_padding |-> 1]

CascadeTable ==
    LET limbs == S!SetToSeq(DOMAIN cascade_table_lookup_multiplicities)
    IN  Padded([k \in DOMAIN limbs |-> CascadeRow(limbs[k])], LAMBDA k : CascadePaddingRow)

LoLookup(row) == <<row.look_in_lo, row.look_out_lo>>
HiLookup(row) == <<row.look_in_hi, row.look_out_hi>>
LimbLookup(row) ==
    <<ByteSize * row.look_in_hi + row.look_in_lo, ByteSize * row.look_out_hi + row.look_out_lo>>

CascadeAuxInitial == [hash_server |-> EmptyBag, lookup_client |-> EmptyBag]
ExtendCascadeRowInPadding(aux, row) ==  \* wrong: padding rows look up zeros
    [hash_server |-> LookedUp(aux.hash_server, LimbLookup(row), row.multiplicity),
     lookup_client |-> LookedUp(LookedUp(aux.lookup_client, LoLookup(row), 1), HiLookup(row), 1)]
ExtendCascadeRow(aux, row) ==
    IF row.is_padding = 1 THEN aux
    ELSE [hash_server |-> LookedUp(aux.hash_server, LimbLookup(row), row.multiplicity),
          lookup_client |->
              LookedUp(LookedUp(aux.lookup_client, LoLookup(row), 1), HiLookup(row), 1)]
CascadeAux(table) == Running(CascadeAuxInitial, table, ExtendCascadeRow)
------------------------------------------------------------------------------
(* Lookup table. *)

LookupRow(b) ==
    [look_in |-> b, look_out |-> LookUpByte(b),
     multiplicity |-> lookup_table_lookup_multiplicities[b], is_padding |-> 0]
LookupPaddingRow == [look_in |-> 0, look_out |-> 0, multiplicity |-> 0, is_padding |-> 1]

FilledLookupTable == [k \in 1 .. ByteSize |-> LookupRow(k - 1)]
LookupTableRows == Padded(FilledLookupTable, LAMBDA k : LookupPaddingRow)

LookupAuxInitial == [cascade_server |-> EmptyBag, public |-> <<>>]
ExtendLookupRow(aux, row) ==
    IF row.is_padding = 1 THEN aux
    ELSE [cascade_server |->
              LookedUp(aux.cascade_server, <<row.look_in, row.look_out>>, row.multiplicity),
          public |-> Append(aux.public, row.look_out)]
LookupAux(table) == Running(LookupAuxInitial, table, ExtendLookupRow)

\* Challenges::new derives the expected terminal from tip5::LOOKUP_TABLE.
LookupTablePublicTerminal == [k \in 1 .. ByteSize |-> LookupTable[k - 1]]
------------------------------------------------------------------------------
(* Program table. *)

ProgramRow(address, word, multiplicity, hash_padding, table_padding) ==
    LET index == address % Rate
    IN  [address |-> address, instruction |-> word, multiplicity |-> multiplicity,
         index_in_chunk |-> index,
         max_minus_index_in_chunk_inv |-> InverseOrZero(Rate - 1 - index),
         is_hash_input_padding |-> hash_padding, is_table_padding |-> table_padding]

FilledProgramTable ==
    LET words == HashInputPadProgram(program)
        behind(k) == k > Len(program)
    IN  Row(Len(words), LAMBDA k :
            ProgramRow(k - 1, words[k],
                       IF behind(k) THEN 0 ELSE instruction_multiplicities[k],
                       IF behind(k) THEN 1 ELSE 0, 0))
ProgramTable ==
    LET padding == Row(PaddedHeight, LAMBDA k : ProgramRow(k - 1, 0, 0, 1, 1))
    IN  Padded(FilledProgramTable, LAMBDA k : padding[k + 1])

InstructionLookup(row, next_row) ==
    [address |-> row.address, instruction |-> row.instruction, next |-> next_row.instruction]

UpdatePrepareChunk(row, prepare_chunk) ==
    Append(IF row.index_in_chunk = 0 THEN <<>> ELSE prepare_chunk, row.instruction)
UpdateSendChunk(row, send_chunk, prepare_chunk) ==
    IF row.is_table_padding # 1 /\ row.index_in_chunk = Rate - 1
    THEN Append(send_chunk, prepare_chunk) ELSE send_chunk

\* A row's instruction look-up needs the next row, so it is accumulated one row
\* late: the first row holds the initial value.
ProgramAux(table) ==
    LET lookup(aux, k) ==
            IF k = 1 \/ table[k - 1].is_hash_input_padding = 1 THEN aux.instruction_lookup
            ELSE LookedUp(aux.instruction_lookup, InstructionLookup(table[k - 1], table[k]),
                          table[k - 1].multiplicity)
        extend(aux, k) ==
            LET prepare_chunk == UpdatePrepareChunk(table[k], aux.prepare_chunk)
            IN  [instruction_lookup |-> lookup(aux, k), prepare_chunk |-> prepare_chunk,
                 send_chunk |-> UpdateSendChunk(table[k], aux.send_chunk, prepare_chunk)]
        initial == [instruction_lookup |-> EmptyBag, prepare_chunk |-> <<>>, send_chunk |-> <<>>]
    IN  Running(initial, [k \in DOMAIN table |-> k], extend)
==============================================================================
