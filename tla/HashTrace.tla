------------------------------- MODULE HashTrace -------------------------------
(***************************************************************************)
(* The part of the algebraic execution trace that feeds the hash, cascade  *)
(* and lookup tables (triton-vm/src/aet.rs): the permutations that hash    *)
(* the program, and how often the executed permutations look up each limb  *)
(* and each byte.  TraceExecution records the permutations of the          *)
(* instructions; a permutation is recorded as the state it starts from,    *)
(* from which its rows follow.                                             *)
(***************************************************************************)
EXTENDS TableLinking, Tip5Rounds

LOCAL S == INSTANCE SequencesExt

VARIABLES
    program_hash_trace,
    cascade_table_lookup_multiplicities,  \* of every limb looked up so far
    lookup_table_lookup_multiplicities    \* of every byte

hashVars == <<traceVars, program_hash_trace, cascade_table_lookup_multiplicities,
              lookup_table_lookup_multiplicities>>
------------------------------------------------------------------------------
(* Counting look-ups. *)

\* base_field_element_into_16_bit_limbs, least significant limb first.
Limbs(x) ==
    LET r_times_x == Times(MontgomeryModulus, x)
    IN  Row(4, LAMBDA k : (r_times_x \div LimbSize^(k - 1)) % LimbSize)
LoByte(limb) == limb % ByteSize
HiByte(limb) == limb \div ByteSize

NoLookups == [cascade |-> <<>>, lookup |-> [b \in Byte |-> 0]]

\* Only the first look-up of a limb, which adds a row to the cascade table, looks
\* up the limb's bytes.
LookUpEveryTime(counts, limb) ==  \* wrong: the bytes are counted with every look-up
    [cascade |-> [l \in DOMAIN counts.cascade \cup {limb} |->
                     IF l \notin DOMAIN counts.cascade THEN 1
                     ELSE counts.cascade[l] + (IF l = limb THEN 1 ELSE 0)],
     lookup |-> [counts.lookup EXCEPT ![LoByte(limb)] = @ + 1, ![HiByte(limb)] = @ + 1]]
LookUp(counts, limb) ==
    IF limb \in DOMAIN counts.cascade
    THEN [counts EXCEPT !.cascade[limb] = @ + 1]
    ELSE [cascade |-> [l \in DOMAIN counts.cascade \cup {limb} |->
                          IF l = limb THEN 1 ELSE counts.cascade[l]],
          lookup |-> [counts.lookup EXCEPT ![LoByte(limb)] = @ + 1, ![HiByte(limb)] = @ + 1]]

\* The limbs a permutation looks up.  Its last row is its result.
LookedUpLimbs(trace) ==
    S!FlattenSeq([r \in 1 .. (Len(trace) - 1) |->
        S!FlattenSeq([e \in 1 .. NumSplitAndLookup |-> Limbs(trace[r][e])])])

IncreaseLookupMultiplicities(counts, state) ==
    S!FoldLeft(LookUp, counts, LookedUpLimbs(PermutationTrace(state)))
------------------------------------------------------------------------------
(* Hashing the program. *)

PaddedProgramLength(p) == ((Len(p) + 1 + Rate - 1) \div Rate) * Rate
HashInputPadProgram(p) ==
    SubSeq(ToBwords(p) \o <<1>> \o [k \in 1 .. Rate |-> 0], 1, PaddedProgramLength(p))

\* fill_program_hash_trace: every chunk overwrites the rate of the permuted state.
ProgramHashTraceWithoutCarry(p) ==  \* wrong: every chunk starts a sponge of its own
    LET padded == HashInputPadProgram(p)
        chunk(c) == SubSeq(padded, (c - 1) * Rate + 1, c * Rate)
    IN  [c \in 1 .. (Len(padded) \div Rate) |->
            chunk(c) \o SubSeq(SpongeInitState, Rate + 1, StateSize)]
ProgramHashTrace(p) ==
    LET padded == HashInputPadProgram(p)
        chunk(c) == SubSeq(padded, (c - 1) * Rate + 1, c * Rate)
        permuted(trace) == IF trace = <<>> THEN SpongeInitState ELSE Permutation(S!Last(trace))
    IN  S!FoldLeft(LAMBDA trace, c :
                       Append(trace, chunk(c) \o SubSeq(permuted(trace), Rate + 1, StateSize)),
                   <<>>, [c \in 1 .. (Len(padded) \div Rate) |-> c])

ProgramDigest(trace) == SubSeq(Permutation(S!Last(trace)), 1, DigestLen)
------------------------------------------------------------------------------
HashTraceInit ==
    LET counts == S!FoldLeft(IncreaseLookupMultiplicities, NoLookups, program_hash_trace)
    IN  /\ TraceInit
        /\ program_hash_trace = ProgramHashTrace(program)
        /\ cascade_table_lookup_multiplicities = counts.cascade
        /\ lookup_table_lookup_multiplicities = counts.lookup

\* Resetting the sponge permutes nothing.
Permuted(tip5_trace) ==
    LET permuting == SelectSeq(tip5_trace, LAMBDA c : c.ci # "sponge_init")
    IN  [k \in DOMAIN permuting |-> permuting[k].state]

HashTraceNext ==
    LET before == [cascade |-> cascade_table_lookup_multiplicities,
                   lookup |-> lookup_table_lookup_multiplicities]
        after == S!FoldLeft(IncreaseLookupMultiplicities, before, Permuted(tip5_calls'))
    IN  /\ TraceNext
        /\ cascade_table_lookup_multiplicities' = after.cascade
        /\ lookup_table_lookup_multiplicities' = after.lookup
        /\ UNCHANGED program_hash_trace

HashTraceSpec == HashTraceInit /\ [][HashTraceNext]_hashVars
==============================================================================
