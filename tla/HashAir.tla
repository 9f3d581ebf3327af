------------------------------- MODULE HashAir -------------------------------
(***************************************************************************)
(* The constraints of triton-air/src/table/hash.rs on the main and         *)
(* auxiliary columns of the hash table.  A constraint is the condition     *)
(* under which its polynomial vanishes.  A sum of terms of which at most   *)
(* one is not zero vanishes when every term does; where terms may cancel,  *)
(* their coefficients are added up (RunningEvaluation).                    *)
(***************************************************************************)
EXTENDS HashTables

LOCAL S == INSTANCE SequencesExt

\* Tables are built from the trace of an execution that has halted.
Finished == halting /\ error = NoError

\* A deselector does not vanish for the value it is named for, nor for values the
\* column must not have.
InRound(row, r) == row.round_number \notin (0 .. NumRounds) \ {r}
ModeDeselected(row, mode) ==
    row.mode \notin {HashTableMode[m] : m \in DOMAIN HashTableMode \ {mode}}
SpongeOps == {"sponge_init", "sponge_absorb", "sponge_squeeze"}
InstructionDeselected(row, op) ==
    row.ci \notin {Opcode[o] : o \in (SpongeOps \cup {"hash"}) \ {op}}
CiIs(row, op) == row.ci = Opcode[op]

\* The state before and after the split-and-lookup S-box.
StateAfterPart(row) == [k \in DOMAIN row.state |-> SeventhPower(row.state[k])]
ReComposed(limbs) == Row(NumSplitAndLookup, LAMBDA e : ReCompose(limbs[e]))
StateOf(row) == ReComposed(row.look_in) \o row.state
RateOf(row) == SubSeq(StateOf(row), 1, Rate)
DigestOf(row) == SubSeq(StateOf(row), 1, DigestLen)
Capacity(row) == SubSeq(StateOf(row), Rate + 1, StateSize)
------------------------------------------------------------------------------
HashInitialConstraints(row, aux) ==
    /\ InMode(row, "ProgramHashing")
    /\ row.round_number = 0
    /\ aux.hash_input = <<>> /\ aux.hash_digest = <<>> /\ aux.sponge = <<>>
    /\ aux.receive_chunk = <<RateOf(row)>>
    /\ \A e \in 1 .. NumSplitAndLookup, l \in 1 .. 4 :
          aux.cascade[e][l] = LookedUp(EmptyBag, <<row.look_in[e][l], row.look_out[e][l]>>, 1)
------------------------------------------------------------------------------
(* Consistency. *)

ModeConstraints(row) ==
    /\ row.mode \in {HashTableMode[m] : m \in DOMAIN HashTableMode}
    /\ InMode(row, "Sponge") \/ CiIs(row, "hash")
    /\ ModeDeselected(row, "Sponge") => \E op \in SpongeOps : CiIs(row, op)
    /\ ModeDeselected(row, "Pad") => row.round_number = 0
    /\ InstructionDeselected(row, "sponge_init") => row.round_number = 0

CapacityConstraints(row) ==
    /\ InstructionDeselected(row, "sponge_init") => \A x \in S!ToSet(Capacity(row)) : x = 0
    /\ InRound(row, 0) /\ ModeDeselected(row, "Hash") => \A x \in S!ToSet(Capacity(row)) : x = 1

\* The limbs are those of the canonical representative: if the high limbs are all
\* ones, the low limbs are zero.
LimbConstraints(row) ==
    \A e \in 1 .. NumSplitAndLookup :
        LET limbs == row.look_in[e]
            hi == (WordSize - 1 - limbs[4] * LimbSize - limbs[3]) % P
            lo == (limbs[2] * LimbSize + limbs[1]) % P
            are_not_all_1s == Minus(Times(hi, row.inv[e]), 1)
        IN  /\ are_not_all_1s = 0 \/ row.inv[e] = 0
            /\ are_not_all_1s = 0 \/ hi = 0
            /\ are_not_all_1s = 0 \/ lo = 0

\* Outside of the rounds 0 to NumRounds, the sum of the deselected differences is
\* a condition of its own; the rounds' transitions rule these out.
RoundConstantConstraints(row) ==
    \A r \in 0 .. (NumRounds - 1) :
        row.round_number = r => row.constants = RoundConstantsByRoundNumber(r)

HashConsistencyConstraints(row) ==
    /\ ModeConstraints(row)
    /\ CapacityConstraints(row)
    /\ RoundConstantConstraints(row)
    /\ LimbConstraints(row)
------------------------------------------------------------------------------
(* Transition. *)

\* mds_matrix_entry, for indices from 0.
MdsMatrixEntry(row_idx, col_idx) ==
    MdsFirstColumn[(StateSize + row_idx - col_idx) % StateSize]

\* tip5_constraints_as_circuits: S-boxes, matrix, round constants.
RoundConstraints(row, next) ==
    LET boxed == ReComposed(row.look_out) \o StateAfterPart(row)
        mixed(i) == S!FoldLeft(LAMBDA sum, k :
                        Plus(sum, MdsMatrixEntry(i - 1, k - 1) * boxed[k]),
                        0, [k \in 1 .. StateSize |-> k])
        state_next == StateOf(next)
    IN  next.round_number # 0 =>
            \A i \in 1 .. StateSize : Plus(mixed(i), row.constants[i]) = state_next[i]

RoundNumberConstraints(row, next) ==
    /\ InRound(row, NumRounds) => next.round_number = 0
    /\ \/ InMode(next, "Pad") \/ CiIs(row, "sponge_init") \/ row.round_number = NumRounds
       \/ next.round_number = Plus(row.round_number, 1)

\* Sections of the table: the program, the sponge, the hashes, the padding.
ModeTransitionConstraints(row, next) ==
    LET mid_permutation == row.round_number # NumRounds /\ ~CiIs(row, "sponge_init")
    IN  /\ ModeDeselected(row, "ProgramHashing") /\ ~InMode(next, "ProgramHashing") =>
               DigestOf(row) = ProgramHash(program)
        /\ ModeDeselected(row, "ProgramHashing") /\ ModeDeselected(next, "Sponge") =>
               CiIs(next, "sponge_init")
        /\ mid_permutation => next.ci = row.ci /\ next.mode = row.mode
        /\ ModeDeselected(row, "Sponge") => \E m \in {"Sponge", "Hash", "Pad"} : InMode(next, m)
        /\ ModeDeselected(row, "Hash") => \E m \in {"Hash", "Pad"} : InMode(next, m)
        /\ ModeDeselected(row, "Pad") => InMode(next, "Pad")

\* What a section keeps of the state the previous one ended with.
CarryConstraints(row, next) ==
    /\ InRound(next, 0) /\ ~InMode(next, "Hash") /\ ~InMode(next, "Pad")
           /\ ~CiIs(next, "sponge_init") => Capacity(next) = Capacity(row)
    /\ InRound(next, 0) /\ InstructionDeselected(next, "sponge_squeeze") =>
           StateOf(next) = StateOf(row)

(***************************************************************************)
(* The constraint of a running evaluation is one polynomial.  A first term *)
(* vanishes if the evaluation accumulates the symbol; its coefficient is   *)
(* not zero if `updates`.  All other terms vanish if it stays as it is;    *)
(* their coefficients add up to `remains`, and may cancel.  Nothing is     *)
(* demanded where both are zero; where neither is, the next value is some  *)
(* mixture of the two, hence neither of them.                              *)
(***************************************************************************)
RunningEvaluation(updates, remains, before, symbol, after) ==
    /\ updates /\ remains = 0 => after = Append(before, symbol)
    /\ ~updates /\ remains # 0 => after = before
    /\ updates /\ remains # 0 => after \notin {before, Append(before, symbol)}

ReceiveChunkConstraint(aux, next, aux_next) ==
    RunningEvaluation(InRound(next, 0) /\ ModeDeselected(next, "ProgramHashing"),
                      Plus(next.round_number, next.mode - HashTableMode.ProgramHashing),
                      aux.receive_chunk, RateOf(next), aux_next.receive_chunk)

HashInputConstraint(aux, next, aux_next) ==
    RunningEvaluation(InRound(next, 0) /\ ModeDeselected(next, "Hash"),
                      Plus(next.round_number, next.mode - HashTableMode.Hash),
                      aux.hash_input, RateOf(next), aux_next.hash_input)

HashDigestConstraint(aux, next, aux_next) ==
    RunningEvaluation(InRound(next, NumRounds) /\ ModeDeselected(next, "Hash"),
                      Plus(next.round_number - NumRounds, next.mode - HashTableMode.Hash),
                      aux.hash_digest, DigestOf(next), aux_next.hash_digest)

SpongeConstraintOfEveryRound(aux, next, aux_next) ==  \* wrong: no case for other rounds than 0
    LET is_not(op) == Minus(next.ci, Opcode[op])
    IN  RunningEvaluation(InRound(next, 0) /\ ~CiIs(next, "hash"),
                          Times(is_not("sponge_init"),
                                Times(is_not("sponge_absorb"), is_not("sponge_squeeze"))),
                          aux.sponge, [ci |-> next.ci, rate |-> RateOf(next)], aux_next.sponge)
SpongeConstraint(aux, next, aux_next) ==
    LET is_not(op) == Minus(next.ci, Opcode[op])
        ci_next_is_not_spongy ==
            Times(is_not("sponge_init"), Times(is_not("sponge_absorb"), is_not("sponge_squeeze")))
    IN  RunningEvaluation(InRound(next, 0) /\ ~CiIs(next, "hash"),
                          Plus(next.round_number, ci_next_is_not_spongy),
                          aux.sponge, [ci |-> next.ci, rate |-> RateOf(next)], aux_next.sponge)

\* cascade_log_derivative_update_circuit, of one limb.
CascadeLogDerivativeConstraint(log_derivative, next, log_derivative_next, e, l) ==
    /\ ~InMode(next, "Pad") /\ next.round_number # NumRounds /\ ~CiIs(next, "sponge_init") =>
           log_derivative_next =
               LookedUp(log_derivative, <<next.look_in[e][l], next.look_out[e][l]>>, 1)
    /\ InRound(next, NumRounds) => log_derivative_next = log_derivative
    /\ InstructionDeselected(next, "sponge_init") => log_derivative_next = log_derivative

HashTransitionConstraints(row, next, aux, aux_next) ==
    /\ RoundNumberConstraints(row, next)
    /\ ModeTransitionConstraints(row, next)
    /\ CarryConstraints(row, next)
    /\ ReceiveChunkConstraint(aux, next, aux_next)
    /\ HashInputConstraint(aux, next, aux_next)
    /\ HashDigestConstraint(aux, next, aux_next)
    /\ SpongeConstraint(aux, next, aux_next)
    /\ \A e \in 1 .. NumSplitAndLookup, l \in 1 .. 4 :
          CascadeLogDerivativeConstraint(aux.cascade[e][l], next, aux_next.cascade[e][l], e, l)
    /\ RoundConstraints(row, next)

HashTerminalConstraints(row) ==
    /\ ModeDeselected(row, "ProgramHashing") => DigestOf(row) = ProgramHash(program)
    /\ InMode(row, "Pad") \/ CiIs(row, "sponge_init") \/ row.round_number = NumRounds
==============================================================================
