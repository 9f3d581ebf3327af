------------------------------ MODULE Tip5Rounds ------------------------------
(***************************************************************************)
(* The Tip5 permutation of the crate `twenty-first` round by round, for    *)
(* the tables that arithmetize it (triton-vm/src/table/hash.rs and         *)
(* cascade.rs).  The virtual machine itself only calls the permutation,    *)
(* TwentyFirst!Tip5; an instance supplies Permutation for it.              *)
(*                                                                         *)
(* The code's words, limbs and bytes have 32, 16 and 8 bits.  Instances    *)
(* scale the three together: a word has two limbs, a limb two bytes.       *)
(***************************************************************************)
EXTENDS TwentyFirst

LOCAL S == INSTANCE SequencesExt

CONSTANTS
    ByteSize,           \* 2^8, the length of tip5::LOOKUP_TABLE
    NumRounds,          \* tip5::NUM_ROUNDS, 5 in the code
    NumSplitAndLookup,  \* tip5::NUM_SPLIT_AND_LOOKUP, 4 in the code
    LookupTable,        \* tip5::LOOKUP_TABLE
    RoundConstants,     \* tip5::ROUND_CONSTANTS, by round
    MdsFirstColumn      \* tip5::MDS_MATRIX_FIRST_COLUMN

LimbSize == ByteSize * ByteSize
Byte == 0 .. (ByteSize - 1)

ASSUME Tip5Assumption ==
    /\ ByteSize \in Nat \ {0, 1} /\ LimbSize * LimbSize = WordSize
    /\ NumRounds \in Nat \ {0}
    /\ NumSplitAndLookup \in 1 .. DigestLen
    /\ LookupTable \in [Byte -> Byte]
    /\ RoundConstants \in [0 .. (NumRounds - 1) -> SpongeState]
    /\ MdsFirstColumn \in [0 .. (StateSize - 1) -> Nat]

\* Values of f at 1 .. n, computed once.
Row(n, F(_)) == <<>> \o [k \in 1 .. n |-> F(k)]

\* 2^64 modulo the field's modulus.
MontgomeryModulus == (WordSize * WordSize) % P
------------------------------------------------------------------------------
(* The permutation. *)

\* Every byte of R*x is looked up.
SplitAndLookup(x) ==
    LET raw == Times(MontgomeryModulus, x)
        byte(k) == LookupTable[(raw \div ByteSize^k) % ByteSize]
    IN  Times(S!FoldLeft(LAMBDA sum, k : sum + byte(k) * ByteSize^k, 0,
                         [k \in 1 .. 8 |-> k - 1]) % P,
              InverseOf(MontgomeryModulus))

SeventhPower(x) == LET cube == Times(Times(x, x), x) IN Times(Times(cube, cube), x)

TipRound(state, r) ==
    LET boxed == Row(StateSize, LAMBDA k :
                     IF k <= NumSplitAndLookup THEN SplitAndLookup(state[k])
                     ELSE SeventhPower(state[k]))
        mixed(i) == S!FoldLeft(LAMBDA sum, k :
                        Plus(sum, MdsFirstColumn[(i - k) % StateSize] * boxed[k]),
                        0, [k \in 1 .. StateSize |-> k])
    IN  Row(StateSize, LAMBDA i : Plus(mixed(i), RoundConstants[r][i]))

\* Tip5::trace: the state before the first and after every round.
PermutationTrace(state) ==
    S!FoldLeft(LAMBDA trace, r : Append(trace, TipRound(S!Last(trace), r - 1)),
               <<state>>, [r \in 1 .. NumRounds |-> r])

Permutation(state) == S!Last(PermutationTrace(state))

\* Tip5::hash_varlen: chunks of the rate, the last of them padded by one 1.
HashVarlen(words) ==
    LET absorb(state, chunk) ==
            Permutation([k \in 1 .. StateSize |-> IF k <= Rate THEN chunk[k] ELSE state[k]])
        full == Len(words) \div Rate
        rest == SubSeq(words, full * Rate + 1, Len(words))
        last == [k \in 1 .. Rate |-> IF k <= Len(rest) THEN rest[k]
                                     ELSE IF k = Len(rest) + 1 THEN 1 ELSE 0]
        chunks == [c \in 1 .. full |-> SubSeq(words, (c - 1) * Rate + 1, c * Rate)]
    IN  SubSeq(S!FoldLeft(absorb, SpongeInitState, Append(chunks, last)), 1, DigestLen)
==============================================================================
