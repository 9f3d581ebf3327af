--------------------------------- MODULE Fri ----------------------------------
(***************************************************************************)
(* FRI, the proof that a codeword over the FRI domain is one of a          *)
(* polynomial of low degree: the computations of its two parties.  A round *)
(* of the prover is a domain and a codeword; one of the verifier           *)
(*   domain, merkle_root, folding_challenge                                *)
(*   partial_codeword_a, partial_codeword_b                                *)
(* with the values revealed, or folded, at the sampled indices.            *)
(***************************************************************************)
EXTENDS MasterTables, ProofStream

Ilog2(n) == CHOOSE k \in 0 .. 30 : 2^k <= n /\ n < 2^(k + 1)

FirstRoundMaxDegree(c) == (FriDomain(c).length \div c.fri_expansion_factor) - 1

NumRounds(c) ==
    LET max_num_rounds == Ilog2(NextPowerOfTwo(FirstRoundMaxDegree(c) + 1))
        num_rounds_checking_most_locations == Ilog2(c.num_collinearity_checks) + 1
        num_rounds == max_num_rounds - num_rounds_checking_most_locations
    IN  IF num_rounds > 0 THEN num_rounds ELSE 0

\* wrong: counts one round of folding too many
TooLowMaxDegree(c) == FirstRoundMaxDegree(c) \div 2^(NumRounds(c) + 1)

LastRoundMaxDegree(c) == FirstRoundMaxDegree(c) \div 2^NumRounds(c)

AIndices(indices, length) == [i \in DOMAIN indices |-> indices[i] % length]

BIndices(indices, length) == [i \in DOMAIN indices |-> (indices[i] + (length \div 2)) % length]

(***************************************************************************)
(* Prover.                                                                 *)
(***************************************************************************)
SplitAndFold(round, folding_challenge) ==
    LET n == Len(round.codeword)
        folded(i) ==
            LET scaled_offset_inv == Divide(folding_challenge, DomainValue(round.domain, i - 1))
                left_summand == (1 + scaled_offset_inv) * round.codeword[i]
                right_summand == (1 - scaled_offset_inv) * round.codeword[i + (n \div 2)]
            IN  Divide((left_summand + right_summand) % Modulus, 2)
    IN  Tabulate(n \div 2, folded)

NextRound(round, folding_challenge) ==
    [domain |-> Halve(round.domain), codeword |-> SplitAndFold(round, folding_challenge)]

LastPolynomial(codeword) == Interpolate(OfLength(Len(codeword)), codeword)

FriResponse(round, indices) ==
    Item("FriResponse",
         [revealed_leaves |-> [i \in DOMAIN indices |-> round.codeword[indices[i] + 1]],
          auth_structure |-> AuthenticationStructure(round.codeword, indices)])

(***************************************************************************)
(* query: a-indices of the first round, b-indices of each that has a next. *)
(***************************************************************************)
FriResponses(rounds, indices) ==
    <<FriResponse(rounds[1], indices)>> \o
        [r \in 1 .. (Len(rounds) - 1) |->
            FriResponse(rounds[r], BIndices(indices, rounds[r].domain.length))]

(***************************************************************************)
(* Verifier.                                                               *)
(***************************************************************************)
NeedMoreFoldingChallenges(c, num_initialized_rounds) ==
    NumRounds(c) # 0 /\ num_initialized_rounds <= NumRounds(c) - 1

GetColinearY(p0, p1, x) ==
    (p0.y + Divide((p1.y - p0.y) % Modulus, p1.x - p0.x) * ((x - p0.x) % Modulus)) % Modulus

FoldPartialCodeword(round, indices) ==
    LET length == round.domain.length
        point(index, y) == [x |-> DomainValue(round.domain, index), y |-> y]
        folded(i) ==
            GetColinearY(point(AIndices(indices, length)[i], round.partial_codeword_a[i]),
                         point(BIndices(indices, length)[i], round.partial_codeword_b[i]),
                         round.folding_challenge)
    IN  Tabulate(Len(indices), folded)

(***************************************************************************)
(* successively_fold_partial_codeword_of_each_round, but for the values    *)
(* of the rounds in between: those at the a-indices of the last round.     *)
(***************************************************************************)
SuccessivelyFolded(rounds, indices) ==
    LET folded[r \in 1 .. Len(rounds)] ==
            IF r = 1 THEN rounds[1].partial_codeword_a
            ELSE FoldPartialCodeword(
                    [rounds[r - 1] EXCEPT !.partial_codeword_a = folded[r - 1]], indices)
    IN  folded[Len(rounds)]

(***************************************************************************)
(* What the verifier finds wrong with one revealed partial codeword.       *)
(***************************************************************************)
ResponseError(c, round, indices, response) ==
    IF Len(response.revealed_leaves) # c.num_collinearity_checks
    THEN "IncorrectNumberOfRevealedLeaves"
    ELSE IF ~InclusionHolds(round.merkle_root, round.domain.length, indices,
                            response.revealed_leaves, response.auth_structure)
    THEN "BadMerkleAuthenticationPath"
    ELSE None

(***************************************************************************)
(* authenticate_last_round_codeword, with the indeterminate its last check *)
(* samples.                                                                *)
(***************************************************************************)
LastRoundError(c, rounds, indices, last_codeword, last_polynomial, indeterminate) ==
    LET last_round == rounds[Len(rounds)]
        a_indices == AIndices(indices, last_round.domain.length)
        received == [i \in DOMAIN indices |-> last_codeword[a_indices[i] + 1]]
    IN  IF last_round.merkle_root # Root(last_codeword) THEN "BadMerkleRootForLastCodeword"
        ELSE IF received # SuccessivelyFolded(rounds, indices) THEN "LastCodewordMismatch"
        ELSE IF Degree(last_polynomial) > LastRoundMaxDegree(c)
        THEN "LastRoundPolynomialHasTooHighDegree"
        ELSE IF Evaluate(last_polynomial, indeterminate) # Barycentric(last_codeword, indeterminate)
        THEN "LastRoundPolynomialEvaluationMismatch"
        ELSE None
==============================================================================
