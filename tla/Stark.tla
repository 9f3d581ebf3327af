--------------------------------- MODULE Stark --------------------------------
(***************************************************************************)
(* Prover and verifier of the proof system, as two programs that meet only *)
(* in a proof: the prover runs to its end, the proof is delivered, and the *)
(* verifier reads it.  Both sample from a sponge of their own.  A step     *)
(* ends where a party samples, or where FRI's loops repeat.                *)
(***************************************************************************)
EXTENDS Fri

LOCAL INSTANCE SequencesExt

CONSTANTS
    Configurations,         \* parameters, padded height, claim and caching: see MasterTables
    SampleCount,            \* Challenges::SAMPLE_COUNT
    ChallengesOf(_, _),     \* Challenges::new, of sampled scalars and a claim
    NumConstraints,         \* MasterAuxTable::NUM_CONSTRAINTS
    NumMainColumns,
    NumAuxColumns

\* StarkParameters and a padded height, which is a power of two and comes back from its logarithm;
\* FRI's domain is no shorter than its expansion factor (fri.rs asserts it), so FRI folds a
\* natural number of times.
ASSUME ConfigurationsAssumption ==
    \A c \in Configurations :
        /\ c \in [num_collinearity_checks : Nat \ {0}, fri_expansion_factor : Nat \ {0},
                  num_trace_randomizers : Nat, padded_height : Nat \ {0}, claim : {c.claim},
                  randomness_seed : {c.randomness_seed},
                  cache_decision : {"automatic", "cache", "no_cache"}]
        /\ 2^Ilog2(c.padded_height) = c.padded_height
        /\ NumRounds(c) \in Nat

VARIABLES
    config,     \* the parameters both parties were given
    stage,      \* what is next
    prover,     \* the locals of Prover::prove
    delivery,   \* how the proof arrived: which item was lost or repeated
    verifier    \* the locals of Verifier::verify, and its error

vars == <<config, stage, prover, delivery, verifier>>

(***************************************************************************)
(* Sampling: the scalars and the stream they leave behind.                 *)
(***************************************************************************)
Scalars(stream, n) == SampleScalars(stream.sponge, n)
AfterScalars(stream, n) == Squeezed(stream, "scalars", n)
Indices(c, stream) == SampleIndices(stream.sponge, FriDomain(c).length, c.num_collinearity_checks)
AfterIndices(c, stream) == Squeezed(stream, "indices", c.num_collinearity_checks)

AfterClaim(stream, claim) == AlterFiatShamirStateWith(stream, Item("Claim", claim))

(***************************************************************************)
(* LinearCombinationWeights.                                               *)
(***************************************************************************)
NumDeepCodewordComponents == 3
NumWeights == NumMainColumns + NumAuxColumns + NumQuotientSegments + NumDeepCodewordComponents

LinearCombinationWeights(scalars) ==
    LET aux_end == NumMainColumns + NumAuxColumns
        quot_end == aux_end + NumQuotientSegments
    IN  [main |-> SubSeq(scalars, 1, NumMainColumns),
         aux |-> SubSeq(scalars, NumMainColumns + 1, aux_end),
         quot_segments |-> SubSeq(scalars, aux_end + 1, quot_end),
         deep |-> SubSeq(scalars, quot_end + 1, NumWeights)]

DeepUpdate(x, value, ood_point, ood_value) == Divide((value - ood_value) % Modulus, x - ood_point)

(***************************************************************************)
(* Prover.                                                                 *)
(***************************************************************************)
NoProver ==
    [stream |-> EmptyStream, main |-> <<>>, aux |-> <<>>, main_tree |-> <<>>, aux_tree |-> <<>>,
     quotient_tree |-> <<>>, challenges |-> <<>>, quotient_weights |-> <<>>, quotient |-> <<>>,
     ood_point |-> 0, weights |-> <<>>, rounds |-> <<>>, indices |-> <<>>]

ProverStep(to, after) ==
    /\ stage' = to
    /\ prover' = after
    /\ UNCHANGED <<config, delivery, verifier>>

CommitToMainTable ==
    /\ stage = "main"
    /\ \E main \in MaybeLowDegreeExtended(config, MasterMainTable(config)) :
           LET tree == HashedRows(config, main)
               committed == EnqueueAll(AfterClaim(EmptyStream, config.claim),
                                       <<Item("Log2PaddedHeight", Ilog2(config.padded_height)),
                                         Item("MerkleRoot", Root(tree))>>)
           IN  ProverStep("aux",
                   [NoProver EXCEPT
                       !.main = main,
                       !.main_tree = tree,
                       !.challenges = ChallengesOf(Scalars(committed, SampleCount), config.claim),
                       !.stream = AfterScalars(committed, SampleCount)])

CommitToAuxTable ==
    /\ stage = "aux"
    /\ \E aux \in MaybeLowDegreeExtended(config,
                       MasterAuxTable(config, prover.main, prover.challenges)) :
           LET tree == HashedRows(config, aux)
               committed == Enqueue(prover.stream, Item("MerkleRoot", Root(tree)))
           IN  ProverStep("quotient",
                   [prover EXCEPT
                       !.aux = aux,
                       !.aux_tree = tree,
                       !.quotient_weights = Scalars(committed, NumConstraints),
                       !.stream = AfterScalars(committed, NumConstraints)])

CommitToQuotient ==
    /\ stage = "quotient"
    /\ LET both == BothCached(prover.main, prover.aux)
           segments == QuotientSegments(config, prover.main, prover.aux,
                                        prover.challenges, prover.quotient_weights)
           committed == Enqueue(prover.stream, Item("MerkleRoot", Root(segments.codewords)))
       IN  ProverStep("out_of_domain",
               [prover EXCEPT
                   !.main = CacheAfterQuotients(@, both),
                   !.aux = CacheAfterQuotients(@, both),
                   !.quotient = segments,
                   !.quotient_tree = segments.codewords,
                   !.ood_point = Scalars(committed, 1)[1],
                   !.stream = AfterScalars(committed, 1)])

SendOutOfDomainRows ==
    /\ stage = "out_of_domain"
    /\ LET point == prover.ood_point
           next_point == (TraceDomain(config).generator * point) % Modulus
           segments == prover.quotient.polynomials
           values == Tabulate(NumQuotientSegments, LAMBDA k :
                         Evaluate(segments[k], Power(point, NumQuotientSegments)))
           sent == EnqueueAll(prover.stream,
                       <<Item("OutOfDomainMainRow", OutOfDomainRow(config, prover.main, point)),
                         Item("OutOfDomainAuxRow", OutOfDomainRow(config, prover.aux, point)),
                         Item("OutOfDomainMainRow", OutOfDomainRow(config, prover.main, next_point)),
                         Item("OutOfDomainAuxRow", OutOfDomainRow(config, prover.aux, next_point)),
                         Item("OutOfDomainQuotientSegments", values)>>)
       IN  ProverStep("combination",
               [prover EXCEPT
                   !.weights = LinearCombinationWeights(Scalars(sent, NumWeights)),
                   !.stream = AfterScalars(sent, NumWeights)])

DeepCodeword(domain, poly, ood_point) ==
    LET ood_value == Evaluate(poly, ood_point)
    IN  Tabulate(domain.length, LAMBDA i :
            LET x == DomainValue(domain, i - 1)
            IN  DeepUpdate(x, Evaluate(poly, x), ood_point, ood_value))

ShortDomain(c) ==
    IF FriDomain(c).length <= QuotientDomain(c).length THEN FriDomain(c) ELSE QuotientDomain(c)

(***************************************************************************)
(* The combination codeword, computed on the shorter of the two domains    *)
(* and extended to the FRI domain if that is the longer one.               *)
(***************************************************************************)
FriCombinationCodeword(c, p) ==
    LET domain == ShortDomain(c)
        point == p.ood_point
        main_and_aux == PolySum(WeightedSumOfColumns(c, p.main, p.weights.main),
                                WeightedSumOfColumns(c, p.aux, p.weights.aux))
        segments == WeightedSum(p.quotient.polynomials, p.weights.quot_segments)
        current_row == DeepCodeword(domain, main_and_aux, point)
        next_row == DeepCodeword(domain, main_and_aux, (TraceDomain(c).generator * point) % Modulus)
        quotient == DeepCodeword(domain, segments, Power(point, NumQuotientSegments))
        codeword == Tabulate(domain.length, LAMBDA i :
                        Dot(p.weights.deep, <<current_row[i], next_row[i], quotient[i]>>))
    IN  IF domain = FriDomain(c) THEN codeword
        ELSE LowDegreeExtension(QuotientDomain(c), codeword, FriDomain(c))

CommitToRound(p, round) ==
    [p EXCEPT !.rounds = Append(@, round),
              !.stream = Enqueue(@, Item("MerkleRoot", Root(round.codeword)))]

CommitToFirstRound ==
    /\ stage = "combination"
    /\ ProverStep("rounds",
           CommitToRound(prover, [domain |-> FriDomain(config),
                                  codeword |-> FriCombinationCodeword(config, prover)]))

CommitToNextRound ==
    /\ stage = "rounds"
    /\ Len(prover.rounds) <= NumRounds(config)
    /\ LET folding_challenge == Scalars(prover.stream, 1)[1]
           sampled == [prover EXCEPT !.stream = AfterScalars(@, 1)]
       IN  ProverStep("rounds",
               CommitToRound(sampled, NextRound(prover.rounds[Len(prover.rounds)], folding_challenge)))

SendLastRound ==
    /\ stage = "rounds"
    /\ Len(prover.rounds) > NumRounds(config)
    /\ LET codeword == prover.rounds[Len(prover.rounds)].codeword
           sent == EnqueueAll(prover.stream,
                       <<Item("FriCodeword", codeword),
                         Item("FriPolynomial", LastPolynomial(codeword))>>)
       IN  ProverStep("query",
               [prover EXCEPT !.indices = Indices(config, sent),
                              !.stream = AfterIndices(config, sent)])

\* wrong: does not sample what only the verifier has a use for
OnlyResponses(p) == EnqueueAll(p.stream, FriResponses(p.rounds, p.indices))

(***************************************************************************)
(* The responses, and the scalar that only the verifier has a use for.     *)
(***************************************************************************)
AfterResponses(p) == AfterScalars(EnqueueAll(p.stream, FriResponses(p.rounds, p.indices)), 1)

RespondToQueries ==
    /\ stage = "query"
    /\ ProverStep("leafs", [prover EXCEPT !.stream = AfterResponses(prover)])

Opened(tree, indices) == Item("AuthenticationStructure", AuthenticationStructure(tree, indices))

(***************************************************************************)
(* The trees are those committed to, whatever became of the caches.        *)
(***************************************************************************)
OpenTraceLeafs ==
    /\ stage = "leafs"
    /\ LET at == prover.indices
           elements == [i \in DOMAIN at |-> prover.quotient.codewords[at[i] + 1]]
           opened == <<Item("MasterMainTableRows", RevealRows(config, prover.main, at)),
                       Opened(prover.main_tree, at),
                       Item("MasterAuxTableRows", RevealRows(config, prover.aux, at)),
                       Opened(prover.aux_tree, at),
                       Item("QuotientSegmentsElements", elements),
                       Opened(prover.quotient_tree, at)>>
       IN  ProverStep("proof",
               [NoProver EXCEPT !.stream = EnqueueAll(prover.stream, opened)])

(***************************************************************************)
(* The proof on its way.  A verifier has to refuse whatever is not the     *)
(* sequence of items the prover sent: one may be lost, repeated, or        *)
(* swapped with the next.                                                  *)
(***************************************************************************)
Intact == [how |-> "intact", item |-> 0]

Deliveries(n) ==
    {Intact}
        \cup {[how |-> how, item |-> i] : how \in {"lost", "repeated"}, i \in 1 .. n}
        \cup {[how |-> "swapped", item |-> i] : i \in 1 .. (n - 1)}

Delivered(items, d) ==
    LET before == SubSeq(items, 1, d.item - 1)
        after(k) == SubSeq(items, d.item + k, Len(items))
    IN  CASE d.how = "intact"   -> items
          [] d.how = "lost"     -> before \o after(1)
          [] d.how = "repeated" -> before \o <<items[d.item]>> \o after(0)
          [] d.how = "swapped"  -> before \o <<items[d.item + 1], items[d.item]>> \o after(2)

(***************************************************************************)
(* Verifier.                                                               *)
(***************************************************************************)
NoVerifier ==
    [stream |-> EmptyStream, error |-> None, padded_height |-> 0,
     main_root |-> <<>>, aux_root |-> <<>>, quotient_root |-> <<>>,
     challenges |-> <<>>, quotient_weights |-> <<>>, ood_point |-> 0, ood |-> <<>>,
     weights |-> <<>>, rounds |-> <<>>, last_codeword |-> <<>>, last_polynomial |-> <<>>,
     indices |-> <<>>, num_responses |-> 0, leafs |-> <<>>]

Deliver ==
    /\ stage = "proof"
    /\ stage' = "height"
    /\ \E d \in Deliveries(Len(prover.stream.items)) :
          /\ delivery' = d
          /\ verifier' = [NoVerifier EXCEPT
                !.stream = AfterClaim(StreamOf(Delivered(prover.stream.items, d)), config.claim)]
    /\ UNCHANGED <<config, prover>>

(***************************************************************************)
(* A step dequeues items of the expected kinds and handles their payloads; *)
(* the first error ends the verification.                                  *)
(***************************************************************************)
VerifierStep(kinds, to, Handled(_, _)) ==
    /\ LET read == Dequeue(verifier.stream, kinds)
           behind == [verifier EXCEPT !.stream = read.stream, !.error = read.error]
       IN  verifier' = IF read.error # None THEN behind ELSE Handled(behind, read.payloads)
    /\ stage' = IF verifier'.error = None THEN to ELSE "refused"
    /\ UNCHANGED <<config, prover, delivery>>

(***************************************************************************)
(* The parameters as the verifier derives them, with the height it read.   *)
(***************************************************************************)
Derived(v) == [config EXCEPT !.padded_height = v.padded_height]

ReceiveHeight ==
    /\ stage = "height"
    /\ VerifierStep(<<"Log2PaddedHeight">>, "main_root",
           LAMBDA v, payloads : [v EXCEPT !.padded_height = 2^payloads[1]])

ReceiveMainRoot ==
    /\ stage = "main_root"
    /\ VerifierStep(<<"MerkleRoot">>, "aux_root", LAMBDA v, payloads :
           [v EXCEPT !.main_root = payloads[1],
                     !.challenges = ChallengesOf(Scalars(v.stream, SampleCount), config.claim),
                     !.stream = AfterScalars(@, SampleCount)])

ReceiveAuxRoot ==
    /\ stage = "aux_root"
    /\ VerifierStep(<<"MerkleRoot">>, "quotient_root", LAMBDA v, payloads :
           [v EXCEPT !.aux_root = payloads[1],
                     !.quotient_weights = Scalars(v.stream, NumConstraints),
                     !.stream = AfterScalars(@, NumConstraints)])

ReceiveQuotientRoot ==
    /\ stage = "quotient_root"
    /\ VerifierStep(<<"MerkleRoot">>, "ood_rows", LAMBDA v, payloads :
           [v EXCEPT !.quotient_root = payloads[1],
                     !.ood_point = Scalars(v.stream, 1)[1],
                     !.stream = AfterScalars(@, 1)])

(***************************************************************************)
(* The quotient out of domain, from the AIR and the rows received, and its *)
(* value by the segments received.                                         *)
(***************************************************************************)
OutOfDomainQuotientValue(v, ood) ==
    WeightedQuotients(
        <<InitialConstraints(ood.main, ood.aux, v.challenges),
          ConsistencyConstraints(ood.main, ood.aux, v.challenges),
          TransitionConstraints(ood.main, ood.aux, ood.next_main, ood.next_aux, v.challenges),
          TerminalConstraints(ood.main, ood.aux, v.challenges)>>,
        ZerofierInverses(v.padded_height, v.ood_point), v.quotient_weights)

SumOfSegments(values, x) == SumUpTo(Len(values), LAMBDA k : Power(x, k - 1) * values[k])

ReceiveOutOfDomainRows ==
    /\ stage = "ood_rows"
    /\ VerifierStep(
           <<"OutOfDomainMainRow", "OutOfDomainAuxRow", "OutOfDomainMainRow", "OutOfDomainAuxRow",
             "OutOfDomainQuotientSegments">>, "fri_roots", LAMBDA v, payloads :
           LET ood == [main |-> payloads[1], aux |-> payloads[2], next_main |-> payloads[3],
                       next_aux |-> payloads[4], segments |-> payloads[5]]
           IN  IF OutOfDomainQuotientValue(v, ood) # SumOfSegments(ood.segments, v.ood_point)
               THEN [v EXCEPT !.error = "OutOfDomainQuotientValueMismatch"]
               ELSE [v EXCEPT !.ood = ood,
                              !.weights = LinearCombinationWeights(Scalars(v.stream, NumWeights)),
                              !.stream = AfterScalars(@, NumWeights)])

(***************************************************************************)
(* construct_round_with_domain: a folding challenge is sampled only for a  *)
(* round that has a next one.                                              *)
(***************************************************************************)
VerifierRound(v, merkle_root) ==
    LET n == Len(v.rounds)
    IN  [domain |-> IF n = 0 THEN FriDomain(Derived(v)) ELSE Halve(v.rounds[n].domain),
         merkle_root |-> merkle_root,
         folding_challenge |->
            IF NeedMoreFoldingChallenges(Derived(v), n) THEN Scalars(v.stream, 1)[1] ELSE None,
         partial_codeword_a |-> <<>>,
         partial_codeword_b |-> <<>>]

ReceiveFriRoot ==
    /\ stage = "fri_roots"
    /\ Len(verifier.rounds) <= NumRounds(Derived(verifier))
    /\ VerifierStep(<<"MerkleRoot">>, "fri_roots", LAMBDA v, payloads :
          [v EXCEPT !.rounds = Append(@, VerifierRound(v, payloads[1])),
                    !.stream = IF NeedMoreFoldingChallenges(Derived(v), Len(v.rounds))
                               THEN AfterScalars(@, 1) ELSE @])

ReceiveLastRound ==
    /\ stage = "fri_roots"
    /\ Len(verifier.rounds) > NumRounds(Derived(verifier))
    /\ VerifierStep(<<"FriCodeword", "FriPolynomial">>, "fri_responses",
          LAMBDA v, payloads :
          [v EXCEPT !.last_codeword = payloads[1],
                    !.last_polynomial = payloads[2],
                    !.indices = Indices(Derived(v), v.stream),
                    !.stream = AfterIndices(Derived(v), @)])

\* wrong: one response for every round, and one more for the first
HasResponseForEveryRound(v) == v.num_responses <= Len(v.rounds)

HasMoreResponses(v) == v.num_responses < Len(v.rounds)

(***************************************************************************)
(* The first response is to the a-indices of the first round, the others   *)
(* to the b-indices of the rounds that have a next one.                    *)
(***************************************************************************)
ReceiveFriResponse ==
    /\ stage = "fri_responses"
    /\ HasMoreResponses(verifier)
    /\ VerifierStep(<<"FriResponse">>, "fri_responses", LAMBDA v, payloads :
          LET first == v.num_responses = 0
              r == IF first THEN 1 ELSE v.num_responses
              length == v.rounds[r].domain.length
              at == IF first THEN AIndices(v.indices, length) ELSE BIndices(v.indices, length)
              leaves == payloads[1].revealed_leaves
          IN  [v EXCEPT !.error = ResponseError(config, v.rounds[r], at, payloads[1]),
                        !.num_responses = @ + 1,
                        !.rounds[r].partial_codeword_a = IF first THEN leaves ELSE @,
                        !.rounds[r].partial_codeword_b = IF first THEN @ ELSE leaves])

CheckLastRound ==
    /\ stage = "fri_responses"
    /\ ~HasMoreResponses(verifier)
    /\ VerifierStep(<<>>, "leafs_of_main", LAMBDA v, payloads :
          [v EXCEPT !.error = LastRoundError(Derived(v), v.rounds, v.indices, v.last_codeword,
                                             v.last_polynomial, Scalars(v.stream, 1)[1]),
                    !.stream = AfterScalars(@, 1)])

(***************************************************************************)
(* The opened rows of a table, and the error if its tree does not have     *)
(* them.                                                                   *)
(***************************************************************************)
ReceiveLeafs(kind, to, Tree(_), error) ==
    VerifierStep(<<kind, "AuthenticationStructure">>, to, LAMBDA v, payloads :
        IF InclusionHolds(Tree(v), FriDomain(Derived(v)).length, v.indices,
                          payloads[1], payloads[2])
        THEN [v EXCEPT !.leafs = Append(@, payloads[1])]
        ELSE [v EXCEPT !.error = error])

ReceiveMainLeafs ==
    /\ stage = "leafs_of_main"
    /\ ReceiveLeafs("MasterMainTableRows", "leafs_of_aux",
                    LAMBDA v : v.main_root, "MainCodewordAuthenticationFailure")

ReceiveAuxLeafs ==
    /\ stage = "leafs_of_aux"
    /\ ReceiveLeafs("MasterAuxTableRows", "leafs_of_quotient",
                    LAMBDA v : v.aux_root, "AuxiliaryCodewordAuthenticationFailure")

ReceiveQuotientLeafs ==
    /\ stage = "leafs_of_quotient"
    /\ ReceiveLeafs("QuotientSegmentsElements", "linear_combination",
                    LAMBDA v : v.quotient_root, "QuotientCodewordAuthenticationFailure")

(***************************************************************************)
(* The value of the combination codeword that the i-th opened rows imply.  *)
(***************************************************************************)
CombinationValue(v, i) ==
    LET x == DomainValue(FriDomain(Derived(v)), v.indices[i])
        next_point == (RootOfUnity(v.padded_height) * v.ood_point) % Modulus
        main_and_aux(main, aux) == (Dot(v.weights.main, main) + Dot(v.weights.aux, aux)) % Modulus
        quotient(elements) == Dot(v.weights.quot_segments, elements)
        value == main_and_aux(v.leafs[1][i], v.leafs[2][i])
    IN  Dot(v.weights.deep,
            <<DeepUpdate(x, value, v.ood_point, main_and_aux(v.ood.main, v.ood.aux)),
              DeepUpdate(x, value, next_point, main_and_aux(v.ood.next_main, v.ood.next_aux)),
              DeepUpdate(x, quotient(v.leafs[3][i]), Power(v.ood_point, NumQuotientSegments),
                         quotient(v.ood.segments))>>)

CheckLinearCombination ==
    /\ stage = "linear_combination"
    /\ VerifierStep(<<>>, "accepted", LAMBDA v, payloads :
           IF \A i \in DOMAIN v.indices :
                 v.rounds[1].partial_codeword_a[i] = CombinationValue(v, i)
           THEN v
           ELSE [v EXCEPT !.error = "CombinationCodewordMismatch"])

Done == stage \in {"accepted", "refused"} /\ UNCHANGED vars

Init ==
    /\ config \in Configurations
    /\ stage = "main"
    /\ prover = NoProver
    /\ delivery = Intact
    /\ verifier = NoVerifier

Prove ==
    \/ CommitToMainTable
    \/ CommitToAuxTable
    \/ CommitToQuotient
    \/ SendOutOfDomainRows
    \/ CommitToFirstRound
    \/ CommitToNextRound
    \/ SendLastRound
    \/ RespondToQueries
    \/ OpenTraceLeafs

Verify ==
    \/ ReceiveHeight
    \/ ReceiveMainRoot
    \/ ReceiveAuxRoot
    \/ ReceiveQuotientRoot
    \/ ReceiveOutOfDomainRows
    \/ ReceiveFriRoot
    \/ ReceiveLastRound
    \/ ReceiveFriResponse
    \/ CheckLastRound
    \/ ReceiveMainLeafs
    \/ ReceiveAuxLeafs
    \/ ReceiveQuotientLeafs
    \/ CheckLinearCombination

Next == Prove \/ Deliver \/ Verify \/ Done

Spec == Init /\ [][Next]_vars

(***************************************************************************)
(* Properties.                                                             *)
(***************************************************************************)

(***************************************************************************)
(* Every local is what its stage has made of it: no response is read twice *)
(* and an outcome is final (Prover::prove and Verifier::verify).           *)
(***************************************************************************)
StarkTypeOK ==
    /\ config \in Configurations
    /\ verifier.stream.items_index \in 0 .. Len(verifier.stream.items)
    /\ verifier.num_responses \in 0 .. Len(verifier.rounds)
    /\ (verifier.error # None) <=> (stage = "refused")

(***************************************************************************)
(* Perfect completeness (stark.rs, Stark::security_level): a proof of a    *)
(* valid trace that arrives as it was sent is not refused, whatever was    *)
(* cached and however many rounds FRI has.                                 *)
(***************************************************************************)
HonestProofsAreAccepted == delivery = Intact => verifier.error = None

(***************************************************************************)
(* A proof is accepted only if what the verifier read of it is, item by    *)
(* item, what the prover sent: none lost, none read out of order.          *)
(***************************************************************************)
OnlyTheProofIsAccepted ==
    stage = "accepted" =>
        SubSeq(verifier.stream.items, 1, verifier.stream.items_index) = prover.stream.items

(***************************************************************************)
(* Reading a proof takes the verifier's sponge through the states that     *)
(* sending it took the prover's through, to the same last one              *)
(* (ProofStream, and fri.rs on the scalar the prover throws away).         *)
(***************************************************************************)
SpongesAgree ==
    /\ delivery = Intact => IsPrefix(verifier.stream.sponge, prover.stream.sponge)
    /\ stage = "accepted" => verifier.stream.sponge = prover.stream.sponge

(***************************************************************************)
(* What was committed to while one set of caches was in place is what can  *)
(* be revealed with whatever caches computing the quotient has left.       *)
(***************************************************************************)
CommitmentsCanBeRevealed ==
    stage = "out_of_domain" =>
        LET all == [i \in 1 .. FriDomain(config).length |-> i - 1]
        IN  /\ prover.main_tree = RevealRows(config, prover.main, all)
            /\ prover.aux_tree = RevealRows(config, prover.aux, all)

(***************************************************************************)
(* f(x) = sum of x^k f_k(x^K): on every point of the FRI domain, the       *)
(* segments computed from the caches or over the cosets recombine to the   *)
(* quotient computed from the rows at that point (segmentify).             *)
(***************************************************************************)
SegmentsRecombine ==
    stage = "out_of_domain" =>
        LET domain == FriDomain(config)
            quotients == AllQuotientsCombined(prover.main_tree, prover.aux_tree,
                             TraceDomain(config).length, domain, prover.challenges, prover.quotient_weights)
            segments == prover.quotient.polynomials
        IN  \A i \in 1 .. domain.length :
                LET x == DomainValue(domain, i - 1)
                IN  quotients[i] =
                        SumOfSegments(Tabulate(NumQuotientSegments, LAMBDA k :
                            Evaluate(segments[k], Power(x, NumQuotientSegments))), x)
==============================================================================
