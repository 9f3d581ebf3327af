-------------------------------- MODULE MCStark --------------------------------
(***************************************************************************)
(* A field, an AIR and sponges for TLC.                                    *)
(*                                                                         *)
(* The AIR counts from a claim's input up to its output and stays there:   *)
(* one column has the count, one its square, an auxiliary one a running    *)
(* evaluation of the counts.  It has constraints of every kind, and one of *)
(* the target degree.                                                      *)
(***************************************************************************)
EXTENDS Stark, TLC

CONSTANT Scope      \* which configurations

(***************************************************************************)
(* 769 = 3 * 256 + 1: the domains lie in the subgroup of order 256 and in  *)
(* its coset by the generator, challenges in the other coset.              *)
(***************************************************************************)
MCModulus == 769
MCFieldGenerator == 11

Shape(event) ==
    CASE event.kind = "scalars"      -> 3 * event.payload
      [] event.kind = "indices"      -> 7
      [] event.kind = "Claim"        -> event.payload.output - event.payload.input
      [] event.kind = "MerkleRoot"   -> 11 + Len(event.payload)
      [] OTHER                       -> 13 + Len(event.payload)

State(sponge) ==
    LET state[i \in 0 .. Len(sponge)] ==
            IF i = 0 THEN 1 ELSE (31 * state[i - 1] + Shape(sponge[i])) % 256
    IN  state[Len(sponge)]

MCSampleScalars(sponge, n) ==
    LET state == State(sponge)
    IN  Tabulate(n, LAMBDA i : Power(MCFieldGenerator, 3 * (state + 5 * i) + 2))

MCSampleIndices(sponge, upper_bound, n) ==
    LET state == State(sponge)
    IN  Tabulate(n, LAMBDA i : (state + 37 * i * i) % upper_bound)

MCRandomElements(seed, column, n) ==
    Tabulate(n, LAMBDA i : (1 + seed * 101 + column * 53 + i * i * 17) % Modulus)

(***************************************************************************)
(* The AIR: columns <<count, square>> and <<evaluation, randomizer>>.      *)
(***************************************************************************)
MCTraceOf(claim, length) ==
    LET count(i) ==
            IF claim.input + i - 1 < claim.output THEN claim.input + i - 1 ELSE claim.output
    IN  <<Tabulate(length, count), Tabulate(length, LAMBDA i : count(i) * count(i))>>

MCAuxColumnsOf(main, challenges) ==
    LET evaluation[i \in 1 .. Len(main[1])] ==
            IF i = 1 THEN main[1][1]
            ELSE (evaluation[i - 1] * challenges[1] + main[1][i]) % Modulus
    IN  <<Tabulate(Len(main[1]), LAMBDA i : evaluation[i])>>

MCChallengesOf(scalars, claim) == scalars \o <<claim.input, claim.output>>

MCInitialConstraints(main, aux, challenges) ==
    <<main[1] - challenges[2], aux[1] - main[1]>>
MCConsistencyConstraints(main, aux, challenges) == <<main[2] - main[1] * main[1]>>
MCTransitionConstraints(main, aux, next_main, next_aux, challenges) ==
    LET step == next_main[1] - main[1]
        squares == (main[2] * next_main[2]) % Modulus
    IN  <<(((step * (step - 1)) % Modulus) * squares) % Modulus,
          next_aux[1] - (aux[1] * challenges[1] + next_main[1])>>
MCTerminalConstraints(main, aux, challenges) == <<main[1] - challenges[3]>>

MCDegreesOfConstraints == [initial |-> 1, consistency |-> 2, transition |-> 4, terminal |-> 1]

(***************************************************************************)
(* Stark::new, for an extension field of degree 1, and what to prove.      *)
(***************************************************************************)
New(security_level, log2_of_fri_expansion_factor) ==
    LET checks == security_level \div log2_of_fri_expansion_factor
    IN  [num_collinearity_checks |-> checks,
         fri_expansion_factor |-> 2^log2_of_fri_expansion_factor,
         num_trace_randomizers |-> checks + 2 + NumQuotientSegments]

Proving(parameters, padded_height, cache_decision) ==
    {parameters @@ [padded_height |-> padded_height, claim |-> claim, randomness_seed |-> 5,
                    cache_decision |-> cache_decision] :
        claim \in {[input |-> 3, output |-> 8], [input |-> 0, output |-> 0]}}

(***************************************************************************)
(* In the scope "all", FRI domains are shorter than, as long as and longer *)
(* than the quotient domain, and FRI has three rounds, two, one and none.  *)
(* The other scopes leave a condition out: that a FRI domain shorter than  *)
(* the quotient domain has its extension cached, and that there are no     *)
(* more randomizers than rows.                                             *)
(***************************************************************************)
MCConfigurations ==
    CASE Scope = "all" ->
            Proving(New(2, 1), 8, "cache") \cup Proving(New(4, 2), 8, "automatic")
                \cup Proving(New(3, 3), 8, "automatic") \cup Proving(New(20, 2), 16, "automatic")
                \cup Proving([New(4, 2) EXCEPT !.num_collinearity_checks = 16], 8, "no_cache")
      [] Scope = "short_fri_domain" -> Proving(New(2, 1), 8, "no_cache")
      [] Scope = "many_randomizers" -> Proving(New(6, 2), 8, "cache")
==============================================================================
