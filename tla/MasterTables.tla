----------------------------- MODULE MasterTables -----------------------------
(***************************************************************************)
(* The prover's master tables: a trace of columns over the trace domain,   *)
(* randomizers, and the low-degree extension of both, which may or may not *)
(* be cached.  Each table is a record                                      *)
(*   trace        the columns, each a codeword over the trace domain;      *)
(*   randomizers  a polynomial for every column;                           *)
(*   extended     the cached rows over the evaluation domain, or <<>>.     *)
(*                                                                         *)
(* A configuration is a record with the parameters of Stark, the padded    *)
(* height, a claim and a caching decision.  The AIR is a parameter: few    *)
(* columns and constraints show what the prover does with many.            *)
(***************************************************************************)
EXTENDS ArithmeticDomain

CONSTANTS
    TargetDegree,               \* air::TARGET_DEGREE
    DegreesOfConstraints,       \* [initial, consistency, transition, terminal |-> degree]
    InitialConstraints(_, _, _),        \* values of the constraints of a main row,
    ConsistencyConstraints(_, _, _),    \*   an auxiliary row
    TerminalConstraints(_, _, _),       \*   and challenges
    TransitionConstraints(_, _, _, _, _),  \* of main, aux, next main, next aux, challenges
    TraceOf(_, _),              \* main columns of a claim, filled and padded to a length
    AuxColumnsOf(_, _),         \* the extension of main columns by challenges
    RandomElements(_, _, _)     \* n elements for a column, from a seed

LOCAL INSTANCE FiniteSetsExt

(***************************************************************************)
(* Domains.                                                                *)
(***************************************************************************)
NextPowerOfTwo(n) == CHOOSE m \in {2^k : k \in 0 .. 20} : m >= n /\ (m = 1 \/ m \div 2 < n)

RandomizedTraceLen(c) == NextPowerOfTwo(c.padded_height + c.num_trace_randomizers)
InterpolantDegree(c) == RandomizedTraceLen(c) - 1

MaxConstraintDegree(c) ==
    LET bound(degree, zerofier_degree) == InterpolantDegree(c) * degree - zerofier_degree
    IN  Max({bound(DegreesOfConstraints.initial, 1),
             bound(DegreesOfConstraints.consistency, c.padded_height),
             bound(DegreesOfConstraints.transition, c.padded_height - 1),
             bound(DegreesOfConstraints.terminal, 1)})
MaxDegree(c) == NextPowerOfTwo(MaxConstraintDegree(c)) - 1

RandomizedTraceDomain(c) == OfLength(RandomizedTraceLen(c))
TraceDomain(c) == Halve(RandomizedTraceDomain(c))
FriDomain(c) ==
    WithOffset(OfLength(c.fri_expansion_factor * RandomizedTraceLen(c)), FieldGenerator)
QuotientDomain(c) == WithOffset(OfLength(NextPowerOfTwo(MaxDegree(c))), FriDomain(c).offset)

EvaluationDomain(c) ==
    IF QuotientDomain(c).length > FriDomain(c).length THEN QuotientDomain(c) ELSE FriDomain(c)

(***************************************************************************)
(* Creation: new and pad of the main table, extend of the auxiliary one,   *)
(* whose last column is the randomizer polynomial of the proof system.     *)
(***************************************************************************)
TableOf(c, columns, seed) ==
    [trace |-> columns,
     randomizers |->
        [i \in DOMAIN columns |-> RandomElements(seed, i, c.num_trace_randomizers)],
     extended |-> <<>>]

MasterMainTable(c) ==
    TableOf(c, TraceOf(c.claim, TraceDomain(c).length), c.randomness_seed)

MasterAuxTable(c, main, challenges) ==
    LET length == TraceDomain(c).length
        unused_seed == c.randomness_seed + Len(main.trace) + 1
        randomizer_column == RandomElements(unused_seed, 0, length)
    IN  TableOf(c, Append(AuxColumnsOf(main.trace, challenges), randomizer_column), unused_seed)

(***************************************************************************)
(* Low-degree extension and its cache.                                     *)
(***************************************************************************)
RandomizedColumnInterpolants(c, table) ==
    LET domain == TraceDomain(c)
    IN  Tabulate(Len(table.trace), LAMBDA i :
            PolySum(Interpolate(domain, table.trace[i]),
                    MulZerofierWith(domain, table.randomizers[i])))

RowsOn(domain, polys) ==
    LET columns == Tabulate(Len(polys), LAMBDA i : EvaluateOn(domain, polys[i]))
    IN  Tabulate(domain.length, LAMBDA row : Tabulate(Len(polys), LAMBDA i : columns[i][row]))

\* wrong: extends the columns without their randomizers
UnrandomizedExtension(c, table) ==
    [table EXCEPT !.extended =
        RowsOn(EvaluationDomain(c),
               Tabulate(Len(table.trace), LAMBDA i : Interpolate(TraceDomain(c), table.trace[i])))]

LowDegreeExtended(c, table) ==
    [table EXCEPT !.extended =
        RowsOn(EvaluationDomain(c), RandomizedColumnInterpolants(c, table))]

(***************************************************************************)
(* maybe_low_degree_extend_all_columns: without a decision, whether there  *)
(* is enough memory decides.                                               *)
(***************************************************************************)
MaybeLowDegreeExtended(c, table) ==
    (IF c.cache_decision # "cache" THEN {table} ELSE {})
        \cup (IF c.cache_decision # "no_cache" THEN {LowDegreeExtended(c, table)} ELSE {})

IsCached(table) == table.extended # <<>>
WithoutCache(table) == [table EXCEPT !.extended = <<>>]

EveryNthRow(rows, length) ==
    LET unit_step == IF Len(rows) > length THEN Len(rows) \div length ELSE 1
    IN  Tabulate(length, LAMBDA i : rows[(i - 1) * unit_step + 1])

FriDomainTable(c, table) == EveryNthRow(table.extended, FriDomain(c).length)
QuotientDomainTable(c, table) == EveryNthRow(table.extended, QuotientDomain(c).length)

(***************************************************************************)
(* hash_all_fri_domain_rows: the leaves of the table's Merkle tree.        *)
(***************************************************************************)
HashedRows(c, table) ==
    IF IsCached(table) THEN FriDomainTable(c, table)
    ELSE RowsOn(EvaluationDomain(c), RandomizedColumnInterpolants(c, table))

OutOfDomainRow(c, table, x) ==
    Tabulate(Len(table.trace), LAMBDA i :
        (Barycentric(table.trace[i], x)
            + ZerofierAt(TraceDomain(c), x) * Evaluate(table.randomizers[i], x)) % Modulus)

WeightedSumOfColumns(c, table, weights) ==
    LET domain == TraceDomain(c)
        weighted_row(r) == SumUpTo(Len(weights), LAMBDA i : table.trace[i][r] * weights[i])
    IN  PolySum(Interpolate(domain, Tabulate(domain.length, weighted_row)),
                MulZerofierWith(domain, WeightedSum(table.randomizers, weights)))

RevealRows(c, table, row_indices) ==
    LET domain == TraceDomain(c)
        width == Len(table.trace)
        interpolants == Tabulate(width, LAMBDA i : Interpolate(domain, table.trace[i]))
        recomputed(x) ==
            Tabulate(width, LAMBDA i :
                (Evaluate(interpolants[i], x)
                    + Evaluate(table.randomizers[i], x) * ZerofierAt(domain, x)) % Modulus)
        cached == FriDomainTable(c, table)
    IN  Tabulate(Len(row_indices), LAMBDA k :
            IF IsCached(table) THEN cached[row_indices[k] + 1]
            ELSE recomputed(DomainValue(FriDomain(c), row_indices[k])))

(***************************************************************************)
(* Quotients.  Weights are assigned to the constraints in the order        *)
(* initial, consistency, transition, terminal.                             *)
(***************************************************************************)
WeightedQuotients(constraints, zerofier_inverses, weights) ==
    LET before(k) == SumUpTo(k - 1, LAMBDA i : Len(constraints[i]))
        section(k) == SubSeq(weights, before(k) + 1, before(k) + Len(constraints[k]))
    IN  SumUpTo(Len(constraints), LAMBDA k :
            Dot(constraints[k], section(k)) * zerofier_inverses[k])

(***************************************************************************)
(* The inverses of the four zerofiers at a point, for a trace of a length. *)
(***************************************************************************)
ZerofierInverses(length, x) ==
    LET last == Inverses[RootOfUnity(length)]
        all_rows == Divide(1, Power(x, length) - 1)
    IN  <<Divide(1, x - 1), all_rows, ((x - last) * all_rows) % Modulus, Divide(1, x - last)>>

AllQuotientsCombined(main_rows, aux_rows, trace_length, domain, challenges, weights) ==
    LET unit_distance == domain.length \div trace_length
        quotient(row) ==
            LET next == ((row - 1 + unit_distance) % domain.length) + 1
                main == main_rows[row]
                aux == aux_rows[row]
            IN  WeightedQuotients(
                    <<InitialConstraints(main, aux, challenges),
                      ConsistencyConstraints(main, aux, challenges),
                      TransitionConstraints(main, aux, main_rows[next], aux_rows[next], challenges),
                      TerminalConstraints(main, aux, challenges)>>,
                    ZerofierInverses(trace_length, DomainValue(domain, row - 1)), weights)
    IN  Tabulate(domain.length, quotient)
------------------------------------------------------------------------------
(***************************************************************************)
(* The quotient of the AIR, split into segments of low degree: from the    *)
(* cached low-degree extensions, or just in time over cosets of a short    *)
(* domain.  Segments are a record                                          *)
(*   polynomials  the segments;                                            *)
(*   codewords    the rows of their values on the FRI domain.              *)
(***************************************************************************)
NumQuotientSegments == TargetDegree
RandomizedTraceLenToWorkingDomainLenRatio == 2
NumCosets == NumQuotientSegments * RandomizedTraceLenToWorkingDomainLenRatio

SegmentsOf(c, polys) ==
    [polynomials |-> polys, codewords |-> RowsOn(FriDomain(c), polys)]

(***************************************************************************)
(* The f_i with f(x) = f_1(x^K) + x f_2(x^K) + ...                         *)
(***************************************************************************)
SplitPolynomialIntoSegments(f) ==
    Tabulate(NumQuotientSegments, LAMBDA segment :
        Tabulate((Len(f) + NumQuotientSegments - segment) \div NumQuotientSegments,
                 LAMBDA i : f[(i - 1) * NumQuotientSegments + segment]))

CachedQuotientSegments(c, main, aux, challenges, weights) ==
    LET codeword == AllQuotientsCombined(QuotientDomainTable(c, main), QuotientDomainTable(c, aux),
                                         TraceDomain(c).length, QuotientDomain(c),
                                         challenges, weights)
    IN  SegmentsOf(c, SplitPolynomialIntoSegments(Interpolate(QuotientDomain(c), codeword)))

(***************************************************************************)
(* The randomized trace on a coset no longer than the trace domain, where  *)
(* the trace zerofier is constant.                                         *)
(***************************************************************************)
WorkingDomain(c) == Halve(RandomizedTraceDomain(c))

RowsOnCoset(c, table, coset) ==
    LET zerofier == (Power(coset.offset, TraceDomain(c).length) - 1) % Modulus
        interpolant(i) == Interpolate(TraceDomain(c), table.trace[i])
    IN  RowsOn(coset, Tabulate(Len(table.trace), LAMBDA i :
            PolySum(interpolant(i), ScalarMul(table.randomizers[i], zerofier))))

Iota(c) == RootOfUnity(WorkingDomain(c).length * NumCosets)
Coset(c, j) ==
    WithOffset(WorkingDomain(c), (Power(Iota(c), j) * FriDomain(c).offset) % Modulus)

MulticosetEvaluations(c, main, aux, challenges, weights) ==
    Tabulate(NumCosets, LAMBDA j :
        AllQuotientsCombined(RowsOnCoset(c, main, Coset(c, j - 1)), RowsOnCoset(c, aux, Coset(c, j - 1)),
                             TraceDomain(c).length, Coset(c, j - 1), challenges, weights))

\* wrong: neighbours instead of elements a quarter of the large domain apart
NeighbourIndex(row, segment, num_rows) == row * NumQuotientSegments + segment

ExponentOfIota(row, segment, num_rows) == row + segment * num_rows

(***************************************************************************)
(* segmentify, on the columns of evaluations over the cosets: rearrange    *)
(* them, undo the Vandermonde matrix of every row, undo the powers of      *)
(* psi iota^row, and interpolate every column.                             *)
(***************************************************************************)
Segmentify(c, columns) ==
    LET K == NumQuotientSegments
        num_rows == (Len(columns) * Len(columns[1])) \div K
        psi == FriDomain(c).offset
        cell(row, segment) ==
            LET e == ExponentOfIota(row, segment, num_rows)
            IN  columns[(e % NumCosets) + 1][(e \div NumCosets) + 1]
        transformed(row) ==
            Interpolate(OfLength(K), Tabulate(K, LAMBDA segment : cell(row, segment - 1)))
        scaled(row) ==
            LET point == (psi * Power(Iota(c), row)) % Modulus
                values == transformed(row)
            IN  Tabulate(K, LAMBDA k : Divide(values[k], Power(point, k - 1)))
        rows == Tabulate(num_rows, LAMBDA row : scaled(row - 1))
        domain == WithOffset(OfLength(num_rows), Power(psi, K))
    IN  SegmentsOf(c, Tabulate(K, LAMBDA k :
            Interpolate(domain, Tabulate(num_rows, LAMBDA row : rows[row][k]))))

(***************************************************************************)
(* compute_quotient_segments: the two caches are used together or dropped  *)
(* together.                                                               *)
(***************************************************************************)
BothCached(main, aux) == IsCached(main) /\ IsCached(aux)

QuotientSegments(c, main, aux, challenges, weights) ==
    IF BothCached(main, aux) THEN CachedQuotientSegments(c, main, aux, challenges, weights)
    ELSE Segmentify(c, MulticosetEvaluations(c, main, aux, challenges, weights))

CacheAfterQuotients(table, both_cached) == IF both_cached THEN table ELSE WithoutCache(table)
==============================================================================
