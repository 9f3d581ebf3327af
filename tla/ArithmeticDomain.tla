--------------------------- MODULE ArithmeticDomain ---------------------------
(***************************************************************************)
(* A prime field, polynomials over it and the multiplicative domains they  *)
(* are evaluated on.  Field and polynomials come from the crate            *)
(* `twenty-first`; a polynomial is the sequence of its coefficients,       *)
(* constant first.  The extension field of the code is the field itself    *)
(* here: what matters of it is that elements outside of all domains exist. *)
(***************************************************************************)
EXTENDS Integers, Sequences, FiniteSets

CONSTANTS
    Modulus,            \* the order of the field
    FieldGenerator      \* BFieldElement::generator

LOCAL INSTANCE FiniteSetsExt

ASSUME FieldAssumption == Modulus \in Nat /\ Modulus > 2 /\ FieldGenerator \in 1 .. (Modulus - 1)

(***************************************************************************)
(* The sequence F(1), ..., F(n), every element of it computed once.        *)
(***************************************************************************)
Tabulate(n, F(_)) == <<>> \o [i \in 1 .. n |-> F(i)]

Power(a, n) ==
    LET power[k \in Nat] ==
            IF k = 0 THEN 1
            ELSE LET half == power[k \div 2]
                 IN  (((half * half) % Modulus) * (IF k % 2 = 1 THEN a ELSE 1)) % Modulus
    IN  power[n]

Inverses == [a \in 1 .. (Modulus - 1) |-> Power(a, Modulus - 2)]
Divide(a, b) == (a * Inverses[b % Modulus]) % Modulus

(***************************************************************************)
(* The primitive root of unity of an order that divides the group's.       *)
(***************************************************************************)
RootOfUnity(order) == Power(FieldGenerator, (Modulus - 1) \div order)

\* F(1) + ... + F(n), the halves of every range summed on their own.
SumUpTo(n, F(_)) ==
    LET sum[range \in (1 .. n) \X (1 .. n)] ==
            LET first == range[1]
                last == range[2]
                middle == (first + last) \div 2
            IN  IF first = last THEN F(first) % Modulus
                ELSE (sum[<<first, middle>>] + sum[<<middle + 1, last>>]) % Modulus
    IN  IF n = 0 THEN 0 ELSE sum[<<1, n>>]

Dot(u, v) == SumUpTo(Len(u), LAMBDA i : u[i] * v[i])

(***************************************************************************)
(* Polynomials.                                                            *)
(***************************************************************************)
Evaluate(f, x) == SumUpTo(Len(f), LAMBDA i : f[i] * Power(x, i - 1))

Degree(f) == Max({-1} \cup {i - 1 : i \in {j \in DOMAIN f : f[j] # 0}})

Coefficient(f, i) == IF i \in DOMAIN f THEN f[i] ELSE 0

PolySum(f, g) ==
    Tabulate(Max({Len(f), Len(g)}), LAMBDA i : (Coefficient(f, i) + Coefficient(g, i)) % Modulus)

ScalarMul(f, a) == Tabulate(Len(f), LAMBDA i : (a * f[i]) % Modulus)

WeightedSum(polys, weights) ==
    LET sum[i \in 0 .. Len(polys)] ==
            IF i = 0 THEN <<>> ELSE PolySum(sum[i - 1], ScalarMul(polys[i], weights[i]))
    IN  sum[Len(polys)]

(***************************************************************************)
(* ArithmeticDomain.  An element has the index of the code, from 0.        *)
(***************************************************************************)
OfLength(length) == [offset |-> 1, generator |-> RootOfUnity(length), length |-> length]
WithOffset(domain, offset) == [domain EXCEPT !.offset = offset]

DomainValue(domain, n) == (Power(domain.generator, n) * domain.offset) % Modulus
DomainValues(domain) == Tabulate(domain.length, LAMBDA i : DomainValue(domain, i - 1))
EvaluateOn(domain, f) == Tabulate(domain.length, LAMBDA i : Evaluate(f, DomainValue(domain, i - 1)))

(***************************************************************************)
(* fast_coset_interpolate: the inverse transform, with the offset's powers *)
(* divided out of the coefficients.                                        *)
(***************************************************************************)
Interpolate(domain, values) ==
    LET inverse == Inverses[domain.generator]
        scale(k) == Divide(Inverses[domain.length], Power(domain.offset, k))
    IN  Tabulate(domain.length, LAMBDA k :
            (scale(k - 1) * Evaluate(values, Power(inverse, k - 1))) % Modulus)

LowDegreeExtension(domain, codeword, target) == EvaluateOn(target, Interpolate(domain, codeword))

ZerofierAt(domain, x) == (Power(x, domain.length) - Power(domain.offset, domain.length)) % Modulus

MulZerofierWith(domain, f) ==
    LET shifted == Tabulate(domain.length, LAMBDA i : 0) \o f
    IN  PolySum(shifted, ScalarMul(f, -Power(domain.offset, domain.length)))

Halve(domain) ==
    [offset |-> Power(domain.offset, 2),
     generator |-> Power(domain.generator, 2),
     length |-> domain.length \div 2]

(***************************************************************************)
(* The value at x of the polynomial with these values on a domain without  *)
(* offset, by the barycentric formula.                                     *)
(***************************************************************************)
Barycentric(values, x) ==
    LET points == DomainValues(OfLength(Len(values)))
        weights == Tabulate(Len(values), LAMBDA i : Divide(points[i], x - points[i]))
    IN  Divide(Dot(values, weights), SumUpTo(Len(values), LAMBDA i : weights[i]))
==============================================================================
