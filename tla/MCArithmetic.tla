----------------------------- MODULE MCArithmetic -----------------------------
(***************************************************************************)
(* Executable versions of the functions TwentyFirst leaves open.  The      *)
(* arithmetic is the real one, in the field of P elements and its binomial *)
(* extension X^d = XRoot.  The permutation and the program hash are simple *)
(* mixing functions: the VM uses both as black boxes.                      *)
(***************************************************************************)
EXTENDS TwentyFirst

Sets == INSTANCE FiniteSetsExt

CONSTANT XRoot  \* X^ExtensionDegree

MCInverse(a) == CHOOSE b \in Field : Times(a, b) = 1

MCModPow(a, e) ==
    LET power[n \in 0 .. e] == IF n = 0 THEN 1 ELSE Times(a, power[n - 1])
    IN  power[e]

Bit(a, n) == (a \div 2^n) % 2
BitPositions == {n \in 0 .. 7 : 2^n < WordSize}
MCBitAnd(a, b) == Sets!MapThenSumSet(LAMBDA n : 2^n * Bit(a, n) * Bit(b, n), BitPositions)
MCBitXor(a, b) == a + b - 2 * MCBitAnd(a, b)
MCCountOnes(a) == Sets!MapThenSumSet(LAMBDA n : Bit(a, n), BitPositions)
MCIlog2(a) == Sets!Max({n \in BitPositions : 2^n <= a})

MCXMul(a, b) ==
    LET degree == ExtensionDegree
        summand(k, i) == a[i + 1] * b[((k - i) % degree) + 1]
                             * (IF i > k THEN XRoot ELSE 1)
    IN  [k \in 1 .. degree |->
            Sets!MapThenSumSet(LAMBDA i : summand(k - 1, i), 0 .. (degree - 1)) % P]

MCXInverse(x) ==
    LET adjoint == IF ExtensionDegree = 2
                   THEN <<x[1], -x[2]>>
                   ELSE <<x[1] * x[1] - XRoot * x[2] * x[3],
                          XRoot * x[3] * x[3] - x[1] * x[2],
                          x[2] * x[2] - x[1] * x[3]>>
        reduced == [k \in 1 .. ExtensionDegree |-> adjoint[k] % P]
        norm == MCXMul(x, reduced)[1]
    IN  [k \in 1 .. ExtensionDegree |-> Times(MCInverse(norm), reduced[k])]

MCTip5(s) ==
    [i \in 1 .. StateSize |->
        (s[i] * s[i] + 3 * s[(i % StateSize) + 1] + s[((i + Rate) % StateSize) + 1] + i) % P]

MCProgramHash(p) == [i \in 1 .. DigestLen |-> (Len(p) + i * i + 1) % P]
==============================================================================
