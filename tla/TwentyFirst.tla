----------------------------- MODULE TwentyFirst -----------------------------
(***************************************************************************)
(* What Triton VM takes from outside its own source: the prime field and   *)
(* the Tip5 permutation of the crate `twenty-first`, and the arithmetic of *)
(* Rust's u32.  The VM only relies on the ranges these functions keep, so  *)
(* they are parameters; an MC module supplies executable versions.         *)
(*                                                                         *)
(* The field has P = 2^(2w) - 2^w + 1 elements for words of w bits (w = 32 *)
(* in the code).  P is prime for w = 2 (13) and w = 4 (241) as well, which *)
(* gives small instances with the same relation between words and field.   *)
(***************************************************************************)
EXTENDS Integers, Sequences

CONSTANTS
    WordSize,           \* 2^w, one more than the largest u32
    DigestLen,          \* Digest::LEN, 5 in the code
    CapacityLen,        \* tip5::STATE_SIZE - tip5::RATE, 6 in the code
    ExtensionDegree,    \* x_field_element::EXTENSION_DEGREE, 3 in the code
    InverseOf(_),       \* BFieldElement::inverse
    ModPow(_, _),       \* BFieldElement::mod_pow
    BitAnd(_, _),       \* u32 & u32
    BitXor(_, _),       \* u32 ^ u32
    Ilog2(_),           \* u32::ilog2
    CountOnes(_),       \* u32::count_ones
    XMul(_, _),         \* XFieldElement * XFieldElement
    XInverse(_),        \* XFieldElement::inverse
    Tip5(_),            \* the Tip5 permutation, on a full sponge state
    ProgramHash(_)      \* Program::hash, the digest of a program

P == WordSize * WordSize - WordSize + 1
Field == 0 .. (P - 1)
Word == 0 .. (WordSize - 1)

Rate == 2 * DigestLen
StateSize == Rate + CapacityLen

Digest == [1 .. DigestLen -> Field]
XField == [1 .. ExtensionDegree -> Field]
SpongeState == [1 .. StateSize -> Field]

Plus(a, b) == (a + b) % P
Minus(a, b) == (a - b) % P
Times(a, b) == (a * b) % P

XZero == [i \in 1 .. ExtensionDegree |-> 0]
XPlus(a, b) == [i \in 1 .. ExtensionDegree |-> Plus(a[i], b[i])]
Lift(b) == [i \in 1 .. ExtensionDegree |-> IF i = 1 THEN b ELSE 0]

(***************************************************************************)
(* Tip5::new: Domain::FixedLength fills the capacity with ones,            *)
(* Domain::VariableLength (Tip5::init) with zeros.                         *)
(***************************************************************************)
FixedLength(rate) == [i \in 1 .. StateSize |-> IF i <= Rate THEN rate[i] ELSE 1]
SpongeInitState == [i \in 1 .. StateSize |-> 0]

ASSUME SizeAssumption ==
    /\ WordSize \in Nat /\ WordSize > 1
    /\ DigestLen \in Nat /\ DigestLen > 0
    /\ CapacityLen \in Nat
    /\ ExtensionDegree \in Nat /\ ExtensionDegree > 0
==============================================================================
