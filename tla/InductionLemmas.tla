--------------------------- MODULE InductionLemmas ----------------------------
(***************************************************************************)
(* Induction in a form the provers can use.  The library's theorems on     *)
(* induction have an operator for a parameter; here the induction is on a  *)
(* set, and it rests on the well-foundedness of the order of finite sets.  *)
(* Also what the proofs need of sequences whose elements have no type.     *)
(***************************************************************************)
EXTENDS Integers, Sequences, FiniteSets, FiniteSetTheorems, WellFoundedInduction,
        SequenceTheorems, TLAPS

(***************************************************************************)
(* Every non-empty set of naturals has a least element: the initial        *)
(* segments of the naturals are ordered by inclusion as their ends are.    *)
(***************************************************************************)
LEMMA LeastElement ==
    ASSUME NEW S \in SUBSET Nat, S # {}
    PROVE  \E m \in S : \A n \in S : m <= n
<1> DEFINE Segments == {0 .. n : n \in S}
<1>1. Segments \subseteq FiniteSubsetsOf(Nat)
    <2> SUFFICES ASSUME NEW n \in S
                 PROVE  0 .. n \in FiniteSubsetsOf(Nat)
        OBVIOUS
    <2>1. n \in Nat /\ IsFiniteSet(0 .. n)
        BY FS_Interval
    <2>2. 0 .. n \in SUBSET Nat
        BY <2>1
    <2> QED BY <2>1, <2>2 DEF FiniteSubsetsOf
<1>2. Segments # {}
    OBVIOUS
<1>3. PICK x \in Segments : \A y \in Segments : ~(<<y, x>> \in StrictSubsetOrdering(Nat))
    <2> HIDE DEF Segments
    <2> QED BY <1>1, <1>2, FS_StrictSubsetOrderingWellFounded, WFMin
<1>4. PICK m \in S : x = 0 .. m
    BY <1>3
<1>5. ASSUME NEW n \in S, n < m PROVE FALSE
    <2>1. 0 .. n \in Segments
        OBVIOUS
    <2>2. m \in 0 .. m /\ m \notin 0 .. n
        BY <1>5
    <2>3. 0 .. n \in SUBSET Nat /\ 0 .. m \in SUBSET Nat /\ 0 .. n \subseteq 0 .. m /\ 0 .. n # 0 .. m
        BY <1>5, <2>2
    <2>4. <<0 .. n, 0 .. m>> \in StrictSubsetOrdering(Nat)
        BY <2>3 DEF StrictSubsetOrdering
    <2> QED BY <2>1, <2>4, <1>4, <1>3
<1> QED BY <1>5

(***************************************************************************)
(* Induction over the naturals.                                            *)
(***************************************************************************)
LEMMA Induction ==
    ASSUME NEW S, 0 \in S, \A n \in Nat : n \in S => n + 1 \in S
    PROVE  \A n \in Nat : n \in S
<1> SUFFICES ASSUME Nat \ S # {}
             PROVE  FALSE
    OBVIOUS
<1>1. PICK m \in Nat \ S : \A n \in Nat \ S : m <= n
    BY LeastElement
<1>2. m # 0 /\ m - 1 \in Nat
    BY <1>1
<1>3. m - 1 \in S
    BY <1>1, <1>2
<1> QED BY <1>1, <1>2, <1>3

(***************************************************************************)
(* Induction up to a bound.                                                *)
(***************************************************************************)
LEMMA InductionUpTo ==
    ASSUME NEW bound \in Nat, NEW S,
           0 \in S, \A n \in 0 .. (bound - 1) : n \in S => n + 1 \in S
    PROVE  \A n \in 0 .. bound : n \in S
<1> DEFINE T == {n \in Nat : n <= bound => n \in S}
<1>1. 0 \in T
    OBVIOUS
<1>2. \A n \in Nat : n \in T => n + 1 \in T
    OBVIOUS
<1>3. \A n \in Nat : n \in T
    <2> HIDE DEF T
    <2> QED BY <1>1, <1>2, Induction
<1> QED BY <1>3

(***************************************************************************)
(* A sequence of whatever elements.                                        *)
(***************************************************************************)
IsSequence(s) == Len(s) \in Nat /\ s = [i \in 1 .. Len(s) |-> s[i]]

\* A sequence whose elements are in a set is one over that set.
LEMMA SequenceOver ==
    ASSUME NEW s, IsSequence(s), NEW S, \A i \in 1 .. Len(s) : s[i] \in S
    PROVE  s \in Seq(S) /\ DOMAIN s = 1 .. Len(s)
<1> DEFINE n == Len(s)
<1>1. n \in Nat /\ s = [i \in 1 .. n |-> s[i]]
    BY DEF IsSequence
<1>2. s \in [1 .. n -> S]
    BY <1>1
<1>3. s \in Seq(S)
    <2> HIDE DEF n
    <2> QED BY <1>1, <1>2
<1> QED BY <1>1, <1>3

\* A sequence over a set is a sequence.
LEMMA SeqIsSequence ==
    ASSUME NEW S, NEW s \in Seq(S)
    PROVE  IsSequence(s)
BY LenProperties DEF IsSequence

(***************************************************************************)
(* A function on an initial segment is a sequence of that length.          *)
(***************************************************************************)
LEMMA IndexedSequence ==
    ASSUME NEW n \in Nat, NEW s, s = [i \in 1 .. n |-> s[i]]
    PROVE  IsSequence(s) /\ Len(s) = n
<1> DEFINE S == {s[i] : i \in 1 .. n}
<1>1. \A i \in 1 .. n : s[i] \in S
    OBVIOUS
<1>2. s \in [1 .. n -> S]
    BY <1>1
<1>3. s \in Seq(S) /\ Len(s) = n
    <2> HIDE DEF S
    <2> QED BY <1>2
<1> QED BY <1>3 DEF IsSequence

\* The empty sequence.
LEMMA EmptySequence == IsSequence(<<>>) /\ Len(<<>>) = 0
BY DEF IsSequence

\* An element appended is the last one.
LEMMA AppendedSequence ==
    ASSUME NEW s, NEW x, IsSequence(s)
    PROVE  /\ IsSequence(Append(s, x))
           /\ Len(Append(s, x)) = Len(s) + 1
           /\ \A i \in 1 .. Len(s) : Append(s, x)[i] = s[i]
           /\ Append(s, x)[Len(s) + 1] = x
<1> DEFINE S == {s[i] : i \in 1 .. Len(s)} \cup {x}
<1>1. \A i \in 1 .. Len(s) : s[i] \in S
    OBVIOUS
<1>2. x \in S
    OBVIOUS
<1> HIDE DEF S
<1>3. s \in Seq(S)
    BY <1>1, SequenceOver
<1>4. Append(s, x) \in Seq(S)
    BY <1>2, <1>3, AppendProperties
<1>5. IsSequence(Append(s, x))
    BY <1>4, SeqIsSequence
<1> QED BY <1>2, <1>3, <1>5, AppendProperties

\* A concatenation has the elements of both, in order.
LEMMA ConcatenatedSequence ==
    ASSUME NEW s, NEW t, IsSequence(s), IsSequence(t)
    PROVE  /\ IsSequence(s \o t)
           /\ Len(s \o t) = Len(s) + Len(t)
           /\ \A i \in 1 .. Len(s) : (s \o t)[i] = s[i]
           /\ \A i \in 1 .. Len(t) : (s \o t)[Len(s) + i] = t[i]
<1> DEFINE S == {s[i] : i \in 1 .. Len(s)} \cup {t[i] : i \in 1 .. Len(t)}
<1>1. (\A i \in 1 .. Len(s) : s[i] \in S) /\ (\A i \in 1 .. Len(t) : t[i] \in S)
    OBVIOUS
<1> HIDE DEF S
<1>2. s \in Seq(S) /\ t \in Seq(S)
    BY <1>1, SequenceOver
<1>3. Len(s) \in Nat /\ Len(t) \in Nat
    BY DEF IsSequence
<1>4. /\ s \o t \in Seq(S)
      /\ Len(s \o t) = Len(s) + Len(t)
      /\ \A i \in 1 .. (Len(s) + Len(t)) :
            (s \o t)[i] = IF i <= Len(s) THEN s[i] ELSE t[i - Len(s)]
    BY <1>2, ConcatProperties
<1>5. IsSequence(s \o t)
    BY <1>4, SeqIsSequence
<1>6. \A i \in 1 .. Len(t) : (s \o t)[Len(s) + i] = t[i]
    <2> SUFFICES ASSUME NEW i \in 1 .. Len(t)
                 PROVE  (s \o t)[Len(s) + i] = t[i]
        OBVIOUS
    <2>1. Len(s) + i \in 1 .. (Len(s) + Len(t)) /\ ~(Len(s) + i <= Len(s)) /\ Len(s) + i - Len(s) = i
        BY <1>3
    <2> QED BY <2>1, <1>4
<1> QED BY <1>3, <1>4, <1>5, <1>6

\* A stretch of a sequence.
LEMMA SubSequence ==
    ASSUME NEW s, IsSequence(s), NEW m \in 1 .. (Len(s) + 1), NEW n \in (m - 1) .. Len(s)
    PROVE  /\ IsSequence(SubSeq(s, m, n))
           /\ Len(SubSeq(s, m, n)) = n - m + 1
           /\ \A i \in 1 .. (n - m + 1) : SubSeq(s, m, n)[i] = s[m + i - 1]
<1> DEFINE S == {s[i] : i \in 1 .. Len(s)}
<1>1. Len(s) \in Nat /\ m \in Int /\ n \in Int
    BY DEF IsSequence
<1>2. \A i \in m .. n : s[i] \in S
    BY <1>1
<1> HIDE DEF S
<1>3. /\ SubSeq(s, m, n) \in Seq(S)
      /\ Len(SubSeq(s, m, n)) = IF m <= n THEN n - m + 1 ELSE 0
      /\ \A i \in 1 .. (n - m + 1) : SubSeq(s, m, n)[i] = s[m + i - 1]
    BY <1>1, <1>2, SubSeqProperties
<1>4. IsSequence(SubSeq(s, m, n))
    BY <1>3, SeqIsSequence
<1> QED BY <1>1, <1>3, <1>4

\* Sequences of one length with the same elements are equal.
LEMMA SequencesEqual ==
    ASSUME NEW s, NEW t, IsSequence(s), IsSequence(t), Len(s) = Len(t),
           \A i \in 1 .. Len(s) : s[i] = t[i]
    PROVE  s = t
BY DEF IsSequence
================================================================================
