------------------------------ MODULE ProofStream -----------------------------
(***************************************************************************)
(* The proof stream, prover and verifier's only channel, and the source of *)
(* the randomness they agree on: a sponge that absorbs some of the items   *)
(* that pass and is squeezed for challenges.                               *)
(*                                                                         *)
(* Tip5 is an ideal sponge: its state is the history of what it absorbed   *)
(* and how often it was squeezed, and what it returns is any function of   *)
(* that history.                                                           *)
(***************************************************************************)
EXTENDS Integers, Sequences

CONSTANTS
    SampleScalars(_, _),        \* n scalars from a sponge
    SampleIndices(_, _, _)      \* n indices below a bound from a sponge

None == "none"

Item(kind, payload) == [kind |-> kind, payload |-> payload]

IncludedInFiatShamir ==
    {"MerkleRoot", "OutOfDomainMainRow", "OutOfDomainAuxRow", "OutOfDomainQuotientSegments"}

EmptyStream == [items |-> <<>>, items_index |-> 0, sponge |-> <<>>]

(***************************************************************************)
(* ProofStream::try_from: index and sponge are not part of a proof.        *)
(***************************************************************************)
StreamOf(proof) == [EmptyStream EXCEPT !.items = proof]

AlterFiatShamirStateWith(stream, item) == [stream EXCEPT !.sponge = Append(@, item)]

Passing(stream, item) ==
    IF item.kind \in IncludedInFiatShamir THEN AlterFiatShamirStateWith(stream, item) ELSE stream

Enqueue(stream, item) == [Passing(stream, item) EXCEPT !.items = Append(@, item)]

EnqueueAll(stream, items) ==
    LET after[i \in 0 .. Len(items)] ==
            IF i = 0 THEN stream ELSE Enqueue(after[i - 1], items[i])
    IN  after[Len(items)]

Squeezed(stream, what, n) == AlterFiatShamirStateWith(stream, Item(what, n))

\* wrong: looks for the next item of the expected kind and skips the others
DequeueOneOfKind(result, kind) ==
    LET stream == result.stream
        index == stream.items_index + 1
        later == {i \in index .. Len(stream.items) : stream.items[i].kind = kind}
        first == CHOOSE i \in later : \A j \in later : i <= j
        item == stream.items[first]
    IN  IF result.error # None THEN result
        ELSE IF later = {} THEN [result EXCEPT !.error = "EmptyQueue"]
        ELSE [result EXCEPT !.stream = [Passing(stream, item) EXCEPT !.items_index = first],
                            !.payloads = Append(@, item.payload)]

(***************************************************************************)
(* dequeue()? and try_into_*()?, for a whole list of expected kinds: the   *)
(* stream behind them, their payloads, and the first error.                *)
(***************************************************************************)
DequeueOne(result, kind) ==
    LET stream == result.stream
        item == stream.items[stream.items_index + 1]
        behind == [Passing(stream, item) EXCEPT !.items_index = @ + 1]
    IN  IF result.error # None THEN result
        ELSE IF stream.items_index >= Len(stream.items)
        THEN [result EXCEPT !.error = "EmptyQueue"]
        ELSE IF item.kind # kind
        THEN [result EXCEPT !.stream = behind, !.error = "UnexpectedItem"]
        ELSE [result EXCEPT !.stream = behind, !.payloads = Append(@, item.payload)]

Dequeue(stream, kinds) ==
    LET after[i \in 0 .. Len(kinds)] ==
            IF i = 0 THEN [stream |-> stream, payloads |-> <<>>, error |-> None]
                     ELSE DequeueOne(after[i - 1], kinds[i])
    IN  after[Len(kinds)]

(***************************************************************************)
(* Merkle trees of `twenty-first`, over a collision-free hash: a root is   *)
(* what it commits to, an authentication structure the tree and the leaves *)
(* it authenticates.  Leaf indices start at 0.                             *)
(***************************************************************************)
Root(leaves) == leaves

AuthenticationStructure(leaves, indices) ==
    [tree |-> leaves, indices |-> {indices[i] : i \in DOMAIN indices}]

InclusionHolds(root, length, indices, leaves, structure) ==
    /\ Len(root) = length
    /\ Len(indices) = Len(leaves)
    /\ structure = AuthenticationStructure(root, indices)
    /\ \A i \in DOMAIN indices : leaves[i] = root[indices[i] + 1]
==============================================================================
