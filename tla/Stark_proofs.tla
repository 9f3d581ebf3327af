----------------------------- MODULE Stark_proofs -----------------------------
(***************************************************************************)
(* Prover and verifier take the sponge through the same states, and only   *)
(* the proof that was sent is accepted: for every configuration.           *)
(*                                                                         *)
(* The history of the sponge is a function of the items (EventAt): the     *)
(* invariant says, for each party and stage, how many items it has sent or *)
(* read and how many events are in its history.                            *)
(***************************************************************************)
EXTENDS Stark, InductionLemmas

LOCAL INSTANCE SequencesExt

\* A proof stream as ProofStream is, of items of no particular kind.
IsStream(s) ==
    /\ s = [items |-> s.items, items_index |-> s.items_index, sponge |-> s.sponge]
    /\ IsSequence(s.items)
    /\ IsSequence(s.sponge)
    /\ s.items_index \in Nat

\* Items that Fiat-Shamir includes (proof_item.rs) are absorbed when sent or read.
Absorbed(item) == item.kind \in IncludedInFiatShamir

(***************************************************************************)
(* One item sent.                                                          *)
(***************************************************************************)
Extends(s, t, item) ==
    /\ Len(t) = Len(s) + 1
    /\ \A i \in 1 .. Len(s) : t[i] = s[i]
    /\ t[Len(s) + 1] = item

\* Altering the sponge adds the item to its history and to nothing else.
LEMMA Absorbing ==
    ASSUME NEW stream, IsStream(stream), NEW item
    PROVE  LET after == AlterFiatShamirStateWith(stream, item)
           IN  /\ IsStream(after)
               /\ after.items = stream.items
               /\ after.items_index = stream.items_index
               /\ Extends(stream.sponge, after.sponge, item)
<1> DEFINE after == AlterFiatShamirStateWith(stream, item)
<1>1. after = [items |-> stream.items, items_index |-> stream.items_index,
               sponge |-> Append(stream.sponge, item)]
    BY DEF IsStream, AlterFiatShamirStateWith
<1>2. /\ IsSequence(Append(stream.sponge, item))
      /\ Extends(stream.sponge, Append(stream.sponge, item), item)
    BY AppendedSequence DEF IsStream, Extends
<1>3. IsStream(after)
    <2> HIDE DEF after
    <2> QED BY <1>1, <1>2 DEF IsStream
<1> QED BY <1>1, <1>2, <1>3

\* An item that passes through the stream is absorbed if Fiat-Shamir includes it.
LEMMA PassingFacts ==
    ASSUME NEW stream, IsStream(stream), NEW item
    PROVE  LET after == Passing(stream, item)
           IN  /\ IsStream(after)
               /\ after.items = stream.items
               /\ after.items_index = stream.items_index
               /\ Absorbed(item) => Extends(stream.sponge, after.sponge, item)
               /\ ~Absorbed(item) => after.sponge = stream.sponge
<1>1. CASE Absorbed(item)
    BY <1>1, Absorbing DEF Passing, Absorbed
<1>2. CASE ~Absorbed(item)
    BY <1>2 DEF Passing, Absorbed
<1> QED BY <1>1, <1>2

\* An item sent is the stream's last, and absorbed if Fiat-Shamir includes it.
LEMMA Enqueueing ==
    ASSUME NEW stream, IsStream(stream), NEW item
    PROVE  LET after == Enqueue(stream, item)
           IN  /\ IsStream(after)
               /\ after.items_index = stream.items_index
               /\ Extends(stream.items, after.items, item)
               /\ Absorbed(item) => Extends(stream.sponge, after.sponge, item)
               /\ ~Absorbed(item) => after.sponge = stream.sponge
<1> DEFINE passing == Passing(stream, item)
           after == Enqueue(stream, item)
<1>1. /\ IsStream(passing)
      /\ passing.items = stream.items
      /\ passing.items_index = stream.items_index
      /\ Absorbed(item) => Extends(stream.sponge, passing.sponge, item)
      /\ ~Absorbed(item) => passing.sponge = stream.sponge
    BY PassingFacts
<1>2. after = [passing EXCEPT !.items = Append(@, item)]
    BY DEF Enqueue
<1> HIDE DEF passing, after
<1>3. after = [items |-> Append(stream.items, item), items_index |-> stream.items_index,
               sponge |-> passing.sponge]
    BY <1>1, <1>2 DEF IsStream
<1>4. /\ IsSequence(Append(stream.items, item))
      /\ Extends(stream.items, Append(stream.items, item), item)
    BY AppendedSequence DEF IsStream, Extends
<1> QED BY <1>1, <1>3, <1>4 DEF IsStream, after

(***************************************************************************)
(* EnqueueAll is the repeated Enqueue its recursion says.                  *)
(***************************************************************************)
EnqueuedOneByOne(f, stream, items, n) ==
    f = [i \in 0 .. n |-> IF i = 0 THEN stream ELSE Enqueue(f[i - 1], items[i])]

\* Sending a list of items is sending them one by one: the fold, as a function.
LEMMA EnqueueAllUnfolds ==
    ASSUME NEW stream, NEW items, IsSequence(items)
    PROVE  \E f : /\ EnqueuedOneByOne(f, stream, items, Len(items))
                  /\ EnqueueAll(stream, items) = f[Len(items)]
<1> DEFINE S == {n \in Nat : \E f : EnqueuedOneByOne(f, stream, items, n)}
<1>1. 0 \in S
    <2>1. EnqueuedOneByOne([i \in 0 .. 0 |-> stream], stream, items, 0)
        BY DEF EnqueuedOneByOne
    <2> QED BY <2>1
<1>2. ASSUME NEW n \in Nat, n \in S PROVE n + 1 \in S
    <2>1. PICK f : EnqueuedOneByOne(f, stream, items, n)
        BY <1>2
    <2> DEFINE g == [i \in 0 .. (n + 1) |-> IF i = n + 1 THEN Enqueue(f[n], items[n + 1]) ELSE f[i]]
    <2>2. \A i \in 0 .. (n + 1) : g[i] = IF i = 0 THEN stream ELSE Enqueue(g[i - 1], items[i])
        BY <2>1 DEF EnqueuedOneByOne
    <2>3. EnqueuedOneByOne(g, stream, items, n + 1)
        BY <2>2 DEF EnqueuedOneByOne
    <2> QED BY <2>3
<1>3. \A n \in Nat : n \in S
    <2> HIDE DEF S
    <2> QED BY <1>1, <1>2, Induction
<1>4. \E f : EnqueuedOneByOne(f, stream, items, Len(items))
    BY <1>3 DEF IsSequence
<1> DEFINE after == CHOOSE f : EnqueuedOneByOne(f, stream, items, Len(items))
<1>5. EnqueuedOneByOne(after, stream, items, Len(items))
    BY <1>4
<1>6. EnqueueAll(stream, items) = after[Len(items)]
    BY DEF EnqueueAll, EnqueuedOneByOne
<1> HIDE DEF after
<1> QED BY <1>5, <1>6

(***************************************************************************)
(* A list of items sent.                                                   *)
(***************************************************************************)
ExtendsBy(s, t, items, n) ==
    /\ Len(t) = Len(s) + n
    /\ \A i \in 1 .. Len(s) : t[i] = s[i]
    /\ \A i \in 1 .. n : t[Len(s) + i] = items[i]

\* An extension by n items, and one by the next item.
LEMMA ExtendsByOneMore ==
    ASSUME NEW s, NEW t, NEW u, NEW items, NEW n \in Nat, Len(s) \in Nat,
           ExtendsBy(s, t, items, n), Extends(t, u, items[n + 1])
    PROVE  ExtendsBy(s, u, items, n + 1)
<1>1. Len(t) = Len(s) + n /\ Len(u) = Len(s) + (n + 1)
    BY DEF ExtendsBy, Extends
<1>2. \A i \in 1 .. Len(s) : u[i] = s[i]
    BY <1>1 DEF ExtendsBy, Extends
<1>3. ASSUME NEW i \in 1 .. (n + 1) PROVE u[Len(s) + i] = items[i]
    <2>1. CASE i = n + 1
        <3>1. Len(s) + i = Len(t) + 1
            BY <1>1, <2>1
        <3> QED BY <2>1, <3>1 DEF Extends
    <2>2. CASE i # n + 1
        <3>1. i \in 1 .. n /\ Len(s) + i \in 1 .. Len(t)
            BY <1>1, <2>2
        <3> QED BY <3>1 DEF Extends, ExtendsBy
    <2> QED BY <2>1, <2>2
<1> QED BY <1>1, <1>2, <1>3 DEF ExtendsBy

\* A list of items sent follows the stream's items in order; the sponge has all or none.
LEMMA EnqueueingAll ==
    ASSUME NEW stream, IsStream(stream), NEW items, IsSequence(items)
    PROVE  LET after == EnqueueAll(stream, items)
           IN  /\ IsStream(after)
               /\ after.items_index = stream.items_index
               /\ ExtendsBy(stream.items, after.items, items, Len(items))
               /\ (\A i \in 1 .. Len(items) : Absorbed(items[i])) =>
                      ExtendsBy(stream.sponge, after.sponge, items, Len(items))
               /\ (\A i \in 1 .. Len(items) : ~Absorbed(items[i])) =>
                      after.sponge = stream.sponge
<1>1. PICK f : /\ EnqueuedOneByOne(f, stream, items, Len(items))
               /\ EnqueueAll(stream, items) = f[Len(items)]
    BY EnqueueAllUnfolds
<1> DEFINE all == \A i \in 1 .. Len(items) : Absorbed(items[i])
           none == \A i \in 1 .. Len(items) : ~Absorbed(items[i])
           Sent(n, t) == /\ IsStream(t)
                         /\ t.items_index = stream.items_index
                         /\ ExtendsBy(stream.items, t.items, items, n)
                         /\ all => ExtendsBy(stream.sponge, t.sponge, items, n)
                         /\ none => t.sponge = stream.sponge
           S == {n \in 0 .. Len(items) : Sent(n, f[n])}
<1>2. Len(items) \in Nat /\ Len(stream.items) \in Nat /\ Len(stream.sponge) \in Nat
    BY DEF IsStream, IsSequence
<1>3. 0 \in S
    <2>1. f[0] = stream
        BY <1>1, <1>2 DEF EnqueuedOneByOne
    <2> QED BY <1>2, <2>1 DEF ExtendsBy
<1>4. ASSUME NEW n \in 0 .. (Len(items) - 1), n \in S PROVE n + 1 \in S
    <2>1. f[n + 1] = Enqueue(f[n], items[n + 1])
        BY <1>1, <1>2 DEF EnqueuedOneByOne
    <2>2. Sent(n, f[n]) /\ n + 1 \in 1 .. Len(items) /\ n \in Nat
        BY <1>2, <1>4
    <2> DEFINE s == f[n]
               t == f[n + 1]
    <2>3. /\ IsStream(t)
          /\ t.items_index = s.items_index
          /\ Extends(s.items, t.items, items[n + 1])
          /\ Absorbed(items[n + 1]) => Extends(s.sponge, t.sponge, items[n + 1])
          /\ ~Absorbed(items[n + 1]) => t.sponge = s.sponge
        BY <2>1, <2>2, Enqueueing
    <2>4. ExtendsBy(stream.items, t.items, items, n + 1)
        BY <1>2, <2>2, <2>3, ExtendsByOneMore
    <2>5. none => t.sponge = stream.sponge
        BY <2>2, <2>3
    <2>6. all => ExtendsBy(stream.sponge, t.sponge, items, n + 1)
        BY <1>2, <2>2, <2>3, ExtendsByOneMore
    <2>7. Sent(n + 1, t)
        BY <2>2, <2>3, <2>4, <2>5, <2>6
    <2> QED BY <2>2, <2>7, <1>2
<1>5. Len(items) \in S
    <2>1. \A n \in 0 .. (Len(items) - 1) : n \in S => n + 1 \in S
        BY <1>4
    <2> HIDE DEF S
    <2>2. \A n \in 0 .. Len(items) : n \in S
        BY <1>2, <1>3, <2>1, InductionUpTo
    <2> QED BY <1>2, <2>2
<1> QED BY <1>1, <1>5

(***************************************************************************)
(* Dequeue is the repeated DequeueOne its recursion says.                  *)
(***************************************************************************)
Unread(stream) == [stream |-> stream, payloads |-> <<>>, error |-> None]

\* The intermediate results of reading a list of kinds.
DequeuedOneByOne(f, stream, kinds, n) ==
    f = [i \in 0 .. n |-> IF i = 0 THEN Unread(stream) ELSE DequeueOne(f[i - 1], kinds[i])]

\* Reading a list of kinds is reading them one by one: the fold, as a function.
LEMMA DequeueUnfolds ==
    ASSUME NEW stream, NEW kinds, IsSequence(kinds)
    PROVE  \E f : /\ DequeuedOneByOne(f, stream, kinds, Len(kinds))
                  /\ Dequeue(stream, kinds) = f[Len(kinds)]
<1> DEFINE S == {n \in Nat : \E f : DequeuedOneByOne(f, stream, kinds, n)}
<1>1. 0 \in S
    <2>1. DequeuedOneByOne([i \in 0 .. 0 |-> Unread(stream)], stream, kinds, 0)
        BY DEF DequeuedOneByOne
    <2> QED BY <2>1
<1>2. ASSUME NEW n \in Nat, n \in S PROVE n + 1 \in S
    <2>1. PICK f : DequeuedOneByOne(f, stream, kinds, n)
        BY <1>2
    <2> DEFINE g == [i \in 0 .. (n + 1) |->
                        IF i = n + 1 THEN DequeueOne(f[n], kinds[n + 1]) ELSE f[i]]
    <2>2. \A i \in 0 .. (n + 1) : g[i] = IF i = 0 THEN Unread(stream) ELSE DequeueOne(g[i - 1], kinds[i])
        BY <2>1 DEF DequeuedOneByOne
    <2>3. DequeuedOneByOne(g, stream, kinds, n + 1)
        BY <2>2 DEF DequeuedOneByOne
    <2> QED BY <2>3
<1>3. \A n \in Nat : n \in S
    <2> HIDE DEF S
    <2> QED BY <1>1, <1>2, Induction
<1>4. \E f : DequeuedOneByOne(f, stream, kinds, Len(kinds))
    BY <1>3 DEF IsSequence
<1> DEFINE after == CHOOSE f : DequeuedOneByOne(f, stream, kinds, Len(kinds))
<1>5. DequeuedOneByOne(after, stream, kinds, Len(kinds))
    BY <1>4
<1>6. Dequeue(stream, kinds) = after[Len(kinds)]
    BY DEF Dequeue, DequeuedOneByOne, Unread
<1> HIDE DEF after
<1> QED BY <1>5, <1>6

(***************************************************************************)
(* The items a list of kinds is expected to be those of.                   *)
(***************************************************************************)
Ahead(stream) == [j \in 1 .. (Len(stream.items) - stream.items_index) |->
                     stream.items[stream.items_index + j]]

\* The next n items are there, and of the kinds asked for.
HasKinds(stream, kinds, n) ==
    /\ n <= Len(stream.items) - stream.items_index
    /\ \A j \in 1 .. n : Ahead(stream)[j].kind = kinds[j]

(***************************************************************************)
(* What n items read, or an error on the way, make of a stream.            *)
(***************************************************************************)
HasRead(stream, kinds, n, result) ==
    /\ result = [stream |-> result.stream, payloads |-> result.payloads, error |-> result.error]
    /\ IsStream(result.stream)
    /\ IsSequence(result.payloads)
    /\ result.stream.items = stream.items
    /\ result.stream.items_index \in stream.items_index .. Len(stream.items)
    /\ HasKinds(stream, kinds, n) => result.error = None
    /\ result.error = None =>
          /\ HasKinds(stream, kinds, n)
          /\ result.stream.items_index = stream.items_index + n
          /\ Len(result.payloads) = n
          /\ \A j \in 1 .. n : result.payloads[j] = Ahead(stream)[j].payload
          /\ (\A j \in 1 .. n : kinds[j] \in IncludedInFiatShamir) =>
                ExtendsBy(stream.sponge, result.stream.sponge, Ahead(stream), n)
          /\ (\A j \in 1 .. n : kinds[j] \notin IncludedInFiatShamir) =>
                result.stream.sponge = stream.sponge

\* One more item read, unless an earlier one failed: the step of the induction.
LEMMA DequeueingOne ==
    ASSUME NEW stream, IsStream(stream), stream.items_index <= Len(stream.items),
           NEW kinds, NEW n \in Nat, NEW result, HasRead(stream, kinds, n, result)
    PROVE  HasRead(stream, kinds, n + 1, DequeueOne(result, kinds[n + 1]))
<1> DEFINE s == result.stream
           index == stream.items_index
           item == s.items[s.items_index + 1]
           passing == Passing(s, item)
           behind == [passing EXCEPT !.items_index = @ + 1]
           after == DequeueOne(result, kinds[n + 1])
<1>1. /\ Len(stream.items) \in Nat /\ index \in Nat /\ Len(stream.sponge) \in Nat
      /\ s.items_index \in index .. Len(stream.items)
      /\ s.items = stream.items
    BY DEF IsStream, IsSequence, HasRead
<1>2. HasKinds(stream, kinds, n + 1) => HasKinds(stream, kinds, n)
    BY <1>1 DEF HasKinds
<1>3. CASE result.error # None
    <2>1. after = result
        BY <1>3 DEF DequeueOne
    <2> QED BY <1>2, <1>3, <2>1 DEF HasRead
<1>4. CASE result.error = None
    <2>1. /\ HasKinds(stream, kinds, n)
          /\ s.items_index = index + n
          /\ Len(result.payloads) = n
          /\ \A j \in 1 .. n : result.payloads[j] = Ahead(stream)[j].payload
          /\ (\A j \in 1 .. n : kinds[j] \in IncludedInFiatShamir) =>
                ExtendsBy(stream.sponge, s.sponge, Ahead(stream), n)
          /\ (\A j \in 1 .. n : kinds[j] \notin IncludedInFiatShamir) =>
                s.sponge = stream.sponge
        BY <1>4 DEF HasRead
    <2>2. CASE index + n >= Len(stream.items)
        <3>1. after = [result EXCEPT !.error = "EmptyQueue"]
            BY <1>1, <1>4, <2>1, <2>2 DEF DequeueOne
        <3>2. ~HasKinds(stream, kinds, n + 1)
            BY <1>1, <2>2 DEF HasKinds
        <3>3. after = [stream |-> s, payloads |-> result.payloads, error |-> "EmptyQueue"]
            BY <3>1 DEF HasRead
        <3> QED BY <3>2, <3>3 DEF HasRead, None
    <2>3. CASE index + n < Len(stream.items)
        <3>1. /\ IsStream(passing) /\ passing.items = s.items /\ passing.items_index = s.items_index
              /\ Absorbed(item) => Extends(s.sponge, passing.sponge, item)
              /\ ~Absorbed(item) => passing.sponge = s.sponge
            BY PassingFacts DEF HasRead
        <3>2. behind = [items |-> s.items, items_index |-> s.items_index + 1, sponge |-> passing.sponge]
            <4> HIDE DEF passing, s
            <4> QED BY <3>1 DEF IsStream
        <3>3. IsStream(behind) /\ behind.items = stream.items /\ behind.items_index = index + (n + 1)
              /\ behind.sponge = passing.sponge
            <4> HIDE DEF passing, behind, s
            <4> QED BY <1>1, <2>1, <3>1, <3>2 DEF IsStream
        <3>4. item = Ahead(stream)[n + 1]
            BY <1>1, <2>1, <2>3 DEF Ahead
        <3>5. CASE item.kind # kinds[n + 1]
            <4>1. after = [result EXCEPT !.stream = behind, !.error = "UnexpectedItem"]
                BY <1>1, <1>4, <2>1, <2>3, <3>5 DEF DequeueOne
            <4> HIDE DEF behind, item
            <4>2. after = [stream |-> behind, payloads |-> result.payloads, error |-> "UnexpectedItem"]
                BY <4>1 DEF HasRead
            <4>3. ~HasKinds(stream, kinds, n + 1)
                BY <1>1, <3>4, <3>5 DEF HasKinds
            <4>4. behind.items_index \in index .. Len(stream.items)
                BY <1>1, <2>3, <3>3
            <4>5. HasRead(stream, kinds, n + 1, after)
                <5> HIDE DEF after, s
                <5> QED BY <3>3, <4>2, <4>3, <4>4 DEF HasRead, None
            <4> QED BY <4>5
        <3>6. CASE item.kind = kinds[n + 1]
            <4>1. after = [result EXCEPT !.stream = behind, !.payloads = Append(@, item.payload)]
                BY <1>1, <1>4, <2>1, <2>3, <3>6 DEF DequeueOne
            <4> HIDE DEF behind, item, passing
            <4>2. after = [stream |-> behind, payloads |-> Append(result.payloads, item.payload),
                           error |-> None]
                BY <1>4, <4>1 DEF HasRead
            <4>3. HasKinds(stream, kinds, n + 1)
                BY <1>1, <2>1, <2>3, <3>4, <3>6 DEF HasKinds
            <4>4. behind.items_index \in index .. Len(stream.items)
                BY <1>1, <2>3, <3>3
            <4>5. /\ IsSequence(Append(result.payloads, item.payload))
                  /\ Len(Append(result.payloads, item.payload)) = n + 1
                  /\ \A j \in 1 .. (n + 1) :
                        Append(result.payloads, item.payload)[j] = Ahead(stream)[j].payload
                BY <2>1, <3>4, AppendedSequence DEF HasRead
            <4>6. ASSUME \A j \in 1 .. (n + 1) : kinds[j] \in IncludedInFiatShamir
                  PROVE  ExtendsBy(stream.sponge, behind.sponge, Ahead(stream), n + 1)
                <5>1. Absorbed(item) /\ ExtendsBy(stream.sponge, s.sponge, Ahead(stream), n)
                    BY <2>1, <3>6, <4>6 DEF Absorbed
                <5> QED BY <1>1, <3>1, <3>3, <3>4, <5>1, ExtendsByOneMore
            <4>7. ASSUME \A j \in 1 .. (n + 1) : kinds[j] \notin IncludedInFiatShamir
                  PROVE  behind.sponge = stream.sponge
                BY <2>1, <3>1, <3>3, <3>6, <4>7 DEF Absorbed
            <4>8. HasRead(stream, kinds, n + 1, after)
                <5> HIDE DEF after, s
                <5> QED BY <3>3, <4>2, <4>3, <4>4, <4>5, <4>6, <4>7 DEF HasRead
            <4> QED BY <4>8
        <3> QED BY <3>5, <3>6
    <2> QED BY <1>1, <2>2, <2>3
<1> QED BY <1>3, <1>4

\* What reading a list of kinds returns, for every stream and every list.
LEMMA Dequeueing ==
    ASSUME NEW stream, IsStream(stream), stream.items_index <= Len(stream.items),
           NEW kinds, IsSequence(kinds)
    PROVE  HasRead(stream, kinds, Len(kinds), Dequeue(stream, kinds))
<1>1. PICK f : /\ DequeuedOneByOne(f, stream, kinds, Len(kinds))
               /\ Dequeue(stream, kinds) = f[Len(kinds)]
    BY DequeueUnfolds
<1> DEFINE S == {n \in 0 .. Len(kinds) : HasRead(stream, kinds, n, f[n])}
<1>2. Len(kinds) \in Nat /\ Len(stream.items) \in Nat /\ stream.items_index \in Nat /\ Len(stream.sponge) \in Nat
    BY DEF IsStream, IsSequence
<1>3. 0 \in S
    <2>1. f[0] = Unread(stream)
        BY <1>1, <1>2 DEF DequeuedOneByOne
    <2>2. HasRead(stream, kinds, 0, Unread(stream))
        BY <1>2, EmptySequence DEF HasRead, Unread, HasKinds, ExtendsBy
    <2> QED BY <1>2, <2>1, <2>2
<1>4. \A n \in 0 .. (Len(kinds) - 1) : n \in S => n + 1 \in S
    <2> SUFFICES ASSUME NEW n \in 0 .. (Len(kinds) - 1), n \in S PROVE n + 1 \in S
        OBVIOUS
    <2>1. f[n + 1] = DequeueOne(f[n], kinds[n + 1]) /\ n \in Nat /\ n + 1 \in 0 .. Len(kinds)
        BY <1>1, <1>2 DEF DequeuedOneByOne
    <2> QED BY <2>1, DequeueingOne
<1>5. \A n \in 0 .. Len(kinds) : n \in S
    <2> HIDE DEF S
    <2> QED BY <1>2, <1>3, <1>4, InductionUpTo
<1> QED BY <1>1, <1>2, <1>5

(***************************************************************************)
(* A proof's items by their kinds, for a number of FRI rounds with a next. *)
(***************************************************************************)
KindAt(r, j) ==
    IF j = 1 THEN "Log2PaddedHeight"
    ELSE IF j <= 4 THEN "MerkleRoot"
    ELSE IF j \in {5, 7} THEN "OutOfDomainMainRow"
    ELSE IF j \in {6, 8} THEN "OutOfDomainAuxRow"
    ELSE IF j = 9 THEN "OutOfDomainQuotientSegments"
    ELSE IF j <= 10 + r THEN "MerkleRoot"
    ELSE IF j = 11 + r THEN "FriCodeword"
    ELSE IF j = 12 + r THEN "FriPolynomial"
    ELSE IF j <= 13 + 2 * r THEN "FriResponse"
    ELSE IF j = 14 + 2 * r THEN "MasterMainTableRows"
    ELSE IF j = 16 + 2 * r THEN "MasterAuxTableRows"
    ELSE IF j = 18 + 2 * r THEN "QuotientSegmentsElements"
    ELSE "AuthenticationStructure"

(***************************************************************************)
(* The history of a sponge that a list of items goes by: the j-th event.   *)
(***************************************************************************)
EventAt(c, items, j) ==
    IF j = 1 THEN Item("Claim", c.claim)
    ELSE IF j = 2 THEN items[2]
    ELSE IF j = 3 THEN Item("scalars", SampleCount)
    ELSE IF j = 4 THEN items[3]
    ELSE IF j = 5 THEN Item("scalars", NumConstraints)
    ELSE IF j = 6 THEN items[4]
    ELSE IF j = 7 THEN Item("scalars", 1)
    ELSE IF j <= 12 THEN items[j - 3]
    ELSE IF j = 13 THEN Item("scalars", NumWeights)
    ELSE IF j <= 14 + 2 * NumRounds(c) /\ j % 2 = 0 THEN items[3 + (j \div 2)]
    ELSE IF j = 15 + 2 * NumRounds(c) THEN Item("indices", c.num_collinearity_checks)
    ELSE Item("scalars", 1)

\* The sponge's history after the first n of its events.
Transcript(c, items, n) == [j \in 1 .. n |-> EventAt(c, items, j)]

\* The indices of FRI's queries: sampled when 14 + 2R events have gone by.
SampledIndices(c, items) ==
    SampleIndices(Transcript(c, items, 14 + 2 * NumRounds(c)), FriDomain(c).length,
                  c.num_collinearity_checks)

\* How many times FRI folds.
R == NumRounds(config)

\* The domains of FRI's rounds: the first, and the halves of it.
HalvedFrom(domain, rounds) ==
    /\ Len(rounds) > 0 => rounds[1].domain = domain
    /\ \A k \in 1 .. (Len(rounds) - 1) : rounds[k + 1].domain = Halve(rounds[k].domain)

\* What Fri::query sends of a tree at some indices.
ResponseTo(root, indices) ==
    [revealed_leaves |-> [i \in DOMAIN indices |-> root[indices[i] + 1]],
     auth_structure |-> AuthenticationStructure(root, indices)]

(***************************************************************************)
(* The prover.                                                             *)
(***************************************************************************)
\* Stages in which the prover is at work.
ProverStages == {"main", "aux", "quotient", "out_of_domain", "combination", "rounds", "query", "leafs"}
\* Stages in which the verifier is at work, or has accepted.
VerifierStages ==
    {"height", "main_root", "aux_root", "quotient_root", "ood_rows", "fri_roots", "fri_responses",
     "leafs_of_main", "leafs_of_aux", "leafs_of_quotient", "linear_combination", "accepted"}
\* The items of the proof, as the prover has written it so far.
Sent == prover.stream.items

\* The prover has sent m items, and n events are in its sponge's history.
ProverAt(m, n) == Len(Sent) = m /\ prover.stream.sponge = Transcript(config, Sent, n)

\* How far the prover is, at each stage.  Out-of-domain rows are five items; a round of FRI
\* is one item and two events, the last round has no challenge.
ProverProgress ==
    /\ stage \in ProverStages \cup {"proof", "refused"} \cup VerifierStages
    /\ stage = "main" => ProverAt(0, 0)
    /\ stage = "aux" => ProverAt(2, 3)
    /\ stage = "quotient" => ProverAt(3, 5)
    /\ stage = "out_of_domain" => ProverAt(4, 7)
    /\ stage = "combination" => ProverAt(9, 13)
    /\ stage = "rounds" => ProverAt(9 + Len(prover.rounds), 12 + 2 * Len(prover.rounds))
    /\ stage = "query" => ProverAt(12 + R, 15 + 2 * R)
    /\ stage = "leafs" => ProverAt(13 + 2 * R, 16 + 2 * R)
    /\ stage \in {"proof", "refused"} \cup VerifierStages => ProverAt(19 + 2 * R, 16 + 2 * R)

\* An item is its kind and its payload.
IsOfKind(item, kind) == item = [kind |-> kind, payload |-> item.payload]

\* Items in the order of the protocol.
OfKinds(items, r) == \A j \in 1 .. Len(items) : IsOfKind(items[j], KindAt(r, j))

\* The prover writes the items in the order of the protocol.
SentItems == OfKinds(Sent, R)

\* The prover's trees are those whose roots it has sent.
HeightAndTreesAreSent ==
    /\ stage # "main" => Sent[1].payload = Ilog2(config.padded_height)
    /\ stage \in ProverStages \ {"main"} => prover.main_tree = Sent[2].payload
    /\ stage \in ProverStages \ {"main", "aux"} => prover.aux_tree = Sent[3].payload
    /\ stage \in ProverStages \ {"main", "aux", "quotient"} => prover.quotient_tree = Sent[4].payload

\* The codewords of FRI's rounds are those whose roots the prover has sent.
RoundsAreSent ==
    /\ stage \in {"aux", "quotient", "out_of_domain", "combination"} => prover.rounds = <<>>
    /\ stage = "rounds" => Len(prover.rounds) \in 1 .. (R + 1)
    /\ stage = "query" => Len(prover.rounds) = R + 1 /\ prover.indices = SampledIndices(config, Sent)
    /\ stage \in {"combination", "rounds", "query"} =>
          /\ IsSequence(prover.rounds)
          /\ HalvedFrom(FriDomain(config), prover.rounds)
          /\ \A k \in 1 .. Len(prover.rounds) : prover.rounds[k].codeword = Sent[9 + k].payload

\* The responses of FRI, for the trees whose roots are among the items, and for the indices
\* that the items determine.
ResponsesAreIn(items, rounds) ==
    /\ Len(rounds) = R + 1
    /\ HalvedFrom(FriDomain(config), rounds)
    /\ items[13 + R].payload = ResponseTo(items[10].payload, SampledIndices(config, items))
    /\ \A k \in 1 .. R :
          items[13 + R + k].payload =
              ResponseTo(items[9 + k].payload,
                         BIndices(SampledIndices(config, items), rounds[k].domain.length))

\* The responses sent are those of the rounds' trees, at the indices sampled.
ResponsesAreSent ==
    stage \in {"leafs", "proof", "refused"} \cup VerifierStages =>
        \E rounds : ResponsesAreIn(Sent, rounds)

\* The leafs sent are opened against the trees whose roots were sent.
LeafsAreSent ==
    stage \in {"proof", "refused"} \cup VerifierStages =>
        /\ Sent[15 + 2 * R].payload.tree = Sent[2].payload
        /\ Sent[17 + 2 * R].payload.tree = Sent[3].payload
        /\ Sent[19 + 2 * R].payload.tree = Sent[4].payload

(***************************************************************************)
(* The verifier.                                                           *)
(***************************************************************************)
Received == verifier.stream.items

\* The verifier has read m items, and n events are in its sponge's history.
VerifierAt(m, n) ==
    /\ verifier.stream.items_index = m
    /\ verifier.stream.sponge = Transcript(config, Received, n)

\* How far the verifier is, at each stage.  Of a proof that arrived as it was sent the history
\* is known even after a refusal.
VerifierProgress ==
    /\ stage = "height" => VerifierAt(0, 1)
    /\ stage = "main_root" => VerifierAt(1, 1)
    /\ stage = "aux_root" => VerifierAt(2, 3)
    /\ stage = "quotient_root" => VerifierAt(3, 5)
    /\ stage = "ood_rows" => VerifierAt(4, 7)
    /\ stage = "fri_roots" =>
          LET k == Len(verifier.rounds)
          IN  VerifierAt(9 + k, IF k <= R THEN 13 + 2 * k ELSE 12 + 2 * k)
    /\ stage = "fri_responses" => VerifierAt(12 + R + verifier.num_responses, 15 + 2 * R)
    /\ stage = "leafs_of_main" => VerifierAt(13 + 2 * R, 16 + 2 * R)
    /\ stage = "leafs_of_aux" => VerifierAt(15 + 2 * R, 16 + 2 * R)
    /\ stage = "leafs_of_quotient" => VerifierAt(17 + 2 * R, 16 + 2 * R)
    /\ stage \in {"linear_combination", "accepted"} => VerifierAt(19 + 2 * R, 16 + 2 * R)
    /\ stage = "refused" /\ delivery = Intact =>
          \E n \in 0 .. (16 + 2 * R) : verifier.stream.sponge = Transcript(config, Received, n)

\* What the verifier has read has the kinds expected, and the height read is the prover's.
ReadItems ==
    stage \in VerifierStages =>
        /\ stage # "height" => verifier.padded_height = config.padded_height
        /\ \A j \in 1 .. verifier.stream.items_index : Received[j].kind = KindAt(R, j)

\* The roots that the verifier keeps are those it has read.
RootsAreRead ==
    /\ stage \in VerifierStages \ {"height", "main_root"} => verifier.main_root = Received[2].payload
    /\ stage \in VerifierStages \ {"height", "main_root", "aux_root"} =>
          verifier.aux_root = Received[3].payload
    /\ stage \in VerifierStages \ {"height", "main_root", "aux_root", "quotient_root"} =>
          verifier.quotient_root = Received[4].payload

\* Its rounds of FRI have the roots read, on domains halved from the prover's.
RoundsAreRead ==
    stage \in VerifierStages =>
        /\ stage \in {"height", "main_root", "aux_root", "quotient_root", "ood_rows"} =>
              verifier.rounds = <<>>
        /\ stage = "fri_roots" => Len(verifier.rounds) \in 0 .. (R + 1)
        /\ stage \in {"height", "main_root", "aux_root", "quotient_root", "ood_rows", "fri_roots"} =>
              verifier.num_responses = 0
        /\ HalvedFrom(FriDomain(config), verifier.rounds)
        /\ \A k \in 1 .. Len(verifier.rounds) :
              /\ DOMAIN verifier.rounds[k] =
                    {"domain", "merkle_root", "folding_challenge", "partial_codeword_a", "partial_codeword_b"}
              /\ verifier.rounds[k].merkle_root = Received[9 + k].payload

\* Stages behind the last of FRI's rounds.
AfterRounds ==
    VerifierStages \ {"height", "main_root", "aux_root", "quotient_root", "ood_rows", "fri_roots"}

\* Responses passed are those of the roots read: leafs and authentication structure of a
\* round's tree at the indices.  The first response is left out: two neighbours in the
\* wrong order are found out by the later of them.
ResponsesAreRead ==
    stage \in AfterRounds =>
        /\ Len(verifier.rounds) = R + 1
        /\ verifier.indices = SampledIndices(config, Received)
        /\ stage # "fri_responses" => verifier.num_responses = R + 1
        /\ \A k \in 2 .. verifier.num_responses :
              LET response == Received[12 + R + k].payload
                  indices == BIndices(verifier.indices, verifier.rounds[k - 1].domain.length)
                  root == Received[8 + k].payload
              IN  /\ response.auth_structure = AuthenticationStructure(root, indices)
                  /\ \A i \in DOMAIN indices : response.revealed_leaves[i] = root[indices[i] + 1]

\* The leafs passed are opened against the roots read.
LeafsAreRead ==
    /\ stage \in {"leafs_of_aux", "leafs_of_quotient", "linear_combination", "accepted"} =>
          Received[15 + 2 * R].payload.tree = Received[2].payload
    /\ stage \in {"leafs_of_quotient", "linear_combination", "accepted"} =>
          Received[17 + 2 * R].payload.tree = Received[3].payload
    /\ stage \in {"linear_combination", "accepted"} =>
          Received[19 + 2 * R].payload.tree = Received[4].payload

\* The prover's locals.
ProverFields ==
    {"stream", "main", "aux", "main_tree", "aux_tree", "quotient_tree", "challenges",
     "quotient_weights", "quotient", "ood_point", "weights", "rounds", "indices"}

\* The verifier's locals.
VerifierFields ==
    {"stream", "error", "padded_height", "main_root", "aux_root", "quotient_root", "challenges",
     "quotient_weights", "ood_point", "ood", "weights", "rounds", "last_codeword",
     "last_polynomial", "indices", "num_responses", "leafs"}

\* What holds of the prover.
ProverInv ==
    /\ config \in Configurations
    /\ IsStream(prover.stream)
    /\ DOMAIN prover = ProverFields
    /\ ProverProgress
    /\ SentItems
    /\ HeightAndTreesAreSent
    /\ RoundsAreSent
    /\ ResponsesAreSent
    /\ LeafsAreSent

\* The verifier reads a stream, never past its end, and refuses exactly if there was an error.
VerifierTypeOK ==
    /\ IsStream(verifier.stream)
    /\ DOMAIN verifier = VerifierFields
    /\ IsSequence(verifier.rounds)
    /\ verifier.stream.items_index <= Len(Received)
    /\ verifier.num_responses \in 0 .. Len(verifier.rounds)
    /\ (verifier.error # None) <=> (stage = "refused")

\* The verifier reads what was delivered, and nothing before that.
DeliveryOK ==
    /\ stage \in ProverStages \cup {"proof"} => delivery = Intact /\ verifier = NoVerifier
    /\ stage \in {"refused"} \cup VerifierStages =>
          /\ delivery \in Deliveries(Len(Sent))
          /\ Received = Delivered(Sent, delivery)


(***************************************************************************)
(* Lemmas on transcripts.                                                  *)
(***************************************************************************)
LEMMA TranscriptIsSequence ==
    ASSUME NEW c, NEW items, NEW n \in Nat
    PROVE  IsSequence(Transcript(c, items, n)) /\ Len(Transcript(c, items, n)) = n
<1> DEFINE s == Transcript(c, items, n)
<1>1. s = [i \in 1 .. n |-> s[i]]
    BY DEF Transcript
<1> HIDE DEF s
<1>2. IsSequence(s) /\ Len(s) = n
    BY <1>1, IndexedSequence
<1> QED BY <1>2 DEF s

(***************************************************************************)
(* The first n events of a transcript are those of the first m items.      *)
(***************************************************************************)
Covered(r, n, m) ==
    \/ n <= 1
    \/ n <= 3 /\ m >= 2
    \/ n <= 5 /\ m >= 3
    \/ n <= 7 /\ m >= 4
    \/ n <= 13 /\ m >= 9
    \/ n <= 14 + 2 * r /\ m >= 3 + (n \div 2)
    \/ m >= 10 + r

\* Items that agree up to the m-th have the same events, as far as those cover them.
LEMMA TranscriptOfPrefix ==
    ASSUME NEW c, NumRounds(c) \in Nat, NEW old, NEW new, NEW n \in Nat, NEW m \in Nat,
           Covered(NumRounds(c), n, m), \A i \in 1 .. m : new[i] = old[i]
    PROVE  Transcript(c, new, n) = Transcript(c, old, n)
<1> SUFFICES ASSUME NEW j \in 1 .. n
             PROVE  EventAt(c, new, j) = EventAt(c, old, j)
    BY DEF Transcript
<1> DEFINE r == NumRounds(c)
<1>1. CASE j <= 12
    <2>1. (j = 2 => 2 \in 1 .. m) /\ (j = 4 => 3 \in 1 .. m) /\ (j = 6 => 4 \in 1 .. m)
          /\ (j >= 8 => j - 3 \in 1 .. m)
        BY <1>1 DEF Covered
    <2> QED BY <1>1, <2>1 DEF EventAt
<1>2. CASE j > 13 /\ j <= 14 + 2 * r /\ j % 2 = 0
    <2>1. 3 + (j \div 2) \in 1 .. m
        BY <1>2 DEF Covered
    <2> QED BY <1>2, <2>1 DEF EventAt
<1>3. CASE j = 13 \/ (j > 13 /\ ~(j <= 14 + 2 * r /\ j % 2 = 0))
    BY <1>3 DEF EventAt
<1> QED BY <1>1, <1>2, <1>3

\* A history that goes on with the transcript's next k events is the longer transcript.
LEMMA TranscriptGrows ==
    ASSUME NEW c, NEW items, NEW n \in Nat, NEW k \in Nat, NEW more, NEW t, IsSequence(t),
           ExtendsBy(Transcript(c, items, n), t, more, k),
           \A i \in 1 .. k : more[i] = EventAt(c, items, n + i)
    PROVE  t = Transcript(c, items, n + k)
<1> DEFINE s == Transcript(c, items, n)
           u == Transcript(c, items, n + k)
<1>1. Len(s) = n /\ IsSequence(u) /\ Len(u) = n + k
    BY TranscriptIsSequence
<1>2. Len(t) = n + k
    BY <1>1 DEF ExtendsBy
<1>3. ASSUME NEW i \in 1 .. (n + k) PROVE t[i] = u[i]
    <2>1. u[i] = EventAt(c, items, i)
        BY DEF Transcript
    <2>2. CASE i <= n
        <3>1. i \in 1 .. n /\ s[i] = EventAt(c, items, i)
            BY <2>2 DEF Transcript
        <3> QED BY <1>1, <2>1, <3>1 DEF ExtendsBy
    <2>3. CASE i > n
        <3>1. i - n \in 1 .. k /\ n + (i - n) = i
            BY <2>3
        <3>2. t[n + (i - n)] = more[i - n]
            BY <1>1, <3>1 DEF ExtendsBy
        <3> QED BY <2>1, <3>1, <3>2
    <2> QED BY <2>2, <2>3
<1> HIDE DEF s, u
<1>4. t = u
    BY <1>1, <1>2, <1>3, SequencesEqual
<1> QED BY <1>4 DEF u

\* The same for one event.
LEMMA TranscriptGrowsByOne ==
    ASSUME NEW c, NEW items, NEW n \in Nat, NEW t, IsSequence(t),
           Extends(Transcript(c, items, n), t, EventAt(c, items, n + 1))
    PROVE  t = Transcript(c, items, n + 1)
<1> DEFINE more == <<EventAt(c, items, n + 1)>>
<1>1. ExtendsBy(Transcript(c, items, n), t, more, 1)
    BY DEF Extends, ExtendsBy
<1>2. \A i \in 1 .. 1 : more[i] = EventAt(c, items, n + i)
    OBVIOUS
<1> HIDE DEF more
<1> QED BY <1>1, <1>2, TranscriptGrows

(***************************************************************************)
(* The prover's steps.                                                     *)
(***************************************************************************)
LEMMA ConfigurationFacts ==
    ASSUME config \in Configurations
    PROVE  /\ R \in Nat
           /\ NumRounds(config) = R
           /\ 2^Ilog2(config.padded_height) = config.padded_height
BY ConfigurationsAssumption DEF R

\* The tuples the code sends and reads are sequences, of their lengths.
LEMMA TupleSequences ==
    /\ \A a : IsSequence(<<a>>) /\ Len(<<a>>) = 1
    /\ \A a, b : IsSequence(<<a, b>>) /\ Len(<<a, b>>) = 2
    /\ \A a, b, c, d, e : IsSequence(<<a, b, c, d, e>>) /\ Len(<<a, b, c, d, e>>) = 5
    /\ \A a, b, c, d, e, f :
          IsSequence(<<a, b, c, d, e, f>>) /\ Len(<<a, b, c, d, e, f>>) = 6
BY DEF IsSequence

\* A list of two items is sent as its items are, one after the other.
LEMMA EnqueueTwo ==
    ASSUME NEW stream, NEW a, NEW b
    PROVE  EnqueueAll(stream, <<a, b>>) = Enqueue(Enqueue(stream, a), b)
<1> DEFINE items == <<a, b>>
<1>1. IsSequence(items) /\ Len(items) = 2
    BY TupleSequences
<1>2. PICK f : EnqueuedOneByOne(f, stream, items, 2) /\ EnqueueAll(stream, items) = f[2]
    BY <1>1, EnqueueAllUnfolds
<1>3. f[0] = stream /\ f[1] = Enqueue(f[0], items[1]) /\ f[2] = Enqueue(f[1], items[2])
    BY <1>2 DEF EnqueuedOneByOne
<1> QED BY <1>2, <1>3

\* ProofStream::new: no items, none read, nothing absorbed.
LEMMA EmptyStreamIsStream == IsStream(EmptyStream) /\ EmptyStream.items = <<>>
    /\ EmptyStream.sponge = <<>> /\ EmptyStream.items_index = 0
BY EmptySequence DEF IsStream, EmptyStream

(***************************************************************************)
(* An item that is absorbed, and the scalars sampled after it.             *)
(***************************************************************************)
LEMMA CommittingTo ==
    ASSUME NEW s, IsStream(s), NEW item, Absorbed(item), NEW n, NEW c, NEW k \in Nat,
           NumRounds(c) \in Nat, NEW t, t = AfterScalars(Enqueue(s, item), n),
           s.sponge = Transcript(c, s.items, k), Covered(NumRounds(c), k, Len(s.items)),
           EventAt(c, t.items, k + 1) = t.items[Len(s.items) + 1],
           EventAt(c, t.items, k + 2) = Item("scalars", n)
    PROVE  /\ IsStream(t)
           /\ Extends(s.items, t.items, item)
           /\ t.sponge = Transcript(c, t.items, k + 2)
<1> DEFINE u == Enqueue(s, item)
<1>1. /\ IsStream(u)
      /\ Extends(s.items, u.items, item)
      /\ Extends(s.sponge, u.sponge, item)
    BY Enqueueing
<1>2. /\ IsStream(t)
      /\ t.items = u.items
      /\ Extends(u.sponge, t.sponge, Item("scalars", n))
    BY <1>1, Absorbing DEF AfterScalars, Squeezed
<1> HIDE DEF u
<1>3. s.sponge = Transcript(c, t.items, k)
    <2>1. Len(s.items) \in Nat /\ \A i \in 1 .. Len(s.items) : t.items[i] = s.items[i]
        BY <1>1, <1>2 DEF Extends, IsStream, IsSequence
    <2> QED BY <2>1, TranscriptOfPrefix
<1>4. u.sponge = Transcript(c, t.items, k + 1)
    <2>1. item = EventAt(c, t.items, k + 1)
        BY <1>1, <1>2 DEF Extends
    <2>2. Extends(Transcript(c, t.items, k), u.sponge, EventAt(c, t.items, k + 1))
        BY <1>1, <1>3, <2>1
    <2>3. IsSequence(u.sponge)
        BY <1>1 DEF IsStream
    <2> QED BY <2>2, <2>3, TranscriptGrowsByOne
<1>5. t.sponge = Transcript(c, t.items, k + 2)
    <2>1. k + 1 \in Nat /\ (k + 1) + 1 = k + 2
        OBVIOUS
    <2> QED BY <1>2, <1>4, <2>1, TranscriptGrowsByOne DEF IsStream
<1> QED BY <1>1, <1>2, <1>5

\* Items of the expected kinds, followed by more of the expected kinds.
LEMMA KindsExtend ==
    ASSUME NEW s, NEW t, NEW more, NEW k \in Nat, NEW r, Len(s) \in Nat,
           OfKinds(s, r), ExtendsBy(s, t, more, k),
           \A i \in 1 .. k :
              IsOfKind(more[i], KindAt(r, Len(s) + i))
    PROVE  OfKinds(t, r)
<1> SUFFICES ASSUME NEW j \in 1 .. (Len(s) + k)
             PROVE  IsOfKind(t[j], KindAt(r, j))
    BY DEF OfKinds, ExtendsBy
<1>1. CASE j <= Len(s)
    <2>1. j \in 1 .. Len(s) /\ t[j] = s[j]
        BY <1>1 DEF ExtendsBy
    <2> QED BY <2>1 DEF OfKinds
<1>2. CASE j > Len(s)
    <2>1. j - Len(s) \in 1 .. k /\ Len(s) + (j - Len(s)) = j
        BY <1>2
    <2>2. t[Len(s) + (j - Len(s))] = more[j - Len(s)]
        BY <2>1 DEF ExtendsBy
    <2> QED BY <2>1, <2>2
<1> QED BY <1>1, <1>2

\* The same for one item.
LEMMA KindsExtendByOne ==
    ASSUME NEW s, NEW t, NEW item, NEW r, Len(s) \in Nat,
           OfKinds(s, r), Extends(s, t, item),
           IsOfKind(item, KindAt(r, Len(s) + 1))
    PROVE  OfKinds(t, r)
<1> DEFINE more == <<item>>
<1>1. ExtendsBy(s, t, more, 1)
    BY DEF Extends, ExtendsBy
<1>2. \A i \in 1 .. 1 :
          IsOfKind(more[i], KindAt(r, Len(s) + i))
    OBVIOUS
<1> HIDE DEF more
<1> QED BY <1>1, <1>2, KindsExtend

\* The claim is absorbed, height and main tree's root are sent, challenges sampled.
LEMMA CommitToMainTableKeepsInv ==
    ASSUME ProverInv, CommitToMainTable
    PROVE  ProverInv'
<1>1. PICK main :
          /\ stage = "main"
          /\ LET tree == HashedRows(config, main)
                 committed == EnqueueAll(AfterClaim(EmptyStream, config.claim),
                                  <<Item("Log2PaddedHeight", Ilog2(config.padded_height)),
                                    Item("MerkleRoot", Root(tree))>>)
             IN  ProverStep("aux",
                   [NoProver EXCEPT
                       !.main = main,
                       !.main_tree = tree,
                       !.challenges = ChallengesOf(Scalars(committed, SampleCount), config.claim),
                       !.stream = AfterScalars(committed, SampleCount)])
    BY DEF CommitToMainTable
<1> DEFINE tree == HashedRows(config, main)
           height == Item("Log2PaddedHeight", Ilog2(config.padded_height))
           root == Item("MerkleRoot", Root(tree))
           claimed == AfterClaim(EmptyStream, config.claim)
           sent == Enqueue(claimed, height)
           t == AfterScalars(Enqueue(sent, root), SampleCount)
<1>2. R \in Nat /\ NumRounds(config) = R /\ config \in Configurations
    BY ConfigurationFacts DEF ProverInv
<1>3. /\ stage' = "aux" /\ config' = config /\ DOMAIN prover' = ProverFields
      /\ prover'.stream = t /\ prover'.main_tree = tree /\ prover'.rounds = <<>>
    BY <1>1, EnqueueTwo DEF ProverStep, NoProver, ProverFields
<1>4. /\ IsStream(claimed) /\ claimed.items = <<>>
      /\ Extends(<<>>, claimed.sponge, Item("Claim", config.claim))
    BY EmptyStreamIsStream, Absorbing DEF AfterClaim
<1>5. /\ IsStream(sent)
      /\ Extends(<<>>, sent.items, height)
      /\ sent.sponge = claimed.sponge
    BY <1>4, Enqueueing DEF Absorbed, Item, IncludedInFiatShamir
<1>6. sent.sponge = Transcript(config, sent.items, 1)
    <2>1. Extends(Transcript(config, sent.items, 0), sent.sponge, EventAt(config, sent.items, 0 + 1))
        <3>1. Transcript(config, sent.items, 0) = <<>>
            BY EmptySequence, TranscriptIsSequence, SequencesEqual
        <3> QED BY <1>4, <1>5, <3>1 DEF EventAt
    <2>2. IsSequence(sent.sponge)
        BY <1>5 DEF IsStream
    <2> QED BY <2>1, <2>2, TranscriptGrowsByOne
<1> HIDE DEF sent, claimed
<1>7. Len(sent.items) = 1 /\ sent.items[1] = height
    BY <1>5, EmptySequence DEF Extends
<1>8. /\ IsStream(t)
      /\ Extends(sent.items, t.items, root)
      /\ t.sponge = Transcript(config, t.items, 1 + 2)
    <2>1. Absorbed(root) /\ Covered(NumRounds(config), 1, Len(sent.items))
        BY DEF Absorbed, Item, IncludedInFiatShamir, Covered
    <2>2. /\ EventAt(config, t.items, 1 + 1) = t.items[Len(sent.items) + 1]
          /\ EventAt(config, t.items, 1 + 2) = Item("scalars", SampleCount)
        BY <1>7 DEF EventAt
    <2> HIDE DEF t, root
    <2> QED BY <1>2, <1>5, <1>6, <2>1, <2>2, CommittingTo DEF t
<1> HIDE DEF t
<1>9. Len(t.items) = 2 /\ t.items[1] = height /\ t.items[2] = root
    BY <1>7, <1>8 DEF Extends
<1>10. ProverProgress'
    BY <1>2, <1>3, <1>8, <1>9 DEF ProverProgress, ProverAt, Sent, ProverStages, VerifierStages
<1>11. SentItems'
    BY <1>3, <1>9 DEF SentItems, OfKinds, IsOfKind, Sent, KindAt, Item
<1>12. HeightAndTreesAreSent'
    BY <1>3, <1>9 DEF HeightAndTreesAreSent, Sent, Item, Root, ProverStages
<1>13. RoundsAreSent' /\ ResponsesAreSent' /\ LeafsAreSent'
    BY <1>3 DEF RoundsAreSent, ResponsesAreSent, LeafsAreSent, VerifierStages
<1> QED BY <1>2, <1>3, <1>8, <1>10, <1>11, <1>12, <1>13 DEF ProverInv

(***************************************************************************)
(* A root sent next by the prover, and the scalars sampled after it.       *)
(***************************************************************************)
LEMMA SendingRoot ==
    ASSUME ProverInv, NEW m \in Nat, NEW k \in Nat, ProverAt(m, k), NEW tree, NEW n,
           Covered(R, k, m), KindAt(R, m + 1) = "MerkleRoot",
           NEW t, t = AfterScalars(Enqueue(prover.stream, Item("MerkleRoot", Root(tree))), n),
           EventAt(config, t.items, k + 1) = t.items[m + 1],
           EventAt(config, t.items, k + 2) = Item("scalars", n)
    PROVE  /\ IsStream(t)
           /\ Len(t.items) = m + 1
           /\ \A i \in 1 .. m : t.items[i] = Sent[i]
           /\ t.items[m + 1].payload = tree
           /\ t.sponge = Transcript(config, t.items, k + 2)
           /\ OfKinds(t.items, R)
<1> DEFINE root == Item("MerkleRoot", Root(tree))
           s == prover.stream
<1>1. R \in Nat /\ NumRounds(config) = R
    BY ConfigurationFacts DEF ProverInv
<1>2. /\ IsStream(s) /\ Len(s.items) = m /\ s.sponge = Transcript(config, s.items, k)
      /\ OfKinds(s.items, R) /\ Sent = s.items
    BY DEF ProverInv, ProverAt, Sent, SentItems
<1>3. Absorbed(root) /\ root.payload = tree
    BY DEF Absorbed, Item, IncludedInFiatShamir, Root
<1>8. IsOfKind(root, KindAt(R, m + 1))
    BY DEF IsOfKind, Item
<1>4. t = AfterScalars(Enqueue(s, root), n)
    OBVIOUS
<1> HIDE DEF s, root
<1>7. /\ Covered(NumRounds(config), k, Len(s.items))
      /\ EventAt(config, t.items, k + 1) = t.items[Len(s.items) + 1]
    BY <1>1, <1>2
<1>5. /\ IsStream(t)
      /\ Extends(s.items, t.items, root)
      /\ t.sponge = Transcript(config, t.items, k + 2)
    BY <1>1, <1>2, <1>3, <1>4, <1>7, CommittingTo
<1>6. OfKinds(t.items, R)
    BY <1>2, <1>5, <1>8, KindsExtendByOne
<1> QED BY <1>2, <1>3, <1>5, <1>6 DEF Extends

(***************************************************************************)
(* A list of items sent next by the prover.                                *)
(***************************************************************************)
LEMMA SendingAll ==
    ASSUME ProverInv, NEW m \in Nat, NEW k \in Nat, ProverAt(m, k), Covered(R, k, m),
           NEW items, IsSequence(items), NEW n, Len(items) = n,
           \A i \in 1 .. n :
              IsOfKind(items[i], KindAt(R, m + i)),
           NEW u, u = EnqueueAll(prover.stream, items)
    PROVE  /\ IsStream(u)
           /\ Len(u.items) = m + n
           /\ \A i \in 1 .. m : u.items[i] = Sent[i]
           /\ \A i \in 1 .. n : u.items[m + i] = items[i]
           /\ OfKinds(u.items, R)
           /\ (\A i \in 1 .. n : ~Absorbed(items[i])) =>
                  u.sponge = Transcript(config, u.items, k)
           /\ (\A i \in 1 .. n : Absorbed(items[i]) /\ items[i] = EventAt(config, u.items, k + i)) =>
                  u.sponge = Transcript(config, u.items, k + n)
<1> DEFINE s == prover.stream
<1>1. R \in Nat /\ NumRounds(config) = R
    BY ConfigurationFacts DEF ProverInv
<1>2. /\ IsStream(s) /\ Len(s.items) = m /\ s.sponge = Transcript(config, s.items, k)
      /\ OfKinds(s.items, R) /\ Sent = s.items /\ n \in Nat
    BY DEF ProverInv, ProverAt, Sent, SentItems, IsSequence
<1>3. u = EnqueueAll(s, items)
    OBVIOUS
<1> HIDE DEF s
<1>4. /\ IsStream(u)
      /\ ExtendsBy(s.items, u.items, items, n)
      /\ (\A i \in 1 .. n : Absorbed(items[i])) => ExtendsBy(s.sponge, u.sponge, items, n)
      /\ (\A i \in 1 .. n : ~Absorbed(items[i])) => u.sponge = s.sponge
    BY <1>2, <1>3, EnqueueingAll
<1>5. OfKinds(u.items, R)
    <2>1. Len(s.items) \in Nat /\ ExtendsBy(s.items, u.items, items, n) /\ OfKinds(s.items, R)
        BY <1>2, <1>4
    <2>2. \A i \in 1 .. n :
              IsOfKind(items[i], KindAt(R, Len(s.items) + i))
        BY <1>2
    <2> QED BY <1>2, <2>1, <2>2, KindsExtend
<1>6. s.sponge = Transcript(config, u.items, k)
    <2>1. Covered(NumRounds(config), k, m) /\ \A i \in 1 .. m : u.items[i] = s.items[i]
        BY <1>1, <1>2, <1>4 DEF ExtendsBy
    <2> QED BY <1>1, <1>2, <2>1, TranscriptOfPrefix
<1>7. ASSUME \A i \in 1 .. n : Absorbed(items[i]) /\ items[i] = EventAt(config, u.items, k + i)
      PROVE  u.sponge = Transcript(config, u.items, k + n)
    <2>1. /\ IsSequence(u.sponge)
          /\ ExtendsBy(Transcript(config, u.items, k), u.sponge, items, n)
        BY <1>4, <1>6, <1>7 DEF IsStream
    <2> QED BY <1>2, <1>7, <2>1, TranscriptGrows
<1> QED BY <1>2, <1>4, <1>5, <1>6, <1>7 DEF ExtendsBy

\* Sampling is an event of the sponge's history; it changes no item.
LEMMA Squeezing ==
    ASSUME NEW u, IsStream(u), NEW c, NEW k \in Nat, u.sponge = Transcript(c, u.items, k),
           NEW what, NEW n, EventAt(c, u.items, k + 1) = Item(what, n),
           NEW t, t = Squeezed(u, what, n)
    PROVE  /\ IsStream(t) /\ t.items = u.items /\ t.items_index = u.items_index
           /\ t.sponge = Transcript(c, t.items, k + 1)
<1>1. /\ IsStream(t) /\ t.items = u.items /\ t.items_index = u.items_index
      /\ Extends(u.sponge, t.sponge, Item(what, n))
    BY Absorbing DEF Squeezed
<1>2. IsSequence(t.sponge) /\ Extends(Transcript(c, t.items, k), t.sponge, EventAt(c, t.items, k + 1))
    BY <1>1 DEF IsStream
<1> QED BY <1>1, <1>2, TranscriptGrowsByOne

\* The auxiliary tree's root is sent, and the quotient's weights are sampled.
LEMMA CommitToAuxTableKeepsInv ==
    ASSUME ProverInv, CommitToAuxTable
    PROVE  ProverInv'
<1>1. PICK aux :
          /\ stage = "aux"
          /\ LET tree == HashedRows(config, aux)
                 committed == Enqueue(prover.stream, Item("MerkleRoot", Root(tree)))
             IN  ProverStep("quotient",
                   [prover EXCEPT
                       !.aux = aux,
                       !.aux_tree = tree,
                       !.quotient_weights = Scalars(committed, NumConstraints),
                       !.stream = AfterScalars(committed, NumConstraints)])
    BY DEF CommitToAuxTable
<1> DEFINE tree == HashedRows(config, aux)
           t == AfterScalars(Enqueue(prover.stream, Item("MerkleRoot", Root(tree))), NumConstraints)
<1>2. R \in Nat /\ NumRounds(config) = R /\ config \in Configurations
    BY ConfigurationFacts DEF ProverInv
<1>3. /\ stage' = "quotient" /\ config' = config /\ DOMAIN prover' = ProverFields
      /\ prover'.stream = t /\ prover'.main_tree = prover.main_tree /\ prover'.aux_tree = tree
      /\ prover'.rounds = prover.rounds
    BY <1>1 DEF ProverStep, ProverInv, ProverFields
<1>4. ProverAt(2, 3)
    BY <1>1 DEF ProverInv, ProverProgress
<1> HIDE DEF tree
<1>5. /\ IsStream(t)
      /\ Len(t.items) = 3
      /\ \A i \in 1 .. 2 : t.items[i] = Sent[i]
      /\ t.items[3].payload = tree
      /\ t.sponge = Transcript(config, t.items, 5)
      /\ OfKinds(t.items, R)
    <2> DEFINE m == 2
               k == 3
    <2>1. /\ m \in Nat /\ k \in Nat /\ ProverAt(m, k)
          /\ Covered(R, k, m) /\ KindAt(R, m + 1) = "MerkleRoot"
          /\ EventAt(config, t.items, k + 1) = t.items[m + 1]
          /\ EventAt(config, t.items, k + 2) = Item("scalars", NumConstraints)
          /\ t = AfterScalars(Enqueue(prover.stream, Item("MerkleRoot", Root(tree))), NumConstraints)
        BY <1>4 DEF Covered, KindAt, EventAt
    <2> HIDE DEF m, k, t
    <2>2. /\ IsStream(t)
          /\ Len(t.items) = m + 1
          /\ \A i \in 1 .. m : t.items[i] = Sent[i]
          /\ t.items[m + 1].payload = tree
          /\ t.sponge = Transcript(config, t.items, k + 2)
          /\ OfKinds(t.items, R)
        BY <2>1, SendingRoot
    <2> QED BY <2>2 DEF m, k
<1> HIDE DEF t
<1>7. ProverProgress'
    BY <1>2, <1>3, <1>5 DEF ProverProgress, ProverAt, Sent, ProverStages, VerifierStages
<1>8. SentItems'
    BY <1>3, <1>5 DEF SentItems, Sent, R
<1>9. HeightAndTreesAreSent'
    BY <1>1, <1>3, <1>5 DEF ProverInv, HeightAndTreesAreSent, Sent, ProverStages
<1>10. RoundsAreSent' /\ ResponsesAreSent' /\ LeafsAreSent'
    BY <1>1, <1>3 DEF ProverInv, RoundsAreSent, ResponsesAreSent, LeafsAreSent, VerifierStages
<1> QED BY <1>2, <1>3, <1>5, <1>7, <1>8, <1>9, <1>10 DEF ProverInv

\* The quotient tree's root is sent, and the out-of-domain point is sampled.
LEMMA CommitToQuotientKeepsInv ==
    ASSUME ProverInv, CommitToQuotient
    PROVE  ProverInv'
<1> DEFINE tree == QuotientSegments(config, prover.main, prover.aux,
                                    prover.challenges, prover.quotient_weights).codewords
           t == AfterScalars(Enqueue(prover.stream, Item("MerkleRoot", Root(tree))), 1)
<1>1. R \in Nat /\ NumRounds(config) = R /\ config \in Configurations
    BY ConfigurationFacts DEF ProverInv
<1>2. /\ stage = "quotient" /\ stage' = "out_of_domain"
      /\ config' = config /\ DOMAIN prover' = ProverFields
      /\ prover'.stream = t /\ prover'.main_tree = prover.main_tree
      /\ prover'.aux_tree = prover.aux_tree /\ prover'.quotient_tree = tree
      /\ prover'.rounds = prover.rounds
    BY DEF CommitToQuotient, ProverStep, ProverInv, ProverFields
<1>3. ProverAt(3, 5)
    BY <1>2 DEF ProverInv, ProverProgress
<1> HIDE DEF tree
<1>4. /\ IsStream(t)
      /\ Len(t.items) = 4
      /\ \A i \in 1 .. 3 : t.items[i] = Sent[i]
      /\ t.items[4].payload = tree
      /\ t.sponge = Transcript(config, t.items, 7)
      /\ OfKinds(t.items, R)
    <2> DEFINE m == 3
               k == 5
    <2>1. /\ m \in Nat /\ k \in Nat /\ ProverAt(m, k)
          /\ Covered(R, k, m) /\ KindAt(R, m + 1) = "MerkleRoot"
          /\ EventAt(config, t.items, k + 1) = t.items[m + 1]
          /\ EventAt(config, t.items, k + 2) = Item("scalars", 1)
          /\ t = AfterScalars(Enqueue(prover.stream, Item("MerkleRoot", Root(tree))), 1)
        BY <1>3 DEF Covered, KindAt, EventAt
    <2> HIDE DEF m, k, t
    <2>2. /\ IsStream(t)
          /\ Len(t.items) = m + 1
          /\ \A i \in 1 .. m : t.items[i] = Sent[i]
          /\ t.items[m + 1].payload = tree
          /\ t.sponge = Transcript(config, t.items, k + 2)
          /\ OfKinds(t.items, R)
        BY <2>1, SendingRoot
    <2> QED BY <2>2 DEF m, k
<1> HIDE DEF t
<1>6. ProverProgress'
    BY <1>1, <1>2, <1>4 DEF ProverProgress, ProverAt, Sent, ProverStages, VerifierStages
<1>7. SentItems'
    BY <1>2, <1>4 DEF SentItems, Sent, R
<1>8. HeightAndTreesAreSent'
    BY <1>2, <1>4 DEF ProverInv, HeightAndTreesAreSent, Sent, ProverStages
<1>9. RoundsAreSent' /\ ResponsesAreSent' /\ LeafsAreSent'
    BY <1>2 DEF ProverInv, RoundsAreSent, ResponsesAreSent, LeafsAreSent, VerifierStages
<1> QED BY <1>1, <1>2, <1>4, <1>6, <1>7, <1>8, <1>9 DEF ProverInv

\* Five items in one step, all of them absorbed, and the weights are sampled.
LEMMA SendOutOfDomainRowsKeepsInv ==
    ASSUME ProverInv, SendOutOfDomainRows
    PROVE  ProverInv'
<1>1. PICK main, aux, next_main, next_aux, values, weights :
          LET sent == EnqueueAll(prover.stream,
                          <<Item("OutOfDomainMainRow", main), Item("OutOfDomainAuxRow", aux),
                            Item("OutOfDomainMainRow", next_main), Item("OutOfDomainAuxRow", next_aux),
                            Item("OutOfDomainQuotientSegments", values)>>)
          IN  prover' = [prover EXCEPT !.weights = weights, !.stream = AfterScalars(sent, NumWeights)]
    BY DEF SendOutOfDomainRows, ProverStep
<1> DEFINE items == <<Item("OutOfDomainMainRow", main), Item("OutOfDomainAuxRow", aux),
                      Item("OutOfDomainMainRow", next_main), Item("OutOfDomainAuxRow", next_aux),
                      Item("OutOfDomainQuotientSegments", values)>>
           u == EnqueueAll(prover.stream, items)
           t == AfterScalars(u, NumWeights)
<1>2. R \in Nat /\ NumRounds(config) = R /\ config \in Configurations
    BY ConfigurationFacts DEF ProverInv
<1>3. stage = "out_of_domain" /\ stage' = "combination" /\ config' = config
    BY DEF SendOutOfDomainRows, ProverStep
<1>4. /\ DOMAIN prover' = ProverFields /\ prover'.stream = t
      /\ prover'.main_tree = prover.main_tree /\ prover'.aux_tree = prover.aux_tree
      /\ prover'.quotient_tree = prover.quotient_tree /\ prover'.rounds = prover.rounds
    BY <1>1 DEF ProverInv, ProverFields
<1>5. ProverAt(4, 7)
    BY <1>3 DEF ProverInv, ProverProgress
<1>6. IsSequence(items) /\ Len(items) = 5
    BY TupleSequences
<1>7. \A i \in 1 .. 5 : IsOfKind(items[i], KindAt(R, 4 + i)) /\ Absorbed(items[i])
    BY DEF IsOfKind, KindAt, Item, Absorbed, IncludedInFiatShamir
<1> HIDE DEF items
<1>8. /\ IsStream(u)
      /\ Len(u.items) = 9
      /\ \A i \in 1 .. 4 : u.items[i] = Sent[i]
      /\ OfKinds(u.items, R)
      /\ u.sponge = Transcript(config, u.items, 12)
    <2> DEFINE m == 4
               k == 7
               n == 5
    <2>1. /\ m \in Nat /\ k \in Nat /\ ProverAt(m, k) /\ Covered(R, k, m)
          /\ IsSequence(items) /\ Len(items) = n /\ \A i \in 1 .. n : IsOfKind(items[i], KindAt(R, m + i))
          /\ \A i \in 1 .. n : Absorbed(items[i])
          /\ u = EnqueueAll(prover.stream, items)
        BY <1>5, <1>6, <1>7 DEF Covered
    <2> HIDE DEF m, k, n, u
    <2>2. /\ IsStream(u)
          /\ Len(u.items) = m + n
          /\ \A i \in 1 .. m : u.items[i] = Sent[i]
          /\ \A i \in 1 .. n : u.items[m + i] = items[i]
          /\ OfKinds(u.items, R)
          /\ (\A i \in 1 .. n : Absorbed(items[i]) /\ items[i] = EventAt(config, u.items, k + i)) =>
                  u.sponge = Transcript(config, u.items, k + n)
        BY <2>1, SendingAll
    <2>3. \A i \in 1 .. n : items[i] = EventAt(config, u.items, k + i)
        BY <2>2 DEF m, k, n, EventAt
    <2> QED BY <2>1, <2>2, <2>3 DEF m, k, n
<1> HIDE DEF u
<1>9. IsStream(t) /\ t.items = u.items /\ t.sponge = Transcript(config, t.items, 13)
    <2> DEFINE k == 12
    <2>1. /\ IsStream(u) /\ k \in Nat /\ u.sponge = Transcript(config, u.items, k)
          /\ EventAt(config, u.items, k + 1) = Item("scalars", NumWeights)
          /\ t = Squeezed(u, "scalars", NumWeights)
        BY <1>8 DEF EventAt, AfterScalars
    <2> HIDE DEF k, t
    <2>2. IsStream(t) /\ t.items = u.items /\ t.sponge = Transcript(config, t.items, k + 1)
        BY <2>1, Squeezing
    <2> QED BY <2>2 DEF k
<1> HIDE DEF t
<1>10. ProverProgress'
    BY <1>2, <1>3, <1>4, <1>8, <1>9 DEF ProverProgress, ProverAt, Sent, ProverStages, VerifierStages
<1>11. SentItems'
    BY <1>3, <1>4, <1>8, <1>9 DEF SentItems, Sent, R
<1>12. HeightAndTreesAreSent'
    BY <1>3, <1>4, <1>8, <1>9 DEF ProverInv, HeightAndTreesAreSent, Sent, ProverStages
<1>13. RoundsAreSent'
    <2>1. prover'.rounds = <<>>
        BY <1>3, <1>4 DEF ProverInv, RoundsAreSent
    <2> QED BY <1>3, <2>1, EmptySequence DEF RoundsAreSent, HalvedFrom
<1>14. ResponsesAreSent' /\ LeafsAreSent'
    BY <1>3 DEF ResponsesAreSent, LeafsAreSent, VerifierStages
<1> QED BY <1>2, <1>3, <1>4, <1>9, <1>10, <1>11, <1>12, <1>13, <1>14 DEF ProverInv

(***************************************************************************)
(* FRI's rounds: a root at a time, a scalar before each but the first.     *)
(***************************************************************************)
LEMMA RootIsNext ==
    ASSUME NEW s, IsStream(s), NEW c, NumRounds(c) \in Nat, NEW m, Len(s.items) = m,
           NEW k \in Nat, s.sponge = Transcript(c, s.items, k), Covered(NumRounds(c), k, m),
           OfKinds(s.items, NumRounds(c)), KindAt(NumRounds(c), m + 1) = "MerkleRoot",
           NEW tree, NEW t, t = Enqueue(s, Item("MerkleRoot", Root(tree))),
           EventAt(c, t.items, k + 1) = t.items[m + 1]
    PROVE  /\ IsStream(t)
           /\ Len(t.items) = m + 1
           /\ \A i \in 1 .. m : t.items[i] = s.items[i]
           /\ t.items[m + 1].payload = tree
           /\ t.sponge = Transcript(c, t.items, k + 1)
           /\ OfKinds(t.items, NumRounds(c))
<1> DEFINE root == Item("MerkleRoot", Root(tree))
<1>1. IsStream(s) /\ Absorbed(root) /\ t = Enqueue(s, root)
    BY DEF Absorbed, Item, IncludedInFiatShamir
<1>2. IsOfKind(root, KindAt(NumRounds(c), Len(s.items) + 1)) /\ root.payload = tree
    BY DEF IsOfKind, Item, Root
<1> HIDE DEF root
<1>3. IsStream(t) /\ Extends(s.items, t.items, root) /\ Extends(s.sponge, t.sponge, root)
    BY <1>1, Enqueueing
<1>4. m \in Nat
    BY DEF IsStream, IsSequence
<1>5. s.sponge = Transcript(c, t.items, k)
    <2>1. \A i \in 1 .. m : t.items[i] = s.items[i]
        BY <1>3, <1>4 DEF Extends
    <2> QED BY <2>1, <1>4, TranscriptOfPrefix
<1>6. t.sponge = Transcript(c, t.items, k + 1)
    <2>1. /\ IsSequence(t.sponge)
          /\ Extends(Transcript(c, t.items, k), t.sponge, EventAt(c, t.items, k + 1))
        BY <1>3, <1>4, <1>5 DEF IsStream, Extends
    <2> QED BY <2>1, TranscriptGrowsByOne
<1>7. OfKinds(t.items, NumRounds(c))
    <2>1. /\ Len(s.items) \in Nat /\ OfKinds(s.items, NumRounds(c)) /\ Extends(s.items, t.items, root)
          /\ IsOfKind(root, KindAt(NumRounds(c), Len(s.items) + 1))
        BY <1>2, <1>3, <1>4
    <2> QED BY <2>1, KindsExtendByOne
<1> QED BY <1>2, <1>3, <1>4, <1>6, <1>7 DEF Extends

\* The domain of one more round is half that of the round before it.
LEMMA HalvingOnce ==
    ASSUME NEW domain, NEW rounds, IsSequence(rounds), HalvedFrom(domain, rounds), NEW round,
           round.domain = IF Len(rounds) = 0 THEN domain ELSE Halve(rounds[Len(rounds)].domain)
    PROVE  HalvedFrom(domain, Append(rounds, round))
<1> DEFINE more == Append(rounds, round)
<1>1. /\ Len(rounds) \in Nat
      /\ Len(more) = Len(rounds) + 1 /\ more[Len(rounds) + 1] = round
      /\ \A i \in 1 .. Len(rounds) : more[i] = rounds[i]
    BY AppendedSequence DEF IsSequence
<1> HIDE DEF more
<1>2. more[1].domain = domain
    BY <1>1 DEF HalvedFrom
<1>3. ASSUME NEW k \in 1 .. (Len(more) - 1)
      PROVE  more[k + 1].domain = Halve(more[k].domain)
    <2>1. CASE k = Len(rounds)
        BY <1>1, <2>1
    <2>2. CASE k # Len(rounds)
        <3>1. k \in 1 .. (Len(rounds) - 1) /\ k \in 1 .. Len(rounds) /\ k + 1 \in 1 .. Len(rounds)
            BY <1>1, <2>2
        <3> QED BY <1>1, <3>1 DEF HalvedFrom
    <2> QED BY <2>1, <2>2
<1> QED BY <1>2, <1>3 DEF HalvedFrom, more

\* The first codeword is the combination itself, on the whole domain of FRI.
LEMMA CommitToFirstRoundKeepsInv ==
    ASSUME ProverInv, CommitToFirstRound
    PROVE  ProverInv'
<1> DEFINE codeword == FriCombinationCodeword(config, prover)
           round == [domain |-> FriDomain(config), codeword |-> codeword]
           t == Enqueue(prover.stream, Item("MerkleRoot", Root(codeword)))
<1>1. R \in Nat /\ NumRounds(config) = R /\ config \in Configurations
    BY ConfigurationFacts DEF ProverInv
<1>2. stage = "combination" /\ stage' = "rounds" /\ config' = config
    BY DEF CommitToFirstRound, ProverStep
<1>3. /\ DOMAIN prover' = ProverFields /\ prover'.stream = t
      /\ prover'.main_tree = prover.main_tree /\ prover'.aux_tree = prover.aux_tree
      /\ prover'.quotient_tree = prover.quotient_tree /\ prover'.rounds = Append(prover.rounds, round)
    BY DEF CommitToFirstRound, CommitToRound, ProverStep, ProverInv, ProverFields
<1>4. ProverAt(9, 13) /\ prover.rounds = <<>>
    BY <1>2 DEF ProverInv, ProverProgress, RoundsAreSent
<1> HIDE DEF codeword
<1>5. /\ IsStream(t)
      /\ Len(t.items) = 10
      /\ \A i \in 1 .. 9 : t.items[i] = Sent[i]
      /\ t.items[10].payload = codeword
      /\ t.sponge = Transcript(config, t.items, 14)
      /\ OfKinds(t.items, R)
    <2> DEFINE s == prover.stream
               m == 9
               k == 13
    <2>1. /\ NumRounds(config) \in Nat
          /\ IsStream(s) /\ Len(s.items) = m /\ k \in Nat /\ s.sponge = Transcript(config, s.items, k)
          /\ Covered(NumRounds(config), k, m)
          /\ OfKinds(s.items, NumRounds(config)) /\ KindAt(NumRounds(config), m + 1) = "MerkleRoot"
          /\ t = Enqueue(s, Item("MerkleRoot", Root(codeword)))
          /\ EventAt(config, t.items, k + 1) = t.items[m + 1]
        BY <1>1, <1>4 DEF ProverInv, ProverAt, SentItems, Sent, Covered, KindAt, EventAt
    <2>2. Sent = s.items
        BY DEF Sent
    <2> HIDE DEF s, m, k, t
    <2>3. /\ IsStream(t)
          /\ Len(t.items) = m + 1
          /\ \A i \in 1 .. m : t.items[i] = s.items[i]
          /\ t.items[m + 1].payload = codeword
          /\ t.sponge = Transcript(config, t.items, k + 1)
          /\ OfKinds(t.items, NumRounds(config))
        BY <2>1, RootIsNext
    <2> QED BY <1>1, <2>2, <2>3 DEF m, k
<1>6. /\ IsSequence(prover'.rounds) /\ Len(prover'.rounds) = 1 /\ prover'.rounds[1] = round
      /\ HalvedFrom(FriDomain(config), prover'.rounds)
    <2> DEFINE old == prover.rounds
    <2>1. IsSequence(old) /\ Len(old) = 0 /\ prover'.rounds = Append(old, round)
        BY <1>3, <1>4, EmptySequence
    <2>2. round.domain = FriDomain(config)
        OBVIOUS
    <2> HIDE DEF round, old
    <2>3. HalvedFrom(FriDomain(config), old)
        BY <2>1 DEF HalvedFrom
    <2>4. HalvedFrom(FriDomain(config), Append(old, round))
        BY <2>1, <2>2, <2>3, HalvingOnce
    <2>5. /\ IsSequence(Append(old, round)) /\ Len(Append(old, round)) = Len(old) + 1
          /\ Append(old, round)[Len(old) + 1] = round
        BY <2>1, AppendedSequence
    <2> DEFINE new == Append(old, round)
    <2> HIDE DEF new
    <2>6. Len(new) = 1 /\ new[1] = round
        BY <2>1, <2>5 DEF new
    <2> QED BY <2>1, <2>4, <2>5, <2>6 DEF new
<1> HIDE DEF t
<1>7. ProverProgress'
    BY <1>1, <1>2, <1>3, <1>5, <1>6 DEF ProverProgress, ProverAt, Sent, ProverStages, VerifierStages
<1>8. SentItems'
    BY <1>2, <1>3, <1>5 DEF SentItems, Sent, R
<1>9. HeightAndTreesAreSent'
    BY <1>2, <1>3, <1>5 DEF ProverInv, HeightAndTreesAreSent, Sent, ProverStages
<1>10. RoundsAreSent'
    <2>1. R' = R /\ FriDomain(config)' = FriDomain(config) /\ Len(prover'.rounds) \in 1 .. (R + 1)
        BY <1>1, <1>2, <1>6 DEF R
    <2>2. \A k \in 1 .. Len(prover'.rounds) : prover'.rounds[k].codeword = t.items[9 + k].payload
        BY <1>5, <1>6
    <2> HIDE DEF round
    <2> QED BY <1>2, <1>3, <1>6, <2>1, <2>2 DEF RoundsAreSent, Sent
<1>11. ResponsesAreSent' /\ LeafsAreSent'
    BY <1>2 DEF ResponsesAreSent, LeafsAreSent, VerifierStages
<1> QED BY <1>1, <1>2, <1>3, <1>5, <1>7, <1>8, <1>9, <1>10, <1>11 DEF ProverInv

(***************************************************************************)
(* What the n-th round of FRI adds to the sponge's history.                *)
(***************************************************************************)
LEMMA EventsOfRound ==
    ASSUME NEW c, NumRounds(c) \in Nat, NEW n \in 1 .. NumRounds(c)
    PROVE  /\ \A items : EventAt(c, items, 13 + 2 * n) = Item("scalars", 1)
           /\ \A items : EventAt(c, items, 14 + 2 * n) = items[10 + n]
<1>1. /\ 13 + 2 * n > 14 /\ 13 + 2 * n # 15 + 2 * NumRounds(c) /\ (13 + 2 * n) % 2 # 0
      /\ 14 + 2 * n > 14 /\ (14 + 2 * n) % 2 = 0 /\ 3 + ((14 + 2 * n) \div 2) = 10 + n
      /\ 14 + 2 * n <= 14 + 2 * NumRounds(c)
    OBVIOUS
<1> QED BY <1>1 DEF EventAt

\* A challenge is sampled, the codeword folded, and its root sent.
LEMMA CommitToNextRoundKeepsInv ==
    ASSUME ProverInv, CommitToNextRound
    PROVE  ProverInv'
<1>0. PICK n : n = Len(prover.rounds)
    OBVIOUS
<1> DEFINE last == prover.rounds[n]
           challenge == Scalars(prover.stream, 1)[1]
           codeword == SplitAndFold(last, challenge)
           round == NextRound(last, challenge)
           u == AfterScalars(prover.stream, 1)
           t == Enqueue(u, Item("MerkleRoot", Root(codeword)))
<1>1. R \in Nat /\ NumRounds(config) = R /\ config \in Configurations
    BY ConfigurationFacts DEF ProverInv
<1>2. stage = "rounds" /\ stage' = "rounds" /\ config' = config /\ n <= R
    BY <1>0, <1>1 DEF CommitToNextRound, ProverStep
<1>3. /\ DOMAIN prover' = ProverFields /\ prover'.stream = t
      /\ prover'.main_tree = prover.main_tree /\ prover'.aux_tree = prover.aux_tree
      /\ prover'.quotient_tree = prover.quotient_tree /\ prover'.rounds = Append(prover.rounds, round)
    BY <1>0 DEF CommitToNextRound, CommitToRound, ProverStep, ProverInv, ProverFields, NextRound
<1>4. /\ ProverAt(9 + n, 12 + 2 * n) /\ n \in 1 .. R
      /\ IsSequence(prover.rounds) /\ HalvedFrom(FriDomain(config), prover.rounds)
      /\ \A k \in 1 .. n : prover.rounds[k].codeword = Sent[9 + k].payload
    BY <1>0, <1>1, <1>2 DEF ProverInv, ProverProgress, RoundsAreSent
<1>5. round.domain = Halve(last.domain) /\ round.codeword = codeword
    BY DEF NextRound
<1> HIDE DEF codeword, round
<1>6. IsStream(u) /\ u.items = Sent /\ u.sponge = Transcript(config, u.items, 13 + 2 * n)
    <2> DEFINE s == prover.stream
               k == 12 + 2 * n
    <2>1. /\ IsStream(s) /\ k \in Nat /\ s.sponge = Transcript(config, s.items, k)
          /\ u = Squeezed(s, "scalars", 1)
        BY <1>4 DEF ProverInv, ProverAt, Sent, AfterScalars
    <2>2. EventAt(config, s.items, k + 1) = Item("scalars", 1)
        <3>1. k + 1 = 13 + 2 * n
            BY <1>4
        <3> QED BY <1>1, <1>4, <3>1, EventsOfRound
    <2>3. Sent = s.items
        BY DEF Sent
    <2> HIDE DEF s, k, u
    <2>4. IsStream(u) /\ u.items = s.items /\ u.sponge = Transcript(config, u.items, k + 1)
        BY <2>1, <2>2, Squeezing
    <2>5. k + 1 = 13 + 2 * n
        BY <1>4 DEF k
    <2> QED BY <2>3, <2>4, <2>5
<1> HIDE DEF u
<1>7. /\ IsStream(t)
      /\ Len(t.items) = 10 + n
      /\ \A i \in 1 .. (9 + n) : t.items[i] = Sent[i]
      /\ t.items[10 + n].payload = codeword
      /\ t.sponge = Transcript(config, t.items, 14 + 2 * n)
      /\ OfKinds(t.items, R)
    <2> DEFINE m == 9 + n
               k == 13 + 2 * n
    <2>1. /\ NumRounds(config) \in Nat
          /\ IsStream(u) /\ Len(u.items) = m /\ k \in Nat /\ u.sponge = Transcript(config, u.items, k)
        BY <1>1, <1>4, <1>6 DEF ProverAt
    <2>2. OfKinds(u.items, NumRounds(config))
        BY <1>1, <1>6 DEF ProverInv, SentItems
    <2>3. /\ Covered(NumRounds(config), k, m)
          /\ KindAt(NumRounds(config), m + 1) = "MerkleRoot"
        <3>1. /\ (13 + 2 * n) \div 2 = 6 + n /\ 13 + 2 * n <= 14 + 2 * R
              /\ 10 + n > 10 /\ 10 + n <= 10 + R /\ (9 + n) + 1 = 10 + n
            BY <1>1, <1>4
        <3> QED BY <1>1, <1>4, <3>1 DEF Covered, KindAt
    <2>4. /\ t = Enqueue(u, Item("MerkleRoot", Root(codeword)))
          /\ EventAt(config, t.items, k + 1) = t.items[m + 1]
        <3>1. k + 1 = 14 + 2 * n /\ m + 1 = 10 + n
            BY <1>4
        <3> QED BY <1>1, <1>4, <3>1, EventsOfRound
    <2> HIDE DEF m, k, t
    <2>5. /\ IsStream(t)
          /\ Len(t.items) = m + 1
          /\ \A i \in 1 .. m : t.items[i] = u.items[i]
          /\ t.items[m + 1].payload = codeword
          /\ t.sponge = Transcript(config, t.items, k + 1)
          /\ OfKinds(t.items, NumRounds(config))
        BY <2>1, <2>2, <2>3, <2>4, RootIsNext
    <2>6. m = 9 + n /\ m + 1 = 10 + n /\ k + 1 = 14 + 2 * n
        BY <1>4 DEF m, k
    <2> QED BY <1>1, <1>6, <2>5, <2>6
<1> HIDE DEF t
<1>8. /\ IsSequence(prover'.rounds) /\ Len(prover'.rounds) = n + 1 /\ prover'.rounds[n + 1] = round
      /\ \A k \in 1 .. n : prover'.rounds[k] = prover.rounds[k]
      /\ HalvedFrom(FriDomain(config), prover'.rounds)
    <2>1. HalvedFrom(FriDomain(config), Append(prover.rounds, round))
        <3>1. round.domain = IF n = 0 THEN FriDomain(config) ELSE Halve(prover.rounds[n].domain)
            BY <1>4, <1>5
        <3> QED BY <1>0, <1>4, <3>1, HalvingOnce
    <2> QED BY <1>0, <1>3, <1>4, <2>1, AppendedSequence
<1> HIDE DEF last
<1>9. ProverProgress'
    <2>1. 9 + (n + 1) = 10 + n /\ 12 + 2 * (n + 1) = 14 + 2 * n
        BY <1>4
    <2>2. ProverAt(9 + Len(prover.rounds), 12 + 2 * Len(prover.rounds))'
        BY <1>2, <1>3, <1>7, <1>8, <2>1 DEF ProverAt, Sent
    <2> QED BY <1>2, <2>2 DEF ProverProgress, ProverStages, VerifierStages
<1>10. SentItems'
    BY <1>2, <1>3, <1>7 DEF SentItems, Sent, R
<1>11. HeightAndTreesAreSent'
    <2>1. 1 \in 1 .. (9 + n) /\ 2 \in 1 .. (9 + n) /\ 3 \in 1 .. (9 + n) /\ 4 \in 1 .. (9 + n)
        BY <1>4
    <2>2. t.items[1] = Sent[1] /\ t.items[2] = Sent[2] /\ t.items[3] = Sent[3] /\ t.items[4] = Sent[4]
        BY <1>7, <2>1
    <2>3. /\ Sent[1].payload = Ilog2(config.padded_height)
          /\ prover.main_tree = Sent[2].payload
          /\ prover.aux_tree = Sent[3].payload
          /\ prover.quotient_tree = Sent[4].payload
        BY <1>2 DEF ProverInv, HeightAndTreesAreSent, ProverStages
    <2>4. Sent' = t.items
        BY <1>3 DEF Sent
    <2> QED BY <1>2, <1>3, <2>2, <2>3, <2>4 DEF HeightAndTreesAreSent
<1>12. RoundsAreSent'
    <2>1. R' = R /\ FriDomain(config)' = FriDomain(config) /\ Len(prover'.rounds) \in 1 .. (R + 1)
        BY <1>1, <1>2, <1>4, <1>8 DEF R
    <2>2. ASSUME NEW k \in 1 .. Len(prover'.rounds)
          PROVE  prover'.rounds[k].codeword = t.items[9 + k].payload
        <3>1. CASE k = n + 1
            <4>1. 9 + k = 10 + n
                BY <1>4, <3>1
            <4> QED BY <1>5, <1>7, <1>8, <3>1, <4>1
        <3>2. CASE k \in 1 .. n
            <4>1. 9 + k \in 1 .. (9 + n)
                BY <1>4, <3>2
            <4> QED BY <1>4, <1>7, <1>8, <3>2, <4>1
        <3> QED BY <1>4, <1>8, <3>1, <3>2
    <2> QED BY <1>2, <1>3, <1>8, <2>1, <2>2 DEF RoundsAreSent, Sent
<1>13. ResponsesAreSent' /\ LeafsAreSent'
    BY <1>2 DEF ResponsesAreSent, LeafsAreSent, VerifierStages
<1> QED BY <1>1, <1>2, <1>3, <1>7, <1>9, <1>10, <1>11, <1>12, <1>13 DEF ProverInv

(***************************************************************************)
(* Items that are not absorbed, and what is sampled after them.            *)
(***************************************************************************)
LEMMA SendingUnabsorbed ==
    ASSUME ProverInv, NEW m \in Nat, NEW k \in Nat, ProverAt(m, k), Covered(R, k, m),
           NEW items, IsSequence(items), NEW n, Len(items) = n,
           \A i \in 1 .. n : IsOfKind(items[i], KindAt(R, m + i)) /\ ~Absorbed(items[i]),
           NEW u, u = EnqueueAll(prover.stream, items), NEW what, NEW x,
           EventAt(config, u.items, k + 1) = Item(what, x), NEW t, t = Squeezed(u, what, x)
    PROVE  /\ IsStream(t)
           /\ t.items = u.items
           /\ Len(t.items) = m + n
           /\ \A i \in 1 .. m : t.items[i] = Sent[i]
           /\ \A i \in 1 .. n : t.items[m + i] = items[i]
           /\ OfKinds(t.items, R)
           /\ u.sponge = Transcript(config, t.items, k)
           /\ t.sponge = Transcript(config, t.items, k + 1)
<1>1. /\ IsStream(u)
      /\ Len(u.items) = m + n
      /\ \A i \in 1 .. m : u.items[i] = Sent[i]
      /\ \A i \in 1 .. n : u.items[m + i] = items[i]
      /\ OfKinds(u.items, R)
      /\ u.sponge = Transcript(config, u.items, k)
    <2>1. /\ \A i \in 1 .. n : IsOfKind(items[i], KindAt(R, m + i))
          /\ \A i \in 1 .. n : ~Absorbed(items[i])
        OBVIOUS
    <2>2. /\ ProverInv
          /\ m \in Nat
          /\ k \in Nat
          /\ ProverAt(m, k)
          /\ Covered(R, k, m)
          /\ IsSequence(items)
          /\ Len(items) = n
          /\ \A i \in 1 .. n : IsOfKind(items[i], KindAt(R, m + i))
          /\ u = EnqueueAll(prover.stream, items)
        BY <2>1
    <2>3. /\ IsStream(u)
          /\ Len(u.items) = m + n
          /\ \A i \in 1 .. m : u.items[i] = Sent[i]
          /\ \A i \in 1 .. n : u.items[m + i] = items[i]
          /\ OfKinds(u.items, R)
          /\ (\A i \in 1 .. n : ~Absorbed(items[i])) => u.sponge = Transcript(config, u.items, k)
        BY ONLY <2>2, SendingAll
    <2> QED BY <2>1, <2>3
<1>2. IsStream(t) /\ t.items = u.items /\ t.sponge = Transcript(config, t.items, k + 1)
    <2>1. IsStream(t) /\ t.items = u.items /\ Extends(u.sponge, t.sponge, Item(what, x))
        BY <1>1, Absorbing DEF Squeezed
    <2>2. /\ IsSequence(t.sponge)
          /\ Extends(Transcript(config, t.items, k), t.sponge, EventAt(config, t.items, k + 1))
        BY <1>1, <2>1 DEF IsStream
    <2> QED BY <2>1, <2>2, TranscriptGrowsByOne
<1> QED BY <1>1, <1>2

\* The last codeword and polynomial are sent unabsorbed, and the indices sampled.
LEMMA SendLastRoundKeepsInv ==
    ASSUME ProverInv, SendLastRound
    PROVE  ProverInv'
<1> DEFINE codeword == prover.rounds[Len(prover.rounds)].codeword
           items == <<Item("FriCodeword", codeword), Item("FriPolynomial", LastPolynomial(codeword))>>
           u == EnqueueAll(prover.stream, items)
           t == AfterIndices(config, u)
<1>1. R \in Nat /\ NumRounds(config) = R /\ config \in Configurations
    BY ConfigurationFacts DEF ProverInv
<1>2. stage = "rounds" /\ stage' = "query" /\ config' = config /\ Len(prover.rounds) > R
    BY <1>1 DEF SendLastRound, ProverStep
<1>3. /\ DOMAIN prover' = ProverFields /\ prover'.stream = t
      /\ prover'.main_tree = prover.main_tree /\ prover'.aux_tree = prover.aux_tree
      /\ prover'.quotient_tree = prover.quotient_tree /\ prover'.rounds = prover.rounds
      /\ prover'.indices = Indices(config, u)
    BY DEF SendLastRound, ProverStep, ProverInv, ProverFields
<1>4. /\ Len(prover.rounds) = R + 1 /\ IsSequence(prover.rounds)
      /\ HalvedFrom(FriDomain(config), prover.rounds)
      /\ \A k \in 1 .. Len(prover.rounds) : prover.rounds[k].codeword = Sent[9 + k].payload
    BY <1>1, <1>2 DEF ProverInv, RoundsAreSent
<1>5. ProverAt(10 + R, 14 + 2 * R)
    <2>1. 9 + Len(prover.rounds) = 10 + R /\ 12 + 2 * Len(prover.rounds) = 14 + 2 * R
        BY <1>1, <1>4
    <2>2. ProverAt(9 + Len(prover.rounds), 12 + 2 * Len(prover.rounds))
        BY <1>2 DEF ProverInv, ProverProgress
    <2> QED BY <2>1, <2>2
<1>6. IsSequence(items) /\ Len(items) = 2
    BY TupleSequences
<1>7. \A i \in 1 .. 2 : IsOfKind(items[i], KindAt(R, 10 + R + i)) /\ ~Absorbed(items[i])
    <2>1. KindAt(R, 10 + R + 1) = "FriCodeword" /\ KindAt(R, 10 + R + 2) = "FriPolynomial"
        BY <1>1 DEF KindAt
    <2> QED BY <2>1 DEF IsOfKind, Item, Absorbed, IncludedInFiatShamir
<1> HIDE DEF items
<1>8. /\ IsStream(t)
      /\ Len(t.items) = 12 + R
      /\ \A i \in 1 .. (10 + R) : t.items[i] = Sent[i]
      /\ OfKinds(t.items, R)
      /\ u.sponge = Transcript(config, t.items, 14 + 2 * R)
      /\ t.sponge = Transcript(config, t.items, 15 + 2 * R)
    <2> DEFINE m == 10 + R
               k == 14 + 2 * R
               n == 2
               x == config.num_collinearity_checks
    <2>1. /\ m \in Nat /\ k \in Nat /\ ProverAt(m, k) /\ Covered(R, k, m)
          /\ IsSequence(items) /\ Len(items) = n
          /\ \A i \in 1 .. n : IsOfKind(items[i], KindAt(R, m + i)) /\ ~Absorbed(items[i])
          /\ u = EnqueueAll(prover.stream, items)
          /\ t = Squeezed(u, "indices", x)
        BY <1>1, <1>5, <1>6, <1>7 DEF Covered, AfterIndices
    <2>2. EventAt(config, u.items, k + 1) = Item("indices", x)
        <3>1. k + 1 = 15 + 2 * NumRounds(config) /\ 15 + 2 * NumRounds(config) > 14
            BY <1>1
        <3> QED BY <1>1, <3>1 DEF EventAt
    <2>3. m + n = 12 + R /\ k + 1 = 15 + 2 * R
        BY <1>1
    <2> HIDE DEF m, k, n, x, u, t
    <2>4. /\ IsStream(t)
          /\ Len(t.items) = m + n
          /\ \A i \in 1 .. m : t.items[i] = Sent[i]
          /\ OfKinds(t.items, R)
          /\ u.sponge = Transcript(config, t.items, k)
          /\ t.sponge = Transcript(config, t.items, k + 1)
        BY <2>1, <2>2, SendingUnabsorbed
    <2> QED BY <2>3, <2>4 DEF m, k
<1>9. prover'.indices = SampledIndices(config, t.items)
    BY <1>1, <1>3, <1>8 DEF Indices, SampledIndices
<1> HIDE DEF t, u
<1>10. ProverProgress'
    <2>1. ProverAt(12 + R, 15 + 2 * R)'
        BY <1>2, <1>3, <1>8 DEF ProverAt, Sent, R
    <2> QED BY <1>2, <2>1 DEF ProverProgress, ProverStages, VerifierStages
<1>11. SentItems'
    BY <1>2, <1>3, <1>8 DEF SentItems, Sent, R
<1>12. HeightAndTreesAreSent'
    BY <1>1, <1>2, <1>3, <1>8 DEF ProverInv, HeightAndTreesAreSent, Sent, ProverStages
<1>13. RoundsAreSent'
    <2>1. R' = R /\ FriDomain(config)' = FriDomain(config) /\ SampledIndices(config, Sent)' = prover'.indices
        BY <1>2, <1>3, <1>9 DEF R, Sent
    <2>2. \A k \in 1 .. Len(prover.rounds) : prover'.rounds[k].codeword = t.items[9 + k].payload
        <3>1. \A k \in 1 .. Len(prover.rounds) : 9 + k \in 1 .. (10 + R)
            BY <1>1, <1>4
        <3> QED BY <1>3, <1>4, <1>8, <3>1
    <2> QED BY <1>2, <1>3, <1>4, <2>1, <2>2 DEF RoundsAreSent, Sent
<1>14. ResponsesAreSent' /\ LeafsAreSent'
    BY <1>2 DEF ResponsesAreSent, LeafsAreSent, VerifierStages
<1> QED BY <1>1, <1>2, <1>3, <1>8, <1>10, <1>11, <1>12, <1>13, <1>14 DEF ProverInv

\* The responses depend on nothing that is sent after them.
LEMMA ResponsesStay ==
    ASSUME R \in Nat, NumRounds(config) = R, NEW items, NEW rounds, ResponsesAreIn(items, rounds),
           NEW more, \A i \in 1 .. (13 + 2 * R) : more[i] = items[i]
    PROVE  ResponsesAreIn(more, rounds)
<1>1. SampledIndices(config, more) = SampledIndices(config, items)
    <2>1. /\ 14 + 2 * R \in Nat /\ 13 + 2 * R \in Nat
          /\ Covered(NumRounds(config), 14 + 2 * R, 13 + 2 * R)
        BY DEF Covered
    <2>2. Transcript(config, more, 14 + 2 * R) = Transcript(config, items, 14 + 2 * R)
        BY <2>1, TranscriptOfPrefix
    <2> QED BY <2>2 DEF SampledIndices
<1>2. 10 \in 1 .. (13 + 2 * R) /\ 13 + R \in 1 .. (13 + 2 * R)
    OBVIOUS
<1>3. \A k \in 1 .. R : 9 + k \in 1 .. (13 + 2 * R) /\ 13 + R + k \in 1 .. (13 + 2 * R)
    OBVIOUS
<1> QED BY <1>1, <1>2, <1>3 DEF ResponsesAreIn

\* The first round answers at the indices drawn, each round also at the others' mirror images.
LEMMA ResponsesInOrder ==
    ASSUME NEW r \in Nat, NEW rounds, Len(rounds) = r + 1, NEW indices
    PROVE  LET responses == FriResponses(rounds, indices)
           IN  /\ IsSequence(responses) /\ Len(responses) = r + 1
               /\ responses[1] = FriResponse(rounds[1], indices)
               /\ \A k \in 1 .. r :
                     responses[1 + k] =
                         FriResponse(rounds[k], BIndices(indices, rounds[k].domain.length))
<1> DEFINE first == <<FriResponse(rounds[1], indices)>>
           others == [k \in 1 .. r |-> FriResponse(rounds[k], BIndices(indices, rounds[k].domain.length))]
<1>1. FriResponses(rounds, indices) = first \o others
    <2>1. Len(rounds) - 1 = r
        OBVIOUS
    <2> QED BY <2>1 DEF FriResponses
<1>2. IsSequence(first) /\ Len(first) = 1 /\ first[1] = FriResponse(rounds[1], indices)
    BY TupleSequences
<1>3. others = [k \in 1 .. r |-> others[k]]
    OBVIOUS
<1>4. \A k \in 1 .. r : others[k] = FriResponse(rounds[k], BIndices(indices, rounds[k].domain.length))
    OBVIOUS
<1> HIDE DEF first, others
<1>5. IsSequence(others) /\ Len(others) = r
    BY <1>3, IndexedSequence
<1>6. /\ IsSequence(first \o others) /\ Len(first \o others) = Len(first) + Len(others)
      /\ \A i \in 1 .. Len(first) : (first \o others)[i] = first[i]
      /\ \A i \in 1 .. Len(others) : (first \o others)[Len(first) + i] = others[i]
    BY <1>2, <1>5, ConcatenatedSequence
<1> DEFINE all == first \o others
<1> HIDE DEF all
<1>7. /\ IsSequence(all) /\ Len(all) = r + 1 /\ all[1] = FriResponse(rounds[1], indices)
      /\ \A k \in 1 .. r :
            all[1 + k] = FriResponse(rounds[k], BIndices(indices, rounds[k].domain.length))
    BY <1>2, <1>4, <1>5, <1>6 DEF all
<1> QED BY <1>1, <1>7 DEF all

\* R + 1 responses in one step; the scalar drawn and discarded is part of the history.
LEMMA RespondToQueriesKeepsInv ==
    ASSUME ProverInv, RespondToQueries
    PROVE  ProverInv'
<1> DEFINE items == FriResponses(prover.rounds, prover.indices)
           u == EnqueueAll(prover.stream, items)
           t == AfterScalars(u, 1)
<1>1. R \in Nat /\ NumRounds(config) = R /\ config \in Configurations
    BY ConfigurationFacts DEF ProverInv
<1>2. stage = "query" /\ stage' = "leafs" /\ config' = config
    BY DEF RespondToQueries, ProverStep
<1>3. /\ DOMAIN prover' = ProverFields /\ prover'.stream = t
      /\ prover'.main_tree = prover.main_tree /\ prover'.aux_tree = prover.aux_tree
      /\ prover'.quotient_tree = prover.quotient_tree
    BY DEF RespondToQueries, AfterResponses, ProverStep, ProverInv, ProverFields
<1>4. /\ Len(prover.rounds) = R + 1 /\ prover.indices = SampledIndices(config, Sent)
      /\ HalvedFrom(FriDomain(config), prover.rounds)
      /\ \A k \in 1 .. Len(prover.rounds) : prover.rounds[k].codeword = Sent[9 + k].payload
      /\ ProverAt(12 + R, 15 + 2 * R)
    BY <1>2 DEF ProverInv, ProverProgress, RoundsAreSent
<1>5. /\ IsSequence(items) /\ Len(items) = R + 1
      /\ items[1] = FriResponse(prover.rounds[1], prover.indices)
      /\ \A k \in 1 .. R :
            items[1 + k] =
                FriResponse(prover.rounds[k], BIndices(prover.indices, prover.rounds[k].domain.length))
    <2> DEFINE rounds == prover.rounds
               indices == prover.indices
    <2>1. items = FriResponses(rounds, indices) /\ Len(rounds) = R + 1 /\ R \in Nat
        BY <1>1, <1>4
    <2> HIDE DEF items, rounds, indices
    <2>2. /\ IsSequence(items) /\ Len(items) = R + 1
          /\ items[1] = FriResponse(rounds[1], indices)
          /\ \A k \in 1 .. R :
                items[1 + k] = FriResponse(rounds[k], BIndices(indices, rounds[k].domain.length))
        BY <2>1, ResponsesInOrder
    <2> QED BY <2>2 DEF rounds, indices
<1> HIDE DEF items
<1>6. \A i \in 1 .. (R + 1) : IsOfKind(items[i], KindAt(R, 12 + R + i)) /\ ~Absorbed(items[i])
    <2> SUFFICES ASSUME NEW i \in 1 .. (R + 1)
                 PROVE  IsOfKind(items[i], KindAt(R, 12 + R + i)) /\ ~Absorbed(items[i])
        OBVIOUS
    <2>1. KindAt(R, 12 + R + i) = "FriResponse"
        BY <1>1 DEF KindAt
    <2>2. \E payload : items[i] = Item("FriResponse", payload)
        <3>1. CASE i = 1
            BY <1>5, <3>1 DEF FriResponse
        <3>2. CASE i # 1
            <4>1. i - 1 \in 1 .. R /\ 1 + (i - 1) = i
                BY <1>1, <3>2
            <4>2. items[1 + (i - 1)] =
                      FriResponse(prover.rounds[i - 1],
                                  BIndices(prover.indices, prover.rounds[i - 1].domain.length))
                BY <1>5, <4>1
            <4> QED BY <4>1, <4>2 DEF FriResponse
        <3> QED BY <3>1, <3>2
    <2> QED BY <2>1, <2>2 DEF IsOfKind, Item, Absorbed, IncludedInFiatShamir
<1>7. /\ IsStream(t)
      /\ Len(t.items) = 13 + 2 * R
      /\ \A i \in 1 .. (12 + R) : t.items[i] = Sent[i]
      /\ \A i \in 1 .. (R + 1) : t.items[12 + R + i] = items[i]
      /\ OfKinds(t.items, R)
      /\ t.sponge = Transcript(config, t.items, 16 + 2 * R)
    <2> DEFINE m == 12 + R
               k == 15 + 2 * R
               n == R + 1
    <2>1. /\ m \in Nat /\ k \in Nat /\ ProverAt(m, k) /\ Covered(R, k, m)
          /\ IsSequence(items) /\ Len(items) = n
          /\ \A i \in 1 .. n : IsOfKind(items[i], KindAt(R, m + i)) /\ ~Absorbed(items[i])
          /\ u = EnqueueAll(prover.stream, items)
          /\ t = Squeezed(u, "scalars", 1)
        BY <1>1, <1>4, <1>5, <1>6 DEF Covered, AfterScalars
    <2>2. EventAt(config, u.items, k + 1) = Item("scalars", 1)
        <3>1. k + 1 = 16 + 2 * NumRounds(config) /\ 16 + 2 * NumRounds(config) > 14 + 2 * NumRounds(config)
            BY <1>1
        <3> QED BY <1>1, <3>1 DEF EventAt
    <2>3. m + n = 13 + 2 * R /\ k + 1 = 16 + 2 * R
        BY <1>1
    <2> HIDE DEF m, k, n, u, t
    <2>4. /\ IsStream(t)
          /\ Len(t.items) = m + n
          /\ \A i \in 1 .. m : t.items[i] = Sent[i]
          /\ \A i \in 1 .. n : t.items[m + i] = items[i]
          /\ OfKinds(t.items, R)
          /\ t.sponge = Transcript(config, t.items, k + 1)
        BY <2>1, <2>2, SendingUnabsorbed
    <2> QED BY <2>3, <2>4 DEF m, n
<1> HIDE DEF t, u
<1>8. ResponsesAreIn(t.items, prover.rounds)
    <2>1. SampledIndices(config, t.items) = prover.indices
        <3>1. /\ 14 + 2 * R \in Nat /\ 12 + R \in Nat
              /\ Covered(NumRounds(config), 14 + 2 * R, 12 + R)
            BY <1>1 DEF Covered
        <3>2. Transcript(config, t.items, 14 + 2 * R) = Transcript(config, Sent, 14 + 2 * R)
            BY <1>1, <1>7, <3>1, TranscriptOfPrefix
        <3> QED BY <1>1, <1>4, <3>2 DEF SampledIndices
    <2>2. \A k \in 1 .. Len(prover.rounds) : prover.rounds[k].codeword = t.items[9 + k].payload
        <3>1. \A k \in 1 .. Len(prover.rounds) : 9 + k \in 1 .. (12 + R)
            BY <1>1, <1>4
        <3> QED BY <1>4, <1>7, <3>1
    <2>3. t.items[13 + R].payload = ResponseTo(t.items[10].payload, prover.indices)
        <3>1. 12 + R + 1 = 13 + R /\ 1 \in 1 .. (R + 1) /\ 1 \in 1 .. Len(prover.rounds) /\ 9 + 1 = 10
            BY <1>1, <1>4
        <3>2. t.items[13 + R] = FriResponse(prover.rounds[1], prover.indices)
            BY <1>5, <1>7, <3>1
        <3> QED BY <2>2, <3>1, <3>2 DEF FriResponse, Item, ResponseTo
    <2>4. ASSUME NEW k \in 1 .. R
          PROVE  t.items[13 + R + k].payload =
                     ResponseTo(t.items[9 + k].payload,
                                BIndices(prover.indices, prover.rounds[k].domain.length))
        <3>1. 12 + R + (1 + k) = 13 + R + k /\ 1 + k \in 1 .. (R + 1) /\ k \in 1 .. (R + 1)
            BY <1>1
        <3>2. t.items[13 + R + k] =
                  FriResponse(prover.rounds[k], BIndices(prover.indices, prover.rounds[k].domain.length))
            BY <1>5, <1>7, <3>1
        <3>3. prover.rounds[k].codeword = t.items[9 + k].payload
            BY <1>4, <2>2, <3>1
        <3> DEFINE indices == BIndices(prover.indices, prover.rounds[k].domain.length)
        <3>4. t.items[13 + R + k] = FriResponse(prover.rounds[k], indices)
            BY <3>2
        <3> HIDE DEF indices
        <3>5. t.items[13 + R + k].payload = ResponseTo(t.items[9 + k].payload, indices)
            BY <3>3, <3>4 DEF FriResponse, Item, ResponseTo
        <3> QED BY <3>5 DEF indices
    <2> QED BY <1>4, <2>1, <2>3, <2>4 DEF ResponsesAreIn
<1>9. ProverProgress'
    <2>1. ProverAt(13 + 2 * R, 16 + 2 * R)'
        BY <1>2, <1>3, <1>7 DEF ProverAt, Sent, R
    <2> QED BY <1>2, <2>1 DEF ProverProgress, ProverStages, VerifierStages
<1>10. SentItems'
    BY <1>2, <1>3, <1>7 DEF SentItems, Sent, R
<1>11. HeightAndTreesAreSent'
    <2>1. \A i \in 1 .. 4 : t.items[i] = Sent[i]
        BY <1>1, <1>7
    <2>2. /\ Sent[1].payload = Ilog2(config.padded_height) /\ prover.main_tree = Sent[2].payload
          /\ prover.aux_tree = Sent[3].payload /\ prover.quotient_tree = Sent[4].payload
        BY <1>2 DEF ProverInv, HeightAndTreesAreSent, ProverStages
    <2> QED BY <1>2, <1>3, <2>1, <2>2 DEF HeightAndTreesAreSent, Sent
<1>12. RoundsAreSent' /\ LeafsAreSent'
    BY <1>2 DEF RoundsAreSent, LeafsAreSent, VerifierStages
<1>13. ResponsesAreSent'
    <2>1. ResponsesAreIn(t.items, prover.rounds) <=> (/\ Len(prover.rounds) = R' + 1
            /\ HalvedFrom(FriDomain(config'), prover.rounds)
            /\ t.items[13 + R'].payload = ResponseTo(t.items[10].payload, SampledIndices(config', t.items))
            /\ \A k \in 1 .. R' :
                  t.items[13 + R' + k].payload =
                      ResponseTo(t.items[9 + k].payload,
                          BIndices(SampledIndices(config', t.items), prover.rounds[k].domain.length)))
        BY <1>2 DEF R, ResponsesAreIn
    <2> QED BY <1>3, <1>8, <2>1 DEF ResponsesAreSent, Sent, ResponsesAreIn
<1> QED BY <1>1, <1>2, <1>3, <1>7, <1>9, <1>10, <1>11, <1>12, <1>13 DEF ProverInv

\* Six items in one step: the leafs of the trees, which are the ones committed to.
LEMMA OpenTraceLeafsKeepsInv ==
    ASSUME ProverInv, OpenTraceLeafs
    PROVE  ProverInv'
<1>1. PICK main, aux, elements :
          prover' = [NoProver EXCEPT !.stream = EnqueueAll(prover.stream,
                        <<Item("MasterMainTableRows", main), Opened(prover.main_tree, prover.indices),
                          Item("MasterAuxTableRows", aux), Opened(prover.aux_tree, prover.indices),
                          Item("QuotientSegmentsElements", elements),
                          Opened(prover.quotient_tree, prover.indices)>>)]
    BY DEF OpenTraceLeafs, ProverStep
<1> DEFINE items == <<Item("MasterMainTableRows", main), Opened(prover.main_tree, prover.indices),
                      Item("MasterAuxTableRows", aux), Opened(prover.aux_tree, prover.indices),
                      Item("QuotientSegmentsElements", elements),
                      Opened(prover.quotient_tree, prover.indices)>>
           t == EnqueueAll(prover.stream, items)
<1>2. R \in Nat /\ NumRounds(config) = R /\ config \in Configurations
    BY ConfigurationFacts DEF ProverInv
<1>3. stage = "leafs" /\ stage' = "proof" /\ config' = config
    BY DEF OpenTraceLeafs, ProverStep
<1>4. DOMAIN prover' = ProverFields /\ prover'.stream = t
    BY <1>1 DEF NoProver, ProverFields
<1>5. /\ ProverAt(13 + 2 * R, 16 + 2 * R)
      /\ prover.main_tree = Sent[2].payload
      /\ prover.aux_tree = Sent[3].payload
      /\ prover.quotient_tree = Sent[4].payload
    BY <1>3 DEF ProverInv, ProverProgress, HeightAndTreesAreSent, ProverStages
<1>6. IsSequence(items) /\ Len(items) = 6
    BY TupleSequences
<1>7. \A i \in 1 .. 6 : IsOfKind(items[i], KindAt(R, 13 + 2 * R + i)) /\ ~Absorbed(items[i])
    <2>1. /\ KindAt(R, 13 + 2 * R + 1) = "MasterMainTableRows"
          /\ KindAt(R, 13 + 2 * R + 2) = "AuthenticationStructure"
          /\ KindAt(R, 13 + 2 * R + 3) = "MasterAuxTableRows"
          /\ KindAt(R, 13 + 2 * R + 4) = "AuthenticationStructure"
          /\ KindAt(R, 13 + 2 * R + 5) = "QuotientSegmentsElements"
          /\ KindAt(R, 13 + 2 * R + 6) = "AuthenticationStructure"
        BY <1>2 DEF KindAt
    <2> QED BY <2>1 DEF IsOfKind, Item, Opened, Absorbed, IncludedInFiatShamir
<1>8. /\ items[2].payload.tree = prover.main_tree
      /\ items[4].payload.tree = prover.aux_tree
      /\ items[6].payload.tree = prover.quotient_tree
    BY DEF Opened, Item, AuthenticationStructure
<1> HIDE DEF items
<1>9. /\ IsStream(t)
      /\ Len(t.items) = 19 + 2 * R
      /\ \A i \in 1 .. (13 + 2 * R) : t.items[i] = Sent[i]
      /\ \A i \in 1 .. 6 : t.items[13 + 2 * R + i] = items[i]
      /\ OfKinds(t.items, R)
      /\ t.sponge = Transcript(config, t.items, 16 + 2 * R)
    <2> DEFINE m == 13 + 2 * R
               k == 16 + 2 * R
               n == 6
    <2>1. /\ m \in Nat /\ k \in Nat /\ ProverAt(m, k) /\ Covered(R, k, m)
          /\ IsSequence(items) /\ Len(items) = n
          /\ \A i \in 1 .. n : IsOfKind(items[i], KindAt(R, m + i))
          /\ \A i \in 1 .. n : ~Absorbed(items[i])
          /\ t = EnqueueAll(prover.stream, items)
        BY <1>2, <1>5, <1>6, <1>7 DEF Covered
    <2>2. m + n = 19 + 2 * R
        BY <1>2
    <2> HIDE DEF m, k, n, t
    <2>3. /\ IsStream(t)
          /\ Len(t.items) = m + n
          /\ \A i \in 1 .. m : t.items[i] = Sent[i]
          /\ \A i \in 1 .. n : t.items[m + i] = items[i]
          /\ OfKinds(t.items, R)
          /\ t.sponge = Transcript(config, t.items, k)
        BY <2>1, SendingAll
    <2> QED BY <2>2, <2>3 DEF m, n, k
<1> HIDE DEF t
<1>10. R' = R
    BY <1>3 DEF R
<1>11. ProverProgress'
    <2>1. ProverAt(19 + 2 * R, 16 + 2 * R)'
        BY <1>3, <1>4, <1>9, <1>10 DEF ProverAt, Sent
    <2> QED BY <1>3, <2>1 DEF ProverProgress, ProverStages, VerifierStages
<1>12. SentItems'
    BY <1>4, <1>9, <1>10 DEF SentItems, Sent
<1>13. RoundsAreSent'
    BY <1>3 DEF RoundsAreSent
<1>16. HeightAndTreesAreSent'
    <2>1. t.items[1] = Sent[1] /\ Sent[1].payload = Ilog2(config.padded_height)
        BY <1>2, <1>3, <1>9 DEF ProverInv, HeightAndTreesAreSent
    <2> QED BY <1>3, <1>4, <2>1 DEF HeightAndTreesAreSent, ProverStages, Sent
<1>14. ResponsesAreSent'
    <2>1. PICK rounds : ResponsesAreIn(Sent, rounds)
        BY <1>3 DEF ProverInv, ResponsesAreSent
    <2>2. ResponsesAreIn(t.items, rounds)
        BY <1>2, <1>9, <2>1, ResponsesStay
    <2>3. ResponsesAreIn(Sent, rounds)'
        BY <1>3, <1>4, <1>10, <2>2 DEF ResponsesAreIn, Sent
    <2> QED BY <2>3 DEF ResponsesAreSent
<1>15. LeafsAreSent'
    <2>1. /\ 13 + 2 * R + 2 = 15 + 2 * R /\ 13 + 2 * R + 4 = 17 + 2 * R /\ 13 + 2 * R + 6 = 19 + 2 * R
          /\ 2 \in 1 .. (13 + 2 * R) /\ 3 \in 1 .. (13 + 2 * R) /\ 4 \in 1 .. (13 + 2 * R)
        BY <1>2
    <2>2. /\ t.items[15 + 2 * R].payload.tree = t.items[2].payload
          /\ t.items[17 + 2 * R].payload.tree = t.items[3].payload
          /\ t.items[19 + 2 * R].payload.tree = t.items[4].payload
        <3>1. /\ t.items[13 + 2 * R + 2] = items[2] /\ t.items[13 + 2 * R + 4] = items[4]
              /\ t.items[13 + 2 * R + 6] = items[6]
            BY <1>9
        <3>2. t.items[2] = Sent[2] /\ t.items[3] = Sent[3] /\ t.items[4] = Sent[4]
            BY <1>9, <2>1
        <3> QED BY <1>5, <1>8, <2>1, <3>1, <3>2
    <2> QED BY <1>4, <1>10, <2>2 DEF LeafsAreSent, Sent
<1> QED BY <1>2, <1>3, <1>4, <1>9, <1>11, <1>12, <1>13, <1>14, <1>15, <1>16 DEF ProverInv

(***************************************************************************)
(* All of the prover.                                                      *)
(***************************************************************************)
LEMMA InitProverInv ==
    ASSUME Init
    PROVE  ProverInv
<1>1. /\ config \in Configurations /\ stage = "main" /\ prover = NoProver
      /\ prover.stream = EmptyStream
    BY DEF Init, NoProver
<1>2. DOMAIN prover = ProverFields
    BY <1>1 DEF NoProver, ProverFields
<1>3. ProverAt(0, 0) /\ OfKinds(Sent, R)
    <2>1. Transcript(config, Sent, 0) = <<>>
        BY EmptySequence, TranscriptIsSequence, SequencesEqual
    <2> QED BY <1>1, <2>1, EmptyStreamIsStream, EmptySequence DEF ProverAt, Sent, OfKinds
<1>4. ProverProgress
    BY <1>1, <1>3 DEF ProverProgress, ProverStages, VerifierStages
<1>5. HeightAndTreesAreSent /\ RoundsAreSent /\ ResponsesAreSent /\ LeafsAreSent
    BY <1>1 DEF HeightAndTreesAreSent, RoundsAreSent, ResponsesAreSent, LeafsAreSent, VerifierStages
<1> QED BY <1>1, <1>2, <1>3, <1>4, <1>5, EmptyStreamIsStream DEF ProverInv, SentItems

\* Each of the prover's steps.
LEMMA ProveKeepsProverInv ==
    ASSUME ProverInv, Prove
    PROVE  ProverInv'
BY CommitToMainTableKeepsInv, CommitToAuxTableKeepsInv, CommitToQuotientKeepsInv,
   SendOutOfDomainRowsKeepsInv, CommitToFirstRoundKeepsInv, CommitToNextRoundKeepsInv,
   SendLastRoundKeepsInv, RespondToQueriesKeepsInv, OpenTraceLeafsKeepsInv
   DEF Prove

(***************************************************************************)
(* Once the proof is there, nothing the prover left behind changes.        *)
(***************************************************************************)
LEMMA ProverInvStays ==
    ASSUME ProverInv, UNCHANGED <<config, prover>>,
           stage = stage' \/ (/\ stage \in {"proof"} \cup VerifierStages
                               /\ stage' \in {"refused"} \cup VerifierStages)
    PROVE  ProverInv'
<1>1. CASE stage = stage'
    BY <1>1 DEF ProverInv, ProverProgress, ProverAt, Sent, SentItems, HeightAndTreesAreSent, RoundsAreSent,
                ResponsesAreSent, ResponsesAreIn, LeafsAreSent, R
<1>2. CASE /\ stage \in {"proof"} \cup VerifierStages
           /\ stage' \in {"refused"} \cup VerifierStages
    <2>1. ProverAt(19 + 2 * R, 16 + 2 * R) /\ ProverAt(19 + 2 * R, 16 + 2 * R)'
        BY <1>2 DEF ProverInv, ProverProgress, ProverAt, Sent, R
    <2>2. ProverProgress'
        BY <1>2, <2>1 DEF ProverProgress, ProverStages, VerifierStages
    <2>3. SentItems'
        BY DEF ProverInv, SentItems, Sent, R
    <2>4. HeightAndTreesAreSent' /\ RoundsAreSent'
        BY <1>2 DEF ProverInv, HeightAndTreesAreSent, RoundsAreSent, ProverStages, VerifierStages, Sent
    <2>5. ResponsesAreSent'
        BY <1>2 DEF ProverInv, ResponsesAreSent, ResponsesAreIn, Sent, R
    <2>6. LeafsAreSent'
        BY <1>2 DEF ProverInv, LeafsAreSent, Sent, R
    <2> QED BY <2>2, <2>3, <2>4, <2>5, <2>6 DEF ProverInv
<1> QED BY <1>1, <1>2

(***************************************************************************)
(* The verifier's steps.                                                   *)
(***************************************************************************)
VerifierInv ==
    /\ VerifierTypeOK
    /\ DeliveryOK
    /\ VerifierProgress
    /\ ReadItems
    /\ RootsAreRead
    /\ RoundsAreRead
    /\ ResponsesAreRead
    /\ LeafsAreRead

(***************************************************************************)
(* What was sent has the kinds that are expected of it.                    *)
(***************************************************************************)
LEMMA IntactKinds ==
    ASSUME ProverInv, VerifierInv, stage \in VerifierStages, delivery = Intact
    PROVE  /\ Received = Sent
           /\ Len(Received) = 19 + 2 * R
           /\ \A j \in 1 .. Len(Received) : Received[j].kind = KindAt(R, j)
<1>1. Received = Sent
    BY DEF VerifierInv, DeliveryOK, Delivered, Intact
<1>2. Len(Sent) = 19 + 2 * R
    BY DEF ProverInv, ProverProgress, ProverAt
<1>3. \A j \in 1 .. Len(Sent) : Sent[j].kind = KindAt(R, j)
    <2> SUFFICES ASSUME NEW j \in 1 .. Len(Sent)
                 PROVE  Sent[j].kind = KindAt(R, j)
        OBVIOUS
    <2>1. IsOfKind(Sent[j], KindAt(R, j))
        BY DEF ProverInv, SentItems, OfKinds
    <2> DEFINE item == Sent[j]
               kind == KindAt(R, j)
    <2> HIDE DEF item, kind
    <2>2. item = [kind |-> kind, payload |-> item.payload]
        BY <2>1 DEF IsOfKind, item, kind
    <2>3. item.kind = kind
        BY <2>2
    <2> QED BY <2>3 DEF item, kind
<1> QED BY <1>1, <1>2, <1>3

(***************************************************************************)
(* The next n items read: what they were, if there was no error.           *)
(***************************************************************************)
GoodRead(m, n, k, read) ==
    /\ read.stream.items_index = m + n
    /\ m + n <= Len(Received)
    /\ \A j \in 1 .. n : read.payloads[j] = Received[m + j].payload
    /\ \A j \in 1 .. (m + n) : Received[j].kind = KindAt(R, j)

\* What Dequeue returns to a verifier that has read m items and asks for n more.
WasRead(m, n, k, kinds, read) ==
    /\ IsStream(read.stream)
    /\ read.stream.items = Received
    /\ read.stream.items_index <= Len(Received)
    /\ delivery = Intact => read.error = None
    /\ read.error = None => GoodRead(m, n, k, read)
    /\ read.error = None /\ (\A j \in 1 .. n : kinds[j] \notin IncludedInFiatShamir) =>
          read.stream.sponge = Transcript(config, Received, k)
    /\ /\ read.error = None
       /\ \A j \in 1 .. n : kinds[j] \in IncludedInFiatShamir
       /\ \A j \in 1 .. n : EventAt(config, Received, k + j) = Received[m + j]
       => read.stream.sponge = Transcript(config, Received, k + n)

\* Reading keeps to the items received; what it says of the n items read.
LEMMA Reading ==
    ASSUME ProverInv, VerifierInv, stage \in VerifierStages,
           NEW m \in Nat, NEW k \in Nat, VerifierAt(m, k),
           NEW kinds, IsSequence(kinds), NEW n, Len(kinds) = n, m + n <= 19 + 2 * R,
           \A j \in 1 .. n : kinds[j] = KindAt(R, m + j),
           NEW read, read = Dequeue(verifier.stream, kinds)
    PROVE  WasRead(m, n, k, kinds, read)
<1> DEFINE stream == verifier.stream
<1>1. /\ IsStream(stream) /\ stream.items = Received /\ stream.items_index = m
      /\ stream.sponge = Transcript(config, Received, k) /\ m <= Len(Received)
      /\ Len(Received) \in Nat /\ n \in Nat /\ R \in Nat
    BY ConfigurationFacts
       DEF VerifierInv, VerifierTypeOK, VerifierAt, Received, IsStream, IsSequence, ProverInv
<1>2. read = Dequeue(stream, kinds)
    OBVIOUS
<1>3. \A j \in 1 .. m : Received[j].kind = KindAt(R, j)
    BY <1>1 DEF VerifierInv, ReadItems, Received
<1>4. ASSUME delivery = Intact
      PROVE  m + n <= Len(Received) /\ \A j \in 1 .. n : Received[m + j].kind = kinds[j]
    <2>1. Len(Received) = 19 + 2 * R /\ \A j \in 1 .. Len(Received) : Received[j].kind = KindAt(R, j)
        BY <1>4, IntactKinds
    <2>2. \A j \in 1 .. n : m + j \in 1 .. Len(Received)
        BY <1>1, <2>1
    <2> QED BY <2>1, <2>2
<1> HIDE DEF stream
<1>5. HasRead(stream, kinds, n, read)
    BY <1>1, <1>2, Dequeueing
<1>6. m + n <= Len(Received) => \A j \in 1 .. n : Ahead(stream)[j] = Received[m + j]
    BY <1>1 DEF Ahead
<1>7. HasKinds(stream, kinds, n) <=>
          m + n <= Len(Received) /\ \A j \in 1 .. n : Received[m + j].kind = kinds[j]
    <2>1. n <= Len(stream.items) - stream.items_index <=> m + n <= Len(Received)
        BY <1>1
    <2>2. CASE m + n <= Len(Received)
        BY <1>6, <2>1, <2>2 DEF HasKinds
    <2>3. CASE ~(m + n <= Len(Received))
        BY <2>1, <2>3 DEF HasKinds
    <2> QED BY <2>2, <2>3
<1>8. /\ IsStream(read.stream)
      /\ read.stream.items = Received
      /\ read.stream.items_index <= Len(Received)
    BY <1>1, <1>5 DEF HasRead
<1>9. delivery = Intact => read.error = None
    BY <1>4, <1>5, <1>7 DEF HasRead
<1>10. ASSUME read.error = None
       PROVE  /\ GoodRead(m, n, k, read)
              /\ (\A j \in 1 .. n : kinds[j] \notin IncludedInFiatShamir) =>
                    read.stream.sponge = Transcript(config, Received, k)
              /\ /\ \A j \in 1 .. n : kinds[j] \in IncludedInFiatShamir
                 /\ \A j \in 1 .. n : EventAt(config, Received, k + j) = Received[m + j]
                 => read.stream.sponge = Transcript(config, Received, k + n)
    <2>1. /\ m + n <= Len(Received)
          /\ \A j \in 1 .. n : Received[m + j].kind = kinds[j] /\ Ahead(stream)[j] = Received[m + j]
          /\ read.stream.items_index = m + n
          /\ \A j \in 1 .. n : read.payloads[j] = Ahead(stream)[j].payload
        BY <1>1, <1>5, <1>6, <1>7, <1>10 DEF HasRead
    <2>2. ASSUME NEW j \in 1 .. (m + n) PROVE Received[j].kind = KindAt(R, j)
        <3>1. CASE j <= m
            BY <1>3, <3>1
        <3>2. CASE j > m
            <4>1. j - m \in 1 .. n /\ m + (j - m) = j
                BY <1>1, <3>2
            <4> QED BY <2>1, <4>1
        <3> QED BY <3>1, <3>2
    <2>3. (\A j \in 1 .. n : kinds[j] \notin IncludedInFiatShamir) =>
              read.stream.sponge = Transcript(config, Received, k)
        BY <1>1, <1>5, <1>10 DEF HasRead
    <2>4. ASSUME \A j \in 1 .. n : kinds[j] \in IncludedInFiatShamir,
                 \A j \in 1 .. n : EventAt(config, Received, k + j) = Received[m + j]
          PROVE  read.stream.sponge = Transcript(config, Received, k + n)
        <3>1. ExtendsBy(Transcript(config, Received, k), read.stream.sponge, Ahead(stream), n)
            BY <1>1, <1>5, <1>10, <2>4 DEF HasRead
        <3>2. /\ IsSequence(read.stream.sponge)
              /\ \A i \in 1 .. n : Ahead(stream)[i] = EventAt(config, Received, k + i)
            BY <1>8, <2>1, <2>4 DEF IsStream
        <3> QED BY <1>1, <3>1, <3>2, TranscriptGrows
    <2> QED BY <2>1, <2>2, <2>3, <2>4 DEF GoodRead
<1> QED BY <1>8, <1>9, <1>10 DEF WasRead

(***************************************************************************)
(* A verifier that gives up, and one that goes on.                         *)
(***************************************************************************)
LEMMA Refusing ==
    ASSUME VerifierInv, stage \in VerifierStages, stage' = "refused",
           UNCHANGED <<config, prover, delivery>>,
           DOMAIN verifier' = VerifierFields, verifier'.error # None,
           IsStream(verifier'.stream), verifier'.stream.items = Received,
           verifier'.stream.items_index <= Len(Received),
           IsSequence(verifier'.rounds), verifier'.num_responses \in 0 .. Len(verifier'.rounds),
           delivery = Intact =>
               \E n \in 0 .. (16 + 2 * R) : verifier'.stream.sponge = Transcript(config, Received, n)
    PROVE  VerifierInv'
<1>1. Received' = Received /\ R' = R /\ stage' \notin VerifierStages
    BY DEF Received, R, VerifierStages
<1>2. VerifierTypeOK'
    BY <1>1 DEF VerifierTypeOK, Received
<1>3. DeliveryOK'
    BY <1>1 DEF VerifierInv, DeliveryOK, ProverStages, Sent
<1>4. VerifierProgress'
    BY <1>1 DEF VerifierProgress
<1>5. ReadItems' /\ RootsAreRead' /\ RoundsAreRead' /\ ResponsesAreRead' /\ LeafsAreRead'
    BY <1>1 DEF ReadItems, RootsAreRead, RoundsAreRead, ResponsesAreRead, LeafsAreRead, AfterRounds, VerifierStages
<1> QED BY <1>2, <1>3, <1>4, <1>5 DEF VerifierInv

\* A proof refused because an item was missing, or of another kind.
LEMMA ReadingFails ==
    ASSUME VerifierInv, stage \in VerifierStages, stage' = "refused",
           UNCHANGED <<config, prover, delivery>>,
           NEW read, IsStream(read.stream), read.stream.items = Received,
           read.stream.items_index <= Len(Received),
           delivery = Intact => read.error = None, read.error # None,
           verifier' = [verifier EXCEPT !.stream = read.stream, !.error = read.error]
    PROVE  VerifierInv'
<1>1. /\ DOMAIN verifier' = VerifierFields
      /\ verifier'.error # None
      /\ verifier'.stream = read.stream
      /\ verifier'.rounds = verifier.rounds
      /\ verifier'.num_responses = verifier.num_responses
    BY DEF VerifierInv, VerifierTypeOK, VerifierFields
<1>2. IsSequence(verifier.rounds) /\ verifier.num_responses \in 0 .. Len(verifier.rounds)
    BY DEF VerifierInv, VerifierTypeOK
<1> QED BY <1>1, <1>2, Refusing

\* What every step that goes on keeps.
LEMMA Advancing ==
    ASSUME VerifierInv, stage \in VerifierStages, stage' \in VerifierStages \ {"height"},
           UNCHANGED <<config, prover, delivery>>,
           DOMAIN verifier' = VerifierFields, verifier'.error = None,
           IsStream(verifier'.stream), verifier'.stream.items = Received,
           verifier'.stream.items_index <= Len(Received),
           IsSequence(verifier'.rounds), verifier'.num_responses \in 0 .. Len(verifier'.rounds),
           verifier'.padded_height = config.padded_height,
           \A j \in 1 .. verifier'.stream.items_index : Received[j].kind = KindAt(R, j)
    PROVE  VerifierTypeOK' /\ DeliveryOK' /\ ReadItems' /\ Received' = Received /\ R' = R
<1>1. Received' = Received /\ R' = R /\ stage' # "refused"
    BY DEF Received, R, VerifierStages
<1>2. VerifierTypeOK'
    BY <1>1 DEF VerifierTypeOK, Received
<1>3. DeliveryOK'
    BY <1>1 DEF VerifierInv, DeliveryOK, ProverStages, VerifierStages, Sent
<1>4. ReadItems'
    BY <1>1 DEF ReadItems
<1> QED BY <1>1, <1>2, <1>3, <1>4

(***************************************************************************)
(* The parts of a concatenation, by their lengths.                         *)
(***************************************************************************)
Joined(s, a, b) == s = a \o b

\* One sequence behind the other.
LEMMA TwoParts ==
    ASSUME NEW a, NEW b, IsSequence(a), IsSequence(b), NEW p, Len(a) = p, NEW q, Len(b) = q,
           NEW s, Joined(s, a, b)
    PROVE  /\ IsSequence(s) /\ Len(s) = p + q
           /\ \A j \in 1 .. p : s[j] = a[j]
           /\ \A j \in 1 .. q : s[p + j] = b[j]
<1>1. /\ IsSequence(a \o b) /\ Len(a \o b) = Len(a) + Len(b)
      /\ \A i \in 1 .. Len(a) : (a \o b)[i] = a[i]
      /\ \A i \in 1 .. Len(b) : (a \o b)[Len(a) + i] = b[i]
    BY ConcatenatedSequence
<1> DEFINE ab == a \o b
<1>2. /\ s = ab /\ IsSequence(ab) /\ Len(ab) = Len(a) + Len(b)
      /\ \A i \in 1 .. Len(a) : ab[i] = a[i]
      /\ \A i \in 1 .. Len(b) : ab[Len(a) + i] = b[i]
    BY <1>1 DEF Joined
<1> HIDE DEF ab
<1>3. p \in Nat /\ q \in Nat
    BY DEF IsSequence
<1>4. ASSUME NEW j \in 1 .. q PROVE s[p + j] = b[j]
    <2>1. j \in 1 .. Len(b)
        BY <1>3
    <2>2. ab[Len(a) + j] = b[j]
        BY <1>2, <2>1
    <2> QED BY <1>2, <2>2
<1> QED BY <1>2, <1>4

(***************************************************************************)
(* What each way of delivering a proof makes of its items.                 *)
(***************************************************************************)
LEMMA DeliveredItems ==
    ASSUME NEW items, IsSequence(items), NEW d \in Deliveries(Len(items)), Len(items) > 0
    PROVE  LET n == Len(items)
               i == d.item
               got == Delivered(items, d)
           IN  /\ IsSequence(got)
               /\ \/ d.how = "intact" /\ got = items
                  \/ /\ d.how = "lost" /\ i \in 1 .. n /\ Len(got) = n - 1
                     /\ \A j \in 1 .. (i - 1) : got[j] = items[j]
                     /\ \A j \in i .. (n - 1) : got[j] = items[j + 1]
                  \/ /\ d.how = "repeated" /\ i \in 1 .. n /\ Len(got) = n + 1
                     /\ \A j \in 1 .. i : got[j] = items[j]
                     /\ \A j \in (i + 1) .. (n + 1) : got[j] = items[j - 1]
                  \/ /\ d.how = "swapped" /\ i \in 1 .. (n - 1) /\ Len(got) = n
                     /\ got[i] = items[i + 1] /\ got[i + 1] = items[i]
                     /\ \A j \in 1 .. n : j # i /\ j # i + 1 => got[j] = items[j]
<1> DEFINE n == Len(items)
           i == d.item
           before == SubSeq(items, 1, i - 1)
           got == Delivered(items, d)
<1>1. n \in Nat /\ n > 0
    BY DEF IsSequence
<1>2. CASE d.how = "intact"
    BY <1>2 DEF Delivered
<1>3. ASSUME i \in 1 .. n
      PROVE  IsSequence(before) /\ Len(before) = i - 1 /\ \A j \in 1 .. (i - 1) : before[j] = items[j]
    <2>1. 1 \in 1 .. (n + 1) /\ i - 1 \in (1 - 1) .. n
        BY <1>1, <1>3
    <2>2. /\ IsSequence(before) /\ Len(before) = (i - 1) - 1 + 1
          /\ \A j \in 1 .. ((i - 1) - 1 + 1) : before[j] = items[1 + j - 1]
        BY <2>1, SubSequence
    <2> QED BY <1>1, <1>3, <2>2
<1>4. ASSUME NEW k \in 0 .. 2, i \in 1 .. n, i + k \in 1 .. (n + 1)
      PROVE  LET after == SubSeq(items, i + k, n)
             IN  /\ IsSequence(after) /\ Len(after) = n - i - k + 1
                 /\ \A j \in 1 .. (n - i - k + 1) : after[j] = items[i + k + j - 1]
    <2> DEFINE m == i + k
               after == SubSeq(items, m, n)
    <2>1. m \in 1 .. (n + 1) /\ n \in (m - 1) .. n
        BY <1>1, <1>4
    <2> HIDE DEF m
    <2>2. /\ IsSequence(after) /\ Len(after) = n - m + 1
          /\ \A j \in 1 .. (n - m + 1) : after[j] = items[m + j - 1]
        BY <2>1, SubSequence
    <2>3. n - m + 1 = n - i - k + 1
        BY <1>1, <1>4 DEF m
    <2> QED BY <2>2, <2>3 DEF m
<1>5. CASE d.how = "lost"
    <2>1. i \in 1 .. n
        BY <1>5 DEF Deliveries, Intact
    <2> DEFINE after == SubSeq(items, i + 1, n)
    <2>2. Joined(got, before, after)
        BY <1>5 DEF Delivered, Joined
    <2>3. IsSequence(after) /\ Len(after) = n - i /\ \A j \in 1 .. (n - i) : after[j] = items[i + j]
        <3>1. i + 1 \in 1 .. (n + 1) /\ n - i - 1 + 1 = n - i /\ \A j \in 1 .. (n - i) : i + 1 + j - 1 = i + j
            BY <1>1, <2>1
        <3> QED BY <1>4, <2>1, <3>1
    <2> HIDE DEF before, after, i, n, got
    <2>4. /\ IsSequence(got) /\ Len(got) = (i - 1) + (n - i)
          /\ \A j \in 1 .. (i - 1) : got[j] = before[j]
          /\ \A j \in 1 .. (n - i) : got[(i - 1) + j] = after[j]
        <3>1. IsSequence(before) /\ Len(before) = i - 1
            BY <1>3, <2>1
        <3> QED BY <2>2, <2>3, <3>1, TwoParts
    <2>5. Len(got) = n - 1 /\ \A j \in 1 .. (i - 1) : got[j] = items[j]
        BY <1>1, <1>3, <2>1, <2>4
    <2>6. ASSUME NEW j \in i .. (n - 1) PROVE got[j] = items[j + 1]
        <3>1. j - i + 1 \in 1 .. (n - i) /\ (i - 1) + (j - i + 1) = j /\ i + (j - i + 1) = j + 1
            BY <1>1, <2>1
        <3>2. got[(i - 1) + (j - i + 1)] = after[j - i + 1] /\ after[j - i + 1] = items[i + (j - i + 1)]
            BY <2>3, <2>4, <3>1
        <3> QED BY <3>1, <3>2
    <2> QED BY <1>5, <2>1, <2>4, <2>5, <2>6 DEF i, n, got
<1>6. CASE d.how = "repeated"
    <2>1. i \in 1 .. n
        BY <1>6 DEF Deliveries, Intact
    <2> DEFINE again == <<items[i]>>
               after == SubSeq(items, i + 0, n)
    <2>2. PICK most : Joined(most, before, again) /\ Joined(got, most, after)
        BY <1>6 DEF Delivered, Joined
    <2>3. /\ IsSequence(after) /\ Len(after) = n - i + 1
          /\ \A j \in 1 .. (n - i + 1) : after[j] = items[i + j - 1]
        <3>1. i + 0 \in 1 .. (n + 1) /\ n - i - 0 + 1 = n - i + 1 /\ i + 0 = i
            BY <1>1, <2>1
        <3> QED BY <1>4, <2>1, <3>1
    <2>4. IsSequence(again) /\ Len(again) = 1 /\ again[1] = items[i]
        BY TupleSequences
    <2> HIDE DEF before, again, after, i, n, got
    <2>5. /\ IsSequence(got) /\ Len(got) = (i - 1) + 1 + (n - i + 1)
          /\ \A j \in 1 .. (i - 1) : got[j] = before[j]
          /\ \A j \in 1 .. 1 : got[(i - 1) + j] = again[j]
          /\ \A j \in 1 .. (n - i + 1) : got[(i - 1) + 1 + j] = after[j]
        <3> DEFINE p == i - 1
                   q == 1
                   r == n - i + 1
        <3>1. /\ IsSequence(before) /\ Len(before) = p /\ IsSequence(again) /\ Len(again) = q
              /\ IsSequence(after) /\ Len(after) = r
              /\ Joined(most, before, again) /\ Joined(got, most, after)
            BY <1>3, <2>1, <2>2, <2>3, <2>4
        <3> HIDE DEF p, q, r
        <3>2. /\ IsSequence(most) /\ Len(most) = p + q
              /\ \A j \in 1 .. p : most[j] = before[j]
              /\ \A j \in 1 .. q : most[p + j] = again[j]
            BY <3>1, TwoParts
        <3> DEFINE pq == p + q
        <3>6. /\ IsSequence(most) /\ Len(most) = pq /\ IsSequence(after) /\ Len(after) = r
              /\ Joined(got, most, after)
            BY <3>1, <3>2
        <3> HIDE DEF pq
        <3>7. /\ IsSequence(got) /\ Len(got) = pq + r
              /\ \A j \in 1 .. pq : got[j] = most[j]
              /\ \A j \in 1 .. r : got[pq + j] = after[j]
            BY <3>6, TwoParts
        <3>3. /\ IsSequence(got) /\ Len(got) = (p + q) + r
              /\ \A j \in 1 .. (p + q) : got[j] = most[j]
              /\ \A j \in 1 .. r : got[(p + q) + j] = after[j]
            BY <3>7 DEF pq
        <3>4. /\ p \in Nat /\ q \in Nat
              /\ \A j \in 1 .. p : j \in 1 .. (p + q)
              /\ \A j \in 1 .. q : p + j \in 1 .. (p + q)
            BY <1>1, <2>1 DEF p, q
        <3>5. /\ \A j \in 1 .. p : got[j] = before[j]
              /\ \A j \in 1 .. q : got[p + j] = again[j]
            BY <3>2, <3>3, <3>4
        <3> QED BY <3>3, <3>5 DEF p, q, r
    <2>6. Len(got) = n + 1
        BY <1>1, <2>1, <2>5
    <2>7. ASSUME NEW j \in 1 .. i PROVE got[j] = items[j]
        <3>1. CASE j = i
            <4>1. (i - 1) + 1 = i /\ 1 \in 1 .. 1
                BY <1>1, <2>1
            <4>2. got[(i - 1) + 1] = again[1]
                BY <2>5, <4>1
            <4> QED BY <2>4, <3>1, <4>1, <4>2
        <3>2. CASE j # i
            <4>1. j \in 1 .. (i - 1)
                BY <1>1, <2>1, <3>2
            <4> QED BY <1>3, <2>1, <2>5, <4>1
        <3> QED BY <3>1, <3>2
    <2>8. ASSUME NEW j \in (i + 1) .. (n + 1) PROVE got[j] = items[j - 1]
        <3>1. j - i \in 1 .. (n - i + 1) /\ (i - 1) + 1 + (j - i) = j /\ i + (j - i) - 1 = j - 1
            BY <1>1, <2>1
        <3>2. got[(i - 1) + 1 + (j - i)] = after[j - i] /\ after[j - i] = items[i + (j - i) - 1]
            BY <2>3, <2>5, <3>1
        <3> QED BY <3>1, <3>2
    <2> QED BY <1>6, <2>1, <2>5, <2>6, <2>7, <2>8 DEF i, n, got
<1>7. CASE d.how = "swapped"
    <2>1. i \in 1 .. (n - 1)
        BY <1>7 DEF Deliveries, Intact
    <2> DEFINE both == <<items[i + 1], items[i]>>
               after == SubSeq(items, i + 2, n)
    <2>2. PICK most : Joined(most, before, both) /\ Joined(got, most, after)
        BY <1>7 DEF Delivered, Joined
    <2>3. /\ IsSequence(after) /\ Len(after) = n - i - 1
          /\ \A j \in 1 .. (n - i - 1) : after[j] = items[i + 1 + j]
        <3>1. i + 2 \in 1 .. (n + 1) /\ i \in 1 .. n /\ 2 \in 0 .. 2 /\ n - i - 2 + 1 = n - i - 1
            <4> HIDE DEF n, i
            <4> QED BY <1>1, <2>1
        <3>2. /\ IsSequence(after) /\ Len(after) = n - i - 2 + 1
              /\ \A j \in 1 .. (n - i - 2 + 1) : after[j] = items[i + 2 + j - 1]
            BY <1>4, <3>1
        <3>3. \A j \in 1 .. (n - i - 1) : i + 2 + j - 1 = i + 1 + j
            <4> HIDE DEF n, i
            <4> QED BY <1>1, <2>1
        <3> QED BY <3>1, <3>2, <3>3
    <2>4. IsSequence(both) /\ Len(both) = 2 /\ both[1] = items[i + 1] /\ both[2] = items[i]
        BY TupleSequences
    <2> HIDE DEF before, both, after, i, n, got
    <2>5. i \in 1 .. n /\ IsSequence(before) /\ Len(before) = i - 1
        BY <1>1, <1>3, <2>1
    <2>6. /\ IsSequence(got) /\ Len(got) = (i - 1) + 2 + (n - i - 1)
          /\ \A j \in 1 .. (i - 1) : got[j] = before[j]
          /\ \A j \in 1 .. 2 : got[(i - 1) + j] = both[j]
          /\ \A j \in 1 .. (n - i - 1) : got[(i - 1) + 2 + j] = after[j]
        <3> DEFINE p == i - 1
                   q == 2
                   r == n - i - 1
        <3>1. /\ IsSequence(before) /\ Len(before) = p /\ IsSequence(both) /\ Len(both) = q
              /\ IsSequence(after) /\ Len(after) = r
              /\ Joined(most, before, both) /\ Joined(got, most, after)
            BY <2>2, <2>3, <2>4, <2>5
        <3> HIDE DEF p, q, r
        <3>2. /\ IsSequence(most) /\ Len(most) = p + q
              /\ \A j \in 1 .. p : most[j] = before[j]
              /\ \A j \in 1 .. q : most[p + j] = both[j]
            BY <3>1, TwoParts
        <3> DEFINE pq == p + q
        <3>6. /\ IsSequence(most) /\ Len(most) = pq /\ IsSequence(after) /\ Len(after) = r
              /\ Joined(got, most, after)
            BY <3>1, <3>2
        <3> HIDE DEF pq
        <3>7. /\ IsSequence(got) /\ Len(got) = pq + r
              /\ \A j \in 1 .. pq : got[j] = most[j]
              /\ \A j \in 1 .. r : got[pq + j] = after[j]
            BY <3>6, TwoParts
        <3>3. /\ IsSequence(got) /\ Len(got) = (p + q) + r
              /\ \A j \in 1 .. (p + q) : got[j] = most[j]
              /\ \A j \in 1 .. r : got[(p + q) + j] = after[j]
            BY <3>7 DEF pq
        <3>4. /\ p \in Nat /\ q \in Nat
              /\ \A j \in 1 .. p : j \in 1 .. (p + q)
              /\ \A j \in 1 .. q : p + j \in 1 .. (p + q)
            BY <1>1, <2>1 DEF p, q
        <3>5. /\ \A j \in 1 .. p : got[j] = before[j]
              /\ \A j \in 1 .. q : got[p + j] = both[j]
            BY <3>2, <3>3, <3>4
        <3> QED BY <3>3, <3>5 DEF p, q, r
    <2>7. Len(got) = n
        BY <1>1, <2>1, <2>6
    <2>8. got[i] = items[i + 1] /\ got[i + 1] = items[i]
        <3>1. (i - 1) + 1 = i /\ (i - 1) + 2 = i + 1
            BY <1>1, <2>1
        <3>2. got[(i - 1) + 1] = both[1] /\ got[(i - 1) + 2] = both[2]
            BY <2>6
        <3> QED BY <2>4, <3>1, <3>2
    <2>9. ASSUME NEW j \in 1 .. n, j # i, j # i + 1 PROVE got[j] = items[j]
        <3>1. CASE j < i
            <4>1. j \in 1 .. (i - 1)
                BY <1>1, <2>1, <3>1
            <4> QED BY <1>3, <2>5, <2>6, <4>1
        <3>2. CASE j > i
            <4>1. /\ j - i - 1 \in 1 .. (n - i - 1) /\ (i - 1) + 2 + (j - i - 1) = j
                  /\ i + 1 + (j - i - 1) = j
                BY <1>1, <2>1, <2>9, <3>2
            <4>2. got[(i - 1) + 2 + (j - i - 1)] = after[j - i - 1] /\ after[j - i - 1] = items[i + 1 + (j - i - 1)]
                BY <2>3, <2>6, <4>1
            <4> QED BY <4>1, <4>2
        <3> QED BY <1>1, <2>1, <2>9, <3>1, <3>2
    <2> QED BY <1>7, <2>1, <2>6, <2>7, <2>8, <2>9 DEF i, n, got
<1>8. d.how \in {"intact", "lost", "repeated", "swapped"}
    BY DEF Deliveries, Intact
<1> QED BY <1>2, <1>5, <1>6, <1>7, <1>8

(***************************************************************************)
(* The first item of a proof is the only one of its kind.                  *)
(***************************************************************************)
LEMMA HeightIsFirst ==
    ASSUME ProverInv, VerifierInv, stage \in VerifierStages,
           Len(Received) >= 1, Received[1].kind = "Log2PaddedHeight"
    PROVE  Received[1] = Sent[1]
<1> DEFINE n == 19 + 2 * R
           i == delivery.item
<1>1. R \in Nat
    BY ConfigurationFacts DEF ProverInv
<1>2. IsSequence(Sent) /\ Len(Sent) = n
    BY DEF ProverInv, ProverProgress, ProverAt, IsStream, Sent
<1>3. delivery \in Deliveries(Len(Sent)) /\ Received = Delivered(Sent, delivery)
    BY DEF VerifierInv, DeliveryOK
<1>4. Len(Sent) > 0 /\ n \in Nat /\ n > 2
    BY <1>1, <1>2
<1>5. Sent[2].kind = "MerkleRoot"
    <2>1. IsOfKind(Sent[2], KindAt(R, 2)) /\ KindAt(R, 2) = "MerkleRoot"
        BY <1>2, <1>4 DEF ProverInv, SentItems, OfKinds, KindAt
    <2> QED BY <2>1 DEF IsOfKind
<1> HIDE DEF n, i
<1>6. \/ Received = Sent
      \/ /\ i \in 1 .. n
         /\ \A j \in 1 .. (i - 1) : Received[j] = Sent[j]
         /\ \A j \in i .. (n - 1) : Received[j] = Sent[j + 1]
      \/ /\ i \in 1 .. n
         /\ \A j \in 1 .. i : Received[j] = Sent[j]
      \/ /\ i \in 1 .. (n - 1)
         /\ Received[i] = Sent[i + 1]
         /\ \A j \in 1 .. n : j # i /\ j # i + 1 => Received[j] = Sent[j]
    BY <1>2, <1>3, <1>4, DeliveredItems DEF i
<1>7. CASE Received = Sent
    BY <1>7
<1>8. CASE /\ i \in 1 .. n
           /\ \A j \in 1 .. (i - 1) : Received[j] = Sent[j]
           /\ \A j \in i .. (n - 1) : Received[j] = Sent[j + 1]
    <2>1. CASE i = 1
        <3>1. 1 \in i .. (n - 1) /\ 1 + 1 = 2
            BY <1>4, <2>1
        <3> QED BY <1>5, <1>8, <3>1
    <2>2. CASE i # 1
        <3>1. 1 \in 1 .. (i - 1)
            BY <1>4, <1>8, <2>2
        <3> QED BY <1>8, <3>1
    <2> QED BY <2>1, <2>2
<1>9. CASE i \in 1 .. n /\ \A j \in 1 .. i : Received[j] = Sent[j]
    <2>1. 1 \in 1 .. i
        BY <1>4, <1>9
    <2> QED BY <1>9, <2>1
<1>10. CASE /\ i \in 1 .. (n - 1)
            /\ Received[i] = Sent[i + 1]
            /\ \A j \in 1 .. n : j # i /\ j # i + 1 => Received[j] = Sent[j]
    <2>1. CASE i = 1
        <3>1. i + 1 = 2
            BY <2>1
        <3> QED BY <1>5, <1>10, <2>1, <3>1
    <2>2. CASE i # 1
        <3>1. 1 \in 1 .. n /\ 1 # i /\ 1 # i + 1
            BY <1>4, <1>10, <2>2
        <3> QED BY <1>10, <3>1
    <2> QED BY <2>1, <2>2
<1> QED BY <1>6, <1>7, <1>8, <1>9, <1>10

\* The height is read: it is the one sent, or the next item's kind gives it away.
LEMMA ReceiveHeightKeepsInv ==
    ASSUME ProverInv, VerifierInv, ReceiveHeight
    PROVE  VerifierInv'
<1> DEFINE kinds == <<"Log2PaddedHeight">>
           read == Dequeue(verifier.stream, kinds)
           v == [verifier EXCEPT !.stream = read.stream, !.error = read.error]
<1>1. /\ stage = "height"
      /\ verifier' = IF read.error # None THEN v ELSE [v EXCEPT !.padded_height = 2^read.payloads[1]]
      /\ stage' = IF verifier'.error = None THEN "main_root" ELSE "refused"
      /\ UNCHANGED <<config, prover, delivery>>
    BY DEF ReceiveHeight, VerifierStep
<1>2. DOMAIN verifier = VerifierFields
    BY DEF VerifierInv, VerifierTypeOK
<1>3. stage \in VerifierStages /\ VerifierAt(0, 1) /\ R \in Nat /\ NumRounds(config) = R
    BY <1>1, ConfigurationFacts DEF VerifierInv, VerifierProgress, VerifierStages, ProverInv
<1>4. /\ IsStream(read.stream)
      /\ read.stream.items = Received
      /\ read.stream.items_index <= Len(Received)
      /\ delivery = Intact => read.error = None
      /\ read.error = None => /\ GoodRead(0, 1, 1, read)
                              /\ read.stream.sponge = Transcript(config, Received, 1)
    <2> DEFINE m == 0
               k == 1
               n == 1
    <2>1. /\ m \in Nat /\ k \in Nat /\ VerifierAt(m, k) /\ stage \in VerifierStages
          /\ IsSequence(kinds) /\ Len(kinds) = n /\ m + n <= 19 + 2 * R
          /\ \A j \in 1 .. n : kinds[j] = KindAt(R, m + j)
          /\ \A j \in 1 .. n : kinds[j] \notin IncludedInFiatShamir
        BY <1>3, TupleSequences DEF KindAt, IncludedInFiatShamir
    <2>2. read = Dequeue(verifier.stream, kinds)
        OBVIOUS
    <2> HIDE DEF m, k, n, kinds, read
    <2>3. WasRead(m, n, k, kinds, read)
        BY <2>1, <2>2, Reading
    <2> QED BY <2>1, <2>3 DEF WasRead, m, k, n
<1> HIDE DEF read
<1>5. CASE read.error # None
    <2>1. /\ verifier' = v /\ stage' = "refused"
        BY <1>1, <1>2, <1>5 DEF VerifierFields
    <2> QED BY <1>1, <1>3, <1>4, <1>5, <2>1, ReadingFails
<1>6. CASE read.error = None
    <2>1. /\ DOMAIN verifier' = VerifierFields /\ verifier'.error = None
          /\ verifier'.stream = read.stream /\ verifier'.rounds = verifier.rounds
          /\ verifier'.num_responses = verifier.num_responses
          /\ verifier'.padded_height = 2^read.payloads[1]
        BY <1>1, <1>2, <1>6 DEF VerifierFields
    <2>2. stage' = "main_root"
        BY <1>1, <2>1
    <2>3. read.stream.items_index = 1 /\ read.payloads[1] = Received[1].payload
          /\ \A j \in 1 .. 1 : Received[j].kind = KindAt(R, j)
        BY <1>4, <1>6 DEF GoodRead
    <2>4. verifier'.padded_height = config.padded_height
        <3>1. Received[1].kind = "Log2PaddedHeight" /\ Len(Received) >= 1
            BY <1>4, <1>6, <2>3 DEF GoodRead, KindAt
        <3>2. Received[1] = Sent[1]
            BY <1>3, <3>1, HeightIsFirst
        <3>3. Sent[1].payload = Ilog2(config.padded_height)
            BY <1>1 DEF ProverInv, HeightAndTreesAreSent
        <3>4. 2^Ilog2(config.padded_height) = config.padded_height
            BY ConfigurationFacts DEF ProverInv
        <3> QED BY <2>1, <2>3, <3>2, <3>3, <3>4
    <2>5. stage' \in VerifierStages \ {"height"}
        BY <2>2 DEF VerifierStages
    <2>6. VerifierTypeOK' /\ DeliveryOK' /\ ReadItems' /\ Received' = Received /\ R' = R
        <3>1. IsSequence(verifier'.rounds) /\ verifier'.num_responses \in 0 .. Len(verifier'.rounds)
            BY <2>1 DEF VerifierInv, VerifierTypeOK
        <3>2. \A j \in 1 .. verifier'.stream.items_index : Received[j].kind = KindAt(R, j)
            BY <2>1, <2>3
        <3> QED BY <1>1, <1>3, <1>4, <2>1, <2>4, <2>5, <3>1, <3>2, Advancing
    <2>7. VerifierProgress'
        <3>1. VerifierAt(1, 1)'
            BY <1>1, <1>4, <1>6, <2>1, <2>3, <2>6 DEF VerifierAt
        <3> QED BY <2>2, <3>1 DEF VerifierProgress
    <2>8. RoundsAreRead'
        BY <1>1, <1>3, <2>1, <2>2, EmptySequence DEF VerifierInv, RoundsAreRead, HalvedFrom
    <2>9. RootsAreRead' /\ ResponsesAreRead' /\ LeafsAreRead'
        BY <2>2 DEF RootsAreRead, ResponsesAreRead, LeafsAreRead, AfterRounds
    <2> QED BY <2>6, <2>7, <2>8, <2>9 DEF VerifierInv
<1> QED BY <1>5, <1>6

(***************************************************************************)
(* A step of the verifier refuses the proof, or has what it asked for.     *)
(***************************************************************************)
Behind(v, read) == [v EXCEPT !.stream = read.stream, !.error = read.error]

\* A step of the verifier that reads and then goes on to a stage, or refuses.
ReadStep(read, after, to) ==
    /\ verifier' = IF read.error # None THEN Behind(verifier, read) ELSE after
    /\ stage' = IF verifier'.error = None THEN to ELSE "refused"
    /\ UNCHANGED <<config, prover, delivery>>

\* The same, without an error when reading.
WentOn(read, after, to) ==
    /\ read.error = None
    /\ verifier' = after
    /\ stage' = IF after.error = None THEN to ELSE "refused"
    /\ UNCHANGED <<config, prover, delivery>>

\* A step that reads and fails is done with; otherwise it goes on with what was read.
LEMMA ReadOrRefused ==
    ASSUME ProverInv, VerifierInv, stage \in VerifierStages,
           NEW m \in Nat, NEW k \in Nat, VerifierAt(m, k),
           NEW kinds, IsSequence(kinds), NEW n, Len(kinds) = n, m + n <= 19 + 2 * R,
           \A j \in 1 .. n : kinds[j] = KindAt(R, m + j),
           NEW read, read = Dequeue(verifier.stream, kinds), NEW after, NEW to,
           ReadStep(read, after, to)
    PROVE  \/ VerifierInv'
           \/ WentOn(read, after, to) /\ WasRead(m, n, k, kinds, read)
<1> DEFINE v == Behind(verifier, read)
<1>4. UNCHANGED <<config, prover, delivery>>
    BY DEF ReadStep
<1>1. WasRead(m, n, k, kinds, read)
    BY Reading
<1>2. CASE read.error # None
    <2>1. verifier' = v
        BY <1>2 DEF ReadStep
    <2>2. v.error = read.error
        BY DEF VerifierInv, VerifierTypeOK, VerifierFields, Behind
    <2>3. stage' = "refused"
        <3> HIDE DEF v
        <3> QED BY <1>2, <2>1, <2>2 DEF ReadStep
    <2>4. verifier' = [verifier EXCEPT !.stream = read.stream, !.error = read.error]
        BY <2>1 DEF Behind
    <2>5. /\ IsStream(read.stream) /\ read.stream.items = Received
          /\ read.stream.items_index <= Len(Received)
          /\ delivery = Intact => read.error = None
        BY <1>1 DEF WasRead
    <2> QED BY <1>2, <1>4, <2>3, <2>4, <2>5, ReadingFails
<1>3. CASE read.error = None
    <2>1. verifier' = after
        BY <1>3 DEF ReadStep
    <2>2. stage' = IF after.error = None THEN to ELSE "refused"
        BY <2>1 DEF ReadStep
    <2> QED BY <1>1, <1>3, <1>4, <2>1, <2>2 DEF WentOn
<1> QED BY <1>2, <1>3

(***************************************************************************)
(* One of the three roots of the tables' trees, and the scalars after it.  *)
(***************************************************************************)
LEMMA RootReceived ==
    ASSUME ProverInv, VerifierInv, stage \in VerifierStages \ {"height"},
           NEW m \in Nat, NEW k \in Nat, VerifierAt(m, k), m + 1 <= 19 + 2 * R,
           KindAt(R, m + 1) = "MerkleRoot", EventAt(config, Received, k + 1) = Received[m + 1],
           NEW n, EventAt(config, Received, k + 2) = Item("scalars", n),
           NEW read, read = Dequeue(verifier.stream, <<"MerkleRoot">>), NEW after,
           NEW to \in VerifierStages \ {"height"},
           ReadStep(read, after, to),
           DOMAIN after = VerifierFields, after.error = read.error,
           after.stream = AfterScalars(read.stream, n),
           after.rounds = verifier.rounds, after.num_responses = verifier.num_responses,
           after.padded_height = verifier.padded_height
    PROVE  \/ VerifierInv'
           \/ /\ verifier' = after /\ stage' = to
              /\ VerifierTypeOK' /\ DeliveryOK' /\ ReadItems' /\ Received' = Received /\ R' = R
              /\ VerifierAt(m + 1, k + 2)'
              /\ read.payloads[1] = Received[m + 1].payload
<1> DEFINE kinds == <<"MerkleRoot">>
           one == 1
<1>1. /\ stage \in VerifierStages
      /\ IsSequence(kinds) /\ Len(kinds) = one /\ m + one <= 19 + 2 * R
      /\ \A j \in 1 .. one : kinds[j] = KindAt(R, m + j)
      /\ read = Dequeue(verifier.stream, kinds)
    BY TupleSequences
<1>2. /\ \A j \in 1 .. one : kinds[j] \in IncludedInFiatShamir
      /\ \A j \in 1 .. one : EventAt(config, Received, k + j) = Received[m + j]
    BY DEF IncludedInFiatShamir
<1> HIDE DEF kinds, one
<1>3. \/ VerifierInv'
      \/ /\ read.error = None /\ verifier' = after
         /\ stage' = IF after.error = None THEN to ELSE "refused"
         /\ UNCHANGED <<config, prover, delivery>>
         /\ IsStream(read.stream) /\ read.stream.items = Received
         /\ GoodRead(m, one, k, read)
         /\ read.stream.sponge = Transcript(config, Received, k + one)
    <2>1. /\ stage \in VerifierStages /\ m \in Nat /\ k \in Nat /\ VerifierAt(m, k)
          /\ IsSequence(kinds) /\ Len(kinds) = one /\ m + one <= 19 + 2 * R
          /\ \A j \in 1 .. one : kinds[j] = KindAt(R, m + j)
          /\ read = Dequeue(verifier.stream, kinds)
          /\ ReadStep(read, after, to)
        BY <1>1
    <2>2. \/ VerifierInv'
          \/ WentOn(read, after, to) /\ WasRead(m, one, k, kinds, read)
        BY <2>1, ReadOrRefused
    <2> QED BY <1>2, <2>2 DEF WentOn, WasRead
<1>4. SUFFICES
         ASSUME /\ read.error = None /\ verifier' = after
                /\ stage' = IF after.error = None THEN to ELSE "refused"
                /\ UNCHANGED <<config, prover, delivery>>
                /\ IsStream(read.stream) /\ read.stream.items = Received
                /\ GoodRead(m, one, k, read)
                /\ read.stream.sponge = Transcript(config, Received, k + one)
         PROVE  /\ verifier' = after /\ stage' = to
                /\ VerifierTypeOK' /\ DeliveryOK' /\ ReadItems' /\ Received' = Received /\ R' = R
                /\ VerifierAt(m + 1, k + 2)'
                /\ read.payloads[1] = Received[m + 1].payload
    BY <1>3
<1>5. /\ read.stream.items_index = m + 1 /\ m + 1 <= Len(Received)
      /\ read.payloads[1] = Received[m + 1].payload
      /\ \A j \in 1 .. (m + 1) : Received[j].kind = KindAt(R, j)
    BY <1>4 DEF GoodRead, one
<1>6. /\ IsStream(after.stream) /\ after.stream.items = Received
      /\ after.stream.items_index = m + 1
      /\ after.stream.sponge = Transcript(config, Received, k + 2)
    <2> DEFINE u == read.stream
               t == after.stream
               next == k + 1
    <2>1. /\ IsStream(u) /\ u.items = Received /\ u.items_index = m + 1 /\ next \in Nat
          /\ u.sponge = Transcript(config, u.items, next)
          /\ EventAt(config, u.items, next + 1) = Item("scalars", n)
          /\ t = Squeezed(u, "scalars", n)
        <3>1. next + 1 = k + 2 /\ k + one = next
            BY DEF one
        <3> QED BY <1>4, <1>5, <3>1 DEF AfterScalars
    <2> HIDE DEF u, t, next
    <2>2. /\ IsStream(t) /\ t.items = u.items /\ t.items_index = u.items_index
          /\ t.sponge = Transcript(config, t.items, next + 1)
        BY <2>1, Squeezing
    <2>3. next + 1 = k + 2
        BY DEF next
    <2> QED BY <2>1, <2>2, <2>3 DEF t
<1>7. stage' = to
    BY <1>4
<1>8. VerifierTypeOK' /\ DeliveryOK' /\ ReadItems' /\ Received' = Received /\ R' = R
    <2>1. /\ IsSequence(after.rounds) /\ after.num_responses \in 0 .. Len(after.rounds)
          /\ after.padded_height = config.padded_height
        BY DEF VerifierInv, VerifierTypeOK, ReadItems
    <2> QED BY <1>1, <1>4, <1>5, <1>6, <1>7, <2>1, Advancing
<1>9. VerifierAt(m + 1, k + 2)'
    BY <1>4, <1>6, <1>8 DEF VerifierAt
<1> QED BY <1>4, <1>5, <1>7, <1>8, <1>9

\* The main tree's root is read.
LEMMA ReceiveMainRootKeepsInv ==
    ASSUME ProverInv, VerifierInv, ReceiveMainRoot
    PROVE  VerifierInv'
<1> DEFINE read == Dequeue(verifier.stream, <<"MerkleRoot">>)
           v == Behind(verifier, read)
           after == [v EXCEPT !.main_root = read.payloads[1],
                              !.challenges = ChallengesOf(Scalars(v.stream, SampleCount), config.claim),
                              !.stream = AfterScalars(@, SampleCount)]
           to == "aux_root"
           m == 1
           k == 1
           n == SampleCount
<1>1. stage = "main_root" /\ ReadStep(read, after, to)
    BY DEF ReceiveMainRoot, VerifierStep, ReadStep, Behind
<1>2. /\ DOMAIN after = VerifierFields /\ after.error = read.error
      /\ after.stream = AfterScalars(read.stream, n)
      /\ after.rounds = verifier.rounds /\ after.num_responses = verifier.num_responses
      /\ after.padded_height = verifier.padded_height
      /\ after.main_root = read.payloads[1]
    <2> HIDE DEF read
    <2> QED BY DEF Behind, VerifierInv, VerifierTypeOK, VerifierFields
<1>3. /\ stage \in VerifierStages \ {"height"} /\ to \in VerifierStages \ {"height"}
      /\ VerifierAt(m, k) /\ R \in Nat /\ m \in Nat /\ k \in Nat /\ m + 1 <= 19 + 2 * R
    BY <1>1, ConfigurationFacts DEF VerifierInv, VerifierProgress, VerifierStages, ProverInv
<1>4. /\ KindAt(R, m + 1) = "MerkleRoot" /\ EventAt(config, Received, k + 1) = Received[m + 1]
      /\ EventAt(config, Received, k + 2) = Item("scalars", n)
    BY DEF KindAt, EventAt
<1>5. read = Dequeue(verifier.stream, <<"MerkleRoot">>)
    OBVIOUS
<1> HIDE DEF read, v, after, to, m, k, n
<1>6. \/ VerifierInv'
      \/ /\ verifier' = after /\ stage' = to
         /\ VerifierTypeOK' /\ DeliveryOK' /\ ReadItems' /\ Received' = Received /\ R' = R
         /\ VerifierAt(m + 1, k + 2)'
         /\ read.payloads[1] = Received[m + 1].payload
    BY <1>1, <1>2, <1>3, <1>4, <1>5, RootReceived
<1>7. SUFFICES
         ASSUME /\ verifier' = after /\ stage' = to
                /\ VerifierTypeOK' /\ DeliveryOK' /\ ReadItems' /\ Received' = Received /\ R' = R
                /\ VerifierAt(m + 1, k + 2)'
                /\ read.payloads[1] = Received[m + 1].payload
         PROVE  VerifierProgress' /\ RootsAreRead' /\ RoundsAreRead' /\ ResponsesAreRead' /\ LeafsAreRead'
    BY <1>6 DEF VerifierInv
<1>8. stage' = "aux_root" /\ m = 1 /\ k = 1
    BY <1>7 DEF to, m, k
<1>9. VerifierProgress'
    BY <1>7, <1>8 DEF VerifierProgress
<1>10. RootsAreRead'
    BY <1>1, <1>2, <1>7, <1>8 DEF VerifierInv, RootsAreRead, VerifierStages
<1>11. RoundsAreRead'
    <2>1. config' = config
        BY <1>1 DEF ReadStep
    <2> QED BY <1>1, <1>2, <1>3, <1>7, <1>8, <2>1, EmptySequence DEF VerifierInv, RoundsAreRead, HalvedFrom
<1>12. ResponsesAreRead' /\ LeafsAreRead'
    BY <1>8 DEF ResponsesAreRead, LeafsAreRead, AfterRounds
<1> QED BY <1>9, <1>10, <1>11, <1>12

\* The auxiliary tree's root is read.
LEMMA ReceiveAuxRootKeepsInv ==
    ASSUME ProverInv, VerifierInv, ReceiveAuxRoot
    PROVE  VerifierInv'
<1> DEFINE read == Dequeue(verifier.stream, <<"MerkleRoot">>)
           v == Behind(verifier, read)
           after == [v EXCEPT !.aux_root = read.payloads[1],
                              !.quotient_weights = Scalars(v.stream, NumConstraints),
                              !.stream = AfterScalars(@, NumConstraints)]
           to == "quotient_root"
           m == 2
           k == 3
           n == NumConstraints
<1>1. stage = "aux_root" /\ ReadStep(read, after, to)
    BY DEF ReceiveAuxRoot, VerifierStep, ReadStep, Behind
<1>2. /\ DOMAIN after = VerifierFields /\ after.error = read.error
      /\ after.stream = AfterScalars(read.stream, n)
      /\ after.rounds = verifier.rounds /\ after.num_responses = verifier.num_responses
      /\ after.padded_height = verifier.padded_height
      /\ after.aux_root = read.payloads[1] /\ after.main_root = verifier.main_root
    <2> HIDE DEF read
    <2> QED BY DEF Behind, VerifierInv, VerifierTypeOK, VerifierFields
<1>3. /\ stage \in VerifierStages \ {"height"} /\ to \in VerifierStages \ {"height"}
      /\ VerifierAt(m, k) /\ R \in Nat /\ m \in Nat /\ k \in Nat /\ m + 1 <= 19 + 2 * R
    BY <1>1, ConfigurationFacts DEF VerifierInv, VerifierProgress, VerifierStages, ProverInv
<1>4. /\ KindAt(R, m + 1) = "MerkleRoot" /\ EventAt(config, Received, k + 1) = Received[m + 1]
      /\ EventAt(config, Received, k + 2) = Item("scalars", n)
    BY DEF KindAt, EventAt
<1>5. read = Dequeue(verifier.stream, <<"MerkleRoot">>)
    OBVIOUS
<1> HIDE DEF read, v, after, to, m, k, n
<1>6. \/ VerifierInv'
      \/ /\ verifier' = after /\ stage' = to
         /\ VerifierTypeOK' /\ DeliveryOK' /\ ReadItems' /\ Received' = Received /\ R' = R
         /\ VerifierAt(m + 1, k + 2)'
         /\ read.payloads[1] = Received[m + 1].payload
    BY <1>1, <1>2, <1>3, <1>4, <1>5, RootReceived
<1>7. SUFFICES
         ASSUME /\ verifier' = after /\ stage' = to
                /\ VerifierTypeOK' /\ DeliveryOK' /\ ReadItems' /\ Received' = Received /\ R' = R
                /\ VerifierAt(m + 1, k + 2)'
                /\ read.payloads[1] = Received[m + 1].payload
         PROVE  VerifierProgress' /\ RootsAreRead' /\ RoundsAreRead' /\ ResponsesAreRead' /\ LeafsAreRead'
    BY <1>6 DEF VerifierInv
<1>8. stage' = "quotient_root" /\ m = 2 /\ k = 3
    BY <1>7 DEF to, m, k
<1>9. VerifierProgress'
    BY <1>7, <1>8 DEF VerifierProgress
<1>10. RootsAreRead'
    BY <1>1, <1>2, <1>7, <1>8 DEF VerifierInv, RootsAreRead, VerifierStages
<1>11. RoundsAreRead'
    <2>1. config' = config
        BY <1>1 DEF ReadStep
    <2> QED BY <1>1, <1>2, <1>3, <1>7, <1>8, <2>1, EmptySequence DEF VerifierInv, RoundsAreRead, HalvedFrom
<1>12. ResponsesAreRead' /\ LeafsAreRead'
    BY <1>8 DEF ResponsesAreRead, LeafsAreRead, AfterRounds
<1> QED BY <1>9, <1>10, <1>11, <1>12

\* The quotient tree's root is read.
LEMMA ReceiveQuotientRootKeepsInv ==
    ASSUME ProverInv, VerifierInv, ReceiveQuotientRoot
    PROVE  VerifierInv'
<1> DEFINE read == Dequeue(verifier.stream, <<"MerkleRoot">>)
           v == Behind(verifier, read)
           after == [v EXCEPT !.quotient_root = read.payloads[1],
                              !.ood_point = Scalars(v.stream, 1)[1],
                              !.stream = AfterScalars(@, 1)]
           to == "ood_rows"
           m == 3
           k == 5
           n == 1
<1>1. stage = "quotient_root" /\ ReadStep(read, after, to)
    BY DEF ReceiveQuotientRoot, VerifierStep, ReadStep, Behind
<1>2. /\ DOMAIN after = VerifierFields /\ after.error = read.error
      /\ after.stream = AfterScalars(read.stream, n)
      /\ after.rounds = verifier.rounds /\ after.num_responses = verifier.num_responses
      /\ after.padded_height = verifier.padded_height
      /\ after.quotient_root = read.payloads[1] /\ after.main_root = verifier.main_root
      /\ after.aux_root = verifier.aux_root
    <2> HIDE DEF read
    <2> QED BY DEF Behind, VerifierInv, VerifierTypeOK, VerifierFields
<1>3. /\ stage \in VerifierStages \ {"height"} /\ to \in VerifierStages \ {"height"}
      /\ VerifierAt(m, k) /\ R \in Nat /\ m \in Nat /\ k \in Nat /\ m + 1 <= 19 + 2 * R
    BY <1>1, ConfigurationFacts DEF VerifierInv, VerifierProgress, VerifierStages, ProverInv
<1>4. /\ KindAt(R, m + 1) = "MerkleRoot" /\ EventAt(config, Received, k + 1) = Received[m + 1]
      /\ EventAt(config, Received, k + 2) = Item("scalars", n)
    BY DEF KindAt, EventAt
<1>5. read = Dequeue(verifier.stream, <<"MerkleRoot">>)
    OBVIOUS
<1> HIDE DEF read, v, after, to, m, k, n
<1>6. \/ VerifierInv'
      \/ /\ verifier' = after /\ stage' = to
         /\ VerifierTypeOK' /\ DeliveryOK' /\ ReadItems' /\ Received' = Received /\ R' = R
         /\ VerifierAt(m + 1, k + 2)'
         /\ read.payloads[1] = Received[m + 1].payload
    BY <1>1, <1>2, <1>3, <1>4, <1>5, RootReceived
<1>7. SUFFICES
         ASSUME /\ verifier' = after /\ stage' = to
                /\ VerifierTypeOK' /\ DeliveryOK' /\ ReadItems' /\ Received' = Received /\ R' = R
                /\ VerifierAt(m + 1, k + 2)'
                /\ read.payloads[1] = Received[m + 1].payload
         PROVE  VerifierProgress' /\ RootsAreRead' /\ RoundsAreRead' /\ ResponsesAreRead' /\ LeafsAreRead'
    BY <1>6 DEF VerifierInv
<1>8. stage' = "ood_rows" /\ m = 3 /\ k = 5
    BY <1>7 DEF to, m, k
<1>9. VerifierProgress'
    BY <1>7, <1>8 DEF VerifierProgress
<1>10. RootsAreRead'
    BY <1>1, <1>2, <1>7, <1>8 DEF VerifierInv, RootsAreRead, VerifierStages
<1>11. RoundsAreRead'
    <2>1. config' = config
        BY <1>1 DEF ReadStep
    <2> QED BY <1>1, <1>2, <1>3, <1>7, <1>8, <2>1, EmptySequence DEF VerifierInv, RoundsAreRead, HalvedFrom
<1>12. ResponsesAreRead' /\ LeafsAreRead'
    BY <1>8 DEF ResponsesAreRead, LeafsAreRead, AfterRounds
<1> QED BY <1>9, <1>10, <1>11, <1>12

(***************************************************************************)
(* Items that were read as expected and found to be wrong.                 *)
(***************************************************************************)
LEMMA GivingUp ==
    ASSUME VerifierInv, stage \in VerifierStages,
           NEW read, NEW after, NEW to, WentOn(read, after, to), after.error # None,
           DOMAIN after = VerifierFields, IsStream(after.stream), after.stream.items = Received,
           after.stream.items_index <= Len(Received),
           IsSequence(after.rounds), after.num_responses \in 0 .. Len(after.rounds),
           NEW k \in 0 .. (16 + 2 * R), after.stream.sponge = Transcript(config, Received, k)
    PROVE  VerifierInv'
<1>1. /\ verifier' = after /\ stage' = "refused" /\ UNCHANGED <<config, prover, delivery>>
    BY DEF WentOn
<1> QED BY <1>1, Refusing

\* Five items are read, and the quotient's value out of the domain is checked.
LEMMA ReceiveOutOfDomainRowsKeepsInv ==
    ASSUME ProverInv, VerifierInv, ReceiveOutOfDomainRows
    PROVE  VerifierInv'
<1> DEFINE kinds == <<"OutOfDomainMainRow", "OutOfDomainAuxRow", "OutOfDomainMainRow",
                      "OutOfDomainAuxRow", "OutOfDomainQuotientSegments">>
           read == Dequeue(verifier.stream, kinds)
           v == Behind(verifier, read)
           payloads == read.payloads
           ood == [main |-> payloads[1], aux |-> payloads[2], next_main |-> payloads[3],
                   next_aux |-> payloads[4], segments |-> payloads[5]]
           bad == [v EXCEPT !.error = "OutOfDomainQuotientValueMismatch"]
           good == [v EXCEPT !.ood = ood,
                             !.weights = LinearCombinationWeights(Scalars(v.stream, NumWeights)),
                             !.stream = AfterScalars(@, NumWeights)]
           after == IF OutOfDomainQuotientValue(v, ood) # SumOfSegments(ood.segments, v.ood_point)
                    THEN bad ELSE good
           to == "fri_roots"
           m == 4
           k == 7
           n == 5
<1>1. stage = "ood_rows" /\ ReadStep(read, after, to)
    BY DEF ReceiveOutOfDomainRows, VerifierStep, ReadStep, Behind
<1>2. /\ DOMAIN bad = VerifierFields /\ bad.error # None /\ bad.stream = read.stream
      /\ bad.rounds = verifier.rounds /\ bad.num_responses = verifier.num_responses
      /\ DOMAIN good = VerifierFields /\ good.error = read.error
      /\ good.stream = AfterScalars(read.stream, NumWeights)
      /\ good.rounds = verifier.rounds /\ good.num_responses = verifier.num_responses
      /\ good.padded_height = verifier.padded_height /\ good.main_root = verifier.main_root
      /\ good.aux_root = verifier.aux_root /\ good.quotient_root = verifier.quotient_root
    <2> HIDE DEF read, ood
    <2> QED BY DEF Behind, VerifierInv, VerifierTypeOK, VerifierFields, None
<1>3. /\ stage \in VerifierStages /\ VerifierAt(m, k) /\ R \in Nat /\ NumRounds(config) = R
      /\ m \in Nat /\ k \in Nat /\ m + n <= 19 + 2 * R
    BY <1>1, ConfigurationFacts DEF VerifierInv, VerifierProgress, VerifierStages, ProverInv
<1>4. /\ IsSequence(kinds) /\ Len(kinds) = n
      /\ \A j \in 1 .. n : kinds[j] = KindAt(R, m + j)
      /\ \A j \in 1 .. n : kinds[j] \in IncludedInFiatShamir
      /\ \A j \in 1 .. n : EventAt(config, Received, k + j) = Received[m + j]
    <2>1. IsSequence(kinds) /\ Len(kinds) = n
        BY TupleSequences
    <2>2. ASSUME NEW j \in 1 .. n
          PROVE  /\ kinds[j] = KindAt(R, m + j)
                 /\ kinds[j] \in IncludedInFiatShamir
                 /\ EventAt(config, Received, k + j) = Received[m + j]
        <3>1. j \in {1, 2, 3, 4, 5}
            OBVIOUS
        <3> QED BY <3>1 DEF KindAt, EventAt, IncludedInFiatShamir
    <2> QED BY <2>1, <2>2
<1>5. read = Dequeue(verifier.stream, kinds)
    OBVIOUS
<1>6. after \in {bad, good}
    OBVIOUS
<1> HIDE DEF kinds, read, v, bad, good, after, to, m, k, n
<1>7. \/ VerifierInv'
      \/ WentOn(read, after, to) /\ WasRead(m, n, k, kinds, read)
    BY <1>1, <1>3, <1>4, <1>5, ReadOrRefused
<1>8. SUFFICES ASSUME WentOn(read, after, to), WasRead(m, n, k, kinds, read)
               PROVE  VerifierInv'
    BY <1>7
<1>9. /\ read.error = None /\ IsStream(read.stream) /\ read.stream.items = Received
      /\ GoodRead(m, n, k, read) /\ read.stream.sponge = Transcript(config, Received, k + n)
    BY <1>4, <1>8 DEF WentOn, WasRead
<1>10. read.stream.items_index = 9 /\ 9 <= Len(Received) /\ \A j \in 1 .. 9 : Received[j].kind = KindAt(R, j)
    BY <1>9 DEF GoodRead, m, n
<1>11. read.stream.sponge = Transcript(config, Received, 12)
    BY <1>9 DEF k, n
<1>12. IsSequence(verifier.rounds) /\ verifier.num_responses \in 0 .. Len(verifier.rounds)
    BY DEF VerifierInv, VerifierTypeOK
<1>13. CASE after = bad
    <2>1. 12 \in 0 .. (16 + 2 * R)
        BY <1>3
    <2> QED BY <1>2, <1>3, <1>8, <1>9, <1>10, <1>11, <1>12, <1>13, <2>1, GivingUp
<1>14. CASE after = good
    <2>1. /\ verifier' = good /\ stage' = "fri_roots" /\ UNCHANGED <<config, prover, delivery>>
        BY <1>2, <1>8, <1>9, <1>14 DEF WentOn, to
    <2>2. /\ IsStream(good.stream) /\ good.stream.items = Received /\ good.stream.items_index = 9
          /\ good.stream.sponge = Transcript(config, Received, 13)
        <3> DEFINE u == read.stream
                   t == good.stream
                   next == 12
        <3>1. /\ IsStream(u) /\ u.items = Received /\ u.items_index = 9 /\ next \in Nat
              /\ u.sponge = Transcript(config, u.items, next)
              /\ EventAt(config, u.items, next + 1) = Item("scalars", NumWeights)
              /\ t = Squeezed(u, "scalars", NumWeights)
            BY <1>2, <1>9, <1>10, <1>11 DEF AfterScalars, EventAt
        <3> HIDE DEF u, t, next
        <3>2. /\ IsStream(t) /\ t.items = u.items /\ t.items_index = u.items_index
              /\ t.sponge = Transcript(config, t.items, next + 1)
            BY <3>1, Squeezing
        <3>3. next + 1 = 13
            BY DEF next
        <3> QED BY <3>1, <3>2, <3>3 DEF t
    <2>3. VerifierTypeOK' /\ DeliveryOK' /\ ReadItems' /\ Received' = Received /\ R' = R
        <3>1. good.padded_height = config.padded_height
            BY <1>1, <1>2 DEF VerifierInv, ReadItems, VerifierStages
        <3>2. stage' \in VerifierStages \ {"height"}
            BY <2>1 DEF VerifierStages
        <3> QED BY <1>2, <1>3, <1>9, <1>10, <1>12, <2>1, <2>2, <3>1, <3>2, Advancing
    <2>4. verifier'.rounds = <<>> /\ verifier'.num_responses = 0 /\ Len(verifier'.rounds) = 0
        BY <1>1, <1>2, <1>3, <2>1, EmptySequence DEF VerifierInv, RoundsAreRead
    <2>5. VerifierProgress'
        <3>1. VerifierAt(9, 13)'
            BY <2>1, <2>2, <2>3 DEF VerifierAt
        <3>2. 9 + 0 = 9 /\ 13 + 2 * 0 = 13 /\ 0 <= R
            BY <1>3
        <3>3. VerifierAt(9 + Len(verifier.rounds), 13 + 2 * Len(verifier.rounds))'
            BY <2>4, <3>1, <3>2
        <3>4. (Len(verifier.rounds) <= R)'
            BY <2>3, <2>4, <3>2
        <3> QED BY <2>1, <3>3, <3>4 DEF VerifierProgress
    <2>6. RootsAreRead'
        BY <1>1, <1>2, <2>1, <2>3 DEF VerifierInv, RootsAreRead, VerifierStages
    <2>7. RoundsAreRead'
        BY <1>3, <2>1, <2>3, <2>4 DEF RoundsAreRead, HalvedFrom
    <2>8. ResponsesAreRead' /\ LeafsAreRead'
        BY <2>1 DEF ResponsesAreRead, LeafsAreRead, AfterRounds
    <2> QED BY <2>3, <2>5, <2>6, <2>7, <2>8 DEF VerifierInv
<1> QED BY <1>6, <1>13, <1>14

(***************************************************************************)
(* The parameters the verifier derives are the prover's.                   *)
(***************************************************************************)
LEMMA DerivedIsConfig ==
    ASSUME config \in Configurations, NEW v, v.padded_height = config.padded_height
    PROVE  Derived(v) = config
BY ConfigurationsAssumption DEF Derived

\* The event of a round's root.
LEMMA RootOfRound ==
    ASSUME NEW c, NumRounds(c) \in Nat, NEW n \in 0 .. NumRounds(c)
    PROVE  \A items : EventAt(c, items, 14 + 2 * n) = items[10 + n]
<1>1. CASE n = 0
    <2>1. 14 + 2 * n = 14 /\ 14 <= 14 + 2 * NumRounds(c) /\ 14 % 2 = 0 /\ 3 + (14 \div 2) = 10 + n
        BY <1>1
    <2> QED BY <2>1 DEF EventAt
<1>2. CASE n # 0
    BY <1>2, EventsOfRound
<1> QED BY <1>1, <1>2

\* A round's root is read; after the last one, too, a challenge is sampled, as the prover does.
LEMMA ReceiveFriRootKeepsInv ==
    ASSUME ProverInv, VerifierInv, ReceiveFriRoot
    PROVE  VerifierInv'
<1>0. PICK r : r = Len(verifier.rounds)
    OBVIOUS
<1> DEFINE kinds == <<"MerkleRoot">>
           read == Dequeue(verifier.stream, kinds)
           v == Behind(verifier, read)
           round == VerifierRound(v, read.payloads[1])
           after == [v EXCEPT !.rounds = Append(@, round),
                              !.stream = IF NeedMoreFoldingChallenges(Derived(v), Len(v.rounds))
                                         THEN AfterScalars(@, 1) ELSE @]
           to == "fri_roots"
           m == 9 + r
           k == 13 + 2 * r
           one == 1
<1>1. stage = "fri_roots" /\ ReadStep(read, after, to) /\ Len(verifier.rounds) <= NumRounds(Derived(verifier))
    BY DEF ReceiveFriRoot, VerifierStep, ReadStep, Behind
<1>2. R \in Nat /\ NumRounds(config) = R /\ config \in Configurations /\ stage \in VerifierStages
    BY <1>1, ConfigurationFacts DEF ProverInv, VerifierStages
<1>3. /\ verifier.padded_height = config.padded_height /\ Derived(verifier) = config
      /\ r \in 0 .. R
    <2>1. verifier.padded_height = config.padded_height
        BY <1>1, <1>2 DEF VerifierInv, ReadItems
    <2>2. Derived(verifier) = config
        BY <1>2, <2>1, DerivedIsConfig
    <2>3. Len(verifier.rounds) \in 0 .. (R + 1)
        BY <1>1, <1>2 DEF VerifierInv, RoundsAreRead
    <2> QED BY <1>0, <1>1, <1>2, <2>1, <2>2, <2>3
<1>4. /\ v.padded_height = verifier.padded_height /\ v.rounds = verifier.rounds
      /\ v.stream = read.stream
    <2> HIDE DEF read
    <2> QED BY DEF Behind, VerifierInv, VerifierTypeOK, VerifierFields
<1>5. Derived(v) = config
    <2> HIDE DEF v
    <2> QED BY <1>2, <1>3, <1>4, DerivedIsConfig
<1>6. /\ DOMAIN after = VerifierFields /\ after.error = read.error
      /\ after.rounds = Append(verifier.rounds, round)
      /\ after.stream = IF NeedMoreFoldingChallenges(config, r) THEN AfterScalars(read.stream, 1)
                        ELSE read.stream
      /\ after.num_responses = verifier.num_responses
      /\ after.padded_height = verifier.padded_height /\ after.main_root = verifier.main_root
      /\ after.aux_root = verifier.aux_root /\ after.quotient_root = verifier.quotient_root
    <2>1. /\ DOMAIN v = VerifierFields /\ v.error = read.error
          /\ v.num_responses = verifier.num_responses
          /\ v.main_root = verifier.main_root
          /\ v.aux_root = verifier.aux_root /\ v.quotient_root = verifier.quotient_root
        <3> HIDE DEF read
        <3> QED BY DEF Behind, VerifierInv, VerifierTypeOK, VerifierFields
    <2> HIDE DEF v, round, read
    <2> QED BY <1>0, <1>4, <1>5, <2>1 DEF VerifierFields
<1>7. /\ DOMAIN round = {"domain", "merkle_root", "folding_challenge", "partial_codeword_a",
                         "partial_codeword_b"}
      /\ round.merkle_root = read.payloads[1]
      /\ round.domain = IF Len(verifier.rounds) = 0 THEN FriDomain(config)
                        ELSE Halve(verifier.rounds[Len(verifier.rounds)].domain)
    <2> HIDE DEF v, read
    <2> QED BY <1>4, <1>5 DEF VerifierRound
<1>8. NeedMoreFoldingChallenges(config, r) <=> r < R
    BY <1>2, <1>3 DEF NeedMoreFoldingChallenges
<1>9. /\ VerifierAt(m, k) /\ m \in Nat /\ k \in Nat /\ m + one <= 19 + 2 * R
    BY <1>0, <1>1, <1>2, <1>3 DEF VerifierInv, VerifierProgress
<1>10. /\ IsSequence(kinds) /\ Len(kinds) = one
       /\ \A j \in 1 .. one : kinds[j] = KindAt(R, m + j)
       /\ \A j \in 1 .. one : kinds[j] \in IncludedInFiatShamir
       /\ \A j \in 1 .. one : EventAt(config, Received, k + j) = Received[m + j]
    <2>1. IsSequence(kinds) /\ Len(kinds) = one
        BY TupleSequences
    <2>2. 9 + r + 1 > 9 /\ 9 + r + 1 <= 10 + R /\ 13 + 2 * r + 1 = 14 + 2 * r /\ 9 + r + 1 = 10 + r
        BY <1>2, <1>3
    <2>3. KindAt(R, m + 1) = "MerkleRoot"
        BY <1>2, <1>3, <2>2 DEF KindAt
    <2>4. EventAt(config, Received, k + 1) = Received[m + 1]
        BY <1>2, <1>3, <2>2, RootOfRound
    <2> QED BY <2>1, <2>3, <2>4 DEF IncludedInFiatShamir
<1>11. read = Dequeue(verifier.stream, kinds)
    OBVIOUS
<1> HIDE DEF kinds, read, v, round, after, to, m, k, one
<1>12. \/ VerifierInv'
       \/ WentOn(read, after, to) /\ WasRead(m, one, k, kinds, read)
    BY <1>1, <1>2, <1>9, <1>10, <1>11, ReadOrRefused
<1>13. SUFFICES ASSUME WentOn(read, after, to), WasRead(m, one, k, kinds, read)
                PROVE  VerifierInv'
    BY <1>12
<1>14. /\ read.error = None /\ IsStream(read.stream) /\ read.stream.items = Received
       /\ GoodRead(m, one, k, read) /\ read.stream.sponge = Transcript(config, Received, k + one)
    BY <1>10, <1>13 DEF WentOn, WasRead
<1>15. /\ read.stream.items_index = 10 + r /\ 10 + r <= Len(Received)
       /\ \A j \in 1 .. (10 + r) : Received[j].kind = KindAt(R, j)
       /\ read.payloads[1] = Received[10 + r].payload
       /\ read.stream.sponge = Transcript(config, Received, 14 + 2 * r)
    <2>1. m + one = 10 + r /\ m + 1 = 10 + r /\ k + one = 14 + 2 * r /\ 1 \in 1 .. one
        BY <1>3 DEF m, one, k
    <2> QED BY <1>14, <2>1 DEF GoodRead
<1>16. /\ verifier' = after /\ stage' = "fri_roots" /\ UNCHANGED <<config, prover, delivery>>
    BY <1>6, <1>13, <1>14 DEF WentOn, to
<1>17. /\ IsStream(after.stream) /\ after.stream.items = Received /\ after.stream.items_index = 10 + r
       /\ after.stream.sponge = Transcript(config, Received, IF r + 1 <= R THEN 13 + 2 * (r + 1) ELSE 12 + 2 * (r + 1))
    <2>1. CASE r < R
        <3> DEFINE u == read.stream
                   t == after.stream
                   next == 14 + 2 * r
        <3>1. EventAt(config, u.items, next + 1) = Item("scalars", 1)
            <4>1. next + 1 = 13 + 2 * (r + 1) /\ r + 1 \in 1 .. R
                BY <1>2, <1>3, <2>1
            <4> QED BY <1>2, <4>1, EventsOfRound
        <3>2. /\ IsStream(u) /\ u.items = Received /\ u.items_index = 10 + r /\ next \in Nat
              /\ u.sponge = Transcript(config, u.items, next)
              /\ t = Squeezed(u, "scalars", 1)
            BY <1>3, <1>6, <1>8, <1>14, <1>15, <2>1 DEF AfterScalars
        <3> HIDE DEF u, t, next
        <3>3. /\ IsStream(t) /\ t.items = u.items /\ t.items_index = u.items_index
              /\ t.sponge = Transcript(config, t.items, next + 1)
            BY <3>1, <3>2, Squeezing
        <3>4. next + 1 = IF r + 1 <= R THEN 13 + 2 * (r + 1) ELSE 12 + 2 * (r + 1)
            BY <1>2, <1>3, <2>1 DEF next
        <3> QED BY <3>2, <3>3, <3>4 DEF t
    <2>2. CASE ~(r < R)
        <3>1. 14 + 2 * r = IF r + 1 <= R THEN 13 + 2 * (r + 1) ELSE 12 + 2 * (r + 1)
            BY <1>2, <1>3, <2>2
        <3> QED BY <1>6, <1>8, <1>14, <1>15, <2>2, <3>1
    <2> QED BY <2>1, <2>2
<1>18. /\ IsSequence(verifier.rounds) /\ verifier.num_responses = 0
       /\ HalvedFrom(FriDomain(config), verifier.rounds)
       /\ \A j \in 1 .. r :
             /\ DOMAIN verifier.rounds[j] =
                   {"domain", "merkle_root", "folding_challenge", "partial_codeword_a", "partial_codeword_b"}
             /\ verifier.rounds[j].merkle_root = Received[9 + j].payload
    BY <1>0, <1>1, <1>2 DEF VerifierInv, VerifierTypeOK, RoundsAreRead
<1>19. /\ IsSequence(after.rounds) /\ Len(after.rounds) = r + 1 /\ after.rounds[r + 1] = round
       /\ \A j \in 1 .. r : after.rounds[j] = verifier.rounds[j]
       /\ HalvedFrom(FriDomain(config), after.rounds)
    <2>1. HalvedFrom(FriDomain(config), Append(verifier.rounds, round))
        BY <1>7, <1>18, HalvingOnce
    <2>2. /\ IsSequence(Append(verifier.rounds, round))
          /\ Len(Append(verifier.rounds, round)) = Len(verifier.rounds) + 1
          /\ Append(verifier.rounds, round)[Len(verifier.rounds) + 1] = round
          /\ \A j \in 1 .. Len(verifier.rounds) : Append(verifier.rounds, round)[j] = verifier.rounds[j]
        BY <1>18, AppendedSequence
    <2> QED BY <1>0, <1>6, <2>1, <2>2
<1>20. VerifierTypeOK' /\ DeliveryOK' /\ ReadItems' /\ Received' = Received /\ R' = R
    <2>1. /\ stage' \in VerifierStages \ {"height"} /\ after.num_responses \in 0 .. Len(after.rounds)
          /\ after.padded_height = config.padded_height
        BY <1>3, <1>6, <1>16, <1>18, <1>19 DEF VerifierStages
    <2> QED BY <1>2, <1>6, <1>14, <1>15, <1>16, <1>17, <1>19, <2>1, Advancing
<1>21. VerifierProgress'
    <2>1. 9 + (r + 1) = 10 + r
        BY <1>3
    <2>2. Len(verifier'.rounds) = r + 1
        BY <1>16, <1>19
    <2>3. VerifierAt(9 + Len(verifier.rounds),
                     IF Len(verifier.rounds) <= R THEN 13 + 2 * Len(verifier.rounds)
                     ELSE 12 + 2 * Len(verifier.rounds))'
        BY <1>16, <1>17, <1>20, <2>1, <2>2 DEF VerifierAt
    <2> QED BY <1>16, <2>3 DEF VerifierProgress
<1>22. RootsAreRead'
    BY <1>1, <1>6, <1>16, <1>20 DEF VerifierInv, RootsAreRead, VerifierStages
<1>23. RoundsAreRead'
    <2>1. ASSUME NEW j \in 1 .. (r + 1)
          PROVE  /\ DOMAIN after.rounds[j] =
                       {"domain", "merkle_root", "folding_challenge", "partial_codeword_a",
                        "partial_codeword_b"}
                 /\ after.rounds[j].merkle_root = Received[9 + j].payload
        <3>1. CASE j = r + 1
            <4>1. 9 + j = 10 + r
                BY <1>3, <3>1
            <4> QED BY <1>7, <1>15, <1>19, <3>1, <4>1
        <3>2. CASE j # r + 1
            <4>1. j \in 1 .. r
                BY <1>3, <3>2
            <4> QED BY <1>18, <1>19, <4>1
        <3> QED BY <3>1, <3>2
    <2>2. r + 1 \in 0 .. (R + 1)
        BY <1>2, <1>3
    <2> QED BY <1>6, <1>16, <1>18, <1>19, <1>20, <2>1, <2>2 DEF RoundsAreRead
<1>24. ResponsesAreRead' /\ LeafsAreRead'
    BY <1>16 DEF ResponsesAreRead, LeafsAreRead, AfterRounds
<1> QED BY <1>20, <1>21, <1>22, <1>23, <1>24 DEF VerifierInv

\* Last codeword and polynomial are read, and the indices sampled.
LEMMA ReceiveLastRoundKeepsInv ==
    ASSUME ProverInv, VerifierInv, ReceiveLastRound
    PROVE  VerifierInv'
<1> DEFINE kinds == <<"FriCodeword", "FriPolynomial">>
           read == Dequeue(verifier.stream, kinds)
           v == Behind(verifier, read)
           indices == Indices(Derived(v), v.stream)
           after == [v EXCEPT !.last_codeword = read.payloads[1],
                              !.last_polynomial = read.payloads[2],
                              !.indices = indices,
                              !.stream = AfterIndices(Derived(v), @)]
           to == "fri_responses"
           m == 10 + R
           k == 14 + 2 * R
           n == 2
<1>1. stage = "fri_roots" /\ ReadStep(read, after, to) /\ Len(verifier.rounds) > NumRounds(Derived(verifier))
    BY DEF ReceiveLastRound, VerifierStep, ReadStep, Behind
<1>2. R \in Nat /\ NumRounds(config) = R /\ config \in Configurations /\ stage \in VerifierStages
    BY <1>1, ConfigurationFacts DEF ProverInv, VerifierStages
<1>3. /\ verifier.padded_height = config.padded_height
      /\ Len(verifier.rounds) = R + 1
    <2>1. verifier.padded_height = config.padded_height
        BY <1>1, <1>2 DEF VerifierInv, ReadItems
    <2>2. Derived(verifier) = config
        BY <1>2, <2>1, DerivedIsConfig
    <2>3. Len(verifier.rounds) \in 0 .. (R + 1)
        BY <1>1, <1>2 DEF VerifierInv, RoundsAreRead
    <2> QED BY <1>1, <1>2, <2>1, <2>2, <2>3
<1>4. /\ DOMAIN v = VerifierFields /\ v.error = read.error
      /\ v.padded_height = verifier.padded_height /\ v.rounds = verifier.rounds
      /\ v.stream = read.stream /\ v.num_responses = verifier.num_responses
      /\ v.main_root = verifier.main_root
      /\ v.aux_root = verifier.aux_root /\ v.quotient_root = verifier.quotient_root
    <2> HIDE DEF read
    <2> QED BY DEF Behind, VerifierInv, VerifierTypeOK, VerifierFields
<1>5. Derived(v) = config
    <2> HIDE DEF v
    <2> QED BY <1>2, <1>3, <1>4, DerivedIsConfig
<1>6. /\ DOMAIN after = VerifierFields /\ after.error = read.error
      /\ after.rounds = verifier.rounds /\ after.indices = Indices(config, read.stream)
      /\ after.stream = AfterIndices(config, read.stream)
      /\ after.num_responses = verifier.num_responses
      /\ after.padded_height = verifier.padded_height /\ after.main_root = verifier.main_root
      /\ after.aux_root = verifier.aux_root /\ after.quotient_root = verifier.quotient_root
    <2> HIDE DEF v, read
    <2> QED BY <1>4, <1>5 DEF VerifierFields
<1>9. /\ VerifierAt(m, k) /\ m \in Nat /\ k \in Nat /\ m + n <= 19 + 2 * R
    <2>1. 9 + (R + 1) = m /\ ~(R + 1 <= R) /\ 12 + 2 * (R + 1) = k
        BY <1>2
    <2> QED BY <1>1, <1>2, <1>3, <2>1 DEF VerifierInv, VerifierProgress
<1>10. /\ IsSequence(kinds) /\ Len(kinds) = n
       /\ \A j \in 1 .. n : kinds[j] = KindAt(R, m + j)
       /\ \A j \in 1 .. n : kinds[j] \notin IncludedInFiatShamir
    <2>1. IsSequence(kinds) /\ Len(kinds) = n
        BY TupleSequences
    <2>2. KindAt(R, m + 1) = "FriCodeword" /\ KindAt(R, m + 2) = "FriPolynomial"
        <3>1. /\ m + 1 = 11 + R /\ m + 2 = 12 + R /\ 11 + R > 10 + R /\ 12 + R > 11 + R /\ 11 + R > 9
            BY <1>2
        <3> QED BY <1>2, <3>1 DEF KindAt
    <2>3. 1 .. n = {1, 2}
        OBVIOUS
    <2> QED BY <2>1, <2>2, <2>3 DEF IncludedInFiatShamir
<1>11. read = Dequeue(verifier.stream, kinds)
    OBVIOUS
<1> HIDE DEF kinds, read, v, indices, after, to, m, k, n
<1>12. \/ VerifierInv'
       \/ WentOn(read, after, to) /\ WasRead(m, n, k, kinds, read)
    BY <1>1, <1>2, <1>9, <1>10, <1>11, ReadOrRefused
<1>13. SUFFICES ASSUME WentOn(read, after, to), WasRead(m, n, k, kinds, read)
                PROVE  VerifierInv'
    BY <1>12
<1>14. /\ read.error = None /\ IsStream(read.stream) /\ read.stream.items = Received
       /\ GoodRead(m, n, k, read) /\ read.stream.sponge = Transcript(config, Received, k)
    BY <1>10, <1>13 DEF WentOn, WasRead
<1>15. /\ read.stream.items_index = 12 + R /\ 12 + R <= Len(Received)
       /\ \A j \in 1 .. (12 + R) : Received[j].kind = KindAt(R, j)
    <2>1. m + n = 12 + R
        BY <1>2 DEF m, n
    <2> QED BY <1>14, <2>1 DEF GoodRead
<1>16. /\ verifier' = after /\ stage' = "fri_responses" /\ UNCHANGED <<config, prover, delivery>>
    BY <1>6, <1>13, <1>14 DEF WentOn, to
<1>17. /\ IsStream(after.stream) /\ after.stream.items = Received /\ after.stream.items_index = 12 + R
       /\ after.stream.sponge = Transcript(config, Received, 15 + 2 * R)
    <2> DEFINE u == read.stream
               t == after.stream
               count == config.num_collinearity_checks
    <2>1. EventAt(config, u.items, k + 1) = Item("indices", count)
        <3>1. /\ k + 1 = 15 + 2 * R /\ 15 + 2 * R > 14 /\ ~(15 + 2 * R <= 14 + 2 * R)
            BY <1>2 DEF k
        <3> QED BY <1>2, <3>1 DEF EventAt
    <2>2. /\ IsStream(u) /\ u.items = Received /\ u.items_index = 12 + R /\ k \in Nat
          /\ u.sponge = Transcript(config, u.items, k)
          /\ t = Squeezed(u, "indices", count)
          /\ EventAt(config, u.items, k + 1) = Item("indices", count)
        BY <1>6, <1>9, <1>14, <1>15, <2>1 DEF AfterIndices
    <2> DEFINE what == "indices"
    <2> HIDE DEF u, t, count, what
    <2>5. /\ IsStream(u) /\ k \in Nat /\ u.sponge = Transcript(config, u.items, k)
          /\ t = Squeezed(u, what, count)
          /\ EventAt(config, u.items, k + 1) = Item(what, count)
        BY <2>2 DEF what
    <2>3. /\ IsStream(t) /\ t.items = u.items /\ t.items_index = u.items_index
          /\ t.sponge = Transcript(config, t.items, k + 1)
        BY <2>5, Squeezing
    <2>4. k + 1 = 15 + 2 * R
        BY <1>2 DEF k
    <2> QED BY <2>2, <2>3, <2>4 DEF t
<1>18. /\ IsSequence(verifier.rounds) /\ verifier.num_responses = 0
    BY <1>1, <1>2 DEF VerifierInv, VerifierTypeOK, RoundsAreRead
<1>19. after.indices = SampledIndices(config, Received)
    BY <1>2, <1>6, <1>14 DEF Indices, SampledIndices, k
<1>20. VerifierTypeOK' /\ DeliveryOK' /\ ReadItems' /\ Received' = Received /\ R' = R
    <2>1. /\ stage' \in VerifierStages \ {"height"} /\ after.num_responses \in 0 .. Len(after.rounds)
          /\ after.padded_height = config.padded_height /\ IsSequence(after.rounds)
        BY <1>2, <1>3, <1>6, <1>16, <1>18 DEF VerifierStages
    <2> QED BY <1>2, <1>6, <1>14, <1>15, <1>16, <1>17, <2>1, Advancing
<1>21. VerifierProgress'
    <2>1. 12 + R + 0 = 12 + R
        BY <1>2
    <2>2. VerifierAt(12 + R + verifier.num_responses, 15 + 2 * R)'
        BY <1>6, <1>16, <1>17, <1>18, <1>20, <2>1 DEF VerifierAt
    <2> QED BY <1>16, <2>2 DEF VerifierProgress
<1>22. RootsAreRead'
    BY <1>1, <1>6, <1>16, <1>20 DEF VerifierInv, RootsAreRead, VerifierStages
<1>23. RoundsAreRead'
    BY <1>1, <1>2, <1>6, <1>16, <1>20 DEF VerifierInv, RoundsAreRead
<1>24. ResponsesAreRead'
    BY <1>3, <1>6, <1>16, <1>18, <1>19, <1>20 DEF ResponsesAreRead
<1>25. LeafsAreRead'
    BY <1>16 DEF LeafsAreRead
<1> QED BY <1>20, <1>21, <1>22, <1>23, <1>24, <1>25 DEF VerifierInv

(***************************************************************************)
(* A round keeps its domain and its root while values are revealed of it.  *)
(***************************************************************************)
RoundFields == {"domain", "merkle_root", "folding_challenge", "partial_codeword_a", "partial_codeword_b"}

\* Rounds alike but for the leafs revealed.
SameRounds(old, new) ==
    /\ IsSequence(new) /\ Len(new) = Len(old)
    /\ \A j \in 1 .. Len(old) :
          /\ DOMAIN new[j] = RoundFields
          /\ new[j].domain = old[j].domain
          /\ new[j].merkle_root = old[j].merkle_root

\* Filling in a round's revealed leafs leaves its domain and its root alone.
LEMMA RevealingIn ==
    ASSUME NEW old, IsSequence(old), \A j \in 1 .. Len(old) : DOMAIN old[j] = RoundFields,
           NEW r, NEW a, NEW b, NEW new,
           new = [old EXCEPT ![r].partial_codeword_a = a, ![r].partial_codeword_b = b]
    PROVE  SameRounds(old, new)
<1> DEFINE one == [old EXCEPT ![r].partial_codeword_a = a]
<1>1. /\ Len(old) \in Nat /\ old = [j \in 1 .. Len(old) |-> old[j]]
    BY DEF IsSequence
<1>2. new = [j \in 1 .. Len(old) |-> new[j]]
    BY <1>1
<1>3. IsSequence(new) /\ Len(new) = Len(old)
    <2> DEFINE n == Len(old)
    <2>1. n \in Nat /\ new = [j \in 1 .. n |-> new[j]]
        BY <1>1, <1>2
    <2> HIDE DEF n
    <2>2. IsSequence(new) /\ Len(new) = n
        <3> DEFINE f == [j \in 1 .. n |-> new[j]]
        <3>1. IsSequence(f) /\ Len(f) = n
            BY <2>1, IndexedSequence
        <3> QED BY <2>1, <3>1
    <2> QED BY <2>2 DEF n
<1>4. ASSUME NEW j \in 1 .. Len(old)
      PROVE  /\ DOMAIN new[j] = RoundFields
             /\ new[j].domain = old[j].domain
             /\ new[j].merkle_root = old[j].merkle_root
    <2>1. CASE j # r
        BY <1>1, <2>1
    <2>2. CASE j = r
        <3>1. new[j] = [[old[j] EXCEPT !.partial_codeword_a = a] EXCEPT !.partial_codeword_b = b]
            BY <1>1, <2>2
        <3> DEFINE x == old[j]
                   y == new[j]
        <3>2. DOMAIN x = RoundFields /\ y = [[x EXCEPT !.partial_codeword_a = a] EXCEPT !.partial_codeword_b = b]
            BY <3>1
        <3> HIDE DEF x, y
        <3>3. DOMAIN y = RoundFields /\ y.domain = x.domain /\ y.merkle_root = x.merkle_root
            BY <3>2 DEF RoundFields
        <3> QED BY <3>3 DEF x, y
    <2> QED BY <2>1, <2>2
<1> QED BY <1>3, <1>4 DEF SameRounds

\* A response is read and held against the root of its round.
LEMMA ReceiveFriResponseKeepsInv ==
    ASSUME ProverInv, VerifierInv, ReceiveFriResponse
    PROVE  VerifierInv'
<1>0. PICK q : q = verifier.num_responses
    OBVIOUS
<1> DEFINE kinds == <<"FriResponse">>
           read == Dequeue(verifier.stream, kinds)
           v == Behind(verifier, read)
           first == v.num_responses = 0
           r == IF first THEN 1 ELSE v.num_responses
           length == v.rounds[r].domain.length
           at == IF first THEN AIndices(v.indices, length) ELSE BIndices(v.indices, length)
           response == read.payloads[1]
           leaves == response.revealed_leaves
           error == ResponseError(config, v.rounds[r], at, response)
           codeword_a == IF first THEN leaves ELSE v.rounds[r].partial_codeword_a
           codeword_b == IF first THEN v.rounds[r].partial_codeword_b ELSE leaves
           rounds == [v.rounds EXCEPT ![r].partial_codeword_a = codeword_a,
                                      ![r].partial_codeword_b = codeword_b]
           after == [v EXCEPT !.error = error,
                              !.num_responses = @ + 1,
                              !.rounds[r].partial_codeword_a = IF first THEN leaves ELSE @,
                              !.rounds[r].partial_codeword_b = IF first THEN @ ELSE leaves]
           to == "fri_responses"
           m == 12 + R + q
           k == 15 + 2 * R
           one == 1
<1>1. stage = "fri_responses" /\ ReadStep(read, after, to) /\ q < Len(verifier.rounds)
    BY <1>0 DEF ReceiveFriResponse, VerifierStep, ReadStep, Behind, HasMoreResponses
<1>2. R \in Nat /\ NumRounds(config) = R /\ stage \in VerifierStages /\ stage \in AfterRounds
    BY <1>1, ConfigurationFacts DEF ProverInv, VerifierStages, AfterRounds
<1>3. /\ Len(verifier.rounds) = R + 1 /\ q \in 0 .. R /\ IsSequence(verifier.rounds)
      /\ verifier.indices = SampledIndices(config, Received)
      /\ HalvedFrom(FriDomain(config), verifier.rounds)
      /\ \A j \in 1 .. Len(verifier.rounds) :
            /\ DOMAIN verifier.rounds[j] = RoundFields
            /\ verifier.rounds[j].merkle_root = Received[9 + j].payload
    <2>1. Len(verifier.rounds) = R + 1 /\ verifier.indices = SampledIndices(config, Received)
        BY <1>2 DEF VerifierInv, ResponsesAreRead
    <2>2. IsSequence(verifier.rounds) /\ q \in 0 .. Len(verifier.rounds)
        BY <1>0 DEF VerifierInv, VerifierTypeOK
    <2>3. /\ HalvedFrom(FriDomain(config), verifier.rounds)
          /\ \A j \in 1 .. Len(verifier.rounds) :
                /\ DOMAIN verifier.rounds[j] = RoundFields
                /\ verifier.rounds[j].merkle_root = Received[9 + j].payload
        BY <1>2 DEF VerifierInv, RoundsAreRead, RoundFields
    <2> QED BY <1>1, <1>2, <2>1, <2>2, <2>3
<1>4. /\ DOMAIN v = VerifierFields /\ v.error = read.error
      /\ v.padded_height = verifier.padded_height /\ v.rounds = verifier.rounds
      /\ v.stream = read.stream /\ v.num_responses = q /\ v.indices = verifier.indices
      /\ v.main_root = verifier.main_root
      /\ v.aux_root = verifier.aux_root /\ v.quotient_root = verifier.quotient_root
    <2> HIDE DEF read
    <2> QED BY <1>0 DEF Behind, VerifierInv, VerifierTypeOK, VerifierFields
<1>5. r \in 1 .. (R + 1) /\ (q # 0 => r = q)
    <2> HIDE DEF v
    <2> QED BY <1>2, <1>3, <1>4
<1>6. /\ DOMAIN after = VerifierFields /\ after.error = error
      /\ after.num_responses = q + 1 /\ after.rounds = rounds
      /\ after.indices = verifier.indices
      /\ after.stream = read.stream
      /\ after.padded_height = verifier.padded_height /\ after.main_root = verifier.main_root
      /\ after.aux_root = verifier.aux_root /\ after.quotient_root = verifier.quotient_root
    <2>1. after.rounds = rounds
        <3>1. v.rounds = [j \in 1 .. (R + 1) |-> v.rounds[j]]
            <4> HIDE DEF v, r
            <4> QED BY <1>3, <1>4 DEF IsSequence
        <3> HIDE DEF v, r, leaves, error
        <3>2. "rounds" \in DOMAIN v
            BY <1>4 DEF VerifierFields
        <3>3. DOMAIN v.rounds[r] = RoundFields
            BY <1>3, <1>4, <1>5
        <3> QED BY <1>4, <1>5, <3>1, <3>2, <3>3 DEF RoundFields
    <2> HIDE DEF v, r, leaves, error, read
    <2> QED BY <1>4, <2>1 DEF VerifierFields
<1>7. SameRounds(verifier.rounds, rounds)
    <2> HIDE DEF v, r, codeword_a, codeword_b
    <2>1. IsSequence(v.rounds) /\ \A j \in 1 .. Len(v.rounds) : DOMAIN v.rounds[j] = RoundFields
        BY <1>3, <1>4
    <2> DEFINE old == v.rounds
               new == rounds
    <2>2. /\ IsSequence(old) /\ \A j \in 1 .. Len(old) : DOMAIN old[j] = RoundFields
          /\ new = [old EXCEPT ![r].partial_codeword_a = codeword_a, ![r].partial_codeword_b = codeword_b]
        BY <2>1
    <2> HIDE DEF old, new
    <2>3. SameRounds(old, new)
        BY <2>2, RevealingIn
    <2> QED BY <1>4, <2>3 DEF old, new
<1>8. ASSUME q # 0, error = None
      PROVE  LET indices == BIndices(verifier.indices, verifier.rounds[q].domain.length)
                 root == verifier.rounds[q].merkle_root
             IN  /\ response.auth_structure = AuthenticationStructure(root, indices)
                 /\ \A i \in DOMAIN indices : response.revealed_leaves[i] = root[indices[i] + 1]
    <2> DEFINE indices == BIndices(verifier.indices, verifier.rounds[q].domain.length)
               round == verifier.rounds[q]
    <2>1. error = ResponseError(config, round, indices, response)
        <3> HIDE DEF v, response
        <3> QED BY <1>4, <1>8
    <2> HIDE DEF error, indices, response
    <2>2. InclusionHolds(round.merkle_root, round.domain.length, indices,
                         response.revealed_leaves, response.auth_structure)
        BY <1>8, <2>1 DEF ResponseError, None
    <2>3. /\ response.auth_structure = AuthenticationStructure(round.merkle_root, indices)
          /\ \A i \in DOMAIN indices : response.revealed_leaves[i] = round.merkle_root[indices[i] + 1]
        BY <2>2 DEF InclusionHolds
    <2> QED BY <2>3 DEF indices
<1>9. /\ VerifierAt(m, k) /\ m \in Nat /\ k \in Nat /\ m + one <= 19 + 2 * R
    BY <1>0, <1>1, <1>2, <1>3 DEF VerifierInv, VerifierProgress
<1>10. /\ IsSequence(kinds) /\ Len(kinds) = one
       /\ \A j \in 1 .. one : kinds[j] = KindAt(R, m + j)
       /\ \A j \in 1 .. one : kinds[j] \notin IncludedInFiatShamir
    <2>1. IsSequence(kinds) /\ Len(kinds) = one
        BY TupleSequences
    <2>2. KindAt(R, m + 1) = "FriResponse"
        <3> DEFINE j == m + 1
        <3>1. q \in 0 .. R
            BY <1>3
        <3>2. /\ j \in Nat /\ j > 12 /\ ~(j <= 10 + R) /\ j # 11 + R /\ j # 12 + R /\ j <= 13 + 2 * R
            BY <1>2, <3>1
        <3> HIDE DEF j
        <3>3. KindAt(R, j) = "FriResponse"
            BY <3>2 DEF KindAt
        <3> QED BY <3>3 DEF j
    <2> QED BY <2>1, <2>2 DEF IncludedInFiatShamir
<1>11. read = Dequeue(verifier.stream, kinds)
    OBVIOUS
<1> HIDE DEF kinds, read, v, r, rounds, error, after, to, m, k, one
<1>12. \/ VerifierInv'
       \/ WentOn(read, after, to) /\ WasRead(m, one, k, kinds, read)
    BY <1>1, <1>2, <1>9, <1>10, <1>11, ReadOrRefused
<1>13. SUFFICES ASSUME WentOn(read, after, to), WasRead(m, one, k, kinds, read)
                PROVE  VerifierInv'
    BY <1>12
<1>14. /\ read.error = None /\ IsStream(read.stream) /\ read.stream.items = Received
       /\ GoodRead(m, one, k, read) /\ read.stream.sponge = Transcript(config, Received, 15 + 2 * R)
    BY <1>10, <1>13 DEF WentOn, WasRead, k
<1>15. /\ read.stream.items_index = 13 + R + q /\ 13 + R + q <= Len(Received)
       /\ \A j \in 1 .. (13 + R + q) : Received[j].kind = KindAt(R, j)
       /\ response = Received[13 + R + q].payload
    <2>1. m + one = 13 + R + q /\ m + 1 = 13 + R + q /\ 1 \in 1 .. one
        BY <1>2, <1>3 DEF m, one
    <2> QED BY <1>14, <2>1 DEF GoodRead
<1>16. IsSequence(rounds) /\ Len(rounds) = R + 1 /\ q + 1 \in 0 .. (R + 1)
    BY <1>2, <1>3, <1>7 DEF SameRounds
<1>17. CASE error # None
    <2>1. 15 + 2 * R \in 0 .. (16 + 2 * R)
        BY <1>2
    <2> QED BY <1>2, <1>6, <1>13, <1>14, <1>15, <1>16, <1>17, <2>1, GivingUp
<1>18. CASE error = None
    <2>1. /\ verifier' = after /\ stage' = "fri_responses" /\ UNCHANGED <<config, prover, delivery>>
        BY <1>6, <1>13, <1>18 DEF WentOn, to
    <2>2. VerifierTypeOK' /\ DeliveryOK' /\ ReadItems' /\ Received' = Received /\ R' = R
        <3>1. stage' \in VerifierStages \ {"height"} /\ after.padded_height = config.padded_height
            BY <1>1, <1>2, <1>6, <2>1 DEF VerifierInv, ReadItems, VerifierStages
        <3> QED BY <1>2, <1>6, <1>14, <1>15, <1>16, <1>18, <2>1, <3>1, Advancing
    <2>3. VerifierProgress'
        <3>1. 12 + R + (q + 1) = 13 + R + q
            BY <1>2, <1>3
        <3>2. VerifierAt(12 + R + verifier.num_responses, 15 + 2 * R)'
            BY <1>6, <1>14, <1>15, <2>1, <2>2, <3>1 DEF VerifierAt
        <3> QED BY <2>1, <3>2 DEF VerifierProgress
    <2>4. RootsAreRead'
        BY <1>1, <1>6, <2>1, <2>2 DEF VerifierInv, RootsAreRead, VerifierStages
    <2>5. HalvedFrom(FriDomain(config), rounds)
        <3>1. \A j \in 1 .. (R + 1) : rounds[j].domain = verifier.rounds[j].domain
            BY <1>3, <1>7 DEF SameRounds
        <3>2. \A j \in 1 .. R : j \in 1 .. (R + 1) /\ j + 1 \in 1 .. (R + 1)
            BY <1>2
        <3>3. 1 \in 1 .. (R + 1) /\ (R + 1) - 1 = R
            BY <1>2
        <3> QED BY <1>2, <1>3, <1>16, <3>1, <3>2, <3>3 DEF HalvedFrom
    <2>6. RoundsAreRead'
        <3>1. \A j \in 1 .. Len(rounds) : DOMAIN rounds[j] = RoundFields /\ rounds[j].merkle_root = Received[9 + j].payload
            BY <1>3, <1>7 DEF SameRounds
        <3> QED BY <1>1, <1>6, <2>1, <2>2, <2>5, <3>1 DEF RoundsAreRead, RoundFields
    <2>7. ResponsesAreRead'
        <3>0. q \in 0 .. R /\ q \in Nat /\ R \in Nat
            BY <1>2, <1>3
        <3>1. ASSUME NEW j \in 2 .. (q + 1)
              PROVE  LET answer == Received[12 + R + j].payload
                         indices == BIndices(verifier.indices, rounds[j - 1].domain.length)
                         root == Received[8 + j].payload
                     IN  /\ answer.auth_structure = AuthenticationStructure(root, indices)
                         /\ \A i \in DOMAIN indices : answer.revealed_leaves[i] = root[indices[i] + 1]
            <4>1. j - 1 \in 1 .. Len(verifier.rounds) /\ 9 + (j - 1) = 8 + j
                BY <1>2, <1>3
            <4>2. rounds[j - 1].domain = verifier.rounds[j - 1].domain
                BY <1>7, <4>1 DEF SameRounds
            <4>3. CASE j = q + 1
                <5>1. q # 0 /\ j - 1 = q /\ 12 + R + j = 13 + R + q
                    BY <3>0, <4>3
                <5>2. verifier.rounds[q].merkle_root = Received[8 + j].payload
                    BY <1>3, <4>1, <5>1
                <5> QED BY <1>8, <1>15, <1>18, <4>2, <5>1, <5>2
            <4>4. CASE j # q + 1
                <5>1. j \in 2 .. q
                    BY <1>3, <4>4
                <5> QED BY <1>0, <1>2, <4>2, <5>1 DEF VerifierInv, ResponsesAreRead
            <4> QED BY <4>3, <4>4
        <3>2. /\ verifier'.rounds = rounds /\ verifier'.indices = verifier.indices
              /\ verifier'.num_responses = q + 1 /\ config' = config
            BY <1>6, <2>1
        <3>3. (Len(verifier.rounds) = R + 1 /\ verifier.indices = SampledIndices(config, Received))'
            BY <1>3, <1>16, <2>2, <3>2
        <3>4. (\A j \in 2 .. verifier.num_responses :
                  LET answer == Received[12 + R + j].payload
                      indices == BIndices(verifier.indices, verifier.rounds[j - 1].domain.length)
                      root == Received[8 + j].payload
                  IN  /\ answer.auth_structure = AuthenticationStructure(root, indices)
                      /\ \A i \in DOMAIN indices : answer.revealed_leaves[i] = root[indices[i] + 1])'
            BY <2>2, <3>1, <3>2
        <3> QED BY <2>1, <3>3, <3>4 DEF ResponsesAreRead
    <2>8. LeafsAreRead'
        BY <2>1 DEF LeafsAreRead
    <2> QED BY <2>2, <2>3, <2>4, <2>6, <2>7, <2>8 DEF VerifierInv
<1> QED BY <1>17, <1>18

(***************************************************************************)
(* What the verifier has of FRI's rounds stays as it is from then on.      *)
(***************************************************************************)
LEMMA KeepingResponses ==
    ASSUME VerifierInv, stage \in AfterRounds, stage' \in AfterRounds,
           config' = config, Received' = Received, R' = R,
           verifier'.rounds = verifier.rounds, verifier'.indices = verifier.indices,
           verifier'.num_responses = verifier.num_responses, verifier.num_responses = R + 1,
           verifier'.main_root = verifier.main_root, verifier'.aux_root = verifier.aux_root,
           verifier'.quotient_root = verifier.quotient_root
    PROVE  RootsAreRead' /\ RoundsAreRead' /\ ResponsesAreRead'
<1>1. RootsAreRead'
    BY DEF VerifierInv, RootsAreRead, AfterRounds, VerifierStages
<1>2. RoundsAreRead'
    BY DEF VerifierInv, RoundsAreRead, AfterRounds, VerifierStages
<1>3. ResponsesAreRead'
    BY DEF VerifierInv, ResponsesAreRead
<1> QED BY <1>1, <1>2, <1>3

\* The last round is checked; nothing is read.
LEMMA CheckLastRoundKeepsInv ==
    ASSUME ProverInv, VerifierInv, CheckLastRound
    PROVE  VerifierInv'
<1> DEFINE kinds == <<>>
           read == Dequeue(verifier.stream, kinds)
           v == Behind(verifier, read)
           after == [v EXCEPT !.error = LastRoundError(Derived(v), v.rounds, v.indices, v.last_codeword,
                                                       v.last_polynomial, Scalars(v.stream, 1)[1]),
                              !.stream = AfterScalars(@, 1)]
           to == "leafs_of_main"
           m == 13 + 2 * R
           k == 15 + 2 * R
           zero == 0
<1>1. stage = "fri_responses" /\ ReadStep(read, after, to) /\ ~HasMoreResponses(verifier)
    BY DEF CheckLastRound, VerifierStep, ReadStep, Behind
<1>2. R \in Nat /\ NumRounds(config) = R /\ stage \in VerifierStages /\ stage \in AfterRounds
    BY <1>1, ConfigurationFacts DEF ProverInv, VerifierStages, AfterRounds
<1>3. /\ Len(verifier.rounds) = R + 1 /\ verifier.num_responses = R + 1
      /\ IsSequence(verifier.rounds)
    <2>1. Len(verifier.rounds) = R + 1
        BY <1>2 DEF VerifierInv, ResponsesAreRead
    <2>2. verifier.num_responses \in 0 .. Len(verifier.rounds) /\ IsSequence(verifier.rounds)
        BY DEF VerifierInv, VerifierTypeOK
    <2> QED BY <1>1, <1>2, <2>1, <2>2 DEF HasMoreResponses
<1>4. /\ DOMAIN after = VerifierFields
      /\ after.stream = AfterScalars(read.stream, 1)
      /\ after.rounds = verifier.rounds /\ after.indices = verifier.indices
      /\ after.num_responses = verifier.num_responses
      /\ after.padded_height = verifier.padded_height /\ after.main_root = verifier.main_root
      /\ after.aux_root = verifier.aux_root /\ after.quotient_root = verifier.quotient_root
    <2> DEFINE error == LastRoundError(Derived(v), v.rounds, v.indices, v.last_codeword,
                                       v.last_polynomial, Scalars(v.stream, 1)[1])
    <2>1. /\ DOMAIN v = VerifierFields /\ v.stream = read.stream
          /\ v.rounds = verifier.rounds /\ v.indices = verifier.indices
          /\ v.num_responses = verifier.num_responses
          /\ v.padded_height = verifier.padded_height /\ v.main_root = verifier.main_root
          /\ v.aux_root = verifier.aux_root /\ v.quotient_root = verifier.quotient_root
        <3> HIDE DEF read
        <3> QED BY DEF Behind, VerifierInv, VerifierTypeOK, VerifierFields
    <2>2. after = [v EXCEPT !.error = error, !.stream = AfterScalars(@, 1)]
        OBVIOUS
    <2> HIDE DEF v, read, error, after
    <2> QED BY <2>1, <2>2 DEF VerifierFields
<1>9. /\ VerifierAt(m, k) /\ m \in Nat /\ k \in Nat /\ m + zero <= 19 + 2 * R
    <2>1. 12 + R + (R + 1) = m
        BY <1>2
    <2> QED BY <1>1, <1>2, <1>3, <2>1 DEF VerifierInv, VerifierProgress
<1>10. /\ IsSequence(kinds) /\ Len(kinds) = zero
       /\ \A j \in 1 .. zero : kinds[j] = KindAt(R, m + j)
       /\ \A j \in 1 .. zero : kinds[j] \notin IncludedInFiatShamir
    BY EmptySequence
<1>11. read = Dequeue(verifier.stream, kinds)
    OBVIOUS
<1> HIDE DEF kinds, read, v, after, to, m, k, zero
<1>12. \/ VerifierInv'
       \/ WentOn(read, after, to) /\ WasRead(m, zero, k, kinds, read)
    BY <1>1, <1>2, <1>9, <1>10, <1>11, ReadOrRefused
<1>13. SUFFICES ASSUME WentOn(read, after, to), WasRead(m, zero, k, kinds, read)
                PROVE  VerifierInv'
    BY <1>12
<1>14. /\ IsStream(read.stream) /\ read.stream.items = Received
       /\ GoodRead(m, zero, k, read) /\ read.stream.sponge = Transcript(config, Received, k)
    BY <1>10, <1>13 DEF WentOn, WasRead
<1>15. /\ read.stream.items_index = 13 + 2 * R /\ 13 + 2 * R <= Len(Received)
       /\ \A j \in 1 .. (13 + 2 * R) : Received[j].kind = KindAt(R, j)
    <2>1. m + zero = 13 + 2 * R
        BY <1>2 DEF m, zero
    <2> QED BY <1>14, <2>1 DEF GoodRead
<1>16. /\ IsStream(after.stream) /\ after.stream.items = Received
       /\ after.stream.items_index = 13 + 2 * R
       /\ after.stream.sponge = Transcript(config, Received, 16 + 2 * R)
    <2> DEFINE u == read.stream
               t == after.stream
    <2>1. EventAt(config, u.items, k + 1) = Item("scalars", 1)
        <3>1. /\ k + 1 = 16 + 2 * R /\ 16 + 2 * R > 14 /\ ~(16 + 2 * R <= 14 + 2 * R)
              /\ 16 + 2 * R # 15 + 2 * R
            BY <1>2 DEF k
        <3> QED BY <1>2, <3>1 DEF EventAt
    <2>2. /\ IsStream(u) /\ u.items = Received /\ u.items_index = 13 + 2 * R /\ k \in Nat
          /\ u.sponge = Transcript(config, u.items, k)
          /\ t = Squeezed(u, "scalars", 1)
          /\ EventAt(config, u.items, k + 1) = Item("scalars", 1)
        BY <1>4, <1>9, <1>14, <1>15, <2>1 DEF AfterScalars
    <2> HIDE DEF u, t
    <2>3. /\ IsStream(t) /\ t.items = u.items /\ t.items_index = u.items_index
          /\ t.sponge = Transcript(config, t.items, k + 1)
        BY <2>2, Squeezing
    <2>4. k + 1 = 16 + 2 * R
        BY <1>2 DEF k
    <2> QED BY <2>2, <2>3, <2>4 DEF t
<1>17. CASE after.error # None
    <2>1. /\ 16 + 2 * R \in 0 .. (16 + 2 * R)
          /\ verifier.num_responses \in 0 .. Len(verifier.rounds)
        BY <1>2, <1>3
    <2> QED BY <1>2, <1>3, <1>4, <1>13, <1>15, <1>16, <1>17, <2>1, GivingUp
<1>18. CASE after.error = None
    <2>1. /\ verifier' = after /\ stage' = "leafs_of_main" /\ UNCHANGED <<config, prover, delivery>>
        BY <1>13, <1>18 DEF WentOn, to
    <2>2. VerifierTypeOK' /\ DeliveryOK' /\ ReadItems' /\ Received' = Received /\ R' = R
        <3>1. /\ stage' \in VerifierStages \ {"height"} /\ after.padded_height = config.padded_height
              /\ verifier.num_responses \in 0 .. Len(verifier.rounds)
            BY <1>1, <1>2, <1>3, <1>4, <2>1 DEF VerifierInv, ReadItems, VerifierStages
        <3> QED BY <1>2, <1>3, <1>4, <1>15, <1>16, <1>18, <2>1, <3>1, Advancing
    <2>3. VerifierAt(13 + 2 * R, 16 + 2 * R)'
        BY <1>16, <2>1, <2>2 DEF VerifierAt
    <2>4. VerifierProgress' /\ LeafsAreRead'
        BY <2>1, <2>3 DEF VerifierProgress, LeafsAreRead
    <2>5. stage' \in AfterRounds
        BY <2>1 DEF AfterRounds, VerifierStages
    <2>6. RootsAreRead' /\ RoundsAreRead' /\ ResponsesAreRead'
        BY <1>2, <1>3, <1>4, <2>1, <2>2, <2>5, KeepingResponses
    <2> QED BY <2>2, <2>4, <2>6 DEF VerifierInv
<1> QED BY <1>17, <1>18

(***************************************************************************)
(* What a step after FRI leaves alone, and the trees the leafs are of.     *)
(***************************************************************************)
KeepsFri(old, new) ==
    /\ DOMAIN new = VerifierFields
    /\ new.rounds = old.rounds /\ new.indices = old.indices
    /\ new.num_responses = old.num_responses
    /\ new.padded_height = old.padded_height /\ new.main_root = old.main_root
    /\ new.aux_root = old.aux_root /\ new.quotient_root = old.quotient_root

\* Leafs are read and held against a root: they are those of the tree committed to.
LEMMA LeafsReceived ==
    ASSUME ProverInv, VerifierInv, stage \in AfterRounds \ {"fri_responses"},
           NEW m \in Nat, VerifierAt(m, 16 + 2 * R), m + 2 <= 19 + 2 * R,
           NEW kind, kind \notin IncludedInFiatShamir, KindAt(R, m + 1) = kind,
           KindAt(R, m + 2) = "AuthenticationStructure",
           NEW read, read = Dequeue(verifier.stream, <<kind, "AuthenticationStructure">>),
           NEW root, NEW length, NEW indices, NEW after, KeepsFri(verifier, after),
           after.stream = read.stream,
           \/ after.error # None
           \/ InclusionHolds(root, length, indices, read.payloads[1], read.payloads[2]),
           NEW to \in AfterRounds \ {"fri_responses"}, ReadStep(read, after, to)
    PROVE  \/ VerifierInv'
           \/ /\ stage' = to /\ VerifierAt(m + 2, 16 + 2 * R)'
              /\ VerifierTypeOK' /\ DeliveryOK' /\ ReadItems' /\ Received' = Received /\ R' = R
              /\ RootsAreRead' /\ RoundsAreRead' /\ ResponsesAreRead'
              /\ Received[m + 2].payload.tree = root
<1> DEFINE kinds == <<kind, "AuthenticationStructure">>
           k == 16 + 2 * R
           n == 2
<1>1. R \in Nat /\ NumRounds(config) = R /\ stage \in VerifierStages /\ stage \in AfterRounds
    BY ConfigurationFacts DEF ProverInv, VerifierStages, AfterRounds
<1>2. /\ Len(verifier.rounds) = R + 1 /\ verifier.num_responses = R + 1
      /\ IsSequence(verifier.rounds) /\ verifier.num_responses \in 0 .. Len(verifier.rounds)
    <2>1. Len(verifier.rounds) = R + 1 /\ verifier.num_responses = R + 1
        BY <1>1 DEF VerifierInv, ResponsesAreRead
    <2> QED BY <2>1 DEF VerifierInv, VerifierTypeOK
<1>3. /\ IsSequence(kinds) /\ Len(kinds) = n
      /\ \A j \in 1 .. n : kinds[j] = KindAt(R, m + j)
      /\ \A j \in 1 .. n : kinds[j] \notin IncludedInFiatShamir
    <2>1. IsSequence(kinds) /\ Len(kinds) = n /\ kinds[1] = kind /\ kinds[2] = "AuthenticationStructure"
        BY TupleSequences
    <2>2. 1 .. n = {1, 2} /\ "AuthenticationStructure" \notin IncludedInFiatShamir
        BY DEF IncludedInFiatShamir
    <2> HIDE DEF kinds, n
    <2> QED BY <2>1, <2>2
<1>4. /\ m \in Nat /\ k \in Nat /\ VerifierAt(m, k) /\ m + n <= 19 + 2 * R
      /\ read = Dequeue(verifier.stream, kinds) /\ ReadStep(read, after, to)
    BY <1>1
<1> HIDE DEF kinds, k, n
<1>5. \/ VerifierInv'
      \/ WentOn(read, after, to) /\ WasRead(m, n, k, kinds, read)
    BY <1>1, <1>3, <1>4, ReadOrRefused
<1>6. ASSUME WentOn(read, after, to), WasRead(m, n, k, kinds, read)
      PROVE  \/ VerifierInv'
             \/ /\ stage' = to /\ VerifierAt(m + 2, 16 + 2 * R)'
                /\ VerifierTypeOK' /\ DeliveryOK' /\ ReadItems' /\ Received' = Received /\ R' = R
                /\ RootsAreRead' /\ RoundsAreRead' /\ ResponsesAreRead'
                /\ Received[m + 2].payload.tree = root
    <2>1. /\ IsStream(read.stream) /\ read.stream.items = Received
          /\ GoodRead(m, n, k, read) /\ read.stream.sponge = Transcript(config, Received, 16 + 2 * R)
        BY <1>3, <1>6 DEF WentOn, WasRead, k
    <2>2. /\ read.stream.items_index = m + 2 /\ m + 2 <= Len(Received)
          /\ \A j \in 1 .. (m + 2) : Received[j].kind = KindAt(R, j)
          /\ read.payloads[2] = Received[m + 2].payload
        BY <2>1 DEF GoodRead, n
    <2>3. CASE after.error # None
        <3>1. 16 + 2 * R \in 0 .. (16 + 2 * R)
            BY <1>1
        <3> QED BY <1>1, <1>2, <1>6, <2>1, <2>2, <2>3, <3>1, GivingUp DEF KeepsFri
    <2>4. CASE after.error = None
        <3>1. verifier' = after /\ stage' = to /\ UNCHANGED <<config, prover, delivery>>
            BY <1>6, <2>4 DEF WentOn
        <3>2. VerifierTypeOK' /\ DeliveryOK' /\ ReadItems' /\ Received' = Received /\ R' = R
            <4>1. stage' \in VerifierStages \ {"height"} /\ after.padded_height = config.padded_height
                BY <1>1, <3>1 DEF VerifierInv, ReadItems, AfterRounds, KeepsFri
            <4> QED BY <1>1, <1>2, <2>1, <2>2, <2>4, <3>1, <4>1, Advancing DEF KeepsFri
        <3>3. VerifierAt(m + 2, 16 + 2 * R)'
            BY <2>1, <2>2, <3>1, <3>2 DEF VerifierAt
        <3>4. stage' \in AfterRounds
            BY <3>1
        <3>5. RootsAreRead' /\ RoundsAreRead' /\ ResponsesAreRead'
            BY <1>1, <1>2, <3>1, <3>2, <3>4, KeepingResponses DEF KeepsFri
        <3>6. Received[m + 2].payload.tree = root
            BY <2>2, <2>4 DEF InclusionHolds, AuthenticationStructure
        <3> QED BY <3>1, <3>2, <3>3, <3>5, <3>6
    <2> QED BY <2>3, <2>4
<1> QED BY <1>5, <1>6

\* The main tree's leafs.
LEMMA ReceiveMainLeafsKeepsInv ==
    ASSUME ProverInv, VerifierInv, ReceiveMainLeafs
    PROVE  VerifierInv'
<1>0. PICK m : m = 13 + 2 * R
    OBVIOUS
<1> DEFINE kind == "MasterMainTableRows"
           read == Dequeue(verifier.stream, <<kind, "AuthenticationStructure">>)
           v == Behind(verifier, read)
           length == FriDomain(Derived(v)).length
           good == [v EXCEPT !.leafs = Append(@, read.payloads[1])]
           bad == [v EXCEPT !.error = "MainCodewordAuthenticationFailure"]
           holds == InclusionHolds(v.main_root, length, v.indices, read.payloads[1], read.payloads[2])
           after == IF holds THEN good ELSE bad
           to == "leafs_of_aux"
           root == verifier.main_root
           indices == v.indices
<1>1. stage = "leafs_of_main" /\ ReadStep(read, after, to)
    BY DEF ReceiveMainLeafs, ReceiveLeafs, VerifierStep, ReadStep, Behind
<1>2. R \in Nat /\ stage \in AfterRounds \ {"fri_responses"} /\ to \in AfterRounds \ {"fri_responses"}
    BY <1>1, ConfigurationFacts DEF ProverInv, AfterRounds, VerifierStages
<1>3. /\ KeepsFri(verifier, v) /\ v.stream = read.stream
    <2> HIDE DEF read
    <2> QED BY DEF KeepsFri, Behind, VerifierInv, VerifierTypeOK, VerifierFields
<1>4. /\ KeepsFri(verifier, good) /\ good.stream = read.stream
      /\ KeepsFri(verifier, bad) /\ bad.stream = read.stream /\ bad.error # None
    <2> HIDE DEF v, read
    <2> QED BY <1>3 DEF KeepsFri, VerifierFields, None
<1>5. /\ KeepsFri(verifier, after) /\ after.stream = read.stream
      /\ \/ after.error # None
         \/ InclusionHolds(root, length, indices, read.payloads[1], read.payloads[2])
    <2>1. v.main_root = root
        BY <1>3 DEF KeepsFri
    <2>2. CASE holds
        <3> HIDE DEF v, good, bad, read
        <3> QED BY <1>4, <2>1, <2>2
    <2>3. CASE ~holds
        <3> HIDE DEF v, good, bad, read
        <3> QED BY <1>4, <2>3
    <2> QED BY <2>2, <2>3
<1>6. m \in Nat /\ VerifierAt(m, 16 + 2 * R) /\ m + 2 <= 19 + 2 * R
    BY <1>0, <1>1, <1>2 DEF VerifierInv, VerifierProgress
<1>7. kind \notin IncludedInFiatShamir /\ KindAt(R, m + 1) = kind /\ KindAt(R, m + 2) = "AuthenticationStructure"
    <2> DEFINE i == m + 1
               j == m + 2
    <2>1. /\ i = 13 + 1 + 2 * R /\ i \in Nat /\ ~(i <= 13 + 2 * R) /\ ~(i <= 10 + R) /\ i > 13
          /\ i # 11 + R /\ i # 12 + R
          /\ j = 13 + 2 + 2 * R /\ j \in Nat /\ ~(j <= 13 + 2 * R) /\ ~(j <= 10 + R) /\ j > 13
          /\ j # 11 + R /\ j # 12 + R
        BY <1>0, <1>2
    <2>2. kind \notin IncludedInFiatShamir
        BY DEF IncludedInFiatShamir
    <2> HIDE DEF i, j
    <2>3. KindAt(R, i) = kind
        BY <1>2, <2>1 DEF KindAt
    <2>4. KindAt(R, j) = "AuthenticationStructure"
        BY <1>2, <2>1 DEF KindAt
    <2> QED BY <2>2, <2>3, <2>4 DEF i, j
<1>8. read = Dequeue(verifier.stream, <<kind, "AuthenticationStructure">>)
    OBVIOUS
<1> HIDE DEF kind, read, v, length, good, bad, holds, after, to, root, indices
<1>9. \/ VerifierInv'
      \/ /\ stage' = to /\ VerifierAt(m + 2, 16 + 2 * R)'
         /\ VerifierTypeOK' /\ DeliveryOK' /\ ReadItems' /\ Received' = Received /\ R' = R
         /\ RootsAreRead' /\ RoundsAreRead' /\ ResponsesAreRead'
         /\ Received[m + 2].payload.tree = root
    BY <1>1, <1>2, <1>5, <1>6, <1>7, <1>8, LeafsReceived
<1>10. SUFFICES
          ASSUME /\ stage' = to /\ VerifierAt(m + 2, 16 + 2 * R)'
                 /\ VerifierTypeOK' /\ DeliveryOK' /\ ReadItems' /\ Received' = Received /\ R' = R
                 /\ RootsAreRead' /\ RoundsAreRead' /\ ResponsesAreRead'
                 /\ Received[m + 2].payload.tree = root
          PROVE  VerifierProgress' /\ LeafsAreRead'
    BY <1>9 DEF VerifierInv
<1>11. stage' = "leafs_of_aux" /\ m + 2 = 13 + 2 + 2 * R
    BY <1>0, <1>2, <1>10 DEF to
<1>12. VerifierProgress'
    <2>1. (stage = "leafs_of_aux" /\ VerifierAt(15 + 2 * R, 16 + 2 * R))'
        BY <1>2, <1>10, <1>11 DEF VerifierAt
    <2> QED BY <2>1 DEF VerifierProgress
<1>13. root = Received[2].payload
    BY <1>1 DEF VerifierInv, RootsAreRead, VerifierStages, root
<1>14. Received[15 + 2 * R].payload.tree = Received[2].payload
    <2>1. m + 2 = 15 + 2 * R
        BY <1>0, <1>2
    <2> QED BY <1>10, <1>13, <2>1
<1>15. LeafsAreRead'
    BY <1>1, <1>10, <1>11, <1>14 DEF VerifierInv, LeafsAreRead
<1> QED BY <1>12, <1>15

\* The auxiliary tree's leafs.
LEMMA ReceiveAuxLeafsKeepsInv ==
    ASSUME ProverInv, VerifierInv, ReceiveAuxLeafs
    PROVE  VerifierInv'
<1>0. PICK m : m = 15 + 2 * R
    OBVIOUS
<1> DEFINE kind == "MasterAuxTableRows"
           read == Dequeue(verifier.stream, <<kind, "AuthenticationStructure">>)
           v == Behind(verifier, read)
           length == FriDomain(Derived(v)).length
           good == [v EXCEPT !.leafs = Append(@, read.payloads[1])]
           bad == [v EXCEPT !.error = "AuxiliaryCodewordAuthenticationFailure"]
           holds == InclusionHolds(v.aux_root, length, v.indices, read.payloads[1], read.payloads[2])
           after == IF holds THEN good ELSE bad
           to == "leafs_of_quotient"
           root == verifier.aux_root
           indices == v.indices
<1>1. stage = "leafs_of_aux" /\ ReadStep(read, after, to)
    BY DEF ReceiveAuxLeafs, ReceiveLeafs, VerifierStep, ReadStep, Behind
<1>2. R \in Nat /\ stage \in AfterRounds \ {"fri_responses"} /\ to \in AfterRounds \ {"fri_responses"}
    BY <1>1, ConfigurationFacts DEF ProverInv, AfterRounds, VerifierStages
<1>3. /\ KeepsFri(verifier, v) /\ v.stream = read.stream
    <2> HIDE DEF read
    <2> QED BY DEF KeepsFri, Behind, VerifierInv, VerifierTypeOK, VerifierFields
<1>4. /\ KeepsFri(verifier, good) /\ good.stream = read.stream
      /\ KeepsFri(verifier, bad) /\ bad.stream = read.stream /\ bad.error # None
    <2> HIDE DEF v, read
    <2> QED BY <1>3 DEF KeepsFri, VerifierFields, None
<1>5. /\ KeepsFri(verifier, after) /\ after.stream = read.stream
      /\ \/ after.error # None
         \/ InclusionHolds(root, length, indices, read.payloads[1], read.payloads[2])
    <2>1. v.aux_root = root
        BY <1>3 DEF KeepsFri
    <2>2. CASE holds
        <3> HIDE DEF v, good, bad, read
        <3> QED BY <1>4, <2>1, <2>2
    <2>3. CASE ~holds
        <3> HIDE DEF v, good, bad, read
        <3> QED BY <1>4, <2>3
    <2> QED BY <2>2, <2>3
<1>6. m \in Nat /\ VerifierAt(m, 16 + 2 * R) /\ m + 2 <= 19 + 2 * R
    BY <1>0, <1>1, <1>2 DEF VerifierInv, VerifierProgress
<1>7. kind \notin IncludedInFiatShamir /\ KindAt(R, m + 1) = kind /\ KindAt(R, m + 2) = "AuthenticationStructure"
    <2> DEFINE i == m + 1
               j == m + 2
    <2>1. /\ i = 15 + 1 + 2 * R /\ i \in Nat /\ ~(i <= 13 + 2 * R) /\ ~(i <= 10 + R) /\ i > 13
          /\ i # 11 + R /\ i # 12 + R
          /\ j = 15 + 2 + 2 * R /\ j \in Nat /\ ~(j <= 13 + 2 * R) /\ ~(j <= 10 + R) /\ j > 13
          /\ j # 11 + R /\ j # 12 + R
        BY <1>0, <1>2
    <2>2. kind \notin IncludedInFiatShamir
        BY DEF IncludedInFiatShamir
    <2> HIDE DEF i, j
    <2>3. KindAt(R, i) = kind
        BY <1>2, <2>1 DEF KindAt
    <2>4. KindAt(R, j) = "AuthenticationStructure"
        BY <1>2, <2>1 DEF KindAt
    <2> QED BY <2>2, <2>3, <2>4 DEF i, j
<1>8. read = Dequeue(verifier.stream, <<kind, "AuthenticationStructure">>)
    OBVIOUS
<1> HIDE DEF kind, read, v, length, good, bad, holds, after, to, root, indices
<1>9. \/ VerifierInv'
      \/ /\ stage' = to /\ VerifierAt(m + 2, 16 + 2 * R)'
         /\ VerifierTypeOK' /\ DeliveryOK' /\ ReadItems' /\ Received' = Received /\ R' = R
         /\ RootsAreRead' /\ RoundsAreRead' /\ ResponsesAreRead'
         /\ Received[m + 2].payload.tree = root
    BY <1>1, <1>2, <1>5, <1>6, <1>7, <1>8, LeafsReceived
<1>10. SUFFICES
          ASSUME /\ stage' = to /\ VerifierAt(m + 2, 16 + 2 * R)'
                 /\ VerifierTypeOK' /\ DeliveryOK' /\ ReadItems' /\ Received' = Received /\ R' = R
                 /\ RootsAreRead' /\ RoundsAreRead' /\ ResponsesAreRead'
                 /\ Received[m + 2].payload.tree = root
          PROVE  VerifierProgress' /\ LeafsAreRead'
    BY <1>9 DEF VerifierInv
<1>11. stage' = "leafs_of_quotient" /\ m + 2 = 15 + 2 + 2 * R
    BY <1>0, <1>2, <1>10 DEF to
<1>12. VerifierProgress'
    <2>1. (stage = "leafs_of_quotient" /\ VerifierAt(17 + 2 * R, 16 + 2 * R))'
        BY <1>2, <1>10, <1>11 DEF VerifierAt
    <2> QED BY <2>1 DEF VerifierProgress
<1>13. root = Received[3].payload
    BY <1>1 DEF VerifierInv, RootsAreRead, VerifierStages, root
<1>14. Received[17 + 2 * R].payload.tree = Received[3].payload
    <2>1. m + 2 = 17 + 2 * R
        BY <1>0, <1>2
    <2> QED BY <1>10, <1>13, <2>1
<1>15. LeafsAreRead'
    BY <1>1, <1>10, <1>11, <1>14 DEF VerifierInv, LeafsAreRead
<1> QED BY <1>12, <1>15

\* The quotient tree's leafs.
LEMMA ReceiveQuotientLeafsKeepsInv ==
    ASSUME ProverInv, VerifierInv, ReceiveQuotientLeafs
    PROVE  VerifierInv'
<1>0. PICK m : m = 17 + 2 * R
    OBVIOUS
<1> DEFINE kind == "QuotientSegmentsElements"
           read == Dequeue(verifier.stream, <<kind, "AuthenticationStructure">>)
           v == Behind(verifier, read)
           length == FriDomain(Derived(v)).length
           good == [v EXCEPT !.leafs = Append(@, read.payloads[1])]
           bad == [v EXCEPT !.error = "QuotientCodewordAuthenticationFailure"]
           holds == InclusionHolds(v.quotient_root, length, v.indices, read.payloads[1], read.payloads[2])
           after == IF holds THEN good ELSE bad
           to == "linear_combination"
           root == verifier.quotient_root
           indices == v.indices
<1>1. stage = "leafs_of_quotient" /\ ReadStep(read, after, to)
    BY DEF ReceiveQuotientLeafs, ReceiveLeafs, VerifierStep, ReadStep, Behind
<1>2. R \in Nat /\ stage \in AfterRounds \ {"fri_responses"} /\ to \in AfterRounds \ {"fri_responses"}
    BY <1>1, ConfigurationFacts DEF ProverInv, AfterRounds, VerifierStages
<1>3. /\ KeepsFri(verifier, v) /\ v.stream = read.stream
    <2> HIDE DEF read
    <2> QED BY DEF KeepsFri, Behind, VerifierInv, VerifierTypeOK, VerifierFields
<1>4. /\ KeepsFri(verifier, good) /\ good.stream = read.stream
      /\ KeepsFri(verifier, bad) /\ bad.stream = read.stream /\ bad.error # None
    <2> HIDE DEF v, read
    <2> QED BY <1>3 DEF KeepsFri, VerifierFields, None
<1>5. /\ KeepsFri(verifier, after) /\ after.stream = read.stream
      /\ \/ after.error # None
         \/ InclusionHolds(root, length, indices, read.payloads[1], read.payloads[2])
    <2>1. v.quotient_root = root
        BY <1>3 DEF KeepsFri
    <2>2. CASE holds
        <3> HIDE DEF v, good, bad, read
        <3> QED BY <1>4, <2>1, <2>2
    <2>3. CASE ~holds
        <3> HIDE DEF v, good, bad, read
        <3> QED BY <1>4, <2>3
    <2> QED BY <2>2, <2>3
<1>6. m \in Nat /\ VerifierAt(m, 16 + 2 * R) /\ m + 2 <= 19 + 2 * R
    BY <1>0, <1>1, <1>2 DEF VerifierInv, VerifierProgress
<1>7. kind \notin IncludedInFiatShamir /\ KindAt(R, m + 1) = kind /\ KindAt(R, m + 2) = "AuthenticationStructure"
    <2> DEFINE i == m + 1
               j == m + 2
    <2>1. /\ i = 17 + 1 + 2 * R /\ i \in Nat /\ ~(i <= 13 + 2 * R) /\ ~(i <= 10 + R) /\ i > 13
          /\ i # 11 + R /\ i # 12 + R
          /\ j = 17 + 2 + 2 * R /\ j \in Nat /\ ~(j <= 13 + 2 * R) /\ ~(j <= 10 + R) /\ j > 13
          /\ j # 11 + R /\ j # 12 + R
        BY <1>0, <1>2
    <2>2. kind \notin IncludedInFiatShamir
        BY DEF IncludedInFiatShamir
    <2> HIDE DEF i, j
    <2>3. KindAt(R, i) = kind
        BY <1>2, <2>1 DEF KindAt
    <2>4. KindAt(R, j) = "AuthenticationStructure"
        BY <1>2, <2>1 DEF KindAt
    <2> QED BY <2>2, <2>3, <2>4 DEF i, j
<1>8. read = Dequeue(verifier.stream, <<kind, "AuthenticationStructure">>)
    OBVIOUS
<1> HIDE DEF kind, read, v, length, good, bad, holds, after, to, root, indices
<1>9. \/ VerifierInv'
      \/ /\ stage' = to /\ VerifierAt(m + 2, 16 + 2 * R)'
         /\ VerifierTypeOK' /\ DeliveryOK' /\ ReadItems' /\ Received' = Received /\ R' = R
         /\ RootsAreRead' /\ RoundsAreRead' /\ ResponsesAreRead'
         /\ Received[m + 2].payload.tree = root
    BY <1>1, <1>2, <1>5, <1>6, <1>7, <1>8, LeafsReceived
<1>10. SUFFICES
          ASSUME /\ stage' = to /\ VerifierAt(m + 2, 16 + 2 * R)'
                 /\ VerifierTypeOK' /\ DeliveryOK' /\ ReadItems' /\ Received' = Received /\ R' = R
                 /\ RootsAreRead' /\ RoundsAreRead' /\ ResponsesAreRead'
                 /\ Received[m + 2].payload.tree = root
          PROVE  VerifierProgress' /\ LeafsAreRead'
    BY <1>9 DEF VerifierInv
<1>11. stage' = "linear_combination" /\ m + 2 = 17 + 2 + 2 * R
    BY <1>0, <1>2, <1>10 DEF to
<1>12. VerifierProgress'
    <2>1. (stage = "linear_combination" /\ VerifierAt(19 + 2 * R, 16 + 2 * R))'
        BY <1>2, <1>10, <1>11 DEF VerifierAt
    <2> QED BY <2>1 DEF VerifierProgress
<1>13. root = Received[4].payload
    BY <1>1 DEF VerifierInv, RootsAreRead, VerifierStages, root
<1>14. Received[19 + 2 * R].payload.tree = Received[4].payload
    <2>1. m + 2 = 19 + 2 * R
        BY <1>0, <1>2
    <2> QED BY <1>10, <1>13, <2>1
<1>15. LeafsAreRead'
    BY <1>1, <1>10, <1>11, <1>14 DEF VerifierInv, LeafsAreRead
<1> QED BY <1>12, <1>15

\* The last check, before the proof is accepted.
LEMMA CheckLinearCombinationKeepsInv ==
    ASSUME ProverInv, VerifierInv, CheckLinearCombination
    PROVE  VerifierInv'
<1> DEFINE kinds == <<>>
           read == Dequeue(verifier.stream, kinds)
           v == Behind(verifier, read)
           holds == \A i \in DOMAIN v.indices : v.rounds[1].partial_codeword_a[i] = CombinationValue(v, i)
           bad == [v EXCEPT !.error = "CombinationCodewordMismatch"]
           after == IF holds THEN v ELSE bad
           to == "accepted"
           m == 19 + 2 * R
           k == 16 + 2 * R
           zero == 0
<1>1. stage = "linear_combination" /\ ReadStep(read, after, to)
    BY DEF CheckLinearCombination, VerifierStep, ReadStep, Behind
<1>2. R \in Nat /\ NumRounds(config) = R /\ stage \in VerifierStages /\ stage \in AfterRounds
    BY <1>1, ConfigurationFacts DEF ProverInv, VerifierStages, AfterRounds
<1>3. /\ Len(verifier.rounds) = R + 1 /\ verifier.num_responses = R + 1
      /\ IsSequence(verifier.rounds) /\ verifier.num_responses \in 0 .. Len(verifier.rounds)
    <2>1. Len(verifier.rounds) = R + 1 /\ verifier.num_responses = R + 1
        BY <1>1, <1>2 DEF VerifierInv, ResponsesAreRead
    <2> QED BY <2>1 DEF VerifierInv, VerifierTypeOK
<1>4. KeepsFri(verifier, after) /\ after.stream = read.stream
    <2>1. KeepsFri(verifier, v) /\ v.stream = read.stream
        <3> HIDE DEF read
        <3> QED BY DEF KeepsFri, Behind, VerifierInv, VerifierTypeOK, VerifierFields
    <2>2. KeepsFri(verifier, bad) /\ bad.stream = read.stream
        <3> HIDE DEF v, read
        <3> QED BY <2>1 DEF KeepsFri, VerifierFields
    <2> HIDE DEF v, bad, holds
    <2> QED BY <2>1, <2>2
<1>5. /\ VerifierAt(m, k) /\ m \in Nat /\ k \in Nat /\ m + zero <= 19 + 2 * R
    BY <1>1, <1>2 DEF VerifierInv, VerifierProgress
<1>6. /\ IsSequence(kinds) /\ Len(kinds) = zero
      /\ \A j \in 1 .. zero : kinds[j] = KindAt(R, m + j)
      /\ \A j \in 1 .. zero : kinds[j] \notin IncludedInFiatShamir
    BY EmptySequence
<1>7. read = Dequeue(verifier.stream, kinds)
    OBVIOUS
<1> HIDE DEF kinds, read, v, holds, bad, after, to, m, k, zero
<1>8. \/ VerifierInv'
      \/ WentOn(read, after, to) /\ WasRead(m, zero, k, kinds, read)
    BY <1>1, <1>2, <1>5, <1>6, <1>7, ReadOrRefused
<1>9. SUFFICES ASSUME WentOn(read, after, to), WasRead(m, zero, k, kinds, read)
               PROVE  VerifierInv'
    BY <1>8
<1>10. /\ IsStream(read.stream) /\ read.stream.items = Received
       /\ GoodRead(m, zero, k, read) /\ read.stream.sponge = Transcript(config, Received, 16 + 2 * R)
    BY <1>6, <1>9 DEF WentOn, WasRead, k
<1>11. /\ read.stream.items_index = 19 + 2 * R /\ 19 + 2 * R <= Len(Received)
       /\ \A j \in 1 .. (19 + 2 * R) : Received[j].kind = KindAt(R, j)
    <2>1. m + zero = 19 + 2 * R
        BY <1>2 DEF m, zero
    <2> QED BY <1>10, <2>1 DEF GoodRead
<1>12. CASE after.error # None
    <2>1. 16 + 2 * R \in 0 .. (16 + 2 * R)
        BY <1>2
    <2> QED BY <1>2, <1>3, <1>4, <1>9, <1>10, <1>11, <1>12, <2>1, GivingUp DEF KeepsFri
<1>13. CASE after.error = None
    <2>1. /\ verifier' = after /\ stage' = "accepted" /\ UNCHANGED <<config, prover, delivery>>
        BY <1>9, <1>13 DEF WentOn, to
    <2>2. VerifierTypeOK' /\ DeliveryOK' /\ ReadItems' /\ Received' = Received /\ R' = R
        <3>1. stage' \in VerifierStages \ {"height"} /\ after.padded_height = config.padded_height
            BY <1>1, <1>2, <1>4, <2>1 DEF VerifierInv, ReadItems, VerifierStages, KeepsFri
        <3> QED BY <1>2, <1>3, <1>4, <1>10, <1>11, <1>13, <2>1, <3>1, Advancing DEF KeepsFri
    <2>3. VerifierAt(19 + 2 * R, 16 + 2 * R)'
        BY <1>4, <1>10, <1>11, <2>1, <2>2 DEF VerifierAt
    <2>4. VerifierProgress'
        BY <2>1, <2>3 DEF VerifierProgress
    <2>5. LeafsAreRead'
        BY <1>1, <2>1, <2>2 DEF VerifierInv, LeafsAreRead
    <2>6. stage' \in AfterRounds
        BY <2>1 DEF AfterRounds, VerifierStages
    <2>7. RootsAreRead' /\ RoundsAreRead' /\ ResponsesAreRead'
        BY <1>2, <1>3, <1>4, <2>1, <2>2, <2>6, KeepingResponses DEF KeepsFri
    <2> QED BY <2>2, <2>4, <2>5, <2>7 DEF VerifierInv
<1> QED BY <1>12, <1>13

(***************************************************************************)
(* The proof is delivered, and the verifier starts.                        *)
(***************************************************************************)
LEMMA DeliverKeepsInv ==
    ASSUME ProverInv, Deliver
    PROVE  VerifierInv'
<1>1. PICK d \in Deliveries(Len(Sent)) :
          /\ stage = "proof" /\ stage' = "height" /\ delivery' = d
          /\ verifier' = [NoVerifier EXCEPT !.stream = AfterClaim(StreamOf(Delivered(Sent, d)), config.claim)]
          /\ UNCHANGED <<config, prover>>
    BY DEF Deliver, Sent
<1> DEFINE items == Delivered(Sent, d)
           s == StreamOf(items)
           t == AfterClaim(s, config.claim)
<1>2. /\ R \in Nat /\ NumRounds(config) = R /\ IsSequence(Sent) /\ Len(Sent) = 19 + 2 * R
    BY <1>1, ConfigurationFacts DEF ProverInv, ProverProgress, ProverAt, IsStream, Sent
<1>3. IsSequence(items)
    <2>1. IsSequence(Sent) /\ d \in Deliveries(Len(Sent)) /\ Len(Sent) > 0
        BY <1>2
    <2> QED BY <2>1, DeliveredItems
<1> HIDE DEF items
<1>4. IsStream(s) /\ s.items = items /\ s.items_index = 0 /\ s.sponge = <<>>
    <2>1. s = [items |-> items, items_index |-> 0, sponge |-> <<>>]
        BY DEF StreamOf, EmptyStream
    <2> HIDE DEF s
    <2> QED BY <1>3, <2>1, EmptySequence DEF IsStream
<1> HIDE DEF s
<1>5. IsStream(t) /\ t.items = items /\ t.items_index = 0 /\ t.sponge = Transcript(config, items, 1)
    <2>1. /\ IsStream(t) /\ t.items = s.items /\ t.items_index = s.items_index
          /\ Extends(s.sponge, t.sponge, Item("Claim", config.claim))
        BY <1>4, Absorbing DEF AfterClaim
    <2>2. Extends(Transcript(config, items, 0), t.sponge, EventAt(config, items, 1))
        <3>1. Len(s.sponge) = 0 /\ Len(Transcript(config, items, 0)) = 0
            BY <1>4, EmptySequence, TranscriptIsSequence
        <3>2. EventAt(config, items, 1) = Item("Claim", config.claim)
            BY DEF EventAt
        <3> QED BY <2>1, <3>1, <3>2 DEF Extends
    <2> DEFINE n == 0
    <2>3. IsSequence(t.sponge) /\ n \in Nat /\ Extends(Transcript(config, items, n), t.sponge, EventAt(config, items, n + 1))
        BY <2>1, <2>2 DEF IsStream
    <2> HIDE DEF n, t
    <2>4. t.sponge = Transcript(config, items, n + 1)
        BY <2>3, TranscriptGrowsByOne
    <2>5. n + 1 = 1
        BY DEF n
    <2> QED BY <1>4, <2>1, <2>4, <2>5
<1> HIDE DEF t
<1>6. /\ DOMAIN verifier' = VerifierFields /\ verifier'.stream = t /\ verifier'.error = None
      /\ verifier'.rounds = <<>> /\ verifier'.num_responses = 0
    BY <1>1 DEF NoVerifier, VerifierFields, s, t, items
<1>7. Received' = items /\ Sent' = Sent /\ R' = R /\ config' = config
    BY <1>1, <1>5, <1>6 DEF Received, Sent, R
<1>8. VerifierTypeOK'
    <2>1. IsSequence(<<>>) /\ Len(<<>>) = 0 /\ 0 <= Len(items) /\ 0 \in 0 .. 0
        BY <1>3, EmptySequence DEF IsSequence
    <2> QED BY <1>1, <1>5, <1>6, <1>7, <2>1 DEF VerifierTypeOK
<1>9. DeliveryOK'
    BY <1>1, <1>7 DEF DeliveryOK, ProverStages, items
<1>10. VerifierProgress'
    <2>1. VerifierAt(0, 1)'
        BY <1>5, <1>6, <1>7 DEF VerifierAt
    <2> QED BY <1>1, <2>1 DEF VerifierProgress
<1>11. ReadItems'
    <2>1. 1 .. 0 = {}
        OBVIOUS
    <2> QED BY <1>1, <1>5, <1>6, <2>1 DEF ReadItems
<1>12. RootsAreRead' /\ ResponsesAreRead' /\ LeafsAreRead'
    BY <1>1 DEF RootsAreRead, ResponsesAreRead, LeafsAreRead, AfterRounds
<1>13. RoundsAreRead'
    <2>1. Len(<<>>) = 0 /\ 1 .. 0 = {} /\ 1 .. (0 - 1) = {}
        BY EmptySequence
    <2> QED BY <1>1, <1>6, <2>1 DEF RoundsAreRead, HalvedFrom
<1> QED BY <1>8, <1>9, <1>10, <1>11, <1>12, <1>13 DEF VerifierInv

(***************************************************************************)
(* While the prover is at work there is no verifier.                       *)
(***************************************************************************)
LEMMA NothingIsVerified ==
    ASSUME stage \in ProverStages \cup {"proof"}, delivery = Intact, verifier = NoVerifier
    PROVE  VerifierInv
<1>1. /\ verifier.stream = EmptyStream /\ DOMAIN verifier = VerifierFields /\ verifier.rounds = <<>>
      /\ verifier.num_responses = 0 /\ verifier.error = None
    BY DEF NoVerifier, VerifierFields
<1>2. IsSequence(<<>>) /\ Len(<<>>) = 0
    BY EmptySequence
<1>3. VerifierTypeOK
    BY <1>1, <1>2, EmptyStreamIsStream DEF VerifierTypeOK, Received, ProverStages
<1>4. stage \notin {"refused"} \cup VerifierStages
    BY DEF ProverStages, VerifierStages
<1>5. DeliveryOK /\ VerifierProgress /\ ReadItems /\ RoundsAreRead
    BY <1>4 DEF DeliveryOK, VerifierProgress, ReadItems, RoundsAreRead, VerifierStages
<1>6. RootsAreRead /\ ResponsesAreRead /\ LeafsAreRead
    BY <1>4 DEF RootsAreRead, ResponsesAreRead, LeafsAreRead, AfterRounds, VerifierStages
<1> QED BY <1>3, <1>5, <1>6 DEF VerifierInv

\* The prover's steps come before the delivery.
LEMMA ProveKeepsVerifierInv ==
    ASSUME VerifierInv, Prove
    PROVE  VerifierInv'
<1>1. /\ stage \in ProverStages /\ stage' \in ProverStages \cup {"proof"}
      /\ UNCHANGED <<config, delivery, verifier>>
    BY DEF Prove, CommitToMainTable, CommitToAuxTable, CommitToQuotient, SendOutOfDomainRows,
           CommitToFirstRound, CommitToNextRound, SendLastRound, RespondToQueries, OpenTraceLeafs,
           ProverStep, ProverStages
<1>2. delivery = Intact /\ verifier = NoVerifier
    BY <1>1 DEF VerifierInv, DeliveryOK
<1>3. stage' \notin {"refused"} \cup VerifierStages
    BY <1>1 DEF ProverStages, VerifierStages
<1>4. VerifierTypeOK'
    BY <1>1, <1>3, <1>2 DEF VerifierInv, VerifierTypeOK, Received, NoVerifier
<1>5. DeliveryOK' /\ VerifierProgress' /\ ReadItems' /\ RoundsAreRead'
    BY <1>1, <1>2, <1>3 DEF DeliveryOK, VerifierProgress, ReadItems, RoundsAreRead, VerifierStages
<1>6. RootsAreRead' /\ ResponsesAreRead' /\ LeafsAreRead'
    BY <1>3 DEF RootsAreRead, ResponsesAreRead, LeafsAreRead, AfterRounds, VerifierStages
<1> QED BY <1>4, <1>5, <1>6 DEF VerifierInv

\* Each of the verifier's steps.
LEMMA VerifyKeepsVerifierInv ==
    ASSUME ProverInv, VerifierInv, Verify
    PROVE  VerifierInv'
BY ReceiveHeightKeepsInv, ReceiveMainRootKeepsInv, ReceiveAuxRootKeepsInv,
   ReceiveQuotientRootKeepsInv, ReceiveOutOfDomainRowsKeepsInv, ReceiveFriRootKeepsInv,
   ReceiveLastRoundKeepsInv, ReceiveFriResponseKeepsInv, CheckLastRoundKeepsInv,
   ReceiveMainLeafsKeepsInv, ReceiveAuxLeafsKeepsInv, ReceiveQuotientLeafsKeepsInv,
   CheckLinearCombinationKeepsInv
   DEF Verify

\* The verifier's steps leave the prover alone.
LEMMA VerifyKeepsProverInv ==
    ASSUME ProverInv, Verify
    PROVE  ProverInv'
<1>1. /\ UNCHANGED <<config, prover>>
      /\ stage \in VerifierStages /\ stage' \in {"refused"} \cup VerifierStages
    BY DEF Verify, ReceiveHeight, ReceiveMainRoot, ReceiveAuxRoot, ReceiveQuotientRoot,
           ReceiveOutOfDomainRows, ReceiveFriRoot, ReceiveLastRound, ReceiveFriResponse,
           CheckLastRound, ReceiveMainLeafs, ReceiveAuxLeafs, ReceiveQuotientLeafs,
           CheckLinearCombination, ReceiveLeafs, VerifierStep, VerifierStages
<1> QED BY <1>1, ProverInvStays

(***************************************************************************)
(* The inductive invariant: what was sent, and what was read of it.        *)
(***************************************************************************)
StarkInv == ProverInv /\ VerifierInv

\* The invariant holds at the start,
LEMMA InitStarkInv == Init => StarkInv
<1> SUFFICES ASSUME Init
             PROVE  StarkInv
    OBVIOUS
<1>1. stage \in ProverStages \cup {"proof"} /\ delivery = Intact /\ verifier = NoVerifier
    BY DEF Init, ProverStages
<1> QED BY <1>1, InitProverInv, NothingIsVerified DEF StarkInv

\* and every step keeps it.
LEMMA NextKeepsStarkInv == StarkInv /\ [Next]_vars => StarkInv'
<1> SUFFICES ASSUME StarkInv, [Next]_vars
             PROVE  StarkInv'
    OBVIOUS
<1> USE DEF StarkInv
<1>1. CASE Prove
    BY <1>1, ProveKeepsProverInv, ProveKeepsVerifierInv
<1>2. CASE Deliver
    <2>1. /\ UNCHANGED <<config, prover>>
          /\ stage \in {"proof"} \cup VerifierStages /\ stage' \in {"refused"} \cup VerifierStages
        BY <1>2 DEF Deliver, VerifierStages
    <2> QED BY <1>2, <2>1, ProverInvStays, DeliverKeepsInv
<1>3. CASE Verify
    BY <1>3, VerifyKeepsProverInv, VerifyKeepsVerifierInv
<1>4. CASE UNCHANGED vars
    <2>1. ProverInv'
        BY <1>4, ProverInvStays DEF vars
    <2>2. VerifierTypeOK' /\ DeliveryOK'
        BY <1>4 DEF vars, VerifierInv, VerifierTypeOK, DeliveryOK, Received, Sent
    <2>3. VerifierProgress' /\ ReadItems' /\ RootsAreRead'
        BY <1>4 DEF vars, VerifierInv, VerifierProgress, VerifierAt, ReadItems, RootsAreRead, Received, R
    <2>4. RoundsAreRead' /\ ResponsesAreRead' /\ LeafsAreRead'
        BY <1>4 DEF vars, VerifierInv, RoundsAreRead, ResponsesAreRead, LeafsAreRead, Received, R
    <2> QED BY <2>1, <2>2, <2>3, <2>4 DEF VerifierInv
<1>5. CASE Done
    BY <1>4, <1>5 DEF Done
<1> QED BY <1>1, <1>2, <1>3, <1>4, <1>5 DEF Next

(***************************************************************************)
(* The invariant of both parties, for every configuration, every height    *)
(* and every number of FRI's rounds: how many items Stark::prove has sent  *)
(* and Stark::verify has read at each stage, which events are in the       *)
(* history of the sponge of each, and what was checked of the items read,  *)
(* whatever was done to the proof on its way.                              *)
(***************************************************************************)
THEOREM StarkInvariance == Spec => []StarkInv
<1>1. Init => StarkInv
    BY InitStarkInv
<1>2. StarkInv /\ [Next]_vars => StarkInv'
    BY NextKeepsStarkInv
<1> QED BY <1>1, <1>2, PTL DEF Spec

(***************************************************************************)
(* StarkTypeOK: no party reads past what it was given, no response is read *)
(* twice, and an error is what ends a verification (Prover::prove,         *)
(* Verifier::verify).                                                      *)
(***************************************************************************)
THEOREM StarkTypeCorrectness == Spec => []StarkTypeOK
<1>1. StarkInv => StarkTypeOK
    <2> SUFFICES ASSUME StarkInv
                 PROVE  StarkTypeOK
        OBVIOUS
    <2>1. /\ verifier.stream.items_index \in Nat
          /\ verifier.stream.items_index <= Len(verifier.stream.items)
          /\ Len(verifier.stream.items) \in Nat
        BY DEF StarkInv, VerifierInv, VerifierTypeOK, IsStream, IsSequence, Received
    <2> QED BY <2>1 DEF StarkInv, ProverInv, VerifierInv, VerifierTypeOK, StarkTypeOK
<1> QED BY <1>1, StarkInvariance, PTL

(***************************************************************************)
(* What was accepted is what was sent.                                     *)
(***************************************************************************)

(***************************************************************************)
(* Halving the same domain as often gives the same domains.                *)
(***************************************************************************)
LEMMA SameDomains ==
    ASSUME NEW domain, NEW a, NEW b, NEW n \in Nat, Len(a) = n + 1, Len(b) = n + 1,
           HalvedFrom(domain, a), HalvedFrom(domain, b)
    PROVE  \A k \in 1 .. (n + 1) : a[k].domain = b[k].domain
<1> DEFINE S == {k \in 0 .. n : a[k + 1].domain = b[k + 1].domain}
<1>1. 0 \in S
    BY DEF HalvedFrom
<1>2. ASSUME NEW k \in 0 .. (n - 1), k \in S
      PROVE  k + 1 \in S
    <2>1. k + 1 \in 1 .. (Len(a) - 1) /\ k + 1 \in 1 .. (Len(b) - 1) /\ k + 1 \in 0 .. n
        OBVIOUS
    <2>2. a[(k + 1) + 1].domain = Halve(a[k + 1].domain) /\ b[(k + 1) + 1].domain = Halve(b[k + 1].domain)
        BY <2>1 DEF HalvedFrom
    <2> QED BY <1>2, <2>1, <2>2
<1>3. \A k \in 0 .. n : k \in S
    <2>1. \A k \in 0 .. (n - 1) : k \in S => k + 1 \in S
        BY <1>2
    <2> HIDE DEF S
    <2> QED BY <1>1, <2>1, InductionUpTo
<1> SUFFICES ASSUME NEW k \in 1 .. (n + 1)
             PROVE  a[k].domain = b[k].domain
    OBVIOUS
<1>4. k - 1 \in 0 .. n /\ (k - 1) + 1 = k
    OBVIOUS
<1> QED BY <1>3, <1>4

(***************************************************************************)
(* A response is pinned by the tree and the indices it authenticates.      *)
(***************************************************************************)
LEMMA SameResponse ==
    ASSUME NEW p, NEW other, NEW others, p = ResponseTo(other, others),
           NEW root, NEW indices, DOMAIN others = DOMAIN indices,
           p.auth_structure = AuthenticationStructure(root, indices),
           \A i \in DOMAIN indices : p.revealed_leaves[i] = root[indices[i] + 1]
    PROVE  p = ResponseTo(root, indices)
<1>1. /\ p = [revealed_leaves |-> p.revealed_leaves, auth_structure |-> p.auth_structure]
      /\ p.revealed_leaves = [i \in DOMAIN indices |-> p.revealed_leaves[i]]
    BY DEF ResponseTo
<1>2. p.revealed_leaves = [i \in DOMAIN indices |-> root[indices[i] + 1]]
    BY <1>1
<1> QED BY <1>1, <1>2 DEF ResponseTo

\* An item of a kind has that kind.
LEMMA KindOfItem ==
    ASSUME NEW item, NEW kind, IsOfKind(item, kind)
    PROVE  item.kind = kind
BY DEF IsOfKind

\* Items of one kind are equal if their payloads are.
LEMMA SameItem ==
    ASSUME NEW a, NEW b, NEW kind, IsOfKind(a, kind), IsOfKind(b, kind), a.payload = b.payload
    PROVE  a = b
BY DEF IsOfKind

(***************************************************************************)
(* Which neighbours in a proof are of the same kind.                       *)
(***************************************************************************)
LEMMA NeighboursOfAKind ==
    ASSUME NEW r \in Nat, NEW i \in 1 .. (18 + 2 * r), KindAt(r, i) = KindAt(r, i + 1)
    PROVE  \/ i \in {2, 3}
           \/ i \in 10 .. (9 + r)
           \/ i \in (13 + r) .. (12 + 2 * r)
<1>1. CASE i <= 9
    <2>1. i \in {1, 2, 3, 4, 5, 6, 7, 8, 9}
        BY <1>1
    <2> QED BY <2>1 DEF KindAt
<1>2. CASE i > 9 /\ i <= 12 + r
    <2>1. i \in 10 .. (9 + r) \/ i = 10 + r \/ i = 11 + r \/ i = 12 + r
        BY <1>2
    <2>2. i # 10 + r
        BY <1>2 DEF KindAt
    <2>3. i # 11 + r
        BY <1>2 DEF KindAt
    <2>4. i # 12 + r
        BY <1>2 DEF KindAt
    <2> QED BY <2>1, <2>2, <2>3, <2>4
<1>3. CASE i > 12 + r /\ i <= 13 + 2 * r
    <2>1. i \in (13 + r) .. (12 + 2 * r) \/ i = 13 + 2 * r
        BY <1>3
    <2>2. i # 13 + 2 * r
        BY <1>3 DEF KindAt
    <2> QED BY <2>1, <2>2
<1>4. CASE i > 13 + 2 * r
    <2>1. \/ i = 14 + 2 * r \/ i = 15 + 2 * r \/ i = 16 + 2 * r \/ i = 17 + 2 * r \/ i = 18 + 2 * r
        BY <1>4
    <2>2. \A j \in {14, 15, 16, 17, 18, 19} :
             KindAt(r, j + 2 * r) = IF j = 14 THEN "MasterMainTableRows"
                                    ELSE IF j = 16 THEN "MasterAuxTableRows"
                                    ELSE IF j = 18 THEN "QuotientSegmentsElements"
                                    ELSE "AuthenticationStructure"
        BY DEF KindAt
    <2> QED BY <2>1, <2>2
<1> QED BY <1>1, <1>2, <1>3, <1>4

(***************************************************************************)
(* Two neighbours of a kind that arrived swapped were the same item: the   *)
(* trees that leafs and responses are of were those at one of the two.     *)
(***************************************************************************)
LEMMA SwappedAreSame ==
    ASSUME StarkInv, stage = "accepted",
           NEW i \in 1 .. (18 + 2 * R), Received[i] = Sent[i + 1], Received[i + 1] = Sent[i],
           \A j \in 1 .. (19 + 2 * R) : j # i /\ j # i + 1 => Received[j] = Sent[j]
    PROVE  Sent[i] = Sent[i + 1]
<1>1. /\ R \in Nat /\ NumRounds(config) = R /\ Len(Sent) = 19 + 2 * R
    BY ConfigurationFacts DEF StarkInv, ProverInv, ProverProgress, ProverAt, VerifierStages
<1>2. \A j \in 1 .. (19 + 2 * R) : IsOfKind(Sent[j], KindAt(R, j))
    BY <1>1 DEF StarkInv, ProverInv, SentItems, OfKinds
<1>3. \A j \in 1 .. (19 + 2 * R) : Received[j].kind = KindAt(R, j)
    BY DEF StarkInv, VerifierInv, VerifierProgress, VerifierAt, ReadItems, VerifierStages
<1>4. i \in 1 .. (19 + 2 * R) /\ i + 1 \in 1 .. (19 + 2 * R)
    BY <1>1
<1>5. KindAt(R, i) = KindAt(R, i + 1)
    <2>1. Received[i].kind = KindAt(R, i) /\ Sent[i + 1].kind = KindAt(R, i + 1)
        BY <1>2, <1>3, <1>4, KindOfItem
    <2> QED BY <2>1
<1>6. SUFFICES Sent[i].payload = Sent[i + 1].payload
    BY <1>2, <1>4, <1>5, SameItem
<1>7. PICK rounds : ResponsesAreIn(Sent, rounds)
    BY DEF StarkInv, ProverInv, ResponsesAreSent, VerifierStages
<1>8. /\ Len(verifier.rounds) = R + 1 /\ verifier.num_responses = R + 1
      /\ verifier.indices = SampledIndices(config, Received)
      /\ HalvedFrom(FriDomain(config), verifier.rounds)
      /\ \A k \in 2 .. (R + 1) :
            LET response == Received[12 + R + k].payload
                indices == BIndices(verifier.indices, verifier.rounds[k - 1].domain.length)
                root == Received[8 + k].payload
            IN  /\ response.auth_structure = AuthenticationStructure(root, indices)
                /\ \A a \in DOMAIN indices : response.revealed_leaves[a] = root[indices[a] + 1]
    <2>1. stage \in AfterRounds /\ stage \in VerifierStages
        BY DEF AfterRounds, VerifierStages
    <2>2. verifier.num_responses = R + 1
        BY <2>1 DEF StarkInv, VerifierInv, ResponsesAreRead
    <2>3. HalvedFrom(FriDomain(config), verifier.rounds)
        BY <2>1 DEF StarkInv, VerifierInv, RoundsAreRead
    <2> QED BY <2>1, <2>2, <2>3 DEF StarkInv, VerifierInv, ResponsesAreRead
<1>9. CASE i = 2
    <2>1. 15 + 2 * R \in 1 .. (19 + 2 * R) /\ 15 + 2 * R # 2 /\ 15 + 2 * R # 3 /\ 2 + 1 = 3
        BY <1>1
    <2>2. Received[15 + 2 * R].payload.tree = Received[2].payload
        BY DEF StarkInv, VerifierInv, LeafsAreRead
    <2>3. Sent[15 + 2 * R].payload.tree = Sent[2].payload
        BY DEF StarkInv, ProverInv, LeafsAreSent, VerifierStages
    <2> QED BY <1>9, <2>1, <2>2, <2>3
<1>10. CASE i = 3
    <2>1. 17 + 2 * R \in 1 .. (19 + 2 * R) /\ 17 + 2 * R # 3 /\ 17 + 2 * R # 4 /\ 3 + 1 = 4
        BY <1>1
    <2>2. Received[17 + 2 * R].payload.tree = Received[3].payload
        BY DEF StarkInv, VerifierInv, LeafsAreRead
    <2>3. Sent[17 + 2 * R].payload.tree = Sent[3].payload
        BY DEF StarkInv, ProverInv, LeafsAreSent, VerifierStages
    <2> QED BY <1>10, <2>1, <2>2, <2>3
<1>11. CASE i \in 10 .. (9 + R)
    <2> DEFINE k == i - 9
               j == 13 + R + k
               l == k + 1
    <2>1. /\ k \in 1 .. R /\ i = 9 + k /\ l \in 2 .. (R + 1) /\ 12 + R + l = j /\ 8 + l = i
          /\ j \in 1 .. (19 + 2 * R) /\ j # i /\ j # i + 1
        BY <1>1, <1>11
    <2> HIDE DEF k, j, l
    <2>2. Received[j] = Sent[j]
        BY <2>1
    <2>3. Sent[j].payload.auth_structure.tree = Sent[i].payload
        <3>1. Sent[13 + R + k].payload =
                  ResponseTo(Sent[9 + k].payload,
                             BIndices(SampledIndices(config, Sent), rounds[k].domain.length))
            BY <1>7, <2>1 DEF ResponsesAreIn
        <3> QED BY <2>1, <3>1 DEF j, ResponseTo, AuthenticationStructure
    <2>4. Received[j].payload.auth_structure.tree = Received[i].payload
        <3> DEFINE indices == BIndices(verifier.indices, verifier.rounds[l - 1].domain.length)
        <3>1. Received[12 + R + l].payload.auth_structure = AuthenticationStructure(Received[8 + l].payload, indices)
            BY <1>8, <2>1
        <3> HIDE DEF indices
        <3> QED BY <2>1, <3>1 DEF AuthenticationStructure
    <2> QED BY <2>2, <2>3, <2>4
<1>12. CASE i \in (13 + R) .. (12 + 2 * R)
    <2> DEFINE k == i - 12 - R
               l == k + 1
               root == Sent[9 + k].payload
               sampled == SampledIndices(config, Sent)
               indices == BIndices(sampled, rounds[k].domain.length)
               response == Sent[i].payload
    <2>1. /\ k \in 1 .. R /\ i = 12 + R + k /\ l \in 2 .. (R + 1) /\ 12 + R + l = i + 1 /\ 8 + l = 9 + k
          /\ 9 + k \in 1 .. (19 + 2 * R) /\ 9 + k # i /\ 9 + k # i + 1 /\ l - 1 = k /\ 13 + R + k = i + 1
          /\ k \in 1 .. (R + 1)
        BY <1>1, <1>12
    <2> HIDE DEF k, l
    <2>2. Sent[i + 1].payload = ResponseTo(root, indices)
        BY <1>7, <2>1 DEF ResponsesAreIn
    <2>3. verifier.indices = sampled
        <3>1. \A j \in 1 .. (10 + R) : j \in 1 .. (19 + 2 * R) /\ j # i /\ j # i + 1
            BY <1>1, <1>12
        <3> DEFINE m == 10 + R
                   n == 14 + 2 * R
        <3>2. /\ m \in Nat /\ n \in Nat /\ Covered(NumRounds(config), n, m) /\ NumRounds(config) \in Nat
              /\ \A j \in 1 .. m : Received[j] = Sent[j]
            BY <1>1, <3>1 DEF Covered
        <3> HIDE DEF m, n
        <3>3. Transcript(config, Received, n) = Transcript(config, Sent, n)
            BY <3>2, TranscriptOfPrefix
        <3> QED BY <1>1, <1>8, <3>3 DEF SampledIndices, n
    <2>4. verifier.rounds[k].domain = rounds[k].domain
        <3>1. HalvedFrom(FriDomain(config), rounds) /\ Len(rounds) = R + 1
            BY <1>7 DEF ResponsesAreIn
        <3> QED BY <1>1, <1>8, <2>1, <3>1, SameDomains
    <2>5. Received[9 + k].payload = root /\ Received[12 + R + l].payload = response
        BY <2>1
    <2>6. /\ response.auth_structure = AuthenticationStructure(root, indices)
          /\ \A a \in DOMAIN indices : response.revealed_leaves[a] = root[indices[a] + 1]
        <3> DEFINE received == BIndices(verifier.indices, verifier.rounds[l - 1].domain.length)
                   answer == Received[12 + R + l].payload
                   top == Received[8 + l].payload
        <3>1. /\ answer.auth_structure = AuthenticationStructure(top, received)
              /\ \A a \in DOMAIN received : answer.revealed_leaves[a] = top[received[a] + 1]
            BY <1>8, <2>1
        <3>2. received = indices
            BY <2>1, <2>3, <2>4
        <3>3. answer = response /\ top = root
            BY <2>1, <2>5
        <3> HIDE DEF received, answer, top, indices, response, root
        <3> QED BY <3>1, <3>2, <3>3
    <2>7. \E other, others : response = ResponseTo(other, others) /\ DOMAIN others = DOMAIN sampled
        <3>1. CASE k = 1
            <4>1. i = 13 + R
                BY <1>1, <2>1, <3>1
            <4>2. response = ResponseTo(Sent[10].payload, sampled)
                BY <1>7, <4>1 DEF ResponsesAreIn
            <4> QED BY <4>2
        <3>2. CASE k # 1
            <4> DEFINE h == k - 1
            <4>1. h \in 1 .. R /\ i = 13 + R + h
                BY <1>1, <2>1, <3>2
            <4> HIDE DEF h
            <4> DEFINE others == BIndices(sampled, rounds[h].domain.length)
            <4>2. response = ResponseTo(Sent[9 + h].payload, others)
                BY <1>7, <4>1 DEF ResponsesAreIn
            <4>3. DOMAIN others = DOMAIN sampled
                BY DEF BIndices
            <4> QED BY <4>2, <4>3
        <3> QED BY <3>1, <3>2
    <2>8. DOMAIN indices = DOMAIN sampled
        BY DEF BIndices
    <2> HIDE DEF root, sampled, indices, response
    <2>9. response = ResponseTo(root, indices)
        BY <2>6, <2>7, <2>8, SameResponse
    <2> QED BY <2>2, <2>9 DEF response
<1> QED BY <1>1, <1>5, <1>9, <1>10, <1>11, <1>12, NeighboursOfAKind

(***************************************************************************)
(* No other delivery of a proof is read to its end.                        *)
(***************************************************************************)
LEMMA AcceptedIsSent ==
    ASSUME StarkInv, stage = "accepted"
    PROVE  /\ Len(Received) >= 19 + 2 * R
           /\ \A j \in 1 .. (19 + 2 * R) : Received[j] = Sent[j]
<1> DEFINE n == 19 + 2 * R
           i == delivery.item
<1>1. R \in Nat /\ n \in Nat /\ IsSequence(Sent) /\ Len(Sent) = n /\ Len(Sent) > 0
    BY ConfigurationFacts
       DEF StarkInv, ProverInv, ProverProgress, ProverAt, VerifierStages, IsStream, Sent
<1>2. \A j \in 1 .. n : IsOfKind(Sent[j], KindAt(R, j))
    BY <1>1 DEF StarkInv, ProverInv, SentItems, OfKinds
<1>3. \A j \in 1 .. n : Received[j].kind = KindAt(R, j)
    BY DEF StarkInv, VerifierInv, VerifierProgress, VerifierAt, ReadItems, VerifierStages
<1>4. n <= Len(Received)
    BY DEF StarkInv, VerifierInv, VerifierTypeOK, VerifierProgress, VerifierAt
<1>5. delivery \in Deliveries(Len(Sent)) /\ Received = Delivered(Sent, delivery)
    BY DEF StarkInv, VerifierInv, DeliveryOK, VerifierStages
<1> HIDE DEF n, i
<1>6. \/ Received = Sent
      \/ Len(Received) = n - 1
      \/ /\ i \in 1 .. n
         /\ \A j \in 1 .. i : Received[j] = Sent[j]
         /\ \A j \in (i + 1) .. (n + 1) : Received[j] = Sent[j - 1]
      \/ /\ i \in 1 .. (n - 1)
         /\ Received[i] = Sent[i + 1] /\ Received[i + 1] = Sent[i]
         /\ \A j \in 1 .. n : j # i /\ j # i + 1 => Received[j] = Sent[j]
    BY <1>1, <1>5, DeliveredItems DEF i
<1>7. CASE Received = Sent
    BY <1>4, <1>7 DEF n
<1>8. CASE Len(Received) = n - 1
    BY <1>1, <1>4, <1>8
<1>9. CASE /\ i \in 1 .. n
           /\ \A j \in 1 .. i : Received[j] = Sent[j]
           /\ \A j \in (i + 1) .. (n + 1) : Received[j] = Sent[j - 1]
    <2>1. CASE i = n
        BY <1>4, <1>9, <2>1 DEF n
    <2>2. CASE i # n
        <3>1. n \in (i + 1) .. (n + 1) /\ n \in 1 .. n /\ n - 1 \in 1 .. n
            BY <1>1, <1>9, <2>2
        <3>2. KindAt(R, n) = KindAt(R, n - 1)
            <4>1. Received[n].kind = KindAt(R, n) /\ Sent[n - 1].kind = KindAt(R, n - 1)
                BY <1>2, <1>3, <3>1, KindOfItem
            <4>2. Received[n] = Sent[n - 1]
                BY <1>9, <3>1
            <4> QED BY <4>1, <4>2
        <3>3. KindAt(R, n) = "AuthenticationStructure" /\ KindAt(R, n - 1) = "QuotientSegmentsElements"
            BY <1>1 DEF KindAt, n
        <3> QED BY <3>2, <3>3
    <2> QED BY <2>1, <2>2
<1>10. CASE /\ i \in 1 .. (n - 1)
            /\ Received[i] = Sent[i + 1] /\ Received[i + 1] = Sent[i]
            /\ \A j \in 1 .. n : j # i /\ j # i + 1 => Received[j] = Sent[j]
    <2>1. i \in 1 .. (18 + 2 * R)
        BY <1>1, <1>10 DEF n
    <2>2. Sent[i] = Sent[i + 1]
        BY <1>10, <2>1, SwappedAreSame DEF n
    <2>3. \A j \in 1 .. n : Received[j] = Sent[j]
        BY <1>10, <2>2
    <2> QED BY <1>4, <2>3 DEF n
<1> QED BY <1>6, <1>7, <1>8, <1>9, <1>10

(***************************************************************************)
(* OnlyTheProofIsAccepted: for every proof, however many rounds FRI has,   *)
(* none of whose items is lost, repeated or swapped unnoticed              *)
(* (Verifier::verify).                                                     *)
(***************************************************************************)
THEOREM ProofIntegrity == Spec => []OnlyTheProofIsAccepted
<1>1. StarkInv => OnlyTheProofIsAccepted
    <2> SUFFICES ASSUME StarkInv, stage = "accepted"
                 PROVE  SubSeq(verifier.stream.items, 1, verifier.stream.items_index) = prover.stream.items
        BY DEF OnlyTheProofIsAccepted
    <2> DEFINE n == 19 + 2 * R
               read == SubSeq(Received, 1, n)
    <2>1. n \in Nat /\ n > 0 /\ IsSequence(Sent) /\ Len(Sent) = n
        BY ConfigurationFacts
           DEF StarkInv, ProverInv, ProverProgress, ProverAt, VerifierStages, IsStream, Sent
    <2>2. IsSequence(Received) /\ verifier.stream.items_index = n
        BY DEF StarkInv, VerifierInv, VerifierTypeOK, VerifierProgress, VerifierAt, IsStream, Received
    <2>3. n <= Len(Received) /\ \A j \in 1 .. n : Received[j] = Sent[j]
        BY <2>1, AcceptedIsSent
    <2> DEFINE first == 1
    <2> HIDE DEF n
    <2>4. /\ IsSequence(read) /\ Len(read) = n
          /\ \A j \in 1 .. n : read[j] = Received[j]
        <3>1. first \in 1 .. (Len(Received) + 1) /\ n \in (first - 1) .. Len(Received)
            BY <2>1, <2>2, <2>3 DEF IsSequence
        <3>2. /\ IsSequence(SubSeq(Received, first, n)) /\ Len(SubSeq(Received, first, n)) = n - first + 1
              /\ \A j \in 1 .. (n - first + 1) : SubSeq(Received, first, n)[j] = Received[first + j - 1]
            <4> HIDE DEF first
            <4> QED BY <2>2, <3>1, SubSequence
        <3>3. n - first + 1 = n /\ \A j \in 1 .. n : first + j - 1 = j
            BY <2>1
        <3> QED BY <3>2, <3>3
    <2> HIDE DEF read
    <2>5. read = Sent
        BY <2>1, <2>3, <2>4, SequencesEqual
    <2> QED BY <2>2, <2>5 DEF read, Received, Sent
<1> QED BY <1>1, StarkInvariance, PTL

(***************************************************************************)
(* A sequence that another continues.                                      *)
(***************************************************************************)
LEMMA PrefixOf ==
    ASSUME NEW s, IsSequence(s), NEW t, IsSequence(t), Len(s) <= Len(t),
           \A j \in 1 .. Len(s) : s[j] = t[j]
    PROVE  IsPrefix(s, t)
<1> DEFINE n == Len(s)
           first == 1
<1>1. n \in Nat /\ Len(t) \in Nat
    BY DEF IsSequence
<1>2. /\ first \in 1 .. (Len(s) + 1) /\ n \in (first - 1) .. Len(s)
      /\ first \in 1 .. (Len(t) + 1) /\ n \in (first - 1) .. Len(t)
    BY <1>1
<1>3. n - first + 1 = n /\ \A j \in 1 .. n : first + j - 1 = j
    BY <1>1
<1> HIDE DEF first, n
<1>4. /\ IsSequence(SubSeq(s, first, n)) /\ Len(SubSeq(s, first, n)) = n
      /\ \A j \in 1 .. n : SubSeq(s, first, n)[j] = s[j]
    BY <1>2, <1>3, SubSequence
<1>5. /\ IsSequence(SubSeq(t, first, n)) /\ Len(SubSeq(t, first, n)) = n
      /\ \A j \in 1 .. n : SubSeq(t, first, n)[j] = t[j]
    BY <1>2, <1>3, SubSequence
<1>6. SubSeq(s, first, n) = SubSeq(t, first, n)
    <2> DEFINE a == SubSeq(s, first, n)
               b == SubSeq(t, first, n)
    <2>1. /\ IsSequence(a) /\ IsSequence(b) /\ Len(a) = Len(b)
          /\ \A j \in 1 .. Len(a) : a[j] = b[j]
        BY <1>4, <1>5 DEF n
    <2> HIDE DEF a, b
    <2>2. a = b
        BY <2>1, SequencesEqual
    <2> QED BY <2>2 DEF a, b
<1> QED BY <1>6 DEF IsPrefix, first, n

(***************************************************************************)
(* SpongesAgree: of a proof that arrives as it was sent, the verifier's    *)
(* sponge passes through the states of the prover's, and of a proof that   *)
(* is accepted it ends in the same (ProofStream, Fri::verify).             *)
(***************************************************************************)
THEOREM SpongeAgreement == Spec => []SpongesAgree
<1>1. StarkInv => SpongesAgree
    <2> SUFFICES ASSUME StarkInv
                 PROVE  SpongesAgree
        OBVIOUS
    <2>1. R \in Nat /\ NumRounds(config) = R /\ IsSequence(prover.stream.sponge)
        BY ConfigurationFacts DEF StarkInv, ProverInv, IsStream
    <2>2. ASSUME stage \in {"refused"} \cup VerifierStages
          PROVE  prover.stream.sponge = Transcript(config, Sent, 16 + 2 * R)
        BY <2>2 DEF StarkInv, ProverInv, ProverProgress, ProverAt
    <2>3. ASSUME delivery = Intact
          PROVE  IsPrefix(verifier.stream.sponge, prover.stream.sponge)
        <3>1. CASE stage \in ProverStages \cup {"proof"}
            <4>1. verifier.stream.sponge = <<>>
                BY <3>1 DEF StarkInv, VerifierInv, DeliveryOK, NoVerifier, EmptyStream
            <4>2. Len(prover.stream.sponge) \in Nat
                BY <2>1 DEF IsSequence
            <4> QED BY <2>1, <4>1, <4>2, EmptySequence, PrefixOf
        <3>2. CASE stage \in {"refused"} \cup VerifierStages
            <4>1. PICK n \in 0 .. (16 + 2 * R) : verifier.stream.sponge = Transcript(config, Received, n)
                <5>1. CASE stage = "refused"
                    BY <2>3, <5>1 DEF StarkInv, VerifierInv, VerifierProgress
                <5>2. CASE stage = "fri_roots"
                    <6> DEFINE k == Len(verifier.rounds)
                               n == IF k <= R THEN 13 + 2 * k ELSE 12 + 2 * k
                    <6>1. VerifierAt(9 + k, n)
                        BY <5>2 DEF StarkInv, VerifierInv, VerifierProgress
                    <6>2. k \in 0 .. (R + 1)
                        BY <5>2 DEF StarkInv, VerifierInv, RoundsAreRead, VerifierStages
                    <6>3. n \in 0 .. (16 + 2 * R)
                        <7> HIDE DEF k
                        <7> QED BY <2>1, <6>2
                    <6> QED BY <6>1, <6>3 DEF VerifierAt
                <5>3. CASE stage \in {"refused"} \cup VerifierStages /\ stage \notin {"refused", "fri_roots"}
                    <6>1. {1, 3, 5, 7, 15 + 2 * R, 16 + 2 * R} \subseteq 0 .. (16 + 2 * R)
                        BY <2>1
                    <6>2. \E n \in {1, 3, 5, 7, 15 + 2 * R, 16 + 2 * R} :
                              verifier.stream.sponge = Transcript(config, Received, n)
                        BY <5>3 DEF StarkInv, VerifierInv, VerifierProgress, VerifierAt, VerifierStages
                    <6> QED BY <6>1, <6>2
                <5> QED BY <3>2, <5>1, <5>2, <5>3
            <4>2. Received = Sent
                BY <2>3, <3>2 DEF StarkInv, VerifierInv, DeliveryOK, Delivered, Intact
            <4> DEFINE s == Transcript(config, Sent, n)
                       t == Transcript(config, Sent, 16 + 2 * R)
            <4>3. IsSequence(s) /\ Len(s) = n /\ IsSequence(t) /\ Len(t) = 16 + 2 * R /\ n <= 16 + 2 * R
                BY <2>1, TranscriptIsSequence
            <4>4. \A j \in 1 .. n : s[j] = t[j]
                BY <2>1 DEF Transcript
            <4>5. verifier.stream.sponge = s /\ prover.stream.sponge = t
                BY <2>2, <3>2, <4>1, <4>2
            <4> HIDE DEF s, t
            <4>6. IsPrefix(s, t)
                BY <4>3, <4>4, PrefixOf
            <4> QED BY <4>5, <4>6
        <3>3. stage \in ProverStages \cup {"proof"} \cup {"refused"} \cup VerifierStages
            BY DEF StarkInv, ProverInv, ProverProgress
        <3> QED BY <3>1, <3>2, <3>3
    <2>4. ASSUME stage = "accepted"
          PROVE  verifier.stream.sponge = prover.stream.sponge
        <3> DEFINE m == 19 + 2 * R
                   n == 16 + 2 * R
        <3>1. verifier.stream.sponge = Transcript(config, Received, n)
            BY <2>4 DEF StarkInv, VerifierInv, VerifierProgress, VerifierAt
        <3>2. prover.stream.sponge = Transcript(config, Sent, n)
            BY <2>2, <2>4 DEF VerifierStages
        <3>3. /\ m \in Nat /\ n \in Nat /\ NumRounds(config) \in Nat /\ Covered(NumRounds(config), n, m)
              /\ \A j \in 1 .. m : Received[j] = Sent[j]
            BY <2>1, <2>4, AcceptedIsSent DEF Covered
        <3> HIDE DEF m, n
        <3>4. Transcript(config, Received, n) = Transcript(config, Sent, n)
            BY <3>3, TranscriptOfPrefix
        <3> QED BY <3>1, <3>2, <3>4
    <2> QED BY <2>3, <2>4 DEF SpongesAgree
<1> QED BY <1>1, StarkInvariance, PTL

================================================================================
