------------------------- MODULE LoggedMemory_proofs -------------------------
(***************************************************************************)
(* A logged memory keeps its promise: its log is coherent.                 *)
(***************************************************************************)
EXTENDS LoggedMemory, SequenceTheorems, TLAPS

LogTypeOK == contents \in [Address -> Value] /\ log \in Seq(Access)

\* The address of access i is written again behind it.
WrittenAfter(s, i) ==
    \E k \in (i + 1) .. Len(s) : s[k].ram_pointer = s[i].ram_pointer /\ s[k].is_write

(***************************************************************************)
(* Coherence relates accesses to each other, a step relates them to the    *)
(* contents.  The link: an address holds what was read or written at any   *)
(* time since it was last written.                                         *)
(***************************************************************************)
ContentsAreLogged ==
    \A i \in 1 .. Len(log) :
        ~WrittenAfter(log, i) => contents[log[i].ram_pointer] = log[i].ram_value

LogInv == LogTypeOK /\ ContentsAreLogged /\ LogIsCoherent

\* An empty log says nothing.
LEMMA InitKeepsLogInv == LogInit => LogInv
BY DEF LogInit, LogInv, LogTypeOK, ContentsAreLogged, LogIsCoherent

\* The log behind a batch: the old entries, then the batch's.
LEMMA LogWithBatch ==
    ASSUME LogTypeOK, LogsBatch, NEW b, b = Batch
    PROVE  /\ b \in Seq(Access) /\ Len(b) \in Nat /\ Len(log) \in Nat
           /\ log' \in Seq(Access)
           /\ Len(log') = Len(log) + Len(b)
           /\ \A i \in 1 .. Len(log) : log'[i] = log[i]
           /\ \A i \in (Len(log) + 1) .. Len(log') :
                  i - Len(log) \in DOMAIN b /\ log'[i] = b[i - Len(log)]
           /\ \A i \in 1 .. Len(log) : log[i] \in Access
           /\ \A i \in 1 .. Len(log') : log'[i] \in Access
<1>1. log \in Seq(Access) /\ b \in Seq(Access) /\ log' = log \o b
    BY DEF LogTypeOK, LogsBatch
<1>2. log' \in Seq(Access)
    BY <1>1, ConcatProperties
<1>3. /\ Len(log') = Len(log) + Len(b)
      /\ \A i \in 1 .. Len(log) + Len(b) :
             log'[i] = IF i <= Len(log) THEN log[i] ELSE b[i - Len(log)]
    BY <1>1, ConcatProperties
<1>4. Len(log) \in Nat /\ Len(b) \in Nat /\ DOMAIN b = 1 .. Len(b)
    BY <1>1, LenProperties
<1> HIDE DEF Batch
<1>5. \A i \in (Len(log) + 1) .. Len(log') :
          i - Len(log) \in DOMAIN b /\ log'[i] = b[i - Len(log)]
    BY <1>3, <1>4
<1>6. \A i \in 1 .. Len(log) : log'[i] = log[i]
    BY <1>3, <1>4
<1> QED
    BY <1>1, <1>2, <1>3, <1>4, <1>5, <1>6, ElementOfSeq

\* Batches are logged in the order of their clock cycles.
LEMMA ClocksAscend ==
    ASSUME LogInv, LogsBatch
    PROVE  \A i, j \in 1 .. Len(log') : i < j => log'[i].clk <= log'[j].clk
<1> DEFINE b == Batch
<1> SUFFICES ASSUME NEW i \in 1 .. Len(log'), NEW j \in 1 .. Len(log'), i < j
             PROVE  log'[i].clk <= log'[j].clk
    OBVIOUS
<1>1. /\ Len(log) \in Nat /\ Len(b) \in Nat /\ b \in Seq(Access)
      /\ Len(log') = Len(log) + Len(b)
      /\ \A k \in 1 .. Len(log) : log'[k] = log[k]
      /\ \A k \in (Len(log) + 1) .. Len(log') :
             k - Len(log) \in DOMAIN b /\ log'[k] = b[k - Len(log)]
      /\ \A k \in 1 .. Len(log) : log[k] \in Access
    BY LogWithBatch DEF LogInv
<1>2. /\ \A k \in DOMAIN b : b[k].clk = b[1].clk
      /\ log # <<>> => log[Len(log)].clk < b[1].clk
      /\ b # <<>>
    BY DEF LogsBatch
<1> HIDE DEF b
<1>3. b[1].clk \in Nat
    <2>1. 1 \in 1 .. Len(b)
        BY <1>1, <1>2, EmptySeq
    <2>2. b[1] \in Access
        BY <1>1, <2>1, ElementOfSeq
    <2> QED
        BY <2>2 DEF Access
<1>4. \A k, l \in 1 .. Len(log) : k < l => log[k].clk <= log[l].clk
    BY DEF LogInv, LogTypeOK, LogIsCoherent
<1>5. \A k \in 1 .. Len(log) : log[k].clk \in Nat
    BY <1>1 DEF Access
<1>6. CASE j <= Len(log)
    BY <1>1, <1>4, <1>6
<1>7. CASE i > Len(log)
    <2>1. i \in (Len(log) + 1) .. Len(log') /\ j \in (Len(log) + 1) .. Len(log')
        BY <1>1, <1>7
    <2>2. log'[i].clk = b[1].clk /\ log'[j].clk = b[1].clk
        BY <1>1, <1>2, <2>1
    <2> QED
        BY <1>3, <2>2
<1>8. CASE i <= Len(log) /\ j > Len(log)
    <2>1. log'[j].clk = b[1].clk /\ log'[i] = log[i]
        BY <1>1, <1>2, <1>8
    <2>2. log # <<>>
        BY <1>1, <1>8, EmptySeq
    <2>3. log[i].clk <= log[Len(log)].clk
        BY <1>1, <1>4, <1>5, <1>8
    <2> QED
        BY <1>1, <1>2, <1>3, <1>5, <1>8, <2>1, <2>2, <2>3
<1> QED
    BY <1>1, <1>6, <1>7, <1>8

\* What is not written again in the longer log is not in the shorter one.
LEMMA WrittenAfterGrows ==
    ASSUME LogTypeOK, LogsBatch, NEW i \in 1 .. Len(log), ~WrittenAfter(log', i)
    PROVE  ~WrittenAfter(log, i)
<1>1. /\ Len(log) \in Nat /\ Len(Batch) \in Nat
      /\ Len(log') = Len(log) + Len(Batch)
      /\ \A k \in 1 .. Len(log) : log'[k] = log[k]
    BY LogWithBatch
<1>2. \A k \in (i + 1) .. Len(log) : k \in (i + 1) .. Len(log') /\ k \in 1 .. Len(log)
    BY <1>1
<1> QED
    BY <1>1, <1>2 DEF WrittenAfter

(***************************************************************************)
(* A new read has the contents, which are what was last written: either    *)
(* the value of an old access, or that of another read of the batch.       *)
(***************************************************************************)
LEMMA ReadsKeepLogInv ==
    ASSUME LogInv, Reads
    PROVE  LogInv'
<1> DEFINE b == Batch
<1>1. LogsBatch /\ LogTypeOK /\ contents' = contents
    BY DEF LogInv, Reads
<1>2. /\ Len(log) \in Nat /\ Len(b) \in Nat /\ log' \in Seq(Access)
      /\ Len(log') = Len(log) + Len(b)
      /\ \A k \in 1 .. Len(log) : log'[k] = log[k]
      /\ \A k \in (Len(log) + 1) .. Len(log') :
             k - Len(log) \in DOMAIN b /\ log'[k] = b[k - Len(log)]
    BY <1>1, LogWithBatch
<1>3. \A k \in DOMAIN b : ~b[k].is_write /\ b[k].ram_value = contents[b[k].ram_pointer]
    BY DEF Reads
<1> HIDE DEF b
<1>4. LogTypeOK'
    BY <1>1, <1>2 DEF LogTypeOK
<1>5. ASSUME NEW i \in 1 .. Len(log'), ~WrittenAfter(log', i)
      PROVE  contents[log'[i].ram_pointer] = log'[i].ram_value
    <2>1. CASE i <= Len(log)
        <3>1. i \in 1 .. Len(log) /\ log'[i] = log[i]
            BY <1>2, <2>1
        <3>2. ~WrittenAfter(log, i)
            BY <1>1, <1>5, <3>1, WrittenAfterGrows
        <3> QED
            BY <3>1, <3>2 DEF LogInv, ContentsAreLogged
    <2>2. CASE i > Len(log)
        BY <1>2, <1>3, <2>2
    <2> QED
        BY <1>2, <2>1, <2>2
<1>6. ContentsAreLogged'
    BY <1>1, <1>5 DEF ContentsAreLogged
<1>7. ASSUME NEW i \in 1 .. Len(log'), NEW j \in 1 .. Len(log'), i < j,
             log'[i].ram_pointer = log'[j].ram_pointer,
             \A k \in (i + 1) .. j : log'[k].ram_pointer = log'[i].ram_pointer
                                         => ~log'[k].is_write
      PROVE  log'[j].ram_value = log'[i].ram_value
    <2>1. CASE j <= Len(log)
        <3>1. /\ i \in 1 .. Len(log) /\ j \in 1 .. Len(log)
              /\ \A k \in (i + 1) .. j : log'[k] = log[k]
              /\ log'[i] = log[i] /\ log'[j] = log[j]
            BY <1>2, <1>7, <2>1
        <3>2. LogIsCoherent /\ DOMAIN log = 1 .. Len(log)
            BY <1>1, LenProperties DEF LogInv, LogTypeOK
        <3> QED
            BY <1>7, <3>1, <3>2 DEF LogIsCoherent
    <2>2. CASE j > Len(log)
        <3>1. ~log'[j].is_write /\ log'[j].ram_value = contents[log'[j].ram_pointer]
            <4>1. j \in (Len(log) + 1) .. Len(log')
                BY <1>2, <2>2
            <4> QED
                BY <1>2, <1>3, <4>1
        \* behind j, there is the rest of a batch that only reads
        <3>2. \A k \in (j + 1) .. Len(log') : ~log'[k].is_write
            BY <1>2, <1>3, <2>2
        <3>3. ~WrittenAfter(log', i)
            BY <1>2, <1>7, <3>2 DEF WrittenAfter
        <3> QED
            BY <1>5, <1>7, <3>1, <3>3
    <2> QED
        BY <1>2, <2>1, <2>2
<1>8. LogIsCoherent'
    <2>1. DOMAIN log' = 1 .. Len(log')
        BY <1>2, LenProperties
    <2> QED
        BY <1>1, <1>7, <2>1, ClocksAscend DEF LogIsCoherent
<1> QED
    BY <1>4, <1>6, <1>8 DEF LogInv

(***************************************************************************)
(* A new write ends what was known of its address, and the contents are    *)
(* what it wrote, since no other write of the batch has its address.       *)
(***************************************************************************)
LEMMA WritesKeepLogInv ==
    ASSUME LogInv, Writes
    PROVE  LogInv'
<1> DEFINE b == Batch
           written(a) == \E k \in DOMAIN b : b[k].ram_pointer = a
<1>1. LogsBatch /\ LogTypeOK
    BY DEF LogInv, Writes
<1>2. /\ Len(log) \in Nat /\ Len(b) \in Nat /\ b \in Seq(Access) /\ log' \in Seq(Access)
      /\ Len(log') = Len(log) + Len(b)
      /\ \A k \in 1 .. Len(log) : log'[k] = log[k]
      /\ \A k \in (Len(log) + 1) .. Len(log') :
             k - Len(log) \in DOMAIN b /\ log'[k] = b[k - Len(log)]
      /\ \A k \in 1 .. Len(log') : log'[k] \in Access
    BY <1>1, LogWithBatch
<1>3. /\ \A k \in DOMAIN b : b[k].is_write
      /\ \A j, k \in DOMAIN b : b[j].ram_pointer = b[k].ram_pointer => j = k
      /\ contents' = [a \in Address |->
             IF written(a)
             THEN b[CHOOSE k \in DOMAIN b : b[k].ram_pointer = a].ram_value
             ELSE contents[a]]
    BY DEF Writes
<1> HIDE DEF b
<1>4. DOMAIN b = 1 .. Len(b) /\ \A k \in DOMAIN b : b[k] \in Access
    BY <1>2, LenProperties, ElementOfSeq
<1>5. ASSUME NEW k \in DOMAIN b
      PROVE  contents'[b[k].ram_pointer] = b[k].ram_value
    <2> DEFINE a == b[k].ram_pointer
               chosen == CHOOSE l \in DOMAIN b : b[l].ram_pointer = a
    <2>1. chosen \in DOMAIN b /\ b[chosen].ram_pointer = a
        OBVIOUS
    <2>2. chosen = k
        BY <1>3, <2>1
    <2>3. a \in Address /\ written(a)
        BY <1>4 DEF Access
    <2> QED
        BY <1>3, <2>2, <2>3
<1>6. ASSUME NEW a \in Address, ~written(a)
      PROVE  contents'[a] = contents[a]
    BY <1>3, <1>6
<1>7. contents' \in [Address -> Value]
    <2>1. \A a \in Address : contents'[a] \in Value
        <3> SUFFICES ASSUME NEW a \in Address PROVE contents'[a] \in Value
            OBVIOUS
        <3>1. CASE written(a)
            BY <1>4, <1>5, <3>1 DEF Access
        <3>2. CASE ~written(a)
            BY <1>1, <1>6, <3>2 DEF LogTypeOK
        <3> QED
            BY <3>1, <3>2
    <2> QED
        BY <1>3, <2>1
<1> HIDE DEF written
<1>8. ASSUME NEW i \in 1 .. Len(log'), ~WrittenAfter(log', i)
      PROVE  contents'[log'[i].ram_pointer] = log'[i].ram_value
    <2>1. CASE i <= Len(log)
        <3>1. i \in 1 .. Len(log) /\ log'[i] = log[i] /\ log[i].ram_pointer \in Address
            BY <1>2, <2>1 DEF Access
        <3>2. ~WrittenAfter(log, i)
            BY <1>1, <1>8, <3>1, WrittenAfterGrows
        <3>3. ~written(log[i].ram_pointer)
            <4>1. SUFFICES ASSUME NEW k \in DOMAIN b, b[k].ram_pointer = log[i].ram_pointer
                           PROVE  FALSE
                BY DEF written
            <4>2. /\ Len(log) + k \in (i + 1) .. Len(log')
                  /\ Len(log) + k \in (Len(log) + 1) .. Len(log')
                  /\ (Len(log) + k) - Len(log) = k
                BY <1>2, <1>4, <2>1
            <4>3. log'[Len(log) + k] = b[k]
                BY <1>2, <4>2
            <4> QED
                BY <1>3, <1>8, <3>1, <4>1, <4>2, <4>3 DEF WrittenAfter
        <3> QED
            BY <1>6, <3>1, <3>2, <3>3 DEF LogInv, ContentsAreLogged
    <2>2. CASE i > Len(log)
        BY <1>2, <1>5, <2>2
    <2> QED
        BY <1>2, <2>1, <2>2
<1>9. ContentsAreLogged'
    BY <1>8 DEF ContentsAreLogged
<1>10. ASSUME NEW i \in 1 .. Len(log'), NEW j \in 1 .. Len(log'), i < j,
              log'[i].ram_pointer = log'[j].ram_pointer,
              \A k \in (i + 1) .. j : log'[k].ram_pointer = log'[i].ram_pointer
                                          => ~log'[k].is_write
       PROVE  log'[j].ram_value = log'[i].ram_value
    <2>1. CASE j <= Len(log)
        <3>1. /\ i \in 1 .. Len(log) /\ j \in 1 .. Len(log)
              /\ \A k \in (i + 1) .. j : log'[k] = log[k]
              /\ log'[i] = log[i] /\ log'[j] = log[j]
            BY <1>2, <1>10, <2>1
        <3>2. LogIsCoherent /\ DOMAIN log = 1 .. Len(log)
            BY <1>1, LenProperties DEF LogInv, LogTypeOK
        <3> QED
            BY <1>10, <3>1, <3>2 DEF LogIsCoherent
    \* a batch of writes leaves no access since the last write
    <2>2. CASE j > Len(log)
        BY <1>2, <1>3, <1>10, <2>2
    <2> QED
        BY <1>2, <2>1, <2>2
<1>11. LogIsCoherent'
    <2>1. DOMAIN log' = 1 .. Len(log')
        BY <1>2, LenProperties
    <2> QED
        BY <1>1, <1>10, <2>1, ClocksAscend DEF LogIsCoherent
<1> QED
    BY <1>2, <1>7, <1>9, <1>11 DEF LogInv, LogTypeOK

(***************************************************************************)
(* Whoever logs batches as Reads and Writes do has a coherent log: what    *)
(* the RAM table testifies to, if the virtual machine's RAM is such a      *)
(* memory.                                                                 *)
(***************************************************************************)
THEOREM Coherence == LogSpec => []LogIsCoherent
<1>1. LogInv /\ [LogNext]_logVars => LogInv'
    <2>1. CASE UNCHANGED logVars
        BY <2>1 DEF logVars, LogInv, LogTypeOK, ContentsAreLogged, WrittenAfter, LogIsCoherent
    <2> QED
        BY <2>1, ReadsKeepLogInv, WritesKeepLogInv DEF LogNext
<1>2. LogInv => LogIsCoherent
    BY DEF LogInv
<1> QED
    BY <1>1, <1>2, InitKeepsLogInv, PTL DEF LogSpec
==============================================================================
