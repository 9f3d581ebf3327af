-------------------------- MODULE ProcessorAir_proofs --------------------------
(***************************************************************************)
(* The rows the virtual machine records satisfy the constraints of the     *)
(* processor table, the constraints leave no register of the next row      *)
(* open, and the prover extends the auxiliary columns as the constraints   *)
(* demand: for every program, every input and every number of registers.   *)
(* One lemma per instruction compares what its action does to the state    *)
(* with what its constraints say about two rows; the first theorem puts    *)
(* them together with the first row, the last row and the padding.         *)
(***************************************************************************)
EXTENDS Arguments_proofs, ProcessorExtension
LOCAL S == INSTANCE SequencesExt
------------------------------------------------------------------------------
(* Arithmetic of the field. *)

\* Numbers that differ by a multiple of n have the same remainder.
LEMMA CongruentRemainders ==
    ASSUME NEW n \in Nat \ {0}, NEW x \in Int, NEW y \in Int, NEW k \in Int, x = n * k + y
    PROVE  x % n = y % n
<1>1. \A z \in Int : /\ z \div n \in Int /\ z % n \in 0 .. (n - 1)
                     /\ z = n * (z \div n) + (z % n)
    OBVIOUS
<1>2. PICK q1 \in Int, r1 \in 0 .. (n - 1) : r1 = x % n /\ x = n * q1 + r1
    BY <1>1
<1>3. PICK q2 \in Int, r2 \in 0 .. (n - 1) : r2 = y % n /\ y = n * q2 + r2
    BY <1>1
<1>4. PICK q \in Int : q = q1 - q2 - k
    OBVIOUS
<1>5. n * q = r2 - r1
    <2>1. n * q = n * q1 - n * q2 - n * k
        BY <1>4
    <2>2. PICK x1 \in Int, x2 \in Int, x3 \in Int : x1 = n * q1 /\ x2 = n * q2 /\ x3 = n * k
        OBVIOUS
    <2>3. x = x1 + r1 /\ y = x2 + r2 /\ x = x3 + y
        BY <1>2, <1>3, <2>2
    <2>4. x1 - x2 - x3 = r2 - r1
        BY <2>3
    <2> QED BY <2>1, <2>2, <2>4
<1>6. q = 0
    <2>1. q >= 1 => n * q >= n
        OBVIOUS
    <2>2. q <= -1 => n * q <= -n
        OBVIOUS
    <2> QED BY <1>5, <2>1, <2>2
<1> QED BY <1>2, <1>3, <1>5, <1>6

\* Reducing a factor does not change the reduced product.
LEMMA ReducedProduct ==
    ASSUME NEW n \in Nat \ {0}, NEW a \in Int, NEW b \in Int
    PROVE  (a * b) % n = (a * (b % n)) % n
<1>1. PICK q \in Int, r \in Int : r = b % n /\ b = n * q + r
    OBVIOUS
<1>2. a * b = n * (a * q) + a * r
    <2>1. a * b = a * (n * q + r)
        BY <1>1
    <2>2. a * (n * q + r) = n * (a * q) + a * r
        OBVIOUS
    <2> QED BY <2>1, <2>2
<1>3. PICK x \in Int, y \in Int, k \in Int : x = a * b /\ y = a * r /\ k = a * q
    OBVIOUS
<1>4. x = n * k + y
    BY <1>2, <1>3
<1>5. x % n = y % n
    BY <1>4, CongruentRemainders
<1> QED BY <1>1, <1>3, <1>5

\* Numbers of the field are different if their difference is.
LEMMA FieldDifference ==
    ASSUME NEW a \in Field, NEW b \in Field
    PROVE  Minus(a, b) \in Field /\ (Minus(a, b) = 0 <=> a = b)
<1>1. PICK p \in Nat \ {0} : p = P
    BY FieldFacts
<1>2. a \in 0 .. (p - 1) /\ b \in 0 .. (p - 1)
    BY <1>1 DEF Field
<1>3. Minus(a, b) = (a - b) % p
    BY <1>1 DEF Minus
<1>4. PICK q \in Int, r \in 0 .. (p - 1) : r = (a - b) % p /\ a - b = p * q + r
    <2>1. \A z \in Int : /\ z \div p \in Int /\ z % p \in 0 .. (p - 1)
                         /\ z = p * (z \div p) + (z % p)
        OBVIOUS
    <2>2. a - b \in Int
        BY <1>2
    <2> QED BY <2>1, <2>2
<1>5. r = 0 => a = b
    <2> SUFFICES ASSUME r = 0 PROVE a = b
        OBVIOUS
    <2>1. p * q = a - b
        BY <1>2, <1>4
    <2>2. (q >= 1 => p * q >= p) /\ (q <= -1 => p * q <= -p)
        OBVIOUS
    <2>3. q = 0
        BY <1>2, <2>1, <2>2
    <2> QED BY <1>2, <2>1, <2>3
<1>6. a = b => r = 0
    BY <1>2, <1>4
<1>7. r \in Field
    BY <1>1 DEF Field
<1> QED BY <1>3, <1>4, <1>5, <1>6, <1>7

\* What lies in the field is its own remainder.
LEMMA InField == \A a \in Field : a % P = a /\ a \in Nat
BY FieldFacts, ReducedIsUnchanged
------------------------------------------------------------------------------
(* Rows that show two stacks. *)

RowsShow(t, s, u) ==
    /\ IsSequence(s) /\ Len(s) >= NumRegisters /\ Len(s) < P
    /\ IsSequence(u) /\ Len(u) >= NumRegisters /\ Len(u) < P
    /\ t.cur.op_stack_pointer = Len(s) /\ t.next.op_stack_pointer = Len(u)
    /\ \A k \in 1 .. NumRegisters : t.cur.st[k] = s[Len(s) - (k - 1)]
    /\ \A k \in 1 .. NumRegisters : t.next.st[k] = u[Len(u) - (k - 1)]

\* The registers after n elements were popped and m, `tops`, pushed.
Replaced(t, n, m, tops) ==
    /\ t.next.op_stack_pointer = t.cur.op_stack_pointer - n + m
    /\ \A k \in 1 .. m : t.next.st[k] = tops[k]
    /\ \A k \in (m + 1) .. NumRegisters :
           k - m + n <= NumRegisters => t.next.st[k] = t.cur.st[k - m + n]

\* Cutting n elements off a stack and appending m, seen through the registers.
LEMMA ReplacedStack ==
    ASSUME NEW t, NEW s, NEW u, RowsShow(t, s, u),
           NEW n \in 0 .. NumRegisters, NEW m \in 0 .. NumRegisters, NEW tops,
           u = SubSeq(s, 1, Len(s) - n) \o [k \in 1 .. m |-> tops[m + 1 - k]]
    PROVE  Replaced(t, n, m, tops)
<1>1. PICK r \in Nat : r = NumRegisters
    BY RegisterAssumption
<1>2. IsSequence(s) /\ Len(s) \in Nat /\ Len(s) >= r
    BY <1>1 DEF RowsShow, IsSequence
<1>3. n \in 0 .. r /\ m \in 0 .. r /\ n \in Nat /\ m \in Nat /\ n <= r
    BY <1>1
<1>4. PICK l \in Nat : l = Len(s) - n /\ l <= Len(s)
    <2>1. PICK d \in Nat : d = Len(s) /\ d >= r
        BY <1>2
    <2>2. d - n \in Nat /\ d - n <= d
        BY <1>3, <2>1
    <2> QED BY <2>1, <2>2
<1> DEFINE a == SubSeq(s, 1, l)
           v == [k \in 1 .. m |-> tops[m + 1 - k]]
<1>5. IsSequence(a) /\ Len(a) = l /\ \A i \in 1 .. l : a[i] = s[i]
    <2>1. IsSequence(s) /\ 1 \in 1 .. (Len(s) + 1) /\ l \in (1 - 1) .. Len(s)
        BY <1>2, <1>4
    <2>2. /\ IsSequence(SubSeq(s, 1, l)) /\ Len(SubSeq(s, 1, l)) = l - 1 + 1
          /\ \A i \in 1 .. (l - 1 + 1) : SubSeq(s, 1, l)[i] = s[1 + i - 1]
        BY ONLY <2>1, SubSequence
    <2>3. l - 1 + 1 = l /\ \A i \in 1 .. l : 1 + i - 1 = i
        OBVIOUS
    <2> QED BY <2>2, <2>3
<1>6. IsSequence(v) /\ Len(v) = m
    <2>1. v = [k \in 1 .. m |-> v[k]]
        OBVIOUS
    <2> HIDE DEF v
    <2> QED BY <1>3, <2>1, IndexedSequence
<1>7. u = a \o v
    BY <1>4
<1>8. \A k \in 1 .. m : v[m + 1 - k] = tops[k]
    <2>1. \A k \in 1 .. m : m + 1 - k \in 1 .. m /\ m + 1 - (m + 1 - k) = k
        BY <1>3
    <2> QED BY <2>1
<1> HIDE DEF a, v
<1>9. Len(u) = l + m /\ (\A i \in 1 .. m : u[l + i] = v[i]) /\ (\A i \in 1 .. l : u[i] = s[i])
    <2>0. IsSequence(a) /\ IsSequence(v)
        BY <1>5, <1>6
    <2>1. /\ Len(a \o v) = Len(a) + Len(v)
          /\ \A i \in 1 .. Len(v) : (a \o v)[Len(a) + i] = v[i]
          /\ \A i \in 1 .. Len(a) : (a \o v)[i] = a[i]
        BY ONLY <2>0, ConcatenatedSequence
    <2> QED BY <1>5, <1>6, <1>7, <2>1
<1>10. ASSUME NEW k \in 1 .. m PROVE t.next.st[k] = tops[k]
    <2>1. m + 1 - k \in 1 .. m /\ l + (m + 1 - k) = l + m - (k - 1) /\ k \in 1 .. r
        BY <1>3
    <2>2. u[l + (m + 1 - k)] = tops[k]
        BY <1>8, <1>9, <2>1
    <2>3. u[Len(u) - (k - 1)] = tops[k]
        <3>1. Len(u) = l + m
            BY <1>9
        <3> QED BY ONLY <2>1, <2>2, <3>1
    <2> QED BY <1>1, <2>1, <2>3 DEF RowsShow
<1>11. ASSUME NEW k \in (m + 1) .. r, k - m + n <= r
       PROVE  t.next.st[k] = t.cur.st[k - m + n]
    <2>1. PICK j \in 1 .. r : j = k - m + n
        BY <1>3, <1>11
    <2>2. PICK i \in Int : i = l + m - (k - 1) /\ i \in 1 .. l
        <3>1. l + n >= r /\ k >= m + 1 /\ k - m + n <= r
            BY <1>2, <1>4, <1>11
        <3> QED BY <1>3, <3>1
    <2>3. i = Len(s) - (j - 1)
        <3>1. PICK d \in Nat : d = Len(s) /\ l = d - n
            BY <1>2, <1>4
        <3> QED BY <1>3, <2>1, <2>2, <3>1
    <2>4. u[Len(u) - (k - 1)] = s[Len(s) - (j - 1)]
        <3>1. u[i] = s[i]
            BY <1>9, <2>2
        <3>2. Len(u) = l + m
            BY <1>9
        <3>3. i = Len(u) - (k - 1)
            BY ONLY <2>2, <3>2
        <3> QED BY <2>3, <3>1, <3>3
    <2>5. k \in 1 .. r
        BY <1>3
    <2> QED BY <1>1, <2>1, <2>4, <2>5 DEF RowsShow
<1>12. t.next.op_stack_pointer = t.cur.op_stack_pointer - n + m
    BY <1>4, <1>9 DEF RowsShow
<1> QED BY <1>1, <1>10, <1>11, <1>12 DEF Replaced

\* The groups of constraints on the stack that replacing its top satisfies.
LEMMA ReplacedGroups ==
    ASSUME NEW t, NEW s, NEW u, RowsShow(t, s, u),
           NEW n \in 0 .. NumRegisters, NEW m \in 0 .. NumRegisters, NEW tops,
           Replaced(t, n, m, tops), NEW d \in Nat
    PROVE  /\ m = n => RemainsExceptTop(t, n)
           /\ m = n + d => Grows(t, d, m)
           /\ n = m + d => Shrinks(t, d, m)
<1>1. PICK r \in Nat : r = NumRegisters
    BY RegisterAssumption
<1>2. n \in 0 .. r /\ m \in 0 .. r /\ n \in Nat /\ m \in Nat
    BY <1>1
<1>3. PICK a \in Nat, b \in Nat : a = t.cur.op_stack_pointer /\ b = t.next.op_stack_pointer
    BY DEF RowsShow, IsSequence
<1>4. b = a - n + m
    BY <1>3 DEF Replaced
<1>5. b % P = b
    <2>1. b < P /\ P \in Nat
        BY <1>3, FieldFacts DEF RowsShow
    <2>2. b \in Field
        BY <2>1 DEF Field
    <2> QED BY <2>2, InField
<1>6. \A k \in (m + 1) .. r : k - m + n <= r => t.next.st[k] = t.cur.st[k - m + n]
    BY <1>1 DEF Replaced
<1>7. ASSUME m = n PROVE RemainsExceptTop(t, n)
    <2>1. a = b
        BY <1>2, <1>4, <1>7
    <2>2. ASSUME NEW k \in (n + 1) .. r PROVE t.next.st[k] = t.cur.st[k]
        <3>1. k \in (m + 1) .. r /\ k - m + n = k /\ k <= r
            BY <1>2, <1>7
        <3> QED BY <1>6, <3>1
    <2> QED BY <1>1, <1>3, <2>1, <2>2 DEF RemainsExceptTop
<1>8. ASSUME m = n + d PROVE Grows(t, d, m)
    <2>1. b = a + d
        BY <1>2, <1>4, <1>8
    <2>2. t.next.op_stack_pointer = Plus(t.cur.op_stack_pointer, d)
        BY <1>3, <1>5, <2>1 DEF Plus
    <2>3. ASSUME NEW k \in (m + 1) .. r PROVE t.next.st[k] = t.cur.st[k - d]
        <3>1. k - m + n = k - d /\ k - d <= r
            BY <1>2, <1>8
        <3> QED BY <1>6, <3>1
    <2> QED BY <1>1, <2>2, <2>3 DEF Grows
<1>9. ASSUME n = m + d PROVE Shrinks(t, d, m)
    <2>1. b = a - d
        BY <1>2, <1>4, <1>9
    <2>2. t.next.op_stack_pointer = Minus(t.cur.op_stack_pointer, d)
        BY <1>3, <1>5, <2>1 DEF Minus
    <2>3. ASSUME NEW k \in (m + 1) .. (r - d) PROVE t.next.st[k] = t.cur.st[k + d]
        <3>1. k - m + n = k + d /\ k + d <= r /\ k \in (m + 1) .. r
            BY <1>2, <1>9
        <3> QED BY <1>6, <3>1
    <2> QED BY <1>1, <2>2, <2>3 DEF Shrinks
<1> QED BY <1>7, <1>8, <1>9

(***************************************************************************)
(* A step that succeeds, and the two rows it connects.                     *)
(***************************************************************************)
AirStep(t) ==
    /\ VMTypeOK /\ VMTypeOK' /\ StepCompletes /\ error' = NoError
    /\ t.cur = ProcessorRow /\ t.next = ProcessorRow'
    /\ RowsShow(t, op_stack, op_stack')
    /\ Len(jump_stack) + 1 < P

\* The registers of the first row are what the instruction sees of the stack.
LEMMA CurrentRegisters ==
    ASSUME NEW t, AirStep(t)
    PROVE  /\ \A k \in 1 .. NumRegisters : t.cur.st[k] = St(k - 1) /\ St(k - 1) \in Field
           /\ \A k \in 0 .. (NumRegisters - 1) : t.cur.st[k + 1] = St(k) /\ St(k) \in Field
           /\ t.cur.st = Tops(0, NumRegisters)
           /\ IsSequence(t.cur.st) /\ Len(t.cur.st) = NumRegisters
           /\ IsSequence(t.next.st) /\ Len(t.next.st) = NumRegisters
<1>1. VMTypeOK /\ VMTypeOK' /\ t.cur = ProcessorRow /\ t.next = ProcessorRow'
    BY DEF AirStep
<1>2. RowShape /\ RowShape'
    BY <1>1, RowFacts, NextRowFacts
<1>3. PICK r \in Nat : r = NumRegisters
    BY RegisterAssumption
<1>4. \A k \in 0 .. (r - 1) : St(k) \in Field
    BY <1>1, <1>3, DepthFacts
<1>5. \A k \in 1 .. r : k - 1 \in 0 .. (r - 1)
    BY <1>3
<1>6. \A k \in 0 .. (r - 1) : k + 1 \in 1 .. r /\ (k + 1) - 1 = k
    BY <1>3
<1>7. \A k \in 1 .. r : t.cur.st[k] = St(k - 1)
    BY <1>1, <1>2, <1>3 DEF RowShape
<1>8. \A k \in 0 .. (r - 1) : t.cur.st[k + 1] = St(k)
    BY <1>6, <1>7
<1>9. t.cur.st = Tops(0, NumRegisters)
    BY <1>1, <1>2 DEF RowShape
<1>10. PICK x, y : x = t.cur.st /\ y = t.next.st
    OBVIOUS
<1>11. x = [k \in 1 .. r |-> x[k]] /\ y = [k \in 1 .. r |-> y[k]]
    BY <1>1, <1>2, <1>3, <1>10 DEF RowShape, Tops
<1>12. IsSequence(x) /\ Len(x) = r /\ IsSequence(y) /\ Len(y) = r
    BY ONLY <1>11, <1>3, IndexedSequence
<1> QED BY <1>3, <1>4, <1>5, <1>7, <1>8, <1>9, <1>10, <1>12

\* What replacing the top of the stack means for the rows.
LEMMA ReplaceInRows ==
    ASSUME NEW t, AirStep(t), NEW n \in 0 .. NumRegisters, NEW m \in 0 .. NumRegisters,
           NEW tops, Len(tops) = m, Replace(n, tops)
    PROVE  /\ Replaced(t, n, m, tops)
           /\ m = n => RemainsExceptTop(t, n)
           /\ \A d \in Nat : m = n + d => Grows(t, d, m)
           /\ \A d \in Nat : n = m + d => Shrinks(t, d, m)
<1>1. PICK s, u : s = op_stack /\ u = op_stack'
    OBVIOUS
<1>2. RowsShow(t, s, u)
    BY <1>1 DEF AirStep
<1>3. u = SubSeq(s, 1, Len(s) - n) \o [k \in 1 .. m |-> tops[m + 1 - k]]
    BY <1>1 DEF Replace, StackBecomes, Below
<1>4. Replaced(t, n, m, tops)
    BY <1>2, <1>3, ReplacedStack
<1>5. \A d \in Nat : /\ m = n => RemainsExceptTop(t, n)
                     /\ m = n + d => Grows(t, d, m)
                     /\ n = m + d => Shrinks(t, d, m)
    BY <1>2, <1>4, ReplacedGroups
<1>6. 0 \in Nat
    OBVIOUS
<1> QED BY <1>4, <1>5, <1>6

\* What leaving the stack alone means for them.
LEMMA UnchangedInRows ==
    ASSUME NEW t, AirStep(t), StackUnchanged
    PROVE  KeepOpStack(t)
<1>1. op_stack' = op_stack
    BY DEF StackUnchanged, StackBecomes
<1>2. RowsShow(t, op_stack, op_stack)
    BY <1>1 DEF AirStep
<1>3. \A k \in (0 + 1) .. NumRegisters : k \in 1 .. NumRegisters
    OBVIOUS
<1> QED BY <1>2, <1>3 DEF RowsShow, KeepOpStack, RemainsExceptTop

\* What rewriting elements in place means for them.
LEMMA RewrittenInRows ==
    ASSUME NEW t, AirStep(t), NEW x, NEW pops, NEW pushes, StackBecomes(x, pops, pushes),
           x = [k \in 1 .. Len(op_stack) |-> x[k]]
    PROVE  /\ t.next.op_stack_pointer = t.cur.op_stack_pointer
           /\ \A k \in 1 .. NumRegisters : t.next.st[k] = x[Len(op_stack) - (k - 1)]
<1>1. Len(op_stack) \in Nat
    BY DEF AirStep, VMTypeOK
<1>2. Len(x) = Len(op_stack)
    BY <1>1, IndexedSequence
<1>3. op_stack' = x
    BY DEF StackBecomes
<1> QED BY <1>2, <1>3 DEF AirStep, RowsShow

\* Where execution continues, and that the jump stack stays.
LEMMA KeptJumpStack ==
    ASSUME NEW t, AirStep(t), jump_stack' = jump_stack
    PROVE  KeepJumpStack(t)
<1>1. JumpStackTop' = JumpStackTop
    BY DEF JumpStackTop
<1> QED BY <1>1 DEF AirStep, ProcessorRow, KeepJumpStack

\* A step that completes shows where it goes.
LEMMA InstructionPointers ==
    ASSUME NEW t, AirStep(t), NEW target, Completes(target)
    PROVE  /\ t.cur.ip = instruction_pointer % P
           /\ t.next.ip = target % P
           /\ instruction_pointer \in Nat
           /\ \A n \in Nat : target = instruction_pointer + n => IpIncreasesBy(t, n)
<1>1. t.cur.ip = instruction_pointer % P /\ t.next.ip = instruction_pointer' % P
    BY DEF AirStep, ProcessorRow
<1>2. instruction_pointer' = target /\ instruction_pointer \in Nat
    BY DEF Completes, AirStep, VMTypeOK
<1>3. ASSUME NEW n \in Nat, target = instruction_pointer + n PROVE IpIncreasesBy(t, n)
    <2>1. P \in Nat \ {0} /\ instruction_pointer \in Int /\ n \in Int
        BY <1>2, FieldFacts
    <2>2. ((instruction_pointer % P) + n) % P = (instruction_pointer + n) % P
        BY ONLY <2>1, ReducedSum
    <2> QED BY <1>1, <1>2, <1>3, <2>2 DEF IpIncreasesBy, Plus
<1> QED BY <1>1, <1>2, <1>3

\* An instruction that moves on to the next one.
LEMMA MovesOn ==
    ASSUME NEW t, AirStep(t), Completes(NextAddress), jump_stack' = jump_stack
    PROVE  /\ CurrentInstruction.op \in SingleWordOps => Step1(t)
           /\ CurrentInstruction.op \in DoubleWordOps => Step2(t)
<1>1. KeepJumpStack(t)
    BY KeptJumpStack
<1>2. \A n \in Nat : NextAddress = instruction_pointer + n => IpIncreasesBy(t, n)
    BY InstructionPointers
<1>3. CurrentInstruction.op \in DoubleWordOps => NextAddress = instruction_pointer + 2
    BY DEF NextAddress, Size, HasArg
<1>4. CurrentInstruction.op \in SingleWordOps => CurrentInstruction.op \notin DoubleWordOps
    BY DEF SingleWordOps, DoubleWordOps, NumWordsOps, RegisterOps, ElementOps
<1>5. CurrentInstruction.op \in SingleWordOps => NextAddress = instruction_pointer + 1
    BY <1>4 DEF NextAddress, Size, HasArg
<1>6. 1 \in Nat /\ 2 \in Nat
    OBVIOUS
<1> QED BY <1>1, <1>2, <1>3, <1>5, <1>6 DEF Step1, Step2

\* The helper variables show the argument.
LEMMA ArgumentShown ==
    ASSUME NEW t, AirStep(t), CurrentInstruction.op \in NumWordsOps \cup RegisterOps
    PROVE  /\ ArgIsDecomposed(t.cur) /\ IndicatedArg(t.cur) = Arg
           /\ Arg \in 0 .. (NumRegisters - 1)
           /\ CurrentInstruction.op \in NumWordsOps =>
                  HasLegalNumberOfWords(t.cur) /\ Arg \in 1 .. MaxNumWords
<1>0. VMTypeOK /\ InBounds(instruction_pointer) /\ t.cur = ProcessorRow
    BY DEF AirStep, StepCompletes
<1>1. CurrentInstruction.op \in NumWordsOps => Arg \in 1 .. MaxNumWords
    BY <1>0, InstructionTypes
<1>2. Arg \in 0 .. (NumRegisters - 1)
    BY <1>0, <1>1, InstructionTypes, RegisterAssumption DEF Register
<1>3. Arg \in 0 .. 15 /\ NumHelpers \in Nat /\ NumHelpers >= 4
    BY <1>2, AirAssumption, RegisterAssumption, SizeAssumption DEF Rate
<1>4. ProcessorRow.hv = Helpers(DecomposeArg(Arg))
    BY <1>0, InstructionRow DEF DeriveHelperVariables, NumWordsOps, RegisterOps
<1>5. Len(DecomposeArg(Arg)) = 4
    BY DEF DecomposeArg
<1>6. \A k \in 1 .. 4 : Helpers(DecomposeArg(Arg))[k] = DecomposeArg(Arg)[k]
    BY <1>3, <1>5 DEF Helpers
<1>7. /\ DecomposeArg(Arg)[1] = (Arg \div 2^(1 - 1)) % 2
      /\ DecomposeArg(Arg)[2] = (Arg \div 2^(2 - 1)) % 2
      /\ DecomposeArg(Arg)[3] = (Arg \div 2^(3 - 1)) % 2
      /\ DecomposeArg(Arg)[4] = (Arg \div 2^(4 - 1)) % 2
    BY DEF DecomposeArg
<1>8. 2^(1 - 1) = 1 /\ 2^(2 - 1) = 2 /\ 2^(3 - 1) = 4 /\ 2^(4 - 1) = 8
    OBVIOUS
<1>9. /\ t.cur.hv[1] = Arg % 2 /\ t.cur.hv[2] = (Arg \div 2) % 2
      /\ t.cur.hv[3] = (Arg \div 4) % 2 /\ t.cur.hv[4] = (Arg \div 8) % 2
    <2>1. Arg \div 1 = Arg
        BY <1>3
    <2> QED BY <1>0, <1>4, <1>6, <1>7, <1>8, <2>1
<1>10. IndicatedArg(t.cur) = Arg
    BY <1>3, <1>9, FourBits DEF IndicatedArg
<1>11. \A k \in 1 .. 4 : t.cur.hv[k] \in {0, 1}
    <2>1. /\ t.cur.hv[1] \in {0, 1} /\ t.cur.hv[2] \in {0, 1}
          /\ t.cur.hv[3] \in {0, 1} /\ t.cur.hv[4] \in {0, 1}
        BY <1>3, <1>9
    <2>2. \A k \in 1 .. 4 : k \in {1, 2, 3, 4}
        OBVIOUS
    <2> QED BY <2>1, <2>2
<1>12. t.cur.nia = Arg
    BY <1>0 DEF ProcessorRow, NextInstructionOrArgument, HasArg, DoubleWordOps
<1> QED BY <1>1, <1>2, <1>10, <1>11, <1>12 DEF ArgIsDecomposed, HasLegalNumberOfWords
\* The first row shows the instruction `op`, and no other.
Shows(t, op) == \A o \in Mnemonics : Is(t.cur, o) <=> o = op

\* The first row of a step shows the instruction it executes.
LEMMA ShownInstruction ==
    ASSUME NEW t, AirStep(t)
    PROVE  Shows(t, CurrentInstruction.op)
BY InstructionRow DEF AirStep, StepCompletes, Shows

(***************************************************************************)
(* The constraints of the instruction a row shows; the others are          *)
(* deselected.                                                             *)
(***************************************************************************)
LEMMA Selected ==
    ASSUME NEW t, NEW op, Shows(t, op)
    PROVE  /\ op = "pop" /\ PopConstraints(t) => InstructionConstraints(t)
           /\ op = "push" /\ PushConstraints(t) => InstructionConstraints(t)
           /\ op = "divine" /\ DivineConstraints(t) => InstructionConstraints(t)
           /\ op = "pick" /\ PickConstraints(t) => InstructionConstraints(t)
           /\ op = "place" /\ PlaceConstraints(t) => InstructionConstraints(t)
           /\ op = "dup" /\ DupConstraints(t) => InstructionConstraints(t)
           /\ op = "swap" /\ SwapConstraints(t) => InstructionConstraints(t)
           /\ op = "halt" /\ HaltConstraints(t) => InstructionConstraints(t)
           /\ op = "nop" /\ NopConstraints(t) => InstructionConstraints(t)
           /\ op = "skiz" /\ SkizConstraints(t) => InstructionConstraints(t)
           /\ op = "call" /\ CallConstraints(t) => InstructionConstraints(t)
           /\ op = "return" /\ ReturnConstraints(t) => InstructionConstraints(t)
           /\ op = "recurse" /\ RecurseConstraints(t) => InstructionConstraints(t)
           /\ op = "recurse_or_return" /\ RecurseOrReturnConstraints(t) => InstructionConstraints(t)
           /\ op = "assert" /\ AssertConstraints(t) => InstructionConstraints(t)
           /\ op = "read_mem" /\ ReadMemConstraints(t) => InstructionConstraints(t)
           /\ op = "write_mem" /\ WriteMemConstraints(t) => InstructionConstraints(t)
           /\ op = "hash" /\ HashConstraints(t) => InstructionConstraints(t)
           /\ op = "assert_vector" /\ AssertVectorConstraints(t) => InstructionConstraints(t)
           /\ op = "sponge_init" /\ SpongeInitConstraints(t) => InstructionConstraints(t)
           /\ op = "sponge_absorb" /\ SpongeAbsorbConstraints(t) => InstructionConstraints(t)
           /\ op = "sponge_absorb_mem" /\ SpongeAbsorbMemConstraints(t) => InstructionConstraints(t)
           /\ op = "sponge_squeeze" /\ SpongeSqueezeConstraints(t) => InstructionConstraints(t)
           /\ op = "add" /\ AddConstraints(t) => InstructionConstraints(t)
           /\ op = "addi" /\ AddIConstraints(t) => InstructionConstraints(t)
           /\ op = "mul" /\ MulConstraints(t) => InstructionConstraints(t)
           /\ op = "invert" /\ InvertConstraints(t) => InstructionConstraints(t)
           /\ op = "eq" /\ EqConstraints(t) => InstructionConstraints(t)
           /\ op = "split" /\ SplitConstraints(t) => InstructionConstraints(t)
           /\ op = "div_mod" /\ DivModConstraints(t) => InstructionConstraints(t)
           /\ op = "xx_add" /\ XxAddConstraints(t) => InstructionConstraints(t)
           /\ op = "xx_mul" /\ XxMulConstraints(t) => InstructionConstraints(t)
           /\ op = "x_invert" /\ XInvertConstraints(t) => InstructionConstraints(t)
           /\ op = "xb_mul" /\ XbMulConstraints(t) => InstructionConstraints(t)
           /\ op = "read_io" /\ ReadIoConstraints(t) => InstructionConstraints(t)
           /\ op = "write_io" /\ WriteIoConstraints(t) => InstructionConstraints(t)
           /\ op = "merkle_step" /\ MerkleStepConstraints(t) => InstructionConstraints(t)
           /\ op = "merkle_step_mem" /\ MerkleStepMemConstraints(t) => InstructionConstraints(t)
           /\ op = "xx_dot_step" /\ XxDotStepConstraints(t) => InstructionConstraints(t)
           /\ op = "xb_dot_step" /\ XbDotStepConstraints(t) => InstructionConstraints(t)
           /\ op = "lt" /\ WordBinopConstraints(t) => InstructionConstraints(t)
           /\ op = "and" /\ WordBinopConstraints(t) => InstructionConstraints(t)
           /\ op = "xor" /\ WordBinopConstraints(t) => InstructionConstraints(t)
           /\ op = "pow" /\ WordBinopConstraints(t) => InstructionConstraints(t)
           /\ op = "log_2_floor" /\ WordUnopConstraints(t) => InstructionConstraints(t)
           /\ op = "pop_count" /\ WordUnopConstraints(t) => InstructionConstraints(t)
<1> USE DEF Shows, InstructionConstraints, IsAnyOf, Mnemonics, DoubleWordOps, NumWordsOps,
            SingleWordOps, RegisterOps, ElementOps
<1>1. op = "pop" /\ PopConstraints(t) => InstructionConstraints(t)
    OBVIOUS
<1>2. op = "push" /\ PushConstraints(t) => InstructionConstraints(t)
    OBVIOUS
<1>3. op = "divine" /\ DivineConstraints(t) => InstructionConstraints(t)
    OBVIOUS
<1>4. op = "pick" /\ PickConstraints(t) => InstructionConstraints(t)
    OBVIOUS
<1>5. op = "place" /\ PlaceConstraints(t) => InstructionConstraints(t)
    OBVIOUS
<1>6. op = "dup" /\ DupConstraints(t) => InstructionConstraints(t)
    OBVIOUS
<1>7. op = "swap" /\ SwapConstraints(t) => InstructionConstraints(t)
    OBVIOUS
<1>8. op = "halt" /\ HaltConstraints(t) => InstructionConstraints(t)
    OBVIOUS
<1>9. op = "nop" /\ NopConstraints(t) => InstructionConstraints(t)
    OBVIOUS
<1>10. op = "skiz" /\ SkizConstraints(t) => InstructionConstraints(t)
    OBVIOUS
<1>11. op = "call" /\ CallConstraints(t) => InstructionConstraints(t)
    OBVIOUS
<1>12. op = "return" /\ ReturnConstraints(t) => InstructionConstraints(t)
    OBVIOUS
<1>13. op = "recurse" /\ RecurseConstraints(t) => InstructionConstraints(t)
    OBVIOUS
<1>14. op = "recurse_or_return" /\ RecurseOrReturnConstraints(t) => InstructionConstraints(t)
    OBVIOUS
<1>15. op = "assert" /\ AssertConstraints(t) => InstructionConstraints(t)
    OBVIOUS
<1>16. op = "read_mem" /\ ReadMemConstraints(t) => InstructionConstraints(t)
    OBVIOUS
<1>17. op = "write_mem" /\ WriteMemConstraints(t) => InstructionConstraints(t)
    OBVIOUS
<1>18. op = "hash" /\ HashConstraints(t) => InstructionConstraints(t)
    OBVIOUS
<1>19. op = "assert_vector" /\ AssertVectorConstraints(t) => InstructionConstraints(t)
    OBVIOUS
<1>20. op = "sponge_init" /\ SpongeInitConstraints(t) => InstructionConstraints(t)
    OBVIOUS
<1>21. op = "sponge_absorb" /\ SpongeAbsorbConstraints(t) => InstructionConstraints(t)
    OBVIOUS
<1>22. op = "sponge_absorb_mem" /\ SpongeAbsorbMemConstraints(t) => InstructionConstraints(t)
    OBVIOUS
<1>23. op = "sponge_squeeze" /\ SpongeSqueezeConstraints(t) => InstructionConstraints(t)
    OBVIOUS
<1>24. op = "add" /\ AddConstraints(t) => InstructionConstraints(t)
    OBVIOUS
<1>25. op = "addi" /\ AddIConstraints(t) => InstructionConstraints(t)
    OBVIOUS
<1>26. op = "mul" /\ MulConstraints(t) => InstructionConstraints(t)
    OBVIOUS
<1>27. op = "invert" /\ InvertConstraints(t) => InstructionConstraints(t)
    OBVIOUS
<1>28. op = "eq" /\ EqConstraints(t) => InstructionConstraints(t)
    OBVIOUS
<1>29. op = "split" /\ SplitConstraints(t) => InstructionConstraints(t)
    OBVIOUS
<1>30. op = "div_mod" /\ DivModConstraints(t) => InstructionConstraints(t)
    OBVIOUS
<1>31. op = "xx_add" /\ XxAddConstraints(t) => InstructionConstraints(t)
    OBVIOUS
<1>32. op = "xx_mul" /\ XxMulConstraints(t) => InstructionConstraints(t)
    OBVIOUS
<1>33. op = "x_invert" /\ XInvertConstraints(t) => InstructionConstraints(t)
    OBVIOUS
<1>34. op = "xb_mul" /\ XbMulConstraints(t) => InstructionConstraints(t)
    OBVIOUS
<1>35. op = "read_io" /\ ReadIoConstraints(t) => InstructionConstraints(t)
    OBVIOUS
<1>36. op = "write_io" /\ WriteIoConstraints(t) => InstructionConstraints(t)
    OBVIOUS
<1>37. op = "merkle_step" /\ MerkleStepConstraints(t) => InstructionConstraints(t)
    OBVIOUS
<1>38. op = "merkle_step_mem" /\ MerkleStepMemConstraints(t) => InstructionConstraints(t)
    OBVIOUS
<1>39. op = "xx_dot_step" /\ XxDotStepConstraints(t) => InstructionConstraints(t)
    OBVIOUS
<1>40. op = "xb_dot_step" /\ XbDotStepConstraints(t) => InstructionConstraints(t)
    OBVIOUS
<1>41. op = "lt" /\ WordBinopConstraints(t) => InstructionConstraints(t)
    OBVIOUS
<1>42. op = "and" /\ WordBinopConstraints(t) => InstructionConstraints(t)
    OBVIOUS
<1>43. op = "xor" /\ WordBinopConstraints(t) => InstructionConstraints(t)
    OBVIOUS
<1>44. op = "pow" /\ WordBinopConstraints(t) => InstructionConstraints(t)
    OBVIOUS
<1>45. op = "log_2_floor" /\ WordUnopConstraints(t) => InstructionConstraints(t)
    OBVIOUS
<1>46. op = "pop_count" /\ WordUnopConstraints(t) => InstructionConstraints(t)
    OBVIOUS
<1> HIDE DEF Shows, InstructionConstraints
<1> QED BY <1>1, <1>2, <1>3, <1>4, <1>5, <1>6, <1>7, <1>8, <1>9, <1>10,
           <1>11, <1>12, <1>13, <1>14, <1>15, <1>16, <1>17, <1>18, <1>19, <1>20,
           <1>21, <1>22, <1>23, <1>24, <1>25, <1>26, <1>27, <1>28, <1>29, <1>30,
           <1>31, <1>32, <1>33, <1>34, <1>35, <1>36, <1>37, <1>38, <1>39, <1>40,
           <1>41, <1>42, <1>43, <1>44, <1>45, <1>46
------------------------------------------------------------------------------
(* Op stack manipulation. *)

\* A sequence with an element inserted.
LEMMA Inserted ==
    ASSUME NEW s, IsSequence(s), NEW n \in Nat, Len(s) = n, NEW i \in 1 .. (n + 1), NEW e
    PROVE  /\ IsSequence(S!InsertAt(s, i, e)) /\ Len(S!InsertAt(s, i, e)) = n + 1
           /\ \A k \in 1 .. (n + 1) :
                  S!InsertAt(s, i, e)[k] = IF k < i THEN s[k] ELSE IF k = i THEN e ELSE s[k - 1]
<1> DEFINE a == SubSeq(s, 1, i - 1)
           b == <<e>>
           c == SubSeq(s, i, n)
<1>1. IsSequence(a) /\ Len(a) = i - 1 /\ \A k \in 1 .. (i - 1) : a[k] = s[k]
    <2>1. PICK l \in Nat : l = i - 1
        OBVIOUS
    <2>2. IsSequence(s) /\ 1 \in 1 .. (Len(s) + 1) /\ l \in (1 - 1) .. Len(s)
        BY <2>1
    <2>3. /\ IsSequence(SubSeq(s, 1, l)) /\ Len(SubSeq(s, 1, l)) = l - 1 + 1
          /\ \A k \in 1 .. (l - 1 + 1) : SubSeq(s, 1, l)[k] = s[1 + k - 1]
        BY ONLY <2>2, SubSequence
    <2>4. l - 1 + 1 = l /\ \A k \in 1 .. l : 1 + k - 1 = k
        OBVIOUS
    <2> QED BY <2>1, <2>3, <2>4
<1>2. IsSequence(b) /\ Len(b) = 1 /\ b[1] = e
    BY DEF IsSequence
<1>3. IsSequence(c) /\ Len(c) = n + 1 - i /\ \A k \in 1 .. (n + 1 - i) : c[k] = s[i + k - 1]
    <2>1. IsSequence(s) /\ i \in 1 .. (Len(s) + 1) /\ n \in (i - 1) .. Len(s)
        OBVIOUS
    <2>2. /\ IsSequence(SubSeq(s, i, n)) /\ Len(SubSeq(s, i, n)) = n - i + 1
          /\ \A k \in 1 .. (n - i + 1) : SubSeq(s, i, n)[k] = s[i + k - 1]
        BY ONLY <2>1, SubSequence
    <2>3. n - i + 1 = n + 1 - i
        OBVIOUS
    <2> QED BY <2>2, <2>3
<1>4. S!InsertAt(s, i, e) = (a \o b) \o c
    BY DEF S!InsertAt
<1> HIDE DEF a, b, c
<1> DEFINE d == a \o b
           f == d \o c
<1>5. IsSequence(d) /\ Len(d) = i /\ (\A k \in 1 .. (i - 1) : d[k] = s[k]) /\ d[i] = e
    <2>1. IsSequence(a) /\ IsSequence(b)
        BY <1>1, <1>2
    <2>2. /\ IsSequence(a \o b) /\ Len(a \o b) = Len(a) + Len(b)
          /\ \A k \in 1 .. Len(a) : (a \o b)[k] = a[k]
          /\ \A k \in 1 .. Len(b) : (a \o b)[Len(a) + k] = b[k]
        BY ONLY <2>1, ConcatenatedSequence
    <2>3. (i - 1) + 1 = i /\ 1 \in 1 .. 1
        OBVIOUS
    <2> QED BY <1>1, <1>2, <2>2, <2>3
<1> HIDE DEF d
<1>6. /\ IsSequence(f) /\ Len(f) = n + 1 /\ \A k \in 1 .. i : f[k] = d[k]
      /\ \A k \in 1 .. (n + 1 - i) : f[i + k] = c[k]
    <2>1. IsSequence(d) /\ IsSequence(c)
        BY <1>3, <1>5
    <2>2. /\ IsSequence(d \o c) /\ Len(d \o c) = Len(d) + Len(c)
          /\ \A k \in 1 .. Len(d) : (d \o c)[k] = d[k]
          /\ \A k \in 1 .. Len(c) : (d \o c)[Len(d) + k] = c[k]
        BY ONLY <2>1, ConcatenatedSequence
    <2>3. i + (n + 1 - i) = n + 1
        OBVIOUS
    <2> QED BY <1>3, <1>5, <2>2, <2>3
<1> HIDE DEF f
<1>7. ASSUME NEW k \in 1 .. (n + 1)
      PROVE  f[k] = IF k < i THEN s[k] ELSE IF k = i THEN e ELSE s[k - 1]
    <2>1. CASE k < i
        BY <1>5, <1>6, <2>1
    <2>2. CASE k = i
        BY <1>5, <1>6, <2>2
    <2>3. CASE k > i
        <3>1. PICK j \in 1 .. (n + 1 - i) : k = i + j /\ i + j - 1 = k - 1
            <4>1. k - i \in 1 .. (n + 1 - i) /\ k = i + (k - i) /\ i + (k - i) - 1 = k - 1
                BY <2>3
            <4> QED BY <4>1
        <3>2. f[k] = s[k - 1]
            BY <1>3, <1>6, <3>1
        <3> QED BY <2>3, <3>2
    <2> QED BY <2>1, <2>2, <2>3
<1> QED BY <1>4, <1>6, <1>7 DEF f, d

\* A sequence with an element removed.
LEMMA Removed ==
    ASSUME NEW s, IsSequence(s), NEW n \in Nat, Len(s) = n, NEW i \in 1 .. n
    PROVE  /\ IsSequence(S!RemoveAt(s, i)) /\ Len(S!RemoveAt(s, i)) = n - 1
           /\ \A k \in 1 .. (n - 1) : S!RemoveAt(s, i)[k] = IF k < i THEN s[k] ELSE s[k + 1]
<1> DEFINE a == SubSeq(s, 1, i - 1)
           c == SubSeq(s, i + 1, n)
<1>1. IsSequence(a) /\ Len(a) = i - 1 /\ \A k \in 1 .. (i - 1) : a[k] = s[k]
    <2>1. PICK l \in Nat : l = i - 1
        OBVIOUS
    <2>2. IsSequence(s) /\ 1 \in 1 .. (Len(s) + 1) /\ l \in (1 - 1) .. Len(s)
        BY <2>1
    <2>3. /\ IsSequence(SubSeq(s, 1, l)) /\ Len(SubSeq(s, 1, l)) = l - 1 + 1
          /\ \A k \in 1 .. (l - 1 + 1) : SubSeq(s, 1, l)[k] = s[1 + k - 1]
        BY ONLY <2>2, SubSequence
    <2>4. l - 1 + 1 = l /\ \A k \in 1 .. l : 1 + k - 1 = k
        OBVIOUS
    <2> QED BY <2>1, <2>3, <2>4
<1>2. IsSequence(c) /\ Len(c) = n - i /\ \A k \in 1 .. (n - i) : c[k] = s[i + k]
    <2>1. PICK l \in Nat : l = i + 1
        OBVIOUS
    <2>2. IsSequence(s) /\ l \in 1 .. (Len(s) + 1) /\ n \in (l - 1) .. Len(s)
        BY <2>1
    <2>3. /\ IsSequence(SubSeq(s, l, n)) /\ Len(SubSeq(s, l, n)) = n - l + 1
          /\ \A k \in 1 .. (n - l + 1) : SubSeq(s, l, n)[k] = s[l + k - 1]
        BY ONLY <2>2, SubSequence
    <2>4. n - l + 1 = n - i /\ \A k \in 1 .. (n - i) : l + k - 1 = i + k
        BY <2>1
    <2> QED BY <2>1, <2>3, <2>4
<1>3. S!RemoveAt(s, i) = a \o c
    BY DEF S!RemoveAt
<1> HIDE DEF a, c
<1> DEFINE f == a \o c
<1>4. /\ IsSequence(f) /\ Len(f) = n - 1 /\ \A k \in 1 .. (i - 1) : f[k] = a[k]
      /\ \A k \in 1 .. (n - i) : f[(i - 1) + k] = c[k]
    <2>1. IsSequence(a) /\ IsSequence(c)
        BY <1>1, <1>2
    <2>2. /\ IsSequence(a \o c) /\ Len(a \o c) = Len(a) + Len(c)
          /\ \A k \in 1 .. Len(a) : (a \o c)[k] = a[k]
          /\ \A k \in 1 .. Len(c) : (a \o c)[Len(a) + k] = c[k]
        BY ONLY <2>1, ConcatenatedSequence
    <2>3. (i - 1) + (n - i) = n - 1
        OBVIOUS
    <2> QED BY <1>1, <1>2, <2>2, <2>3
<1> HIDE DEF f
<1>5. ASSUME NEW k \in 1 .. (n - 1)
      PROVE  f[k] = IF k < i THEN s[k] ELSE s[k + 1]
    <2>1. CASE k < i
        BY <1>1, <1>4, <2>1
    <2>2. CASE k >= i
        <3>1. PICK j \in 1 .. (n - i) : k = (i - 1) + j /\ i + j = k + 1
            <4>1. /\ k + 1 - i \in 1 .. (n - i) /\ k = (i - 1) + (k + 1 - i)
                  /\ i + (k + 1 - i) = k + 1
                BY <2>2
            <4> QED BY <4>1
        <3>2. f[k] = s[k + 1]
            BY <1>2, <1>4, <3>1
        <3> QED BY <2>2, <3>2
    <2> QED BY <2>1, <2>2
<1> QED BY <1>3, <1>4, <1>5 DEF f

\* A sequence without its first element.
LEMMA TailFacts ==
    ASSUME NEW s, IsSequence(s), NEW n \in Nat \ {0}, Len(s) = n
    PROVE  /\ IsSequence(Tail(s)) /\ Len(Tail(s)) = n - 1
           /\ \A k \in 1 .. (n - 1) : Tail(s)[k] = s[k + 1]
<1> DEFINE T == {s[i] : i \in 1 .. Len(s)}
<1>1. \A i \in 1 .. Len(s) : s[i] \in T
    OBVIOUS
<1> HIDE DEF T
<1>2. s \in Seq(T)
    BY <1>1, SequenceOver
<1>3. s # <<>>
    BY EmptySequence
<1>4. Tail(s) \in Seq(T) /\ Len(Tail(s)) = Len(s) - 1
      /\ \A k \in 1 .. Len(Tail(s)) : Tail(s)[k] = s[k + 1]
    BY <1>2, <1>3, HeadTailProperties
<1>5. IsSequence(Tail(s))
    BY <1>4, SeqIsSequence
<1> QED BY <1>4, <1>5

\* What a register of the first row is, counted from the bottom of the stack.
LEMMA RegisterInStack ==
    ASSUME NEW t, AirStep(t)
    PROVE  /\ Len(op_stack) \in Nat /\ Len(op_stack) >= NumRegisters
           /\ \A k \in 1 .. NumRegisters : t.cur.st[k] = op_stack[Len(op_stack) - (k - 1)]
BY DEF AirStep, RowsShow, VMTypeOK

\* The instructions that rearrange registers.
LEMMA PickAir ==
    ASSUME NEW t, AirStep(t), Pick
    PROVE  PickConstraints(t)
<1>1. CurrentInstruction.op = "pick" /\ Completes(NextAddress) /\ jump_stack' = jump_stack
    BY DEF Pick, Executes, OnStackOnly
<1>2. Step2(t) /\ ArgIsDecomposed(t.cur) /\ IndicatedArg(t.cur) = Arg
      /\ Arg \in 0 .. (NumRegisters - 1)
    BY <1>1, MovesOn, ArgumentShown DEF DoubleWordOps, RegisterOps
<1>3. PICK r \in Nat, d \in Nat, a \in Int :
          r = NumRegisters /\ d = Len(op_stack) /\ a = Arg
    BY <1>2, RegisterAssumption, RegisterInStack
<1>4. a \in 0 .. (r - 1) /\ d >= r
    BY <1>2, <1>3, RegisterInStack
<1> DEFINE x == [k \in 1 .. d |->
                    IF k < d - a THEN op_stack[k]
                    ELSE IF k < d THEN op_stack[k + 1] ELSE op_stack[d - a]]
<1>5. StackBecomes(x, 1, 1)
    BY <1>3 DEF Pick
<1>6. x = [k \in 1 .. d |-> x[k]]
    OBVIOUS
<1>7. \A k \in 1 .. d : x[k] = IF k < d - a THEN op_stack[k]
                               ELSE IF k < d THEN op_stack[k + 1] ELSE op_stack[d - a]
    OBVIOUS
<1> HIDE DEF x
<1>8. /\ t.next.op_stack_pointer = t.cur.op_stack_pointer
      /\ \A k \in 1 .. r : t.next.st[k] = x[d - (k - 1)]
    BY <1>3, <1>5, <1>6, RewrittenInRows
<1>9. \A k \in 1 .. r : t.cur.st[k] = op_stack[d - (k - 1)]
    BY <1>3, RegisterInStack
<1>10. ASSUME NEW k \in 1 .. r
       PROVE  t.next.st[k] = IF k = 1 THEN t.cur.st[a + 1]
                             ELSE IF k <= a + 1 THEN t.cur.st[k - 1] ELSE t.cur.st[k]
    <2>1. d - (k - 1) \in 1 .. d
        BY <1>4
    <2>2. CASE k = 1
        <3>1. x[d] = op_stack[d - a] /\ d - (k - 1) = d
            BY <1>4, <1>7, <2>1, <2>2
        <3>2. a + 1 \in 1 .. r /\ d - ((a + 1) - 1) = d - a
            BY <1>4
        <3>3. t.cur.st[a + 1] = op_stack[d - a]
            BY <1>9, <3>2
        <3> QED BY <1>8, <2>2, <3>1, <3>3
    <2>3. CASE k # 1 /\ k <= a + 1
        <3>1. ~(d - (k - 1) < d - a) /\ d - (k - 1) < d /\ k - 1 \in 1 .. r
              /\ (d - (k - 1)) + 1 = d - ((k - 1) - 1)
            BY <1>4, <2>3
        <3>2. x[d - (k - 1)] = op_stack[d - ((k - 1) - 1)]
            BY <1>7, <2>1, <3>1
        <3> QED BY <1>8, <1>9, <2>3, <3>1, <3>2
    <2>4. CASE k > a + 1
        <3>1. d - (k - 1) < d - a /\ k # 1
            BY <1>4, <2>4
        <3> QED BY <1>7, <1>8, <1>9, <2>1, <2>4, <3>1
    <2> QED BY <1>4, <2>2, <2>3, <2>4
<1>11. PICK cur, next : cur = t.cur.st /\ next = t.next.st
    OBVIOUS
<1>12. IsSequence(cur) /\ Len(cur) = r /\ IsSequence(next) /\ Len(next) = r
    BY <1>3, <1>11, CurrentRegisters
<1>13. PICK rest : rest = S!RemoveAt(cur, a + 1)
    OBVIOUS
<1>14. PICK i \in 1 .. r : i = a + 1
    BY <1>4
<1>15. /\ IsSequence(rest) /\ Len(rest) = r - 1
       /\ \A k \in 1 .. (r - 1) : rest[k] = IF k < i THEN cur[k] ELSE cur[k + 1]
    BY <1>12, <1>13, <1>14, Removed
<1>16. PICK q \in Nat : q = r - 1 /\ q + 1 = r
    BY <1>14
<1>17. PICK e, y : e = cur[i] /\ y = S!InsertAt(rest, 1, e)
    OBVIOUS
<1>18. /\ IsSequence(y) /\ Len(y) = q + 1
       /\ \A k \in 1 .. (q + 1) :
              y[k] = IF k < 1 THEN rest[k] ELSE IF k = 1 THEN e ELSE rest[k - 1]
    <2>1. IsSequence(rest) /\ Len(rest) = q /\ 1 \in 1 .. (q + 1)
        BY <1>15, <1>16
    <2> QED BY <1>17, <2>1, Inserted
<1>19. next = y
    <2>1. ASSUME NEW k \in 1 .. r PROVE next[k] = y[k]
        <3>1. CASE k = 1
            BY <1>10, <1>11, <1>14, <1>16, <1>17, <1>18, <3>1
        <3>2. CASE k # 1 /\ k <= i
            <4>1. k - 1 \in 1 .. (r - 1) /\ k - 1 < i /\ ~(k < 1) /\ k <= a + 1
                BY <1>14, <3>2
            <4>2. y[k] = cur[k - 1]
                BY <1>15, <1>16, <1>18, <3>2, <4>1
            <4>3. next[k] = cur[k - 1]
                BY <1>10, <1>11, <3>2, <4>1
            <4> QED BY <4>2, <4>3
        <3>3. CASE k > i
            <4>1. /\ k - 1 \in 1 .. (r - 1) /\ ~(k - 1 < i) /\ ~(k < 1) /\ ~(k <= a + 1)
                  /\ (k - 1) + 1 = k /\ k # 1
                BY <1>14, <3>3
            <4>2. y[k] = cur[k]
                BY <1>15, <1>16, <1>18, <4>1
            <4>3. next[k] = cur[k]
                BY <1>10, <1>11, <4>1
            <4> QED BY <4>2, <4>3
        <3> QED BY <1>14, <3>1, <3>2, <3>3
    <2> QED BY <1>12, <1>16, <1>18, <2>1, SequencesEqual
<1>20. KeepOpStackHeight(t)
    <2>1. \A k \in (NumRegisters + 1) .. NumRegisters : FALSE
        BY <1>3
    <2> QED BY <1>8, <2>1 DEF KeepOpStackHeight, RemainsExceptTop
<1>21. t.next.st = S!InsertAt(S!RemoveAt(t.cur.st, IndicatedArg(t.cur) + 1), 1,
                              t.cur.st[IndicatedArg(t.cur) + 1])
    BY <1>2, <1>3, <1>11, <1>13, <1>14, <1>17, <1>19
<1> QED BY <1>2, <1>20, <1>21 DEF PickConstraints, Rearranges, S!InsertAt, S!RemoveAt

\* place takes the top element down to the register the argument names.
LEMMA PlaceAir ==
    ASSUME NEW t, AirStep(t), Place
    PROVE  PlaceConstraints(t)
<1>1. CurrentInstruction.op = "place" /\ Completes(NextAddress) /\ jump_stack' = jump_stack
    BY DEF Place, Executes, OnStackOnly
<1>2. Step2(t) /\ ArgIsDecomposed(t.cur) /\ IndicatedArg(t.cur) = Arg
      /\ Arg \in 0 .. (NumRegisters - 1)
    BY <1>1, MovesOn, ArgumentShown DEF DoubleWordOps, RegisterOps
<1>3. PICK r \in Nat, d \in Nat, a \in Int :
          r = NumRegisters /\ d = Len(op_stack) /\ a = Arg
    BY <1>2, RegisterAssumption, RegisterInStack
<1>4. a \in 0 .. (r - 1) /\ d >= r
    BY <1>2, <1>3, RegisterInStack
<1> DEFINE x == [k \in 1 .. d |->
                    IF k < d - a THEN op_stack[k]
                    ELSE IF k = d - a THEN op_stack[d] ELSE op_stack[k - 1]]
<1>5. StackBecomes(x, 1, 1)
    BY <1>3 DEF Place
<1>6. x = [k \in 1 .. d |-> x[k]]
    OBVIOUS
<1>7. \A k \in 1 .. d : x[k] = IF k < d - a THEN op_stack[k]
                               ELSE IF k = d - a THEN op_stack[d] ELSE op_stack[k - 1]
    OBVIOUS
<1> HIDE DEF x
<1>8. /\ t.next.op_stack_pointer = t.cur.op_stack_pointer
      /\ \A k \in 1 .. r : t.next.st[k] = x[d - (k - 1)]
    BY <1>3, <1>5, <1>6, RewrittenInRows
<1>9. \A k \in 1 .. r : t.cur.st[k] = op_stack[d - (k - 1)]
    BY <1>3, RegisterInStack
<1>10. ASSUME NEW k \in 1 .. r
       PROVE  t.next.st[k] = IF k < a + 1 THEN t.cur.st[k + 1]
                             ELSE IF k = a + 1 THEN t.cur.st[1] ELSE t.cur.st[k]
    <2>1. d - (k - 1) \in 1 .. d
        BY <1>4
    <2>2. CASE k = a + 1
        <3>1. ~(d - (k - 1) < d - a) /\ d - (k - 1) = d - a /\ 1 \in 1 .. r /\ d - (1 - 1) = d
            BY <1>4, <2>2
        <3>2. x[d - (k - 1)] = op_stack[d]
            BY <1>7, <2>1, <3>1
        <3>3. t.cur.st[1] = op_stack[d]
            BY <1>9, <3>1
        <3> QED BY <1>8, <2>2, <3>2, <3>3
    <2>3. CASE k < a + 1
        <3>1. ~(d - (k - 1) < d - a) /\ d - (k - 1) # d - a /\ k + 1 \in 1 .. r
              /\ (d - (k - 1)) - 1 = d - ((k + 1) - 1)
            BY <1>4, <2>3
        <3>2. x[d - (k - 1)] = op_stack[d - ((k + 1) - 1)]
            BY <1>7, <2>1, <3>1
        <3> QED BY <1>8, <1>9, <2>3, <3>1, <3>2
    <2>4. CASE k > a + 1
        <3>1. d - (k - 1) < d - a
            BY <1>4, <2>4
        <3> QED BY <1>7, <1>8, <1>9, <2>1, <2>4, <3>1
    <2> QED BY <1>4, <2>2, <2>3, <2>4
<1>11. PICK cur, next : cur = t.cur.st /\ next = t.next.st
    OBVIOUS
<1>12. IsSequence(cur) /\ Len(cur) = r /\ IsSequence(next) /\ Len(next) = r
    BY <1>3, <1>11, CurrentRegisters
<1>13. PICK rest : rest = Tail(cur)
    OBVIOUS
<1>14. PICK i \in 1 .. r : i = a + 1
    BY <1>4
<1>15. /\ IsSequence(rest) /\ Len(rest) = r - 1
       /\ \A k \in 1 .. (r - 1) : rest[k] = cur[k + 1]
    BY <1>12, <1>13, <1>14, TailFacts
<1>16. PICK q \in Nat : q = r - 1 /\ q + 1 = r
    BY <1>14
<1>17. PICK e, y : e = cur[1] /\ y = S!InsertAt(rest, i, e)
    OBVIOUS
<1>18. /\ IsSequence(y) /\ Len(y) = q + 1
       /\ \A k \in 1 .. (q + 1) :
              y[k] = IF k < i THEN rest[k] ELSE IF k = i THEN e ELSE rest[k - 1]
    <2>1. IsSequence(rest) /\ Len(rest) = q /\ i \in 1 .. (q + 1)
        BY <1>15, <1>16
    <2> QED BY <1>17, <2>1, Inserted
<1>19. next = y
    <2>1. ASSUME NEW k \in 1 .. r PROVE next[k] = y[k]
        <3>1. CASE k = i
            BY <1>10, <1>11, <1>14, <1>16, <1>17, <1>18, <3>1
        <3>2. CASE k < i
            <4>1. k \in 1 .. (r - 1) /\ k < a + 1
                BY <1>14, <3>2
            <4>2. y[k] = cur[k + 1]
                BY <1>15, <1>16, <1>18, <3>2, <4>1
            <4>3. next[k] = cur[k + 1]
                BY <1>10, <1>11, <4>1
            <4> QED BY <4>2, <4>3
        <3>3. CASE k > i
            <4>1. /\ k - 1 \in 1 .. (r - 1) /\ ~(k < i) /\ k # i /\ ~(k < a + 1) /\ k # a + 1
                  /\ (k - 1) + 1 = k
                BY <1>14, <3>3
            <4>2. y[k] = cur[k]
                BY <1>15, <1>16, <1>18, <4>1
            <4>3. next[k] = cur[k]
                BY <1>10, <1>11, <4>1
            <4> QED BY <4>2, <4>3
        <3> QED BY <1>14, <3>1, <3>2, <3>3
    <2> QED BY <1>12, <1>16, <1>18, <2>1, SequencesEqual
<1>20. KeepOpStackHeight(t)
    <2>1. \A k \in (NumRegisters + 1) .. NumRegisters : FALSE
        BY <1>3
    <2> QED BY <1>8, <2>1 DEF KeepOpStackHeight, RemainsExceptTop
<1>21. t.next.st = S!InsertAt(Tail(t.cur.st), IndicatedArg(t.cur) + 1, t.cur.st[1])
    BY <1>2, <1>3, <1>11, <1>13, <1>14, <1>17, <1>19
<1> QED BY <1>2, <1>20, <1>21 DEF PlaceConstraints, Rearranges, S!InsertAt

\* swap exchanges the top element with the register the argument names.
LEMMA SwapAir ==
    ASSUME NEW t, AirStep(t), Swap
    PROVE  SwapConstraints(t)
<1>1. CurrentInstruction.op = "swap" /\ Completes(NextAddress) /\ jump_stack' = jump_stack
    BY DEF Swap, Executes, OnStackOnly
<1>2. Step2(t) /\ ArgIsDecomposed(t.cur) /\ IndicatedArg(t.cur) = Arg
      /\ Arg \in 0 .. (NumRegisters - 1)
    BY <1>1, MovesOn, ArgumentShown DEF DoubleWordOps, RegisterOps
<1>3. PICK r \in Nat, d \in Nat, a \in Int :
          r = NumRegisters /\ d = Len(op_stack) /\ a = Arg
    BY <1>2, RegisterAssumption, RegisterInStack
<1>4. a \in 0 .. (r - 1) /\ d >= r
    BY <1>2, <1>3, RegisterInStack
<1>5. PICK x : x = [op_stack EXCEPT ![d] = St(a), ![d - a] = St(0)]
    OBVIOUS
<1>6. StackBecomes(x, 0, 0)
    BY <1>3, <1>5 DEF Swap
<1>7. op_stack = [k \in 1 .. d |-> op_stack[k]]
    BY <1>3, SeqIsSequence DEF AirStep, VMTypeOK, IsSequence
<1>8. x = [k \in 1 .. d |-> x[k]]
    BY <1>5, <1>7
<1>9. /\ t.next.op_stack_pointer = t.cur.op_stack_pointer
      /\ \A k \in 1 .. r : t.next.st[k] = x[d - (k - 1)]
    BY <1>3, <1>6, <1>8, RewrittenInRows
<1>10. \A k \in 1 .. r : t.cur.st[k] = op_stack[d - (k - 1)]
    BY <1>3, RegisterInStack
<1>11. PICK i \in 1 .. r : i = a + 1
    BY <1>4
<1>12. St(a) = t.cur.st[i] /\ St(0) = t.cur.st[1]
    <2>1. 1 \in 1 .. r /\ d - (1 - 1) = d - 0 /\ d - (i - 1) = d - a
        BY <1>4, <1>11
    <2> QED BY <1>3, <1>10, <2>1 DEF St
<1>13. ASSUME NEW k \in 1 .. r
       PROVE  t.next.st[k] = IF k = i THEN t.cur.st[1] ELSE IF k = 1 THEN t.cur.st[i]
                             ELSE t.cur.st[k]
    <2>1. d - (k - 1) \in 1 .. d
        BY <1>4
    <2>2. (d - (k - 1) = d - a <=> k = i) /\ (d - (k - 1) = d <=> k = 1)
        BY <1>4, <1>11
    <2>3. x[d - (k - 1)] = IF d - (k - 1) = d - a THEN St(0)
                           ELSE IF d - (k - 1) = d THEN St(a) ELSE op_stack[d - (k - 1)]
        BY <1>5, <1>7, <2>1
    <2> QED BY <1>9, <1>10, <1>12, <2>2, <2>3
<1>14. PICK cur, next : cur = t.cur.st /\ next = t.next.st
    OBVIOUS
<1>15. cur = [k \in 1 .. r |-> cur[k]] /\ next = [k \in 1 .. r |-> next[k]]
    BY <1>3, <1>14, CurrentRegisters DEF IsSequence
<1>16. next = [cur EXCEPT ![1] = cur[i], ![i] = cur[1]]
    BY <1>11, <1>13, <1>14, <1>15
<1>17. KeepOpStackHeight(t)
    <2>1. \A k \in (NumRegisters + 1) .. NumRegisters : FALSE
        BY <1>3
    <2> QED BY <1>9, <2>1 DEF KeepOpStackHeight, RemainsExceptTop
<1> QED BY <1>2, <1>3, <1>11, <1>14, <1>16, <1>17 DEF SwapConstraints, Rearranges

\* The registers that instructions name.
LEMMA NamedRegisters ==
    ASSUME NEW t, AirStep(t)
    PROVE  /\ t.cur.st[1] = St(0) /\ t.cur.st[2] = St(1)
           /\ t.cur.st[DigestLen + 1] = St(DigestLen)
           /\ t.cur.st[DigestLen + 2] = St(DigestLen + 1)
           /\ t.cur.st[DigestLen + 3] = St(DigestLen + 2)
           /\ St(0) \in Field /\ St(1) \in Field /\ St(DigestLen) \in Field
           /\ St(DigestLen + 1) \in Field /\ St(DigestLen + 2) \in Field
<1>1. PICK r \in Nat, d \in Nat \ {0} : r = NumRegisters /\ d = DigestLen /\ d + 3 <= r
    BY RegisterAssumption, SizeAssumption
<1>2. \A k \in 0 .. (r - 1) : t.cur.st[k + 1] = St(k) /\ St(k) \in Field
    BY <1>1, CurrentRegisters
<1>3. /\ 0 \in 0 .. (r - 1) /\ 1 \in 0 .. (r - 1) /\ d \in 0 .. (r - 1)
      /\ d + 1 \in 0 .. (r - 1) /\ d + 2 \in 0 .. (r - 1)
      /\ 0 + 1 = 1 /\ 1 + 1 = 2 /\ (d + 1) + 1 = d + 2 /\ (d + 2) + 1 = d + 3
    BY <1>1
<1> QED BY <1>1, <1>2, <1>3

\* The instructions that pop and push.
LEMMA PopAir ==
    ASSUME NEW t, AirStep(t), Pop
    PROVE  PopConstraints(t)
<1>1. /\ CurrentInstruction.op = "pop" /\ Completes(NextAddress) /\ jump_stack' = jump_stack
      /\ Replace(Arg, <<>>)
    BY DEF Pop, Executes, OnStackOnly
<1>2. /\ Step2(t) /\ HasLegalNumberOfWords(t.cur) /\ IndicatedArg(t.cur) = Arg
      /\ Arg \in 1 .. MaxNumWords
    BY <1>1, MovesOn, ArgumentShown DEF DoubleWordOps, NumWordsOps
<1>3. PICK a \in Nat : a = Arg /\ a \in 0 .. NumRegisters
    BY <1>2, RegisterFacts
<1>4. AirStep(t) /\ 0 \in 0 .. NumRegisters /\ Len(<<>>) = 0 /\ Replace(a, <<>>)
    BY <1>1, <1>3, RegisterFacts
<1>5. \A d \in Nat : a = 0 + d => Shrinks(t, d, 0)
    BY ONLY <1>3, <1>4, ReplaceInRows
<1>6. Shrinks(t, a, 0)
    BY <1>3, <1>5
<1> QED BY <1>2, <1>3, <1>6 DEF PopConstraints, ShrinksBy

\* push takes its element from nia.
LEMMA PushAir ==
    ASSUME NEW t, AirStep(t), Push
    PROVE  PushConstraints(t)
<1>1. /\ CurrentInstruction.op = "push" /\ Completes(NextAddress) /\ jump_stack' = jump_stack
      /\ Replace(0, <<Arg>>)
    BY DEF Push, Executes, OnStackOnly
<1>2. Step2(t)
    BY <1>1, MovesOn DEF DoubleWordOps, ElementOps
<1>3. AirStep(t) /\ 0 \in 0 .. NumRegisters /\ 1 \in 0 .. NumRegisters /\ Len(<<Arg>>) = 1
    BY RegisterFacts
<1>4. Replaced(t, 0, 1, <<Arg>>) /\ \A d \in Nat : 1 = 0 + d => Grows(t, d, 1)
    BY ONLY <1>1, <1>3, ReplaceInRows
<1>5. GrowOpStack(t) /\ t.next.st[1] = Arg
    BY <1>4 DEF GrowOpStack, Replaced
<1>6. t.cur.nia = Arg
    BY <1>1 DEF AirStep, StepCompletes, ProcessorRow, NextInstructionOrArgument, HasArg,
                DoubleWordOps, ElementOps
<1> QED BY <1>2, <1>5, <1>6 DEF PushConstraints

\* divine leaves open what it pushes.
LEMMA DivineAir ==
    ASSUME NEW t, AirStep(t), Divine
    PROVE  DivineConstraints(t)
<1>1. /\ CurrentInstruction.op = "divine" /\ Completes(NextAddress) /\ jump_stack' = jump_stack
      /\ Replace(0, [k \in 1 .. Arg |-> secret_individual_tokens[Arg + 1 - k]])
    BY DEF Divine, Executes, OnStackOnly, AirStep, Fails, NoError
<1>2. /\ Step2(t) /\ HasLegalNumberOfWords(t.cur) /\ IndicatedArg(t.cur) = Arg
      /\ Arg \in 1 .. MaxNumWords
    BY <1>1, MovesOn, ArgumentShown DEF DoubleWordOps, NumWordsOps
<1>3. PICK a \in Nat : a = Arg /\ a \in 0 .. NumRegisters
    BY <1>2, RegisterFacts
<1>4. PICK tops : tops = [k \in 1 .. a |-> secret_individual_tokens[a + 1 - k]]
    OBVIOUS
<1>5. AirStep(t) /\ 0 \in 0 .. NumRegisters /\ Len(tops) = a /\ Replace(0, tops)
    BY <1>1, <1>3, <1>4, RegisterFacts
<1>6. \A d \in Nat : a = 0 + d => Grows(t, d, a)
    BY ONLY <1>3, <1>5, ReplaceInRows
<1>7. Grows(t, a, a)
    BY <1>3, <1>6
<1> QED BY <1>2, <1>3, <1>7 DEF DivineConstraints, GrowsBy

\* dup pushes a copy of the register the argument names.
LEMMA DupAir ==
    ASSUME NEW t, AirStep(t), Dup
    PROVE  DupConstraints(t)
<1>1. /\ CurrentInstruction.op = "dup" /\ Completes(NextAddress) /\ jump_stack' = jump_stack
      /\ Replace(0, <<St(Arg)>>)
    BY DEF Dup, Executes, OnStackOnly
<1>2. Step2(t) /\ ArgIsDecomposed(t.cur) /\ IndicatedArg(t.cur) = Arg
      /\ Arg \in 0 .. (NumRegisters - 1)
    BY <1>1, MovesOn, ArgumentShown DEF DoubleWordOps, RegisterOps
<1>3. AirStep(t) /\ 0 \in 0 .. NumRegisters /\ 1 \in 0 .. NumRegisters /\ Len(<<St(Arg)>>) = 1
    BY RegisterFacts
<1>4. Replaced(t, 0, 1, <<St(Arg)>>) /\ \A d \in Nat : 1 = 0 + d => Grows(t, d, 1)
    BY ONLY <1>1, <1>3, ReplaceInRows
<1>5. GrowOpStack(t) /\ t.next.st[1] = St(Arg)
    BY <1>4 DEF GrowOpStack, Replaced
<1>6. t.cur.st[Arg + 1] = St(Arg)
    BY <1>2, CurrentRegisters
<1> QED BY <1>2, <1>5, <1>6 DEF DupConstraints
------------------------------------------------------------------------------
(* Control flow. *)

\* nop moves on and nothing else.
LEMMA NopAir ==
    ASSUME NEW t, AirStep(t), Nop
    PROVE  NopConstraints(t)
<1>1. /\ CurrentInstruction.op = "nop" /\ Completes(NextAddress) /\ jump_stack' = jump_stack
      /\ StackUnchanged
    BY DEF Nop, Executes, OnStackOnly
<1> QED BY <1>1, MovesOn, UnchangedInRows DEF SingleWordOps, NopConstraints

\* Where the registers of the jump stack come from.
LEMMA JumpRegisters ==
    ASSUME NEW t, AirStep(t)
    PROVE  /\ Len(jump_stack) \in Nat /\ Len(jump_stack) + 1 < P /\ Len(jump_stack) < P
           /\ t.cur.jsp = Len(jump_stack) /\ t.next.jsp = Len(jump_stack')
           /\ jump_stack # <<>> =>
                  /\ t.cur.jso = JumpStackTop.origin /\ JumpStackTop.origin \in Field
                  /\ t.cur.jsd = JumpStackTop.destination /\ JumpStackTop.destination \in Field
                  /\ Len(jump_stack) >= 1
<1>1. /\ jump_stack \in Seq([origin : Field, destination : Field])
      /\ t.cur = ProcessorRow /\ t.next = ProcessorRow' /\ Len(jump_stack) + 1 < P
    BY DEF AirStep, VMTypeOK
<1>2. Len(jump_stack) \in Nat /\ t.cur.jsp = Len(jump_stack) /\ t.next.jsp = Len(jump_stack')
    BY <1>1 DEF ProcessorRow
<1>3. ASSUME jump_stack # <<>>
      PROVE  /\ t.cur.jso = JumpStackTop.origin /\ JumpStackTop.origin \in Field
             /\ t.cur.jsd = JumpStackTop.destination /\ JumpStackTop.destination \in Field
             /\ Len(jump_stack) >= 1
    <2>1. PICK F : F = [origin : Field, destination : Field]
        OBVIOUS
    <2>2. PICK s : s = jump_stack
        OBVIOUS
    <2>3. s \in Seq(F) /\ s # <<>>
        BY <1>1, <1>3, <2>1, <2>2
    <2>4. s[Len(s)] \in F /\ Len(s) >= 1
        BY ONLY <2>3
    <2>5. JumpStackTop \in [origin : Field, destination : Field]
        BY <2>1, <2>2, <2>4 DEF JumpStackTop
    <2>6. JumpStackTop.origin \in Field /\ JumpStackTop.destination \in Field
        BY <2>5
    <2>7. ProcessorRow.jso = JumpStackTop.origin /\ ProcessorRow.jsd = JumpStackTop.destination
        BY <1>3 DEF ProcessorRow
    <2> QED BY <1>1, <2>2, <2>4, <2>6, <2>7
<1>4. PICK n \in Nat, p \in Nat : n = Len(jump_stack) /\ p = P
    BY <1>2, FieldFacts
<1>5. n < p
    BY <1>1, <1>4
<1> QED BY <1>1, <1>2, <1>3, <1>4, <1>5

\* A number less than the prime is in the field.
LEMMA BelowPrime == \A n \in Nat : n < P => n \in Field /\ n % P = n
<1>1. PICK p \in Nat \ {0} : p = P
    BY FieldFacts
<1>2. \A n \in Nat : n < p => n \in 0 .. (p - 1) /\ n % p = n
    OBVIOUS
<1> QED BY <1>1, <1>2 DEF Field

\* call remembers the address behind its argument.
LEMMA CallAir ==
    ASSUME NEW t, AirStep(t), Call
    PROVE  CallConstraints(t)
<1>1. /\ CurrentInstruction.op = "call" /\ Completes(Arg) /\ StackUnchanged
      /\ jump_stack' = Append(jump_stack,
             [origin |-> (instruction_pointer + 2) % P, destination |-> Arg])
    BY DEF Call, Executes
<1>2. VMTypeOK /\ InBounds(instruction_pointer) /\ t.cur = ProcessorRow /\ t.next = ProcessorRow'
      /\ Len(jump_stack) + 1 < P /\ jump_stack \in Seq([origin : Field, destination : Field])
    BY DEF AirStep, StepCompletes, VMTypeOK
<1>3. Arg \in Field /\ Arg % P = Arg
    BY <1>1, <1>2, InstructionTypes, InField DEF ElementOps
<1>4. t.cur.nia = Arg
    BY <1>1, <1>2 DEF ProcessorRow, NextInstructionOrArgument, HasArg, DoubleWordOps, ElementOps
<1>5. t.next.ip = Arg /\ t.cur.ip = instruction_pointer % P /\ instruction_pointer \in Nat
    BY <1>1, <1>3, InstructionPointers
<1>6. PICK f : f = [origin |-> (instruction_pointer + 2) % P, destination |-> Arg]
    OBVIOUS
<1>7. IsSequence(jump_stack)
    BY <1>2, SeqIsSequence
<1>8. PICK n \in Nat : n = Len(jump_stack)
    BY <1>2
<1>9. PICK u : u = jump_stack' /\ Len(u) = n + 1 /\ u[n + 1] = f /\ u # <<>>
    <2>1. /\ Len(Append(jump_stack, f)) = n + 1 /\ Append(jump_stack, f)[n + 1] = f
        BY <1>7, <1>8, AppendedSequence
    <2>2. n + 1 # 0
        BY <1>8
    <2> QED BY <1>1, <1>6, <2>1, <2>2, EmptySequence
<1>10. JumpStackTop' = f
    BY <1>9 DEF JumpStackTop
<1>11. t.next.jsp = n + 1 /\ t.next.jso = f.origin /\ t.next.jsd = f.destination
    BY <1>2, <1>9, <1>10 DEF ProcessorRow
<1>12. t.next.jsp = Plus(t.cur.jsp, 1)
    <2>1. t.cur.jsp = n /\ n + 1 < P
        BY <1>2, <1>8 DEF ProcessorRow
    <2>2. (n + 1) % P = n + 1
        BY <1>8, <2>1, BelowPrime
    <2> QED BY <1>11, <2>1, <2>2 DEF Plus
<1>13. t.next.jso = Plus(t.cur.ip, 2)
    <2>1. P \in Nat \ {0} /\ instruction_pointer \in Int /\ 2 \in Int
        BY <1>5, FieldFacts
    <2>2. ((instruction_pointer % P) + 2) % P = (instruction_pointer + 2) % P
        BY ONLY <2>1, ReducedSum
    <2> QED BY <1>5, <1>6, <1>11, <2>2 DEF Plus
<1> QED BY <1>1, <1>4, <1>5, <1>6, <1>11, <1>12, <1>13, UnchangedInRows DEF CallConstraints

\* A step that returns.
LEMMA Returning ==
    ASSUME NEW t, AirStep(t), jump_stack # <<>>, PopJumpStack, Completes(JumpStackTop.origin)
    PROVE  /\ t.next.jsp = Minus(t.cur.jsp, 1) /\ t.next.jsp = t.cur.jsp - 1
           /\ t.next.jsp \in Field
           /\ t.next.ip = t.cur.jso /\ t.cur.jso \in Field
<1>1. PICK n \in Nat : n = Len(jump_stack) /\ n >= 1 /\ n < P
    BY JumpRegisters
<1>2. Len(jump_stack') = n - 1
    <2>1. jump_stack' = SubSeq(jump_stack, 1, n - 1)
        BY <1>1 DEF PopJumpStack
    <2>2. IsSequence(jump_stack)
        BY SeqIsSequence DEF AirStep, VMTypeOK
    <2>3. PICK l \in Nat : l = n - 1
        BY <1>1
    <2>4. IsSequence(jump_stack) /\ 1 \in 1 .. (Len(jump_stack) + 1)
          /\ l \in (1 - 1) .. Len(jump_stack)
        BY <1>1, <2>2, <2>3
    <2>5. Len(SubSeq(jump_stack, 1, l)) = l - 1 + 1
        BY ONLY <2>4, SubSequence
    <2> QED BY <2>1, <2>3, <2>5
<1>3. t.cur.jsp = n /\ t.next.jsp = n - 1
    BY <1>1, <1>2, JumpRegisters
<1>4. n - 1 \in Field
    <2>0. PICK p \in Nat : p = P
        BY FieldFacts
    <2>1. PICK l \in Nat : l = n - 1
        BY ONLY <1>1
    <2>2. n < p
        BY <1>1, <2>0
    <2>3. l < p
        BY ONLY <1>1, <2>0, <2>1, <2>2
    <2> QED BY <2>0, <2>1, <2>3, BelowPrime
<1>5. t.cur.jso = JumpStackTop.origin /\ JumpStackTop.origin \in Field
    BY JumpRegisters
<1>6. t.next.ip = JumpStackTop.origin
    BY <1>5, InstructionPointers, InField
<1> QED BY <1>3, <1>4, <1>5, <1>6, InField DEF Minus

\* A step that goes on where the frame on top begins.
LEMMA Recursing ==
    ASSUME NEW t, AirStep(t), jump_stack # <<>>, jump_stack' = jump_stack,
           Completes(JumpStackTop.destination)
    PROVE  /\ t.next.ip = t.cur.jsd /\ t.cur.jsd \in Field /\ KeepJumpStack(t)
           /\ t.cur.jsp \in Field /\ t.cur.jso \in Field
<1>1. /\ t.cur.jsd = JumpStackTop.destination /\ JumpStackTop.destination \in Field
      /\ t.cur.jso = JumpStackTop.origin /\ JumpStackTop.origin \in Field
    BY JumpRegisters
<1>2. t.next.ip = JumpStackTop.destination
    BY <1>1, InstructionPointers, InField
<1>3. t.cur.jsp \in Field
    BY JumpRegisters, BelowPrime
<1> QED BY <1>1, <1>2, <1>3, KeptJumpStack

\* return goes to the origin of the topmost frame, which it drops.
LEMMA ReturnAir ==
    ASSUME NEW t, AirStep(t), Return
    PROVE  ReturnConstraints(t)
<1>1. jump_stack # <<>> /\ PopJumpStack /\ StackUnchanged /\ Completes(JumpStackTop.origin)
    BY DEF Return, AirStep, Fails, NoError
<1> QED BY <1>1, Returning, UnchangedInRows DEF ReturnConstraints

\* recurse goes to the destination of the topmost frame, which it keeps.
LEMMA RecurseAir ==
    ASSUME NEW t, AirStep(t), Recurse
    PROVE  RecurseConstraints(t)
<1>1. jump_stack # <<>> /\ StackUnchanged /\ Completes(JumpStackTop.destination)
      /\ jump_stack' = jump_stack
    BY DEF Recurse, AirStep, Fails, NoError, OnStackOnly
<1> QED BY <1>1, Recursing, UnchangedInRows DEF RecurseConstraints

\* assert lets only a 1 pass.
LEMMA AssertAir ==
    ASSUME NEW t, AirStep(t), AssertInstruction
    PROVE  AssertConstraints(t)
<1>1. /\ CurrentInstruction.op = "assert" /\ Completes(NextAddress) /\ jump_stack' = jump_stack
      /\ St(0) = 1 /\ Replace(1, <<>>)
    BY DEF AssertInstruction, Executes, OnStackOnly, AirStep, Fails, NoError
<1>2. Step1(t)
    BY <1>1, MovesOn DEF SingleWordOps
<1>3. AirStep(t) /\ 0 \in 0 .. NumRegisters /\ 1 \in 0 .. NumRegisters /\ Len(<<>>) = 0
    BY RegisterFacts
<1>4. \A d \in Nat : 1 = 0 + d => Shrinks(t, d, 0)
    BY ONLY <1>1, <1>3, ReplaceInRows
<1>5. ShrinkOpStack(t)
    BY <1>4 DEF ShrinkOpStack
<1>6. t.cur.st[1] = St(0)
    BY NamedRegisters
<1> QED BY <1>1, <1>2, <1>5, <1>6 DEF AssertConstraints

\* What the registers of the jump stack are, in any state.
JumpShape ==
    /\ ProcessorRow.jso \in Field /\ ProcessorRow.jsd \in Field
    /\ ProcessorRow.jsp \in Int /\ ProcessorRow.ip \in Int

\* The registers of the jump stack are field elements or integers.
LEMMA JumpShapeFacts == VMTypeOK => JumpShape
<1> SUFFICES ASSUME VMTypeOK PROVE JumpShape
    OBVIOUS
<1>1. /\ jump_stack \in Seq([origin : Field, destination : Field])
      /\ instruction_pointer \in Nat
    BY DEF VMTypeOK
<1>2. Len(jump_stack) \in Int /\ instruction_pointer % P \in Int
    BY <1>1, FieldFacts
<1>3. CASE jump_stack = <<>>
    BY <1>2, <1>3, FieldFacts DEF JumpShape, ProcessorRow
<1>4. CASE jump_stack # <<>>
    <2>1. PICK F : F = [origin : Field, destination : Field]
        OBVIOUS
    <2>2. PICK s : s = jump_stack
        OBVIOUS
    <2>3. s \in Seq(F) /\ s # <<>>
        BY <1>1, <1>4, <2>1, <2>2
    <2>4. s[Len(s)] \in F
        BY ONLY <2>3
    <2>5. JumpStackTop \in [origin : Field, destination : Field]
        BY <2>1, <2>2, <2>4 DEF JumpStackTop
    <2>6. JumpStackTop.origin \in Field /\ JumpStackTop.destination \in Field
        BY <2>5
    <2> QED BY <1>2, <1>4, <2>6 DEF JumpShape, ProcessorRow
<1> QED BY <1>3, <1>4

\* So are those of the next row.
LEMMA NextJumpShape == VMTypeOK' => JumpShape'
<1>1. VMTypeOK => JumpShape
    BY JumpShapeFacts
<1> QED BY <1>1, PTL

\* A number times its inverse.
LEMMA InverseFacts ==
    ASSUME NEW x \in Field
    PROVE  /\ InverseOrZero(x) \in Field
           /\ x = 0 => InverseOrZero(x) = 0
           /\ x # 0 => Times(InverseOrZero(x), x) = 1
           /\ InverseOrZero(x) # 0 \/ x # 0 => Times(InverseOrZero(x), x) = 1
BY ArithmeticLaws, ExternalRanges, FieldFacts DEF InverseOrZero, ArithmeticRanges

\* The only helper variable an instruction derives.
LEMMA SingleHelper ==
    ASSUME NEW x
    PROVE  Helpers(<<x>>)[1] = x
<1>1. 1 \in 1 .. NumHelpers
    BY AirAssumption, RegisterAssumption, SizeAssumption DEF Rate
<1> QED BY <1>1 DEF Helpers

\* Sums of which one summand has weight 1, the other weight 0.
LEMMA WeightedSums ==
    /\ \A b \in Int : Plus(Times(1, 0), Times(0, b)) = 0
    /\ \A a \in Int : Plus(Times(0, a), Times(1, 0)) = 0
    /\ Minus(1, 0) = 1 /\ Minus(1, 1) = 0 /\ Times(0, 0) = 0
    /\ \A a \in Int : Minus(a, a) = 0
<1>1. PICK p \in Nat : p = P /\ 1 < p
    BY FieldFacts
<1>2. 0 % p = 0 /\ 1 % p = 1
    BY <1>1
<1>3. \A a \in Int : 0 * a = 0 /\ a - a = 0
    OBVIOUS
<1>4. 1 * 0 = 0 /\ 0 * 0 = 0 /\ 1 - 0 = 1 /\ 1 - 1 = 0 /\ 0 + 0 = 0
    OBVIOUS
<1> QED BY <1>1, <1>2, <1>3, <1>4 DEF Plus, Times, Minus

\* recurse_or_return: the helper variable is 0 when the two registers agree and
\* the inverse of their difference when they do not, which drops one of the cases.
LEMMA RecurseOrReturnAir ==
    ASSUME NEW t, AirStep(t), RecurseOrReturn
    PROVE  RecurseOrReturnConstraints(t)
<1>1. /\ CurrentInstruction.op = "recurse_or_return" /\ jump_stack # <<>> /\ StackUnchanged
      /\ \/ /\ St(DigestLen) = St(DigestLen + 1) /\ PopJumpStack
            /\ Completes(JumpStackTop.origin)
         \/ /\ St(DigestLen) # St(DigestLen + 1) /\ jump_stack' = jump_stack
            /\ Completes(JumpStackTop.destination)
    BY DEF RecurseOrReturn, Executes, OnStackOnly, AirStep, Fails, NoError
<1>2. VMTypeOK /\ VMTypeOK' /\ InBounds(instruction_pointer)
      /\ t.cur = ProcessorRow /\ t.next = ProcessorRow'
    BY DEF AirStep, StepCompletes
<1>3. PICK difference \in Field :
          /\ difference = Minus(t.cur.st[DigestLen + 2], t.cur.st[DigestLen + 1])
          /\ difference = Minus(St(DigestLen + 1), St(DigestLen))
          /\ difference = 0 <=> St(DigestLen) = St(DigestLen + 1)
    BY NamedRegisters, FieldDifference
<1>4. t.cur.hv[1] = InverseOrZero(difference)
    <2>1. ProcessorRow.hv = Helpers(<<InverseOrZero(Minus(St(DigestLen + 1), St(DigestLen)))>>)
        BY <1>1, <1>2, InstructionRow DEF DeriveHelperVariables, NumWordsOps, RegisterOps
    <2> QED BY <1>2, <1>3, <2>1, SingleHelper
<1>5. PICK h \in Field : h = t.cur.hv[1]
    BY <1>3, <1>4, InverseFacts
<1>6. /\ t.cur.jso \in Field /\ t.cur.jsd \in Field /\ t.cur.jsp \in Int
      /\ t.next.jso \in Field /\ t.next.jsd \in Field /\ t.next.jsp \in Int
      /\ t.next.ip \in Int
    BY <1>2, JumpShapeFacts, NextJumpShape DEF JumpShape
<1>7. PICK jso \in Int, jsd \in Int, jsp \in Int, jso1 \in Int, jsd1 \in Int, jsp1 \in Int,
           ip1 \in Int :
          /\ jso = t.cur.jso /\ jsd = t.cur.jsd /\ jsp = t.cur.jsp
          /\ jso1 = t.next.jso /\ jsd1 = t.next.jsd /\ jsp1 = t.next.jsp /\ ip1 = t.next.ip
    BY <1>6, FieldFacts
<1>8. \A a, b \in Int : Minus(a, b) \in Int
    BY FieldFacts DEF Minus
<1>9. KeepOpStack(t)
    BY <1>1, UnchangedInRows
<1>10. h \in Int /\ difference \in Int
    BY <1>3, <1>5, FieldFacts
<1>11. CASE St(DigestLen) = St(DigestLen + 1)
    <2>1. difference = 0 /\ h = 0
        BY <1>3, <1>4, <1>5, <1>11, InverseFacts
    <2>2. ip1 = jso /\ jsp1 = jsp - 1
        BY <1>1, <1>7, <1>11, Returning
    <2>3. Times(h, difference) = 0 /\ Minus(1, Times(h, difference)) = 1
        BY <2>1, WeightedSums
    <2>4. Minus(ip1, jso) = 0 /\ Minus(jsp1, jsp - 1) = 0
        BY <2>2, WeightedSums
    <2>5. /\ Plus(Times(1, h), Times(0, Minus(jso1, jso))) = 0
          /\ Plus(Times(1, difference), Times(0, Minus(jsd1, jsd))) = 0
          /\ Plus(Times(1, Minus(ip1, jso)), Times(0, Minus(ip1, jsd))) = 0
          /\ Plus(Times(1, Minus(jsp1, jsp - 1)), Times(0, Minus(jsp1, jsp))) = 0
        <3>1. /\ Minus(jso1, jso) \in Int /\ Minus(jsd1, jsd) \in Int /\ Minus(ip1, jsd) \in Int
              /\ Minus(jsp1, jsp) \in Int
            BY <1>8
        <3>2. \A b \in Int : Plus(Times(1, 0), Times(0, b)) = 0
            BY WeightedSums
        <3>3. /\ Plus(Times(1, 0), Times(0, Minus(jso1, jso))) = 0
              /\ Plus(Times(1, 0), Times(0, Minus(jsd1, jsd))) = 0
              /\ Plus(Times(1, 0), Times(0, Minus(ip1, jsd))) = 0
              /\ Plus(Times(1, 0), Times(0, Minus(jsp1, jsp))) = 0
            BY ONLY <3>1, <3>2
        <3> QED BY ONLY <2>1, <2>4, <3>3
    <2> QED BY <1>3, <1>5, <1>7, <1>9, <2>3, <2>5 DEF RecurseOrReturnConstraints
<1>12. CASE St(DigestLen) # St(DigestLen + 1)
    <2>1. Times(h, difference) = 1
        BY <1>3, <1>4, <1>5, <1>12, InverseFacts
    <2>2. ip1 = jsd /\ jsp1 = jsp /\ jso1 = jso /\ jsd1 = jsd
        BY <1>1, <1>7, <1>12, Recursing DEF KeepJumpStack
    <2>3. Minus(1, Times(h, difference)) = 0
        BY <2>1, WeightedSums
    <2>4. Minus(ip1, jsd) = 0 /\ Minus(jsp1, jsp) = 0 /\ Minus(jso1, jso) = 0
          /\ Minus(jsd1, jsd) = 0
        BY <2>2, WeightedSums
    <2>5. /\ Plus(Times(0, h), Times(1, Minus(jso1, jso))) = 0
          /\ Plus(Times(0, difference), Times(1, Minus(jsd1, jsd))) = 0
          /\ Plus(Times(0, Minus(ip1, jso)), Times(1, Minus(ip1, jsd))) = 0
          /\ Plus(Times(0, Minus(jsp1, jsp - 1)), Times(1, Minus(jsp1, jsp))) = 0
        <3>1. jsp - 1 \in Int
            OBVIOUS
        <3>2. Minus(ip1, jso) \in Int /\ Minus(jsp1, jsp - 1) \in Int
            BY <1>8, <3>1
        <3>3. \A a \in Int : Plus(Times(0, a), Times(1, 0)) = 0
            BY WeightedSums
        <3>4. /\ Plus(Times(0, h), Times(1, 0)) = 0
              /\ Plus(Times(0, difference), Times(1, 0)) = 0
              /\ Plus(Times(0, Minus(ip1, jso)), Times(1, 0)) = 0
              /\ Plus(Times(0, Minus(jsp1, jsp - 1)), Times(1, 0)) = 0
            BY ONLY <1>10, <3>2, <3>3
        <3> QED BY ONLY <2>4, <3>4
    <2> QED BY <1>3, <1>5, <1>7, <1>9, <2>1, <2>3, <2>5 DEF RecurseOrReturnConstraints
<1> QED BY <1>11, <1>12
------------------------------------------------------------------------------
(* Instructions that replace one or two elements by one. *)

\* Two elements replaced by one.
LEMMA BinopInRows ==
    ASSUME NEW t, AirStep(t), NEW x, Replace(2, <<x>>)
    PROVE  Binop(t) /\ t.next.st[1] = x
<1>1. 1 \in 0 .. NumRegisters /\ 2 \in 0 .. NumRegisters /\ Len(<<x>>) = 1
    BY RegisterFacts
<1>2. Replaced(t, 2, 1, <<x>>) /\ \A d \in Nat : 2 = 1 + d => Shrinks(t, d, 1)
    BY ONLY AirStep(t), Replace(2, <<x>>), <1>1, ReplaceInRows
<1> QED BY <1>2 DEF Binop, Replaced

\* One element replaced by one.
LEMMA UnopInRows ==
    ASSUME NEW t, AirStep(t), NEW x, Replace(1, <<x>>)
    PROVE  RemainsExceptTop(t, 1) /\ t.next.st[1] = x
<1>1. 1 \in 0 .. NumRegisters /\ Len(<<x>>) = 1
    BY RegisterFacts
<1>2. Replaced(t, 1, 1, <<x>>) /\ RemainsExceptTop(t, 1)
    BY ONLY AirStep(t), Replace(1, <<x>>), <1>1, ReplaceInRows
<1> QED BY <1>2 DEF Replaced

\* One element dropped.
LEMMA DropInRows ==
    ASSUME NEW t, AirStep(t), NEW n \in 0 .. NumRegisters, Replace(n, <<>>)
    PROVE  ShrinksBy(t, n)
<1>1. 0 \in 0 .. NumRegisters /\ Len(<<>>) = 0 /\ n \in Nat
    BY RegisterFacts, RegisterAssumption
<1>2. \A d \in Nat : n = 0 + d => Shrinks(t, d, 0)
    BY ONLY AirStep(t), Replace(n, <<>>), n \in 0 .. NumRegisters, <1>1, ReplaceInRows
<1> QED BY <1>1, <1>2 DEF ShrinksBy

\* add
LEMMA AddAir ==
    ASSUME NEW t, AirStep(t), Add
    PROVE  AddConstraints(t)
<1>1. /\ CurrentInstruction.op = "add" /\ Completes(NextAddress) /\ jump_stack' = jump_stack
      /\ Replace(2, <<Plus(St(0), St(1))>>)
    BY DEF Add, Executes, OnStackOnly
<1>2. Step1(t)
    BY <1>1, MovesOn DEF SingleWordOps
<1> QED BY <1>1, <1>2, BinopInRows, NamedRegisters DEF AddConstraints

\* mul
LEMMA MulAir ==
    ASSUME NEW t, AirStep(t), Mul
    PROVE  MulConstraints(t)
<1>1. /\ CurrentInstruction.op = "mul" /\ Completes(NextAddress) /\ jump_stack' = jump_stack
      /\ Replace(2, <<Times(St(0), St(1))>>)
    BY DEF Mul, Executes, OnStackOnly
<1>2. Step1(t)
    BY <1>1, MovesOn DEF SingleWordOps
<1> QED BY <1>1, <1>2, BinopInRows, NamedRegisters DEF MulConstraints

\* invert: the old top element and the new one are inverses.
LEMMA InvertAir ==
    ASSUME NEW t, AirStep(t), Invert
    PROVE  InvertConstraints(t)
<1>1. /\ CurrentInstruction.op = "invert" /\ Completes(NextAddress) /\ jump_stack' = jump_stack
      /\ St(0) # 0 /\ Replace(1, <<InverseOf(St(0))>>)
    BY DEF Invert, Executes, OnStackOnly, AirStep, Fails, NoError
<1>2. Step1(t)
    BY <1>1, MovesOn DEF SingleWordOps
<1>3. Times(InverseOf(St(0)), St(0)) = 1
    BY <1>1, NamedRegisters, ArithmeticLaws
<1> QED BY <1>1, <1>2, <1>3, UnopInRows, NamedRegisters DEF InvertConstraints

\* eq: the helper variable is the inverse of the difference, or 0.
LEMMA EqAir ==
    ASSUME NEW t, AirStep(t), Eq
    PROVE  EqConstraints(t)
<1>1. /\ CurrentInstruction.op = "eq" /\ Completes(NextAddress) /\ jump_stack' = jump_stack
      /\ Replace(2, <<IF St(0) = St(1) THEN 1 ELSE 0>>)
    BY DEF Eq, Executes, OnStackOnly
<1>2. Step1(t)
    BY <1>1, MovesOn DEF SingleWordOps
<1>3. VMTypeOK /\ InBounds(instruction_pointer) /\ t.cur = ProcessorRow
    BY DEF AirStep, StepCompletes
<1>4. PICK difference \in Field :
          /\ difference = Minus(t.cur.st[2], t.cur.st[1])
          /\ difference = Minus(St(1), St(0)) /\ (difference = 0 <=> St(0) = St(1))
    BY NamedRegisters, FieldDifference
<1>5. t.cur.hv[1] = InverseOrZero(difference)
    <2>1. ProcessorRow.hv = Helpers(<<InverseOrZero(Minus(St(1), St(0)))>>)
        BY <1>1, <1>3, InstructionRow DEF DeriveHelperVariables, NumWordsOps, RegisterOps
    <2> QED BY <1>3, <1>4, <2>1, SingleHelper
<1>6. HelperIsInverseOrZeroOf(t.cur, difference)
    BY <1>5, InverseFacts DEF HelperIsInverseOrZeroOf
<1>7. Minus(1, Times(t.cur.hv[1], difference)) = IF St(0) = St(1) THEN 1 ELSE 0
    BY <1>4, <1>5, InverseFacts, WeightedSums
<1>8. Binop(t) /\ t.next.st[1] = IF St(0) = St(1) THEN 1 ELSE 0
    BY <1>1, BinopInRows
<1> QED BY <1>2, <1>4, <1>6, <1>7, <1>8 DEF EqConstraints

\* What opcodes tell.
LEMMA OpcodeFacts ==
    /\ \A op \in DoubleWordOps : Opcode[op] \in 0 .. 127 /\ Opcode[op] % 2 = 1 /\ Opcode[op] < P
    /\ \A op \in SingleWordOps : Opcode[op] \in 0 .. 127 /\ Opcode[op] % 2 = 0 /\ Opcode[op] < P
<1>1. \A op \in DoubleWordOps : Opcode[op] \in 0 .. 127 /\ Opcode[op] % 2 = 1
    BY DEF DoubleWordOps, NumWordsOps, RegisterOps, ElementOps, Opcode
<1>2. \A op \in SingleWordOps : Opcode[op] \in 0 .. 127 /\ Opcode[op] % 2 = 0
    BY DEF SingleWordOps, Opcode
<1>3. DoubleWordOps \cup SingleWordOps \subseteq DOMAIN Opcode
    BY DEF DoubleWordOps, NumWordsOps, RegisterOps, ElementOps, SingleWordOps, Opcode
<1>4. \A op \in DOMAIN Opcode : Opcode[op] < P
    BY AirAssumption
<1> QED BY <1>1, <1>2, <1>3, <1>4

\* What the program memory holds.
LEMMA InstructionsAt ==
    ASSUME VMTypeOK, NEW ip \in Nat, InBounds(ip)
    PROVE  InstructionAt(ip).op \in DoubleWordOps \cup SingleWordOps
<1>1. program \in Seq(Instruction)
    BY InputAssumption DEF VMTypeOK, IsProgramMemory
<1>2. PICK I : I = Instruction
    OBVIOUS
<1>3. PICK s : s = program
    OBVIOUS
<1>4. s \in Seq(I) /\ ip + 1 \in 1 .. Len(s)
    BY <1>1, <1>2, <1>3 DEF InBounds
<1>5. s[ip + 1] \in I
    BY ONLY <1>4
<1>6. InstructionAt(ip) \in Instruction
    BY <1>2, <1>3, <1>5 DEF InstructionAt
<1> QED BY <1>6 DEF Instruction, DoubleWordOps

\* Chunks of two bits, behind a single one.
LEMMA Chunks ==
    ASSUME NEW o \in 0 .. 127
    PROVE  /\ o % 2 \in 0 .. 1 /\ (o \div 2) % 4 \in 0 .. 3 /\ (o \div 8) % 4 \in 0 .. 3
           /\ (o \div 32) % 4 \in 0 .. 3 /\ o \div 128 = 0
           /\ o = (o % 2) + 2 * ((o \div 2) % 4) + 8 * ((o \div 8) % 4)
                      + 32 * ((o \div 32) % 4) + 128 * (o \div 128)
OBVIOUS

\* skiz: the helper variables tell whether the condition is 0 and how long the
\* instruction is that may be skipped.
LEMMA SkizAir ==
    ASSUME NEW t, AirStep(t), Skiz
    PROVE  SkizConstraints(t)
<1>1. /\ CurrentInstruction.op = "skiz" /\ jump_stack' = jump_stack /\ Replace(1, <<>>)
      /\ \/ St(0) # 0 /\ Completes(NextAddress)
         \/ St(0) = 0 /\ InBounds(NextAddress) /\ Completes(AddressBehindSkipped)
    BY DEF Skiz, Executes, OnStackOnly, AirStep, NoError
<1>2. VMTypeOK /\ InBounds(instruction_pointer) /\ t.cur = ProcessorRow
    BY DEF AirStep, StepCompletes
<1>3. t.cur.st[1] = St(0) /\ St(0) \in Field
    BY NamedRegisters
<1>4. instruction_pointer \in Nat /\ NextAddress = instruction_pointer + 1
    BY <1>1, <1>2 DEF VMTypeOK, NextAddress, Size, HasArg, DoubleWordOps, NumWordsOps,
                      RegisterOps, ElementOps
<1>5. PICK o \in 0 .. 127 :
          /\ o = NextInstructionOrArgument /\ o < P
          /\ InBounds(NextAddress) => Size(InstructionAt(NextAddress)) = 1 + (o % 2)
    <2>1. NextInstructionOrArgument =
              IF InBounds(NextAddress) THEN Opcode[InstructionAt(NextAddress).op] ELSE 1
        BY <1>1, <1>2 DEF NextInstructionOrArgument, HasArg, DoubleWordOps, NumWordsOps,
                          RegisterOps, ElementOps
    <2>2. CASE ~InBounds(NextAddress)
        BY <2>1, <2>2, FieldFacts
    <2>3. CASE InBounds(NextAddress)
        <3>1. PICK op : op = InstructionAt(NextAddress).op
            OBVIOUS
        <3>2. op \in DoubleWordOps \cup SingleWordOps
            BY <1>2, <1>4, <2>3, <3>1, InstructionsAt
        <3>3. Opcode[op] \in 0 .. 127 /\ Opcode[op] < P
            BY <3>2, OpcodeFacts
        <3>4. Size(InstructionAt(NextAddress)) = IF op \in DoubleWordOps THEN 2 ELSE 1
            BY <3>1 DEF Size, HasArg
        <3>5. op \in DoubleWordOps => Opcode[op] % 2 = 1
            BY OpcodeFacts
        <3>6. op \notin DoubleWordOps => Opcode[op] % 2 = 0
            BY <3>2, OpcodeFacts
        <3>7. Size(InstructionAt(NextAddress)) = 1 + (Opcode[op] % 2)
            BY <3>4, <3>5, <3>6
        <3> QED BY <2>1, <2>3, <3>1, <3>3, <3>7
    <2> QED BY <2>2, <2>3
<1>6. PICK hv : hv = t.cur.hv
    OBVIOUS
<1>7. /\ hv[1] = InverseOrZero(St(0)) /\ hv[2] = o % 2 /\ hv[3] = (o \div 2) % 4
      /\ hv[4] = (o \div 8) % 4 /\ hv[5] = (o \div 32) % 4 /\ hv[6] = o \div 128
    <2>1. hv = Helpers(<<InverseOrZero(St(0))>> \o DecomposeOpcode(o))
        BY <1>1, <1>2, <1>5, <1>6, InstructionRow
           DEF DeriveHelperVariables, NumWordsOps, RegisterOps
    <2>2. PICK first : first = <<InverseOrZero(St(0))>> \o DecomposeOpcode(o)
        OBVIOUS
    <2>3. /\ Len(first) = 6 /\ first[1] = InverseOrZero(St(0))
          /\ first[2] = o % 2 /\ first[3] = (o \div 2) % 4
          /\ first[4] = (o \div 8) % 4 /\ first[5] = (o \div 32) % 4 /\ first[6] = o \div 128
        BY <2>2 DEF DecomposeOpcode
    <2>4. \A k \in 1 .. 6 : k \in 1 .. NumHelpers
        BY AirAssumption, RegisterAssumption, SizeAssumption DEF Rate
    <2>5. \A k \in 1 .. 6 : hv[k] = first[k]
        BY <2>1, <2>2, <2>3, <2>4 DEF Helpers
    <2> QED BY <2>3, <2>5
<1>8. HelperIsInverseOrZeroOf(t.cur, St(0))
    BY <1>3, <1>6, <1>7, InverseFacts DEF HelperIsInverseOrZeroOf
<1>9. OpcodeIsDecomposed(t.cur)
    <2>1. \A k \in 3 .. 6 : k \in {3, 4, 5, 6}
        OBVIOUS
    <2>2. hv[2] \in 0 .. 1 /\ hv[3] \in 0 .. 3 /\ hv[4] \in 0 .. 3 /\ hv[5] \in 0 .. 3
          /\ hv[6] \in 0 .. 3
        BY <1>7, Chunks
    <2>3. hv[2] + 2 * hv[3] + 8 * hv[4] + 32 * hv[5] + 128 * hv[6] = o
        BY <1>7, Chunks
    <2>4. t.cur.nia = o
        BY <1>2, <1>5 DEF ProcessorRow
    <2>5. o % P = o
        BY <1>5, BelowPrime
    <2> QED BY <1>6, <2>1, <2>2, <2>3, <2>4, <2>5 DEF OpcodeIsDecomposed
<1>10. IpIncreasesBy(t, IF t.cur.st[1] # 0 THEN 1 ELSE 2 + t.cur.hv[2])
    <2>1. CASE St(0) # 0
        <3>1. Completes(instruction_pointer + 1) /\ 1 \in Nat
            BY <1>1, <1>4, <2>1
        <3>2. IpIncreasesBy(t, 1)
            BY <3>1, InstructionPointers
        <3> QED BY <1>3, <2>1, <3>2
    <2>2. CASE St(0) = 0
        <3>1. PICK n \in Nat : n = 2 + (o % 2)
            OBVIOUS
        <3>2. AddressBehindSkipped = instruction_pointer + n
            <4>1. AddressBehindSkipped = (instruction_pointer + 1) + (1 + (o % 2))
                BY <1>1, <1>4, <1>5, <2>2 DEF AddressBehindSkipped
            <4> QED BY <1>4, <3>1, <4>1
        <3>3. Completes(AddressBehindSkipped)
            BY <1>1, <2>2
        <3>4. IpIncreasesBy(t, n)
            BY <3>2, <3>3, InstructionPointers
        <3> QED BY <1>3, <1>6, <1>7, <2>2, <3>1, <3>4
    <2> QED BY <2>1, <2>2
<1>11. ShrinkOpStack(t)
    <2>1. 1 \in 0 .. NumRegisters
        BY RegisterFacts
    <2> QED BY <1>1, <2>1, DropInRows DEF ShrinksBy, ShrinkOpStack
<1>12. KeepJumpStack(t)
    BY <1>1, KeptJumpStack
<1> QED BY <1>3, <1>8, <1>9, <1>10, <1>11, <1>12 DEF SkizConstraints

\* assert_vector compares two digests before it drops one.
LEMMA AssertVectorAir ==
    ASSUME NEW t, AirStep(t), AssertVector
    PROVE  AssertVectorConstraints(t)
<1>1. /\ CurrentInstruction.op = "assert_vector" /\ Completes(NextAddress)
      /\ jump_stack' = jump_stack /\ Replace(DigestLen, <<>>)
      /\ Tops(0, DigestLen) = Tops(DigestLen, DigestLen)
    BY DEF AssertVector, Executes, OnStackOnly, AirStep, Fails, NoError
<1>2. Step1(t)
    BY <1>1, MovesOn DEF SingleWordOps
<1>3. ShrinksBy(t, DigestLen)
    <2>1. DigestLen \in 0 .. NumRegisters
        BY RegisterFacts
    <2> QED BY <1>1, <2>1, DropInRows
<1>4. PICK d \in Nat \ {0}, r \in Nat : d = DigestLen /\ r = NumRegisters /\ 2 * d <= r
    BY SizeAssumption, RegisterAssumption DEF Rate
<1>5. ASSUME NEW k \in 1 .. d PROVE t.cur.st[k + d] = t.cur.st[k]
    <2>1. Tops(0, d)[k] = Tops(d, d)[k]
        BY <1>1, <1>4
    <2>2. St(0 + k - 1) = St(d + k - 1)
        BY <2>1 DEF Tops
    <2>3. /\ 0 + k - 1 = k - 1 /\ d + k - 1 = (k + d) - 1
          /\ k \in 1 .. r /\ k + d \in 1 .. r
        BY <1>4
    <2>4. St(k - 1) = St((k + d) - 1)
        BY <2>2, <2>3
    <2> QED BY <1>4, <2>3, <2>4, CurrentRegisters
<1> QED BY <1>2, <1>3, <1>4, <1>5 DEF AssertVectorConstraints
------------------------------------------------------------------------------
(* Memory, input and output. *)

\* An element pushed on top of others.
LEMMA OneOnTop ==
    ASSUME NEW n \in Nat, NEW x, NEW v, v = [k \in 1 .. n |-> v[k]]
    PROVE  /\ Len(<<x>> \o v) = n + 1 /\ (<<x>> \o v)[1] = x
           /\ \A k \in 1 .. n : (<<x>> \o v)[k + 1] = v[k]
<1>1. IsSequence(<<x>>) /\ Len(<<x>>) = 1 /\ <<x>>[1] = x
    BY DEF IsSequence
<1>2. IsSequence(v) /\ Len(v) = n
    BY IndexedSequence
<1>3. PICK u : u = <<x>>
    OBVIOUS
<1>4. IsSequence(u) /\ IsSequence(v) /\ Len(u) = 1 /\ u[1] = x
    BY <1>1, <1>2, <1>3
<1>5. /\ Len(u \o v) = Len(u) + Len(v)
      /\ \A i \in 1 .. Len(u) : (u \o v)[i] = u[i]
      /\ \A i \in 1 .. Len(v) : (u \o v)[Len(u) + i] = v[i]
    <2>1. IsSequence(u) /\ IsSequence(v)
        BY <1>4
    <2> QED BY ONLY <2>1, ConcatenatedSequence
<1>6. Len(u \o v) = n + 1 /\ (u \o v)[1] = x
    BY <1>2, <1>4, <1>5
<1>7. \A k \in 1 .. n : (u \o v)[k + 1] = v[k]
    <2>1. \A k \in 1 .. n : 1 + k = k + 1
        OBVIOUS
    <2> QED BY <1>2, <1>4, <1>5, <2>1
<1> QED BY <1>3, <1>6, <1>7

\* read_mem: the pointer moves down by as many words as are pushed above it.
LEMMA ReadMemAir ==
    ASSUME NEW t, AirStep(t), ReadMem
    PROVE  ReadMemConstraints(t)
<1>1. /\ CurrentInstruction.op = "read_mem" /\ Completes(NextAddress)
      /\ jump_stack' = jump_stack
      /\ Replace(1, <<(St(0) - Arg) % P>> \o
                        [k \in 1 .. Arg |-> ram[Addresses(St(0), -1, Arg)[Arg + 1 - k]]])
    BY DEF ReadMem, Executes
<1>2. /\ Step2(t) /\ HasLegalNumberOfWords(t.cur) /\ IndicatedArg(t.cur) = Arg
      /\ Arg \in 1 .. MaxNumWords
    BY <1>1, MovesOn, ArgumentShown DEF DoubleWordOps, NumWordsOps
<1>3. PICK a \in Nat : a = Arg /\ a + 1 \in 0 .. NumRegisters
    BY <1>2, RegisterFacts
<1>4. PICK x, v : /\ x = (St(0) - a) % P
                  /\ v = [k \in 1 .. a |-> ram[Addresses(St(0), -1, a)[a + 1 - k]]]
    OBVIOUS
<1>5. PICK tops : tops = <<x>> \o v
    OBVIOUS
<1>6. Len(tops) = a + 1 /\ tops[1] = x
    <2>1. v = [k \in 1 .. a |-> v[k]]
        BY <1>4
    <2> QED BY <1>5, <2>1, OneOnTop
<1>7. Replace(1, tops)
    BY <1>1, <1>3, <1>4, <1>5
<1>8. PICK m \in 0 .. NumRegisters : m = a + 1
    BY <1>3
<1>9. AirStep(t) /\ 1 \in 0 .. NumRegisters /\ Len(tops) = m
    BY <1>6, <1>8, RegisterFacts
<1>10. Replaced(t, 1, m, tops) /\ \A d \in Nat : m = 1 + d => Grows(t, d, m)
    BY ONLY <1>7, <1>9, ReplaceInRows
<1>11. Grows(t, a, a + 1)
    <2>1. a \in Nat /\ m = 1 + a
        BY <1>3, <1>8
    <2> QED BY <1>8, <1>10, <2>1
<1>12. t.next.st[1] = Minus(t.cur.st[1], a)
    <2>1. 1 \in 1 .. m
        BY <1>3, <1>8
    <2> QED BY <1>4, <1>6, <1>10, <2>1, NamedRegisters DEF Replaced, Minus
<1> QED BY <1>2, <1>3, <1>11, <1>12 DEF ReadMemConstraints

\* write_mem: the pointer moves up by as many words as are popped from below it.
LEMMA WriteMemAir ==
    ASSUME NEW t, AirStep(t), WriteMem
    PROVE  WriteMemConstraints(t)
<1>1. /\ CurrentInstruction.op = "write_mem" /\ Completes(NextAddress)
      /\ jump_stack' = jump_stack /\ Replace(Arg + 1, <<Plus(St(0), Arg)>>)
    BY DEF WriteMem, Executes
<1>2. /\ Step2(t) /\ HasLegalNumberOfWords(t.cur) /\ IndicatedArg(t.cur) = Arg
      /\ Arg \in 1 .. MaxNumWords
    BY <1>1, MovesOn, ArgumentShown DEF DoubleWordOps, NumWordsOps
<1>3. PICK a \in Nat : a = Arg /\ a + 1 \in 0 .. NumRegisters
    BY <1>2, RegisterFacts
<1>4. PICK tops : tops = <<Plus(St(0), a)>>
    OBVIOUS
<1>5. PICK n \in 0 .. NumRegisters : n = a + 1
    BY <1>3
<1>6. AirStep(t) /\ 1 \in 0 .. NumRegisters /\ Len(tops) = 1 /\ Replace(n, tops)
    BY <1>1, <1>3, <1>4, <1>5, RegisterFacts
<1>7. Replaced(t, n, 1, tops) /\ \A d \in Nat : n = 1 + d => Shrinks(t, d, 1)
    BY ONLY <1>6, ReplaceInRows
<1>8. Shrinks(t, a, 1)
    <2>1. a \in Nat /\ n = 1 + a
        BY <1>3, <1>5
    <2> QED BY <1>7, <2>1
<1>9. t.next.st[1] = Plus(t.cur.st[1], a)
    BY <1>4, <1>7, NamedRegisters DEF Replaced
<1> QED BY <1>2, <1>3, <1>8, <1>9 DEF WriteMemConstraints

\* read_io
LEMMA ReadIoAir ==
    ASSUME NEW t, AirStep(t), ReadIo
    PROVE  ReadIoConstraints(t)
<1>1. /\ CurrentInstruction.op = "read_io" /\ Completes(NextAddress) /\ jump_stack' = jump_stack
      /\ Replace(0, [k \in 1 .. Arg |-> public_input[Arg + 1 - k]])
    BY DEF ReadIo, Executes, AirStep, Fails, NoError
<1>2. /\ Step2(t) /\ HasLegalNumberOfWords(t.cur) /\ IndicatedArg(t.cur) = Arg
      /\ Arg \in 1 .. MaxNumWords
    BY <1>1, MovesOn, ArgumentShown DEF DoubleWordOps, NumWordsOps
<1>3. PICK a \in Nat : a = Arg /\ a \in 0 .. NumRegisters
    BY <1>2, RegisterFacts
<1>4. PICK tops : tops = [k \in 1 .. a |-> public_input[a + 1 - k]]
    OBVIOUS
<1>5. AirStep(t) /\ 0 \in 0 .. NumRegisters /\ Len(tops) = a /\ Replace(0, tops)
    BY <1>1, <1>3, <1>4, RegisterFacts
<1>6. \A d \in Nat : a = 0 + d => Grows(t, d, a)
    BY ONLY <1>3, <1>5, ReplaceInRows
<1>7. Grows(t, a, a)
    BY <1>3, <1>6
<1> QED BY <1>2, <1>3, <1>7 DEF ReadIoConstraints, DivineConstraints, GrowsBy

\* write_io
LEMMA WriteIoAir ==
    ASSUME NEW t, AirStep(t), WriteIo
    PROVE  WriteIoConstraints(t)
<1>1. /\ CurrentInstruction.op = "write_io" /\ Completes(NextAddress) /\ jump_stack' = jump_stack
      /\ Replace(Arg, <<>>)
    BY DEF WriteIo, Executes
<1>2. /\ Step2(t) /\ HasLegalNumberOfWords(t.cur) /\ IndicatedArg(t.cur) = Arg
      /\ Arg \in 1 .. MaxNumWords
    BY <1>1, MovesOn, ArgumentShown DEF DoubleWordOps, NumWordsOps
<1>3. PICK a \in 0 .. NumRegisters : a = Arg
    BY <1>2, RegisterFacts
<1>4. ShrinksBy(t, a)
    BY <1>1, <1>3, DropInRows
<1> QED BY <1>2, <1>3, <1>4 DEF WriteIoConstraints, PopConstraints
------------------------------------------------------------------------------
(* Hashing. *)

\* hash replaces Rate elements by a digest.
LEMMA HashAir ==
    ASSUME NEW t, AirStep(t), Hash
    PROVE  HashConstraints(t)
<1>1. /\ CurrentInstruction.op = "hash" /\ Completes(NextAddress) /\ jump_stack' = jump_stack
      /\ Replace(Rate, SubSeq(Tip5(FixedLength(Tops(0, Rate))), 1, DigestLen))
    BY DEF Hash, Executes
<1>2. Step1(t)
    BY <1>1, MovesOn DEF SingleWordOps
<1>3. PICK tops : tops = SubSeq(Tip5(FixedLength(Tops(0, Rate))), 1, DigestLen)
    OBVIOUS
<1>4. Len(tops) = DigestLen
    <2>1. VMTypeOK
        BY DEF AirStep
    <2>2. 0 \in Nat /\ Rate \in Nat /\ 0 + Rate <= Len(op_stack)
        BY <2>1, DepthFacts, SpongeFacts
    <2>3. Tops(0, Rate) \in [1 .. Rate -> Field]
        BY <2>1, <2>2, StackAccess
    <2>4. PICK s \in SpongeState : s = Tip5(FixedLength(Tops(0, Rate)))
        BY <2>3, SpongeFacts
    <2>5. StateSize \in Nat /\ DigestLen \in Nat /\ DigestLen <= StateSize
        BY SpongeFacts, SizeAssumption
    <2>6. s \in [1 .. StateSize -> Field]
        BY DEF SpongeState
    <2>7. Len(SubSeq(s, 1, DigestLen)) = DigestLen
        BY ONLY <2>5, <2>6, FrontLength
    <2> QED BY <1>3, <2>4, <2>7
<1>5. AirStep(t) /\ Rate \in 0 .. NumRegisters /\ DigestLen \in 0 .. NumRegisters
      /\ Replace(Rate, tops)
    BY <1>1, <1>3, RegisterFacts
<1>6. \A d \in Nat : Rate = DigestLen + d => Shrinks(t, d, DigestLen)
    BY ONLY <1>4, <1>5, ReplaceInRows
<1>7. DigestLen \in Nat /\ Rate = DigestLen + DigestLen
    BY SizeAssumption DEF Rate
<1> QED BY <1>2, <1>6, <1>7 DEF HashConstraints

\* sponge_init
LEMMA SpongeInitAir ==
    ASSUME NEW t, AirStep(t), SpongeInit
    PROVE  SpongeInitConstraints(t)
<1>1. /\ CurrentInstruction.op = "sponge_init" /\ Completes(NextAddress)
      /\ jump_stack' = jump_stack /\ StackUnchanged
    BY DEF SpongeInit, Executes
<1> QED BY <1>1, MovesOn, UnchangedInRows DEF SingleWordOps, SpongeInitConstraints

\* sponge_absorb
LEMMA SpongeAbsorbAir ==
    ASSUME NEW t, AirStep(t), SpongeAbsorb
    PROVE  SpongeAbsorbConstraints(t)
<1>1. /\ CurrentInstruction.op = "sponge_absorb" /\ Completes(NextAddress)
      /\ jump_stack' = jump_stack /\ Replace(Rate, <<>>)
    BY DEF SpongeAbsorb, Executes, AirStep, Fails, NoError
<1>2. Step1(t)
    BY <1>1, MovesOn DEF SingleWordOps
<1>3. Rate \in 0 .. NumRegisters
    BY RegisterFacts
<1> QED BY <1>1, <1>2, <1>3, DropInRows DEF SpongeAbsorbConstraints

\* sponge_squeeze
LEMMA SpongeSqueezeAir ==
    ASSUME NEW t, AirStep(t), SpongeSqueeze
    PROVE  SpongeSqueezeConstraints(t)
<1>1. /\ CurrentInstruction.op = "sponge_squeeze" /\ Completes(NextAddress)
      /\ jump_stack' = jump_stack /\ sponge # NoSponge
      /\ Replace(0, SubSeq(sponge, 1, Rate))
    BY DEF SpongeSqueeze, Executes, AirStep, Fails, NoError
<1>2. Step1(t)
    BY <1>1, MovesOn DEF SingleWordOps
<1>3. PICK tops : tops = SubSeq(sponge, 1, Rate)
    OBVIOUS
<1>4. Len(tops) = Rate
    <2>1. sponge \in [1 .. StateSize -> Field]
        BY <1>1 DEF AirStep, VMTypeOK, SpongeState
    <2>2. StateSize \in Nat /\ Rate \in Nat /\ Rate <= StateSize
        BY SpongeFacts
    <2>3. PICK s : s = sponge
        OBVIOUS
    <2>4. s \in [1 .. StateSize -> Field]
        BY <2>1, <2>3
    <2>5. Len(SubSeq(s, 1, Rate)) = Rate
        BY ONLY <2>2, <2>4, FrontLength
    <2> QED BY <1>3, <2>3, <2>5
<1>5. AirStep(t) /\ Rate \in 0 .. NumRegisters /\ 0 \in 0 .. NumRegisters /\ Replace(0, tops)
    BY <1>1, <1>3, RegisterFacts
<1>6. \A d \in Nat : Rate = 0 + d => Grows(t, d, Rate)
    BY ONLY <1>4, <1>5, ReplaceInRows
<1>7. Rate \in Nat /\ Rate = 0 + Rate
    BY SpongeFacts
<1> QED BY <1>2, <1>6, <1>7 DEF SpongeSqueezeConstraints, GrowsBy

\* sponge_absorb_mem shows the words the helper variables have no room for.
LEMMA SpongeAbsorbMemAir ==
    ASSUME NEW t, AirStep(t), SpongeAbsorbMem
    PROVE  SpongeAbsorbMemConstraints(t)
<1>1. /\ CurrentInstruction.op = "sponge_absorb_mem" /\ Completes(NextAddress)
      /\ jump_stack' = jump_stack
      /\ LET elements == Contents(Addresses(St(0), 1, Rate))
             depth == Len(op_stack)
         IN  StackBecomes([k \in 1 .. depth |->
                 IF k = depth THEN Plus(St(0), Rate)
                 ELSE IF depth - k <= Rate - NumHelpers THEN elements[depth - k]
                 ELSE op_stack[k]], 1, 1)
    BY DEF SpongeAbsorbMem, Executes, AirStep, Fails, NoError
<1>2. Step1(t)
    BY <1>1, MovesOn DEF SingleWordOps
<1>3. PICK r \in Nat, d \in Nat, q \in Nat :
          /\ r = NumRegisters /\ d = Len(op_stack) /\ q = Rate - NumHelpers /\ d >= r /\ r >= 1
    <2>1. PICK r \in Nat, d \in Nat : r = NumRegisters /\ d = Len(op_stack) /\ d >= r
        BY RegisterAssumption, RegisterInStack
    <2>2. PICK e \in Nat, h \in Nat : e = Rate /\ h = NumHelpers /\ h <= e /\ e <= r /\ e >= 1
        BY <2>1, RegisterAssumption, SizeAssumption DEF Rate
    <2>3. e - h \in Nat /\ r >= 1
        BY <2>1, <2>2
    <2> QED BY <2>1, <2>2, <2>3
<1>4. PICK elements : elements = Contents(Addresses(St(0), 1, Rate))
    OBVIOUS
<1> DEFINE x == [k \in 1 .. d |->
                    IF k = d THEN Plus(St(0), Rate)
                    ELSE IF d - k <= q THEN elements[d - k] ELSE op_stack[k]]
<1>5. StackBecomes(x, 1, 1)
    BY <1>1, <1>3, <1>4
<1>6. x = [k \in 1 .. d |-> x[k]]
    OBVIOUS
<1>7. \A k \in 1 .. d : x[k] = IF k = d THEN Plus(St(0), Rate)
                               ELSE IF d - k <= q THEN elements[d - k] ELSE op_stack[k]
    OBVIOUS
<1> HIDE DEF x
<1>8. /\ t.next.op_stack_pointer = t.cur.op_stack_pointer
      /\ \A k \in 1 .. r : t.next.st[k] = x[d - (k - 1)]
    BY <1>3, <1>5, <1>6, RewrittenInRows
<1>9. \A k \in 1 .. r : t.cur.st[k] = op_stack[d - (k - 1)]
    BY <1>3, RegisterInStack
<1>10. t.next.st[1] = Plus(t.cur.st[1], Rate)
    <2>1. 1 \in 1 .. r /\ d - (1 - 1) = d /\ d \in 1 .. d
        BY <1>3
    <2> QED BY <1>7, <1>8, <2>1, NamedRegisters
<1>11. ASSUME NEW k \in (1 + q) + 1 .. r PROVE t.next.st[k] = t.cur.st[k]
    <2>1. /\ k \in 1 .. r /\ d - (k - 1) \in 1 .. d /\ d - (k - 1) # d
          /\ ~(d - (d - (k - 1)) <= q)
        BY <1>3
    <2> QED BY <1>7, <1>8, <1>9, <2>1
<1> QED BY <1>2, <1>3, <1>8, <1>10, <1>11 DEF SpongeAbsorbMemConstraints, RemainsExceptTop
------------------------------------------------------------------------------
(* Arithmetic. *)

\* addi
LEMMA AddIAir ==
    ASSUME NEW t, AirStep(t), AddI
    PROVE  AddIConstraints(t)
<1>1. /\ CurrentInstruction.op = "addi" /\ Completes(NextAddress) /\ jump_stack' = jump_stack
      /\ StackBecomes([op_stack EXCEPT ![Len(op_stack)] = Plus(St(0), Arg)], 0, 0)
    BY DEF AddI, Executes, OnStackOnly
<1>2. Step2(t)
    BY <1>1, MovesOn DEF DoubleWordOps, ElementOps
<1>3. t.cur.nia = Arg
    BY <1>1 DEF AirStep, StepCompletes, ProcessorRow, NextInstructionOrArgument, HasArg,
                DoubleWordOps, ElementOps
<1>4. PICK r \in Nat, d \in Nat : r = NumRegisters /\ d = Len(op_stack) /\ d >= r /\ r >= 1
    <2>1. NumRegisters >= 1
        BY RegisterAssumption, SizeAssumption
    <2> QED BY <2>1, RegisterAssumption, RegisterInStack
<1>5. PICK x : x = [op_stack EXCEPT ![d] = Plus(St(0), Arg)]
    OBVIOUS
<1>6. op_stack = [k \in 1 .. d |-> op_stack[k]]
    BY <1>4, SeqIsSequence DEF AirStep, VMTypeOK, IsSequence
<1>7. /\ x = [k \in 1 .. d |-> x[k]]
      /\ \A k \in 1 .. d : x[k] = IF k = d THEN Plus(St(0), Arg) ELSE op_stack[k]
    BY <1>5, <1>6
<1>8. StackBecomes(x, 0, 0)
    BY <1>1, <1>4, <1>5
<1>9. /\ t.next.op_stack_pointer = t.cur.op_stack_pointer
      /\ \A k \in 1 .. r : t.next.st[k] = x[d - (k - 1)]
    BY <1>4, <1>7, <1>8, RewrittenInRows
<1>10. \A k \in 1 .. r : t.cur.st[k] = op_stack[d - (k - 1)]
    BY <1>4, RegisterInStack
<1>11. t.next.st[1] = Plus(t.cur.st[1], t.cur.nia)
    <2>1. 1 \in 1 .. r /\ d - (1 - 1) = d /\ d \in 1 .. d
        BY <1>4
    <2> QED BY <1>3, <1>7, <1>9, <2>1, NamedRegisters
<1>12. ASSUME NEW k \in 1 + 1 .. r PROVE t.next.st[k] = t.cur.st[k]
    <2>1. k \in 1 .. r /\ d - (k - 1) \in 1 .. d /\ d - (k - 1) # d
        BY <1>4
    <2> QED BY <1>7, <1>9, <1>10, <2>1
<1> QED BY <1>2, <1>4, <1>9, <1>11, <1>12 DEF AddIConstraints, RemainsExceptTop

\* The high word of a field element is only all ones if the low one is zero.
LEMMA WordsOfElement ==
    ASSUME NEW x \in Field
    PROVE  /\ x \div WordSize \in Field /\ WordSize - 1 \in Field
           /\ x % WordSize # 0 => x \div WordSize # WordSize - 1
           /\ Plus(WordSize * (x \div WordSize), x % WordSize) = x
<1>1. PICK w \in Nat \ {0} : w = WordSize /\ w > 1
    BY SizeAssumption
<1>2. PICK p \in Nat \ {0}, s \in Nat : p = P /\ s = w * w /\ p = s - w + 1
    BY <1>1, FieldFacts DEF P
<1>3. x \in 0 .. (p - 1)
    BY <1>2 DEF Field
<1>4. PICK hi \in Int, lo \in 0 .. (w - 1) :
          hi = x \div w /\ lo = x % w /\ x = w * hi + lo
    <2>1. \A z \in Int : /\ z \div w \in Int /\ z % w \in 0 .. (w - 1)
                         /\ z = w * (z \div w) + (z % w)
        OBVIOUS
    <2>2. x \in Int
        BY <1>3
    <2> QED BY <2>1, <2>2
<1>5. hi \in Field /\ w - 1 \in Field
    <2>1. x \div WordSize \in Field
        BY DivisionFacts
    <2>2. w - 1 \in Word
        BY <1>1 DEF Word
    <2> QED BY <1>1, <1>4, <2>1, <2>2, FieldFacts
<1>6. lo # 0 => hi # w - 1
    <2> SUFFICES ASSUME lo # 0, hi = w - 1 PROVE FALSE
        OBVIOUS
    <2>1. w * hi = w * w - w
        OBVIOUS
    <2>2. PICK y \in Int : y = w * hi
        OBVIOUS
    <2>3. y = s - w /\ x = y + lo /\ lo >= 1 /\ x <= p - 1 /\ p = s - w + 1
        BY <1>2, <1>3, <1>4, <2>1, <2>2
    <2> QED BY <2>3, <1>2, <1>3
<1>7. Plus(w * hi, lo) = x
    <2>1. x % P = x
        BY InField
    <2> QED BY <1>4, <2>1 DEF Plus
<1> QED BY <1>1, <1>4, <1>5, <1>6, <1>7

\* split: the two words make up the element, and not the element plus P.
LEMMA SplitAir ==
    ASSUME NEW t, AirStep(t), Split
    PROVE  SplitConstraints(t)
<1>1. /\ CurrentInstruction.op = "split" /\ Completes(NextAddress) /\ jump_stack' = jump_stack
      /\ Replace(1, <<St(0) % WordSize, St(0) \div WordSize>>)
    BY DEF Split, Executes, WithU32Calls
<1>2. Step1(t)
    BY <1>1, MovesOn DEF SingleWordOps
<1>3. VMTypeOK /\ InBounds(instruction_pointer) /\ t.cur = ProcessorRow
    BY DEF AirStep, StepCompletes
<1>4. PICK x \in Field : x = St(0) /\ x = t.cur.st[1]
    BY NamedRegisters
<1>5. PICK lo, hi, tops : lo = x % WordSize /\ hi = x \div WordSize /\ tops = <<lo, hi>>
    OBVIOUS
<1>6. /\ AirStep(t) /\ 1 \in 0 .. NumRegisters /\ 2 \in 0 .. NumRegisters /\ Len(tops) = 2
      /\ Replace(1, tops)
    BY <1>1, <1>4, <1>5, RegisterFacts
<1>7. Replaced(t, 1, 2, tops) /\ \A d \in Nat : 2 = 1 + d => Grows(t, d, 2)
    BY ONLY <1>6, ReplaceInRows
<1>8. GrowsAboveTopTwo(t)
    BY <1>7 DEF GrowsAboveTopTwo
<1>9. t.next.st[1] = lo /\ t.next.st[2] = hi
    BY <1>5, <1>7 DEF Replaced
<1>10. x = Plus(WordSize * hi, lo)
    BY <1>5, WordsOfElement
<1>11. t.cur.hv[1] = IF lo = 0 THEN 0 ELSE InverseOrZero(Minus(hi, WordSize - 1))
    <2>1. ProcessorRow.hv =
              Helpers(<<IF St(0) % WordSize = 0 THEN 0
                        ELSE InverseOrZero(Minus(St(0) \div WordSize, WordSize - 1))>>)
        BY <1>1, <1>3, InstructionRow DEF DeriveHelperVariables, NumWordsOps, RegisterOps
    <2> QED BY <1>3, <1>4, <1>5, <2>1, SingleHelper
<1>12. lo = 0 \/ Times(t.cur.hv[1], hi - (WordSize - 1)) = 1
    <2> SUFFICES ASSUME lo # 0 PROVE Times(t.cur.hv[1], hi - (WordSize - 1)) = 1
        OBVIOUS
    <2>1. PICK top \in Field : top = WordSize - 1 /\ hi \in Field /\ hi # top
        BY <1>5, WordsOfElement
    <2>2. PICK difference \in Field : difference = Minus(hi, top) /\ difference # 0
        BY <2>1, FieldDifference
    <2>3. PICK h \in Field : h = t.cur.hv[1] /\ Times(h, difference) = 1
        BY <1>11, <2>1, <2>2, InverseFacts
    <2>4. P \in Nat \ {0} /\ h \in Int /\ hi - top \in Int
        BY <2>1, FieldFacts
    <2>5. (h * (hi - top)) % P = (h * ((hi - top) % P)) % P
        BY ONLY <2>4, ReducedProduct
    <2> QED BY <2>1, <2>2, <2>3, <2>5 DEF Times, Minus
<1> QED BY <1>2, <1>4, <1>8, <1>9, <1>10, <1>12 DEF SplitConstraints

\* The instructions whose result the u32 table checks.
LEMMA WordBinopAir ==
    ASSUME NEW t, AirStep(t), Lt \/ And \/ Xor \/ Pow
    PROVE  WordBinopConstraints(t)
<1>1. /\ CurrentInstruction.op \in {"lt", "and", "xor", "pow"} /\ Completes(NextAddress)
      /\ jump_stack' = jump_stack /\ \E x : Replace(2, <<x>>)
    BY DEF Lt, And, Xor, Pow, Executes, WithU32Calls, AirStep, Fails, NoError
<1>2. Step1(t)
    BY <1>1, MovesOn DEF SingleWordOps
<1> QED BY <1>1, <1>2, BinopInRows DEF WordBinopConstraints

\* log_2_floor, pop_count
LEMMA WordUnopAir ==
    ASSUME NEW t, AirStep(t), Log2Floor \/ PopCount
    PROVE  WordUnopConstraints(t)
<1>1. /\ CurrentInstruction.op \in {"log_2_floor", "pop_count"} /\ Completes(NextAddress)
      /\ jump_stack' = jump_stack /\ \E x : Replace(1, <<x>>)
    BY DEF Log2Floor, PopCount, Executes, WithU32Calls, AirStep, Fails, NoError
<1>2. Step1(t)
    BY <1>1, MovesOn DEF SingleWordOps
<1> QED BY <1>1, <1>2, UnopInRows DEF WordUnopConstraints

\* div_mod: the numerator is the denominator times the quotient, plus the rest.
LEMMA DivModAir ==
    ASSUME NEW t, AirStep(t), DivMod
    PROVE  DivModConstraints(t)
<1>1. /\ CurrentInstruction.op = "div_mod" /\ Completes(NextAddress) /\ jump_stack' = jump_stack
      /\ IsU32(St(1)) /\ St(1) # 0
      /\ Replace(2, <<St(0) % St(1), St(0) \div St(1)>>)
    BY DEF DivMod, Executes, WithU32Calls, AirStep, Fails, NoError
<1>2. Step1(t)
    BY <1>1, MovesOn DEF SingleWordOps
<1>3. PICK a \in Field : a = St(0) /\ a = t.cur.st[1] /\ a \in Int
    BY NamedRegisters, FieldFacts
<1>4. PICK b \in Nat \ {0} : b = St(1) /\ b = t.cur.st[2]
    BY <1>1, NamedRegisters, SizeAssumption DEF IsU32, Word
<1>5. PICK tops : tops = <<a % b, a \div b>>
    OBVIOUS
<1>6. AirStep(t) /\ 2 \in 0 .. NumRegisters /\ Len(tops) = 2 /\ Replace(2, tops)
    BY <1>1, <1>3, <1>4, <1>5, RegisterFacts
<1>7. Replaced(t, 2, 2, tops) /\ RemainsExceptTop(t, 2)
    BY ONLY <1>6, ReplaceInRows
<1>8. t.next.st[1] = a % b /\ t.next.st[2] = a \div b
    BY <1>5, <1>7 DEF Replaced
<1>9. a = Plus(b * (a \div b), a % b)
    <2>1. \A z \in Int : z = b * (z \div b) + (z % b)
        OBVIOUS
    <2>2. a = b * (a \div b) + (a % b)
        BY <1>3, <2>1
    <2>3. a % P = a
        BY InField
    <2> QED BY <2>2, <2>3 DEF Plus
<1> QED BY <1>2, <1>3, <1>4, <1>7, <1>8, <1>9 DEF DivModConstraints
------------------------------------------------------------------------------
(* Arithmetic in the extension field. *)

\* An extension field element, taken out of a row's registers.
LEMMA XElementIs ==
    ASSUME NEW s, IsSequence(s), NEW i \in Nat \ {0}, i + ExtensionDegree - 1 <= Len(s),
           NEW x \in XField, \A k \in 1 .. ExtensionDegree : s[i + k - 1] = x[k]
    PROVE  XElement(s, i) = x
<1>1. PICK e \in Nat \ {0} : e = ExtensionDegree
    BY SizeAssumption
<1>2. PICK l \in Nat, n \in Nat : l = Len(s) /\ n = i + e - 1 /\ n <= l
    <2>1. Len(s) \in Nat
        BY DEF IsSequence
    <2>2. i + e - 1 \in Nat
        BY <1>1
    <2> QED BY <1>1, <2>1, <2>2
<1>3. IsSequence(s) /\ i \in 1 .. (Len(s) + 1) /\ n \in (i - 1) .. Len(s)
    BY <1>1, <1>2
<1>4. /\ IsSequence(SubSeq(s, i, n)) /\ Len(SubSeq(s, i, n)) = n - i + 1
      /\ \A k \in 1 .. (n - i + 1) : SubSeq(s, i, n)[k] = s[i + k - 1]
    BY ONLY <1>3, SubSequence
<1>5. n - i + 1 = e
    BY <1>2
<1>6. x \in [1 .. e -> Field]
    BY <1>1 DEF XField
<1>7. x = [k \in 1 .. e |-> x[k]]
    BY <1>6
<1>8. IsSequence(x) /\ Len(x) = e
    BY <1>7, IndexedSequence
<1>9. PICK y : y = SubSeq(s, i, n)
    OBVIOUS
<1>10. IsSequence(y) /\ IsSequence(x) /\ Len(y) = Len(x) /\ \A k \in 1 .. Len(y) : y[k] = x[k]
    BY <1>1, <1>4, <1>5, <1>8, <1>9
<1>11. y = x
    BY ONLY <1>10, SequencesEqual
<1> QED BY <1>1, <1>2, <1>9, <1>11 DEF XElement

\* The sizes of extension field elements on the stack.
LEMMA XSizes ==
    /\ ExtensionDegree \in Nat \ {0} /\ NumRegisters \in Nat
    /\ 2 * ExtensionDegree <= NumRegisters /\ ExtensionDegree + 2 <= NumRegisters
BY SizeAssumption, RegisterAssumption

\* The extension field elements that instructions see are those in the row.
LEMMA XRegisters ==
    ASSUME NEW t, AirStep(t)
    PROVE  /\ XElement(t.cur.st, 1) = XTop(0)
           /\ XElement(t.cur.st, ExtensionDegree + 1) = XTop(ExtensionDegree)
           /\ \A k \in 1 .. ExtensionDegree :
                  /\ XTop(0)[k] = t.cur.st[k] /\ XTop(1)[k] = t.cur.st[k + 1]
                  /\ XTop(2)[k] = t.cur.st[k + 2]
                  /\ XTop(ExtensionDegree)[k] = t.cur.st[k + ExtensionDegree]
           /\ XTop(0) \in XField /\ XTop(1) \in XField /\ XTop(2) \in XField
           /\ XTop(ExtensionDegree) \in XField
<1>1. PICK e \in Nat \ {0}, r \in Nat :
          e = ExtensionDegree /\ r = NumRegisters /\ 2 * e <= r /\ e + 2 <= r
    BY XSizes
<1>2. XTop(0) \in XField /\ XTop(1) \in XField /\ XTop(2) \in XField /\ XTop(e) \in XField
    BY <1>1, ExtensionFacts DEF AirStep
<1>3. \A k \in 1 .. r : t.cur.st[k] = St(k - 1)
    BY <1>1, CurrentRegisters
<1>4. \A i, k \in Int : k \in 1 .. e => XTop(i)[k] = St(i + k - 1)
    BY <1>1 DEF XTop, Tops
<1>5. \A i \in {0, 1, 2, e} : \A k \in 1 .. e : XTop(i)[k] = t.cur.st[k + i]
    <2>1. ASSUME NEW i \in {0, 1, 2, e}, NEW k \in 1 .. e
          PROVE  XTop(i)[k] = t.cur.st[k + i]
        <3>1. PICK j \in 1 .. r : j = k + i /\ i + k - 1 = j - 1
            BY <1>1
        <3>2. i \in Int /\ k \in Int
            BY <1>1
        <3>3. XTop(i)[k] = St(i + k - 1)
            BY <1>4, <3>2
        <3> QED BY <1>3, <3>1, <3>3
    <2> QED BY <2>1
<1>6. \A k \in 1 .. e : /\ XTop(0)[k] = t.cur.st[k] /\ XTop(1)[k] = t.cur.st[k + 1]
                        /\ XTop(2)[k] = t.cur.st[k + 2] /\ XTop(e)[k] = t.cur.st[k + e]
    <2>1. \A k \in 1 .. e : k + 0 = k
        OBVIOUS
    <2> QED BY <1>5, <2>1
<1>7. IsSequence(t.cur.st) /\ Len(t.cur.st) = r
    BY <1>1, CurrentRegisters
<1>8. PICK s : s = t.cur.st
    OBVIOUS
<1>9. XElement(s, 1) = XTop(0)
    <2>1. 1 \in Nat \ {0} /\ 1 + e - 1 <= Len(s) /\ IsSequence(s)
        BY <1>1, <1>7, <1>8
    <2>2. \A k \in 1 .. e : s[1 + k - 1] = XTop(0)[k]
        BY <1>6, <1>8
    <2> QED BY <1>1, <1>2, <2>1, <2>2, XElementIs
<1>10. XElement(s, e + 1) = XTop(e)
    <2>1. PICK i \in Nat \ {0} : i = e + 1
        OBVIOUS
    <2>2. i + e - 1 <= Len(s) /\ IsSequence(s)
        BY <1>1, <1>7, <1>8, <2>1
    <2>3. \A k \in 1 .. e : s[i + k - 1] = XTop(e)[k]
        <3>1. \A k \in 1 .. e : i + k - 1 = k + e
            BY <2>1
        <3> QED BY <1>6, <1>8, <3>1
    <2> QED BY <1>1, <1>2, <2>1, <2>2, <2>3, XElementIs
<1> QED BY <1>1, <1>2, <1>6, <1>8, <1>9, <1>10

\* An extension field element pushed.
LEMMA XPushed ==
    ASSUME NEW t, AirStep(t), NEW n \in 0 .. NumRegisters, NEW x \in XField, Replace(n, x)
    PROVE  /\ \A k \in 1 .. ExtensionDegree : t.next.st[k] = x[k]
           /\ XElement(t.next.st, 1) = x
           /\ n = ExtensionDegree => RemainsExceptTop(t, n)
           /\ \A d \in Nat : n = ExtensionDegree + d => Shrinks(t, d, ExtensionDegree)
<1>1. PICK e \in Nat \ {0} : e = ExtensionDegree /\ e <= NumRegisters /\ e \in 0 .. NumRegisters
    BY XSizes
<1>2. x \in [1 .. e -> Field]
    BY <1>1 DEF XField
<1>3. x = [k \in 1 .. e |-> x[k]]
    BY <1>2
<1>4. Len(x) = e
    BY <1>3, IndexedSequence
<1>5. /\ AirStep(t) /\ n \in 0 .. NumRegisters /\ e \in 0 .. NumRegisters /\ Len(x) = e
      /\ Replace(n, x)
    BY <1>1, <1>4
<1>6. /\ Replaced(t, n, e, x) /\ (e = n => RemainsExceptTop(t, n))
      /\ \A d \in Nat : n = e + d => Shrinks(t, d, e)
    BY ONLY <1>5, ReplaceInRows
<1>7. \A k \in 1 .. e : t.next.st[k] = x[k]
    BY <1>6 DEF Replaced
<1>8. PICK s : s = t.next.st /\ IsSequence(s) /\ Len(s) = NumRegisters
    BY CurrentRegisters
<1>9. XElement(s, 1) = x
    <2>1. 1 \in Nat \ {0} /\ 1 + e - 1 <= Len(s) /\ IsSequence(s)
        BY <1>1, <1>8
    <2>2. \A k \in 1 .. e : s[1 + k - 1] = x[k]
        BY <1>7, <1>8
    <2> QED BY <1>1, <2>1, <2>2, XElementIs
<1> QED BY <1>1, <1>6, <1>7, <1>8, <1>9

\* xx_add
LEMMA XxAddAir ==
    ASSUME NEW t, AirStep(t), XxAdd
    PROVE  XxAddConstraints(t)
<1>1. /\ CurrentInstruction.op = "xx_add" /\ Completes(NextAddress) /\ jump_stack' = jump_stack
      /\ Replace(2 * ExtensionDegree, XPlus(XTop(0), XTop(ExtensionDegree)))
    BY DEF XxAdd, Executes, OnStackOnly
<1>2. Step1(t)
    BY <1>1, MovesOn DEF SingleWordOps
<1>3. PICK x \in XField, n \in 0 .. NumRegisters :
          x = XPlus(XTop(0), XTop(ExtensionDegree)) /\ n = 2 * ExtensionDegree
    BY XRegisters, ExtensionFacts, RegisterFacts DEF AirStep
<1>4. Replace(n, x)
    BY <1>1, <1>3
<1>5. /\ \A k \in 1 .. ExtensionDegree : t.next.st[k] = x[k]
      /\ \A d \in Nat : n = ExtensionDegree + d => Shrinks(t, d, ExtensionDegree)
    BY <1>4, XPushed
<1>6. ExtensionDegree \in Nat /\ n = ExtensionDegree + ExtensionDegree
    BY <1>3, XSizes
<1>7. \A k \in 1 .. ExtensionDegree : x[k] = Plus(t.cur.st[k], t.cur.st[k + ExtensionDegree])
    BY <1>3, XRegisters DEF XPlus
<1> QED BY <1>2, <1>5, <1>6, <1>7 DEF XxAddConstraints, ShrinksByThreeAboveTopThree

\* xx_mul
LEMMA XxMulAir ==
    ASSUME NEW t, AirStep(t), XxMul
    PROVE  XxMulConstraints(t)
<1>1. /\ CurrentInstruction.op = "xx_mul" /\ Completes(NextAddress) /\ jump_stack' = jump_stack
      /\ Replace(2 * ExtensionDegree, XMul(XTop(0), XTop(ExtensionDegree)))
    BY DEF XxMul, Executes, OnStackOnly
<1>2. Step1(t)
    BY <1>1, MovesOn DEF SingleWordOps
<1>3. PICK x \in XField, n \in 0 .. NumRegisters :
          x = XMul(XTop(0), XTop(ExtensionDegree)) /\ n = 2 * ExtensionDegree
    BY XRegisters, ExtensionFacts, RegisterFacts DEF AirStep
<1>4. Replace(n, x)
    BY <1>1, <1>3
<1>5. /\ XElement(t.next.st, 1) = x
      /\ \A d \in Nat : n = ExtensionDegree + d => Shrinks(t, d, ExtensionDegree)
    BY <1>4, XPushed
<1>6. ExtensionDegree \in Nat /\ n = ExtensionDegree + ExtensionDegree
    BY <1>3, XSizes
<1> QED BY <1>2, <1>3, <1>5, <1>6, XRegisters DEF XxMulConstraints, ShrinksByThreeAboveTopThree

\* x_invert
LEMMA XInvertAir ==
    ASSUME NEW t, AirStep(t), XInvert
    PROVE  XInvertConstraints(t)
<1>1. /\ CurrentInstruction.op = "x_invert" /\ Completes(NextAddress) /\ jump_stack' = jump_stack
      /\ XTop(0) # XZero /\ Replace(ExtensionDegree, XInverse(XTop(0)))
    BY DEF XInvert, Executes, OnStackOnly, AirStep, Fails, NoError
<1>2. Step1(t)
    BY <1>1, MovesOn DEF SingleWordOps
<1>3. XTop(0) \in XField \ {XZero}
    BY <1>1, XRegisters
<1>4. PICK x \in XField, n \in 0 .. NumRegisters :
          x = XInverse(XTop(0)) /\ n = ExtensionDegree
    BY <1>3, ExternalRanges, RegisterFacts DEF ArithmeticRanges
<1>5. Replace(n, x)
    BY <1>1, <1>4
<1>6. XElement(t.next.st, 1) = x /\ (n = ExtensionDegree => RemainsExceptTop(t, n))
    BY <1>5, XPushed
<1>7. XMul(XTop(0), x) = Lift(1)
    BY <1>3, <1>4, ArithmeticLaws
<1> QED BY <1>2, <1>4, <1>6, <1>7, XRegisters DEF XInvertConstraints

\* xb_mul
LEMMA XbMulAir ==
    ASSUME NEW t, AirStep(t), XbMul
    PROVE  XbMulConstraints(t)
<1>1. /\ CurrentInstruction.op = "xb_mul" /\ Completes(NextAddress) /\ jump_stack' = jump_stack
      /\ Replace(1 + ExtensionDegree, XMul(Lift(St(0)), XTop(1)))
    BY DEF XbMul, Executes, OnStackOnly
<1>2. Step1(t)
    BY <1>1, MovesOn DEF SingleWordOps
<1>3. St(0) \in Field /\ St(0) = t.cur.st[1] /\ XTop(1) \in XField
    BY NamedRegisters, XRegisters
<1>4. Lift(St(0)) \in XField
    BY <1>3, ExtensionFacts DEF AirStep
<1>5. PICK x \in XField, n \in 0 .. NumRegisters :
          x = XMul(Lift(St(0)), XTop(1)) /\ n = 1 + ExtensionDegree
    BY <1>3, <1>4, ExtensionFacts, RegisterFacts DEF AirStep
<1>6. Replace(n, x)
    BY <1>1, <1>5
<1>7. /\ \A k \in 1 .. ExtensionDegree : t.next.st[k] = x[k]
      /\ \A d \in Nat : n = ExtensionDegree + d => Shrinks(t, d, ExtensionDegree)
    BY <1>6, XPushed
<1>8. 1 \in Nat /\ n = ExtensionDegree + 1
    BY <1>5, XSizes
<1>9. x = [k \in 1 .. ExtensionDegree |-> Times(XTop(1)[k], St(0))]
    BY <1>3, <1>5, ArithmeticLaws
<1>10. \A k \in 1 .. ExtensionDegree : x[k] = Times(t.cur.st[k + 1], t.cur.st[1])
    BY <1>3, <1>9, XRegisters
<1> QED BY <1>2, <1>7, <1>8, <1>10 DEF XbMulConstraints, ShrinksAboveTopThree
------------------------------------------------------------------------------
(* Many-in-one instructions. *)

\* What both kinds of dot step do to the row, with a product of theirs.
LEMMA DotStepInRows ==
    ASSUME NEW t, AirStep(t), NEW pointers, NEW rhs, NEW lhs, NEW product \in XField,
           DotStep(pointers, rhs, lhs, product),
           CurrentInstruction.op \in {"xx_dot_step", "xb_dot_step"}
    PROVE  /\ t.next.st[1] = rhs /\ t.next.st[2] = lhs
           /\ \A k \in 1 .. ExtensionDegree :
                  t.next.st[k + 2] = Plus(t.cur.st[k + 2], product[k])
           /\ Step1(t) /\ RemainsExceptTop(t, ExtensionDegree + 2)
<1>1. /\ Completes(NextAddress) /\ jump_stack' = jump_stack
      /\ Replace(2 + ExtensionDegree, <<rhs, lhs>> \o XPlus(XTop(2), product))
    BY DEF DotStep
<1>2. Step1(t)
    BY <1>1, MovesOn DEF SingleWordOps
<1>3. PICK e \in Nat \ {0} : e = ExtensionDegree /\ 2 + e \in 0 .. NumRegisters
    BY XSizes, RegisterFacts
<1>4. PICK v, front : v = XPlus(XTop(2), product) /\ front = <<rhs, lhs>>
    OBVIOUS
<1>5. v = [k \in 1 .. e |-> v[k]]
    BY <1>3, <1>4 DEF XPlus
<1>6. IsSequence(v) /\ Len(v) = e
    BY <1>5, IndexedSequence
<1>7. IsSequence(front) /\ Len(front) = 2 /\ front[1] = rhs /\ front[2] = lhs
    BY <1>4 DEF IsSequence
<1>8. /\ Len(front \o v) = Len(front) + Len(v)
      /\ \A i \in 1 .. Len(front) : (front \o v)[i] = front[i]
      /\ \A i \in 1 .. Len(v) : (front \o v)[Len(front) + i] = v[i]
    <2>1. IsSequence(front) /\ IsSequence(v)
        BY <1>6, <1>7
    <2> QED BY ONLY <2>1, ConcatenatedSequence
<1>9. PICK tops : tops = front \o v
    OBVIOUS
<1>10. /\ Len(tops) = 2 + e /\ tops[1] = rhs /\ tops[2] = lhs
       /\ \A k \in 1 .. e : tops[2 + k] = v[k]
    <2>1. 1 \in 1 .. 2 /\ 2 \in 1 .. 2
        OBVIOUS
    <2> QED BY <1>6, <1>7, <1>8, <1>9, <2>1
<1>11. PICK n \in 0 .. NumRegisters : n = 2 + e
    BY <1>3
<1>12. AirStep(t) /\ Len(tops) = n /\ Replace(n, tops)
    BY <1>1, <1>3, <1>4, <1>9, <1>10, <1>11
<1>13. Replaced(t, n, n, tops) /\ RemainsExceptTop(t, n)
    BY ONLY <1>12, n \in 0 .. NumRegisters, ReplaceInRows
<1>14. \A k \in 1 .. n : t.next.st[k] = tops[k]
    BY <1>13 DEF Replaced
<1>15. t.next.st[1] = rhs /\ t.next.st[2] = lhs
    <2>1. 1 \in 1 .. n /\ 2 \in 1 .. n
        BY <1>11
    <2> QED BY <1>10, <1>14, <2>1
<1>16. ASSUME NEW k \in 1 .. e PROVE t.next.st[k + 2] = Plus(t.cur.st[k + 2], product[k])
    <2>1. k + 2 \in 1 .. n /\ k + 2 = 2 + k
        BY <1>11
    <2>2. t.next.st[k + 2] = v[k]
        BY <1>10, <1>14, <2>1
    <2>3. v[k] = Plus(XTop(2)[k], product[k])
        BY <1>3, <1>4 DEF XPlus
    <2>4. XTop(2)[k] = t.cur.st[k + 2]
        BY <1>3, XRegisters
    <2> QED BY <2>2, <2>3, <2>4
<1>17. n = ExtensionDegree + 2
    BY <1>3, <1>11
<1> QED BY <1>2, <1>3, <1>13, <1>15, <1>16, <1>17

\* The words at consecutive addresses are an extension field element.
LEMMA ContentsAreElement ==
    ASSUME VMTypeOK, NEW p \in Int
    PROVE  Contents(Addresses(p, 1, ExtensionDegree)) \in XField
<1>1. ExtensionDegree \in Nat
    BY XSizes
<1>2. Addresses(p, 1, ExtensionDegree) \in [1 .. ExtensionDegree -> Field]
    BY <1>1, AddressTypes
<1> QED BY <1>1, <1>2, RamTypes DEF XField

\* xx_dot_step: the helper variables hold both factors.
LEMMA XxDotStepAir ==
    ASSUME NEW t, AirStep(t), XxDotStep
    PROVE  XxDotStepConstraints(t)
<1>1. VMTypeOK /\ InBounds(instruction_pointer) /\ t.cur = ProcessorRow
    BY DEF AirStep, StepCompletes
<1>2. /\ St(0) \in Field /\ St(1) \in Field /\ St(0) \in Int /\ St(1) \in Int
      /\ t.cur.st[1] = St(0) /\ t.cur.st[2] = St(1)
    BY NamedRegisters, FieldFacts
<1>3. PICK a \in XField, b \in XField :
          /\ a = Contents(Addresses(St(0), 1, ExtensionDegree))
          /\ b = Contents(Addresses(St(1), 1, ExtensionDegree))
    BY <1>1, <1>2, ContentsAreElement
<1>4. CurrentInstruction.op = "xx_dot_step"
    BY DEF XxDotStep, Executes
<1>5. \E pointers : DotStep(pointers, Plus(St(0), ExtensionDegree),
                            Plus(St(1), ExtensionDegree), XMul(a, b))
    BY <1>3 DEF XxDotStep
<1>6. XMul(a, b) \in XField
    BY <1>1, ExtensionFacts
<1>7. /\ t.next.st[1] = Plus(St(0), ExtensionDegree) /\ t.next.st[2] = Plus(St(1), ExtensionDegree)
      /\ \A k \in 1 .. ExtensionDegree :
             t.next.st[k + 2] = Plus(t.cur.st[k + 2], XMul(a, b)[k])
      /\ Step1(t) /\ RemainsExceptTop(t, ExtensionDegree + 2)
    BY <1>4, <1>5, <1>6, DotStepInRows
<1>8. t.cur.hv = Helpers(a \o b)
    <2>1. ProcessorRow.hv = Helpers(Contents(Addresses(St(0), 1, ExtensionDegree))
                                        \o Contents(Addresses(St(1), 1, ExtensionDegree)))
        BY <1>1, <1>4, InstructionRow DEF DeriveHelperVariables, NumWordsOps, RegisterOps
    <2> QED BY <1>1, <1>3, <2>1
<1>9. PICK e \in Nat \ {0} : e = ExtensionDegree
    BY XSizes
<1>10. IsSequence(a) /\ Len(a) = e /\ IsSequence(b) /\ Len(b) = e
    BY <1>3, <1>9, ContentsFacts
<1>11. PICK first : first = a \o b /\ IsSequence(first) /\ Len(first) = e + e
              /\ (\A k \in 1 .. e : first[k] = a[k]) /\ (\A k \in 1 .. e : first[e + k] = b[k])
    <2>1. IsSequence(a) /\ IsSequence(b)
        BY <1>10
    <2>2. /\ IsSequence(a \o b) /\ Len(a \o b) = Len(a) + Len(b)
          /\ \A k \in 1 .. Len(a) : (a \o b)[k] = a[k]
          /\ \A k \in 1 .. Len(b) : (a \o b)[Len(a) + k] = b[k]
        BY ONLY <2>1, ConcatenatedSequence
    <2> QED BY <1>10, <2>2
<1>12. PICK h \in Nat : h = NumHelpers /\ 2 * e <= h
    BY <1>9, LinkingAssumption, RegisterAssumption, SizeAssumption DEF Rate
<1>13. PICK hv :
          hv = t.cur.hv /\ IsSequence(hv)
          /\ Len(hv) = h /\ \A k \in 1 .. (e + e) : hv[k] = first[k]
    <2>1. PICK hv : hv = t.cur.hv
        OBVIOUS
    <2>2. hv = [k \in 1 .. h |-> IF k <= Len(first) THEN first[k] ELSE 0]
        BY <1>8, <1>11, <1>12, <2>1 DEF Helpers
    <2>3. hv = [k \in 1 .. h |-> hv[k]]
        BY <2>2
    <2>4. IsSequence(hv) /\ Len(hv) = h
        BY <2>3, IndexedSequence
    <2>5. \A k \in 1 .. (e + e) : hv[k] = first[k]
        BY <1>11, <1>12, <2>2
    <2> QED BY <2>1, <2>4, <2>5
<1>14. XElement(hv, 1) = a
    <2>1. 1 \in Nat \ {0} /\ 1 + e - 1 <= Len(hv)
        BY <1>12, <1>13
    <2>2. \A k \in 1 .. e : hv[1 + k - 1] = a[k]
        <3>1. \A k \in 1 .. e : 1 + k - 1 = k /\ k \in 1 .. (e + e)
            OBVIOUS
        <3> QED BY <1>11, <1>13, <3>1
    <2> QED BY <1>9, <1>13, <2>1, <2>2, XElementIs
<1>15. XElement(hv, e + 1) = b
    <2>1. PICK i \in Nat \ {0} : i = e + 1
        OBVIOUS
    <2>2. i + e - 1 <= Len(hv)
        BY <1>12, <1>13, <2>1
    <2>3. \A k \in 1 .. e : hv[i + k - 1] = b[k]
        <3>1. \A k \in 1 .. e : i + k - 1 = e + k /\ e + k \in 1 .. (e + e)
            BY <2>1
        <3> QED BY <1>11, <1>13, <3>1
    <2> QED BY <1>9, <1>13, <2>1, <2>2, <2>3, XElementIs
<1> QED BY <1>2, <1>7, <1>9, <1>13, <1>14, <1>15 DEF XxDotStepConstraints, DotStepConstraints

\* xb_dot_step: the helper variables hold the scalar and the other factor.
LEMMA XbDotStepAir ==
    ASSUME NEW t, AirStep(t), XbDotStep
    PROVE  XbDotStepConstraints(t)
<1>1. VMTypeOK /\ InBounds(instruction_pointer) /\ t.cur = ProcessorRow
    BY DEF AirStep, StepCompletes
<1>2. /\ St(0) \in Field /\ St(1) \in Field /\ St(0) \in Int /\ St(1) \in Int
      /\ t.cur.st[1] = St(0) /\ t.cur.st[2] = St(1)
    BY NamedRegisters, FieldFacts
<1>3. PICK a \in Field, b \in XField :
          a = ram[St(0)] /\ b = Contents(Addresses(St(1), 1, ExtensionDegree))
    BY <1>1, <1>2, ContentsAreElement DEF VMTypeOK, Ram
<1>4. CurrentInstruction.op = "xb_dot_step"
    BY DEF XbDotStep, Executes
<1>5. PICK product \in XField : product = XMul(Lift(a), b)
    BY <1>1, ExtensionFacts
<1>6. \E pointers : DotStep(pointers, Plus(St(0), 1), Plus(St(1), ExtensionDegree), product)
    BY <1>3, <1>5 DEF XbDotStep
<1>7. /\ t.next.st[1] = Plus(St(0), 1) /\ t.next.st[2] = Plus(St(1), ExtensionDegree)
      /\ \A k \in 1 .. ExtensionDegree :
             t.next.st[k + 2] = Plus(t.cur.st[k + 2], product[k])
      /\ Step1(t) /\ RemainsExceptTop(t, ExtensionDegree + 2)
    BY <1>4, <1>6, DotStepInRows
<1>8. product = [k \in 1 .. ExtensionDegree |-> Times(b[k], a)]
    BY <1>5, ArithmeticLaws
<1>9. PICK e \in Nat \ {0} : e = ExtensionDegree
    BY XSizes
<1>10. t.cur.hv = Helpers(<<a>> \o b)
    <2>1. ProcessorRow.hv = Helpers(<<ram[St(0)]>>
                                        \o Contents(Addresses(St(1), 1, ExtensionDegree)))
        BY <1>1, <1>4, InstructionRow DEF DeriveHelperVariables, NumWordsOps, RegisterOps
    <2> QED BY <1>1, <1>3, <2>1
<1>11. PICK first : first = <<a>> \o b
    OBVIOUS
<1>12. Len(first) = e + 1 /\ first[1] = a /\ \A k \in 1 .. e : first[k + 1] = b[k]
    <2>1. b = [k \in 1 .. e |-> b[k]]
        BY <1>9 DEF XField
    <2> QED BY <1>11, <2>1, OneOnTop
<1>13. PICK h \in Nat : h = NumHelpers /\ 2 * e <= h /\ e + 1 <= h
    BY <1>9, LinkingAssumption, RegisterAssumption, SizeAssumption DEF Rate
<1>14. \A k \in 1 .. (e + 1) : t.cur.hv[k] = first[k]
    BY <1>10, <1>11, <1>12, <1>13 DEF Helpers
<1>15. t.cur.hv[1] = a /\ \A k \in 1 .. e : t.cur.hv[k + 1] = b[k]
    <2>1. 1 \in 1 .. (e + 1) /\ \A k \in 1 .. e : k + 1 \in 1 .. (e + 1)
        OBVIOUS
    <2> QED BY <1>12, <1>14, <2>1
<1>16. \A k \in 1 .. ExtensionDegree : product[k] = Times(t.cur.hv[k + 1], t.cur.hv[1])
    BY <1>8, <1>9, <1>15
<1>17. \A k \in 1 .. ExtensionDegree :
           product[k] =
               [i \in 1 .. ExtensionDegree |-> Times(t.cur.hv[i + 1], t.cur.hv[1])][k]
    BY <1>16
<1> QED BY <1>2, <1>7, <1>17 DEF XbDotStepConstraints, DotStepConstraints

\* What both kinds of Merkle step do to the rows.
LEMMA MerkleStepInRows ==
    ASSUME NEW t, AirStep(t), NEW sibling, NEW pointer, MerkleStepTo(sibling, pointer),
           CurrentInstruction.op \in {"merkle_step", "merkle_step_mem"},
           NEW first, IsSequence(first), Len(first) = DigestLen,
           t.cur.hv = Helpers(first \o <<St(DigestLen) % 2>>)
    PROVE  /\ MerkleStepSharedConstraints(t)
           /\ t.next.op_stack_pointer = t.cur.op_stack_pointer
           /\ \A k \in DigestLen + 2 .. NumRegisters :
                  t.next.st[k] = IF k = DigestLen + 3 THEN pointer ELSE t.cur.st[k]
<1>1. Completes(NextAddress) /\ jump_stack' = jump_stack
    BY DEF MerkleStepTo
<1>2. Step1(t)
    BY <1>1, MovesOn DEF SingleWordOps
<1>3. PICK r \in Nat, d \in Nat, n \in Nat \ {0} :
          r = NumRegisters /\ d = Len(op_stack) /\ n = DigestLen /\ d >= r /\ n + 3 <= r
    <2>1. PICK r \in Nat, d \in Nat : r = NumRegisters /\ d = Len(op_stack) /\ d >= r
        BY RegisterAssumption, RegisterInStack
    <2>2. PICK n \in Nat \ {0} : n = DigestLen /\ n + 3 <= r
        BY <2>1, RegisterAssumption, SizeAssumption
    <2> QED BY <2>1, <2>2
<1>4. PICK index \in Field : index = St(n) /\ t.cur.st[n + 1] = index
    BY <1>3, NamedRegisters
<1>5. PICK digest :
          StackBecomes([k \in 1 .. d |->
               IF k > d - n THEN digest[d + 1 - k]
               ELSE IF k = d - n THEN index \div 2
               ELSE IF k = d - n - 2 THEN pointer
               ELSE op_stack[k]], n, n)
    BY <1>3, <1>4 DEF MerkleStepTo
<1> DEFINE x == [k \in 1 .. d |->
               IF k > d - n THEN digest[d + 1 - k]
               ELSE IF k = d - n THEN index \div 2
               ELSE IF k = d - n - 2 THEN pointer
               ELSE op_stack[k]]
<1>6. StackBecomes(x, n, n) /\ x = [k \in 1 .. d |-> x[k]]
    BY <1>5
<1>7. \A k \in 1 .. d : k <= d - n =>
          x[k] = IF k = d - n THEN index \div 2
                 ELSE IF k = d - n - 2 THEN pointer ELSE op_stack[k]
    OBVIOUS
<1> HIDE DEF x
<1>8. /\ t.next.op_stack_pointer = t.cur.op_stack_pointer
      /\ \A k \in 1 .. r : t.next.st[k] = x[d - (k - 1)]
    BY <1>3, <1>6, RewrittenInRows
<1>9. \A k \in 1 .. r : t.cur.st[k] = op_stack[d - (k - 1)]
    BY <1>3, RegisterInStack
<1>10. t.next.st[n + 1] = index \div 2
    <2>1. n + 1 \in 1 .. r /\ d - ((n + 1) - 1) = d - n /\ d - n \in 1 .. d
        BY <1>3
    <2> QED BY <1>7, <1>8, <2>1
<1>11. ASSUME NEW k \in n + 2 .. r
       PROVE  t.next.st[k] = IF k = n + 3 THEN pointer ELSE t.cur.st[k]
    <2>1. PICK i : i = d - (k - 1)
        OBVIOUS
    <2>3. /\ i \in 1 .. d /\ i <= d - n /\ i # d - n
          /\ (i = d - n - 2 <=> k = n + 3) /\ k \in 1 .. r
        BY <1>3, <2>1
    <2>2. x[i] = IF i = d - n - 2 THEN pointer ELSE op_stack[i]
        BY <1>7, <2>3
    <2> QED BY <1>8, <1>9, <2>1, <2>2, <2>3
<1>12. t.cur.hv[n + 1] = index % 2
    <2>1. PICK bit : bit = <<index % 2>>
        OBVIOUS
    <2>2. IsSequence(bit) /\ Len(bit) = 1 /\ bit[1] = index % 2
        BY <2>1 DEF IsSequence
    <2>3. IsSequence(first) /\ IsSequence(bit)
        BY <2>2
    <2>4. /\ Len(first \o bit) = Len(first) + Len(bit)
          /\ \A k \in 1 .. Len(bit) : (first \o bit)[Len(first) + k] = bit[k]
        BY ONLY <2>3, ConcatenatedSequence
    <2>5. Len(first \o bit) = n + 1 /\ (first \o bit)[n + 1] = index % 2
        <3>1. 1 \in 1 .. 1
            OBVIOUS
        <3> QED BY <1>3, <2>2, <2>4, <3>1
    <2>6. n + 1 \in 1 .. NumHelpers
        BY <1>3, LinkingAssumption, RegisterAssumption, SizeAssumption DEF Rate
    <2>7. t.cur.hv = Helpers(first \o bit)
        BY <1>3, <1>4, <2>1
    <2> QED BY <2>5, <2>6, <2>7 DEF Helpers
<1>13. index % 2 \in {0, 1} /\ Plus(2 * (index \div 2), index % 2) = index
    <2>1. index \in Nat /\ index % P = index
        BY InField
    <2>2. index % 2 \in {0, 1} /\ 2 * (index \div 2) + (index % 2) = index
        BY <2>1
    <2> QED BY <2>1, <2>2 DEF Plus
<1>14. MerkleStepSharedConstraints(t)
    BY <1>2, <1>3, <1>4, <1>10, <1>12, <1>13 DEF MerkleStepSharedConstraints
<1> QED BY <1>3, <1>8, <1>11, <1>14

\* merkle_step takes the sibling from the secret digests.
LEMMA MerkleStepAir ==
    ASSUME NEW t, AirStep(t), MerkleStep
    PROVE  MerkleStepConstraints(t)
<1>1. VMTypeOK /\ InBounds(instruction_pointer) /\ t.cur = ProcessorRow
    BY DEF AirStep, StepCompletes
<1>2. /\ CurrentInstruction.op = "merkle_step" /\ secret_digests # <<>>
      /\ MerkleStepTo(Head(secret_digests), St(DigestLen + 2))
    BY DEF MerkleStep, Executes, AirStep, Fails, NoError
<1>3. PICK first : first = Head(secret_digests)
    OBVIOUS
<1>4. IsSequence(first) /\ Len(first) = DigestLen
    <2>1. PICK D, s : D = Digest /\ s = secret_digests
        OBVIOUS
    <2>2. s \in Seq(D) /\ s # <<>>
        BY <1>1, <1>2, <2>1 DEF VMTypeOK
    <2>3. Head(s) \in D
        BY ONLY <2>2
    <2>4. first \in [1 .. DigestLen -> Field]
        BY <1>3, <2>1, <2>3 DEF Digest
    <2>5. DigestLen \in Nat
        BY SizeAssumption
    <2>6. first = [k \in 1 .. DigestLen |-> first[k]]
        BY <2>4
    <2> QED BY <2>5, <2>6, IndexedSequence
<1>5. t.cur.hv = Helpers(first \o <<St(DigestLen) % 2>>)
    <2>1. ProcessorRow.hv = Helpers(SecretDigestOrDefault \o <<St(DigestLen) % 2>>)
        BY <1>1, <1>2, InstructionRow DEF DeriveHelperVariables, NumWordsOps, RegisterOps
    <2> QED BY <1>1, <1>2, <1>3, <2>1 DEF SecretDigestOrDefault
<1>6. /\ MerkleStepSharedConstraints(t)
      /\ t.next.op_stack_pointer = t.cur.op_stack_pointer
      /\ \A k \in DigestLen + 2 .. NumRegisters :
             t.next.st[k] = IF k = DigestLen + 3 THEN St(DigestLen + 2) ELSE t.cur.st[k]
    BY <1>2, <1>4, <1>5, MerkleStepInRows
<1>7. \A k \in (DigestLen + 1) + 1 .. NumRegisters : t.next.st[k] = t.cur.st[k]
    <2>1. (DigestLen + 1) + 1 = DigestLen + 2
        BY SizeAssumption
    <2> QED BY <1>6, <2>1, NamedRegisters
<1> QED BY <1>6, <1>7 DEF MerkleStepConstraints, RemainsExceptTop

\* merkle_step_mem takes the sibling from RAM and moves the pointer behind it.
LEMMA MerkleStepMemAir ==
    ASSUME NEW t, AirStep(t), MerkleStepMem
    PROVE  MerkleStepMemConstraints(t)
<1>1. VMTypeOK /\ InBounds(instruction_pointer) /\ t.cur = ProcessorRow
    BY DEF AirStep, StepCompletes
<1>2. PICK first : first = Contents(Addresses(St(DigestLen + 2), 1, DigestLen))
    OBVIOUS
<1>3. /\ CurrentInstruction.op = "merkle_step_mem"
      /\ MerkleStepTo(first, Plus(St(DigestLen + 2), DigestLen))
    BY <1>2 DEF MerkleStepMem, Executes, AirStep, Fails, NoError
<1>4. IsSequence(first) /\ Len(first) = DigestLen
    BY <1>2, ContentsFacts, SizeAssumption
<1>5. t.cur.hv = Helpers(first \o <<St(DigestLen) % 2>>)
    BY <1>1, <1>2, <1>3, InstructionRow DEF DeriveHelperVariables, NumWordsOps, RegisterOps
<1>6. /\ MerkleStepSharedConstraints(t)
      /\ t.next.op_stack_pointer = t.cur.op_stack_pointer
      /\ \A k \in DigestLen + 2 .. NumRegisters :
             t.next.st[k] = IF k = DigestLen + 3 THEN Plus(St(DigestLen + 2), DigestLen)
                            ELSE t.cur.st[k]
    BY <1>3, <1>4, <1>5, MerkleStepInRows
<1>7. PICK n \in Nat, r \in Nat : n = DigestLen /\ r = NumRegisters /\ n + 3 <= r
    BY SizeAssumption, RegisterAssumption
<1>8. /\ t.next.st[n + 2] = t.cur.st[n + 2]
      /\ t.next.st[n + 3] = Plus(t.cur.st[n + 3], n)
      /\ \A k \in (n + 3) + 1 .. r : t.next.st[k] = t.cur.st[k]
    <2>1. /\ n + 2 \in n + 2 .. r /\ n + 3 \in n + 2 .. r /\ n + 2 # n + 3
          /\ \A k \in (n + 3) + 1 .. r : k \in n + 2 .. r /\ k # n + 3
        BY <1>7
    <2> QED BY <1>6, <1>7, <2>1, NamedRegisters
<1> QED BY <1>6, <1>7, <1>8 DEF MerkleStepMemConstraints, RemainsExceptTop
------------------------------------------------------------------------------
(* Any instruction. *)

\* StackInstruction: whichever its action, the row selects its constraints.
LEMMA StackInstructionAir ==
    ASSUME NEW t, AirStep(t), StackInstruction, ~halting'
    PROVE  InstructionConstraints(t)
<1>1. Shows(t, CurrentInstruction.op)
    BY ShownInstruction
<1>2. CASE Pop
    BY <1>1, <1>2, PopAir, Selected DEF Pop, Executes
<1>3. CASE Push
    BY <1>1, <1>3, PushAir, Selected DEF Push, Executes
<1>4. CASE Divine
    BY <1>1, <1>4, DivineAir, Selected DEF Divine, Executes
<1>5. CASE Pick
    BY <1>1, <1>5, PickAir, Selected DEF Pick, Executes
<1>6. CASE Place
    BY <1>1, <1>6, PlaceAir, Selected DEF Place, Executes
<1>7. CASE Dup
    BY <1>1, <1>7, DupAir, Selected DEF Dup, Executes
<1>8. CASE Swap
    BY <1>1, <1>8, SwapAir, Selected DEF Swap, Executes
<1> QED BY <1>2, <1>3, <1>4, <1>5, <1>6, <1>7, <1>8 DEF StackInstruction

\* ControlInstruction: whichever its action, the row selects its constraints.
LEMMA ControlInstructionAir ==
    ASSUME NEW t, AirStep(t), ControlInstruction, ~halting'
    PROVE  InstructionConstraints(t)
<1>1. Shows(t, CurrentInstruction.op)
    BY ShownInstruction
<1>2. CASE Nop
    BY <1>1, <1>2, NopAir, Selected DEF Nop, Executes
<1>3. CASE Skiz
    BY <1>1, <1>3, SkizAir, Selected DEF Skiz, Executes
<1>4. CASE Call
    BY <1>1, <1>4, CallAir, Selected DEF Call, Executes
<1>5. CASE Return
    BY <1>1, <1>5, ReturnAir, Selected DEF Return, Executes
<1>6. CASE Recurse
    BY <1>1, <1>6, RecurseAir, Selected DEF Recurse, Executes
<1>7. CASE RecurseOrReturn
    BY <1>1, <1>7, RecurseOrReturnAir, Selected DEF RecurseOrReturn, Executes
<1>8. CASE AssertInstruction
    BY <1>1, <1>8, AssertAir, Selected DEF AssertInstruction, Executes
<1>9. CASE Halt
    BY <1>9 DEF Halt
<1> QED BY <1>2, <1>3, <1>4, <1>5, <1>6, <1>7, <1>8, <1>9 DEF ControlInstruction

\* MemoryInstruction: whichever its action, the row selects its constraints.
LEMMA MemoryInstructionAir ==
    ASSUME NEW t, AirStep(t), MemoryInstruction, ~halting'
    PROVE  InstructionConstraints(t)
<1>1. Shows(t, CurrentInstruction.op)
    BY ShownInstruction
<1>2. CASE ReadMem
    BY <1>1, <1>2, ReadMemAir, Selected DEF ReadMem, Executes
<1>3. CASE WriteMem
    BY <1>1, <1>3, WriteMemAir, Selected DEF WriteMem, Executes
<1> QED BY <1>2, <1>3 DEF MemoryInstruction

\* HashInstruction: whichever its action, the row selects its constraints.
LEMMA HashInstructionAir ==
    ASSUME NEW t, AirStep(t), HashInstruction, ~halting'
    PROVE  InstructionConstraints(t)
<1>1. Shows(t, CurrentInstruction.op)
    BY ShownInstruction
<1>2. CASE Hash
    BY <1>1, <1>2, HashAir, Selected DEF Hash, Executes
<1>3. CASE SpongeInit
    BY <1>1, <1>3, SpongeInitAir, Selected DEF SpongeInit, Executes
<1>4. CASE SpongeAbsorb
    BY <1>1, <1>4, SpongeAbsorbAir, Selected DEF SpongeAbsorb, Executes
<1>5. CASE SpongeAbsorbMem
    BY <1>1, <1>5, SpongeAbsorbMemAir, Selected DEF SpongeAbsorbMem, Executes
<1>6. CASE SpongeSqueeze
    BY <1>1, <1>6, SpongeSqueezeAir, Selected DEF SpongeSqueeze, Executes
<1>7. CASE AssertVector
    BY <1>1, <1>7, AssertVectorAir, Selected DEF AssertVector, Executes
<1> QED BY <1>2, <1>3, <1>4, <1>5, <1>6, <1>7 DEF HashInstruction

\* FieldInstruction: whichever its action, the row selects its constraints.
LEMMA FieldInstructionAir ==
    ASSUME NEW t, AirStep(t), FieldInstruction, ~halting'
    PROVE  InstructionConstraints(t)
<1>1. Shows(t, CurrentInstruction.op)
    BY ShownInstruction
<1>2. CASE Add
    BY <1>1, <1>2, AddAir, Selected DEF Add, Executes
<1>3. CASE AddI
    BY <1>1, <1>3, AddIAir, Selected DEF AddI, Executes
<1>4. CASE Mul
    BY <1>1, <1>4, MulAir, Selected DEF Mul, Executes
<1>5. CASE Invert
    BY <1>1, <1>5, InvertAir, Selected DEF Invert, Executes
<1>6. CASE Eq
    BY <1>1, <1>6, EqAir, Selected DEF Eq, Executes
<1> QED BY <1>2, <1>3, <1>4, <1>5, <1>6 DEF FieldInstruction

\* U32Instruction: whichever its action, the row selects its constraints.
LEMMA U32InstructionAir ==
    ASSUME NEW t, AirStep(t), U32Instruction, ~halting'
    PROVE  InstructionConstraints(t)
<1>1. Shows(t, CurrentInstruction.op)
    BY ShownInstruction
<1>2. CASE Split
    BY <1>1, <1>2, SplitAir, Selected DEF Split, Executes
<1>3. CASE Lt
    BY <1>1, <1>3, WordBinopAir, Selected DEF Lt, Executes
<1>4. CASE And
    BY <1>1, <1>4, WordBinopAir, Selected DEF And, Executes
<1>5. CASE Xor
    BY <1>1, <1>5, WordBinopAir, Selected DEF Xor, Executes
<1>6. CASE Log2Floor
    BY <1>1, <1>6, WordUnopAir, Selected DEF Log2Floor, Executes
<1>7. CASE Pow
    BY <1>1, <1>7, WordBinopAir, Selected DEF Pow, Executes
<1>8. CASE DivMod
    BY <1>1, <1>8, DivModAir, Selected DEF DivMod, Executes
<1>9. CASE PopCount
    BY <1>1, <1>9, WordUnopAir, Selected DEF PopCount, Executes
<1> QED BY <1>2, <1>3, <1>4, <1>5, <1>6, <1>7, <1>8, <1>9 DEF U32Instruction

\* ExtensionInstruction: whichever its action, the row selects its constraints.
LEMMA ExtensionInstructionAir ==
    ASSUME NEW t, AirStep(t), ExtensionInstruction, ~halting'
    PROVE  InstructionConstraints(t)
<1>1. Shows(t, CurrentInstruction.op)
    BY ShownInstruction
<1>2. CASE XxAdd
    BY <1>1, <1>2, XxAddAir, Selected DEF XxAdd, Executes
<1>3. CASE XxMul
    BY <1>1, <1>3, XxMulAir, Selected DEF XxMul, Executes
<1>4. CASE XInvert
    BY <1>1, <1>4, XInvertAir, Selected DEF XInvert, Executes
<1>5. CASE XbMul
    BY <1>1, <1>5, XbMulAir, Selected DEF XbMul, Executes
<1> QED BY <1>2, <1>3, <1>4, <1>5 DEF ExtensionInstruction

\* IoInstruction: whichever its action, the row selects its constraints.
LEMMA IoInstructionAir ==
    ASSUME NEW t, AirStep(t), IoInstruction, ~halting'
    PROVE  InstructionConstraints(t)
<1>1. Shows(t, CurrentInstruction.op)
    BY ShownInstruction
<1>2. CASE WriteIo
    BY <1>1, <1>2, WriteIoAir, Selected DEF WriteIo, Executes
<1>3. CASE ReadIo
    BY <1>1, <1>3, ReadIoAir, Selected DEF ReadIo, Executes
<1> QED BY <1>2, <1>3 DEF IoInstruction

\* ManyInOneInstruction: whichever its action, the row selects its constraints.
LEMMA ManyInOneInstructionAir ==
    ASSUME NEW t, AirStep(t), ManyInOneInstruction, ~halting'
    PROVE  InstructionConstraints(t)
<1>1. Shows(t, CurrentInstruction.op)
    BY ShownInstruction
<1>2. CASE MerkleStep
    BY <1>1, <1>2, MerkleStepAir, Selected DEF MerkleStep, Executes
<1>3. CASE MerkleStepMem
    BY <1>1, <1>3, MerkleStepMemAir, Selected DEF MerkleStepMem, Executes
<1>4. CASE XxDotStep
    BY <1>1, <1>4, XxDotStepAir, Selected DEF XxDotStep, Executes
<1>5. CASE XbDotStep
    BY <1>1, <1>5, XbDotStepAir, Selected DEF XbDotStep, Executes
<1> QED BY <1>2, <1>3, <1>4, <1>5 DEF ManyInOneInstruction

\* What a step that completes and goes on does, satisfies the constraints of the
\* instruction the row shows.
LEMMA InstructionAir ==
    ASSUME NEW t, AirStep(t), Step, ~halting'
    PROVE  InstructionConstraints(t)
<1>1. ~(InstructionPointerOverflow \/ TooShallow)
    BY DEF AirStep, NoError, InstructionPointerOverflow, TooShallow, Fails
<1> QED BY <1>1, StackInstructionAir, ControlInstructionAir, MemoryInstructionAir,
          HashInstructionAir, FieldInstructionAir, U32InstructionAir,
          ExtensionInstructionAir, IoInstructionAir, ManyInOneInstructionAir DEF Step
------------------------------------------------------------------------------
(* From one step to the next. *)

\* Nothing but halt stops the machine, and that only once.
LEMMA StopsAtHalt ==
    ASSUME Step, error' = NoError
    PROVE  ~halting /\ (halting' = FALSE \/ Halt)
<1> USE DEF Executes, OnStackOnly, Fails, NoError
<1>1. CASE StackInstruction
    BY <1>1 DEF StackInstruction, Pop, Push, Divine, Pick, Place, Dup, Swap
<1>2. CASE ControlInstruction
    BY <1>2 DEF ControlInstruction, Nop, Skiz, Call, Return, Recurse, RecurseOrReturn,
                AssertInstruction, Halt
<1>3. CASE MemoryInstruction
    BY <1>3 DEF MemoryInstruction, ReadMem, WriteMem
<1>4. CASE HashInstruction
    BY <1>4 DEF HashInstruction, Hash, SpongeInit, SpongeAbsorb, SpongeAbsorbMem,
                SpongeSqueeze, AssertVector
<1>5. CASE FieldInstruction
    BY <1>5 DEF FieldInstruction, Add, AddI, Mul, Invert, Eq
<1>6. CASE U32Instruction
    BY <1>6 DEF U32Instruction, Split, Lt, And, Xor, Log2Floor, Pow, DivMod, PopCount,
                WithU32Calls
<1>7. CASE ExtensionInstruction
    BY <1>7 DEF ExtensionInstruction, XxAdd, XxMul, XInvert, XbMul
<1>8. CASE IoInstruction
    BY <1>8 DEF IoInstruction, WriteIo, ReadIo
<1>9. CASE ManyInOneInstruction
    BY <1>9 DEF ManyInOneInstruction, MerkleStep, MerkleStepMem, XxDotStep, XbDotStep,
                MerkleStepTo, DotStep
<1>10. CASE InstructionPointerOverflow \/ TooShallow
    BY <1>10 DEF InstructionPointerOverflow, TooShallow
<1> QED
    BY <1>1, <1>2, <1>3, <1>4, <1>5, <1>6, <1>7, <1>8, <1>9, <1>10 DEF Step

\* A step enters a block, leaves one, or does neither.
LEMMA JumpStackOfStep ==
    ASSUME Step, error' = NoError
    PROVE  \/ jump_stack' = jump_stack
           \/ \E frame : jump_stack' = Append(jump_stack, frame)
           \/ jump_stack # <<>> /\ PopJumpStack
<1>1. VMNext
    BY DEF VMNext
<1>2. CASE \E err : Fails(err)
    BY <1>2 DEF Fails, vmState, memory
<1>3. CASE UNCHANGED jump_stack
    BY <1>3
<1>4. CASE ControlInstruction
    BY <1>4 DEF ControlInstruction, Nop, Skiz, Call, Return, Recurse, RecurseOrReturn,
                AssertInstruction, Halt, OnStackOnly, Fails, vmState, memory
<1> QED BY <1>1, <1>2, <1>3, <1>4, StepShape

\* No step enters more than one block.
LEMMA JumpStackHeight ==
    ASSUME VMTypeOK, Step, error' = NoError
    PROVE  /\ Len(jump_stack) \in Nat /\ Len(jump_stack') \in Nat
           /\ Len(jump_stack') <= Len(jump_stack) + 1
<1>1. PICK s : s = jump_stack
    OBVIOUS
<1>2. IsSequence(s)
    BY <1>1, SeqIsSequence DEF VMTypeOK
<1>3. PICK n \in Nat : n = Len(s)
    BY <1>2 DEF IsSequence
<1>4. ASSUME NEW frame, jump_stack' = Append(jump_stack, frame)
      PROVE  Len(jump_stack') = n + 1
    <2>1. Len(Append(s, frame)) = Len(s) + 1
        BY ONLY <1>2, AppendedSequence
    <2> QED BY <1>1, <1>3, <1>4, <2>1
<1>5. ASSUME jump_stack # <<>>, PopJumpStack
      PROVE  Len(jump_stack') = n - 1 /\ n - 1 \in Nat
    <2>1. n # 0
        BY <1>1, <1>2, <1>3, <1>5, EmptySequence
    <2>2. PICK l \in Nat : l = n - 1
        BY <1>3, <2>1
    <2>3. IsSequence(s) /\ 1 \in 1 .. (Len(s) + 1) /\ l \in (1 - 1) .. Len(s)
        BY <1>2, <1>3, <2>1, <2>2
    <2>4. Len(SubSeq(s, 1, l)) = l - 1 + 1
        BY ONLY <2>3, SubSequence
    <2>5. jump_stack' = SubSeq(s, 1, l)
        BY <1>1, <1>3, <1>5, <2>2 DEF PopJumpStack
    <2> QED BY <2>2, <2>4, <2>5
<1>6. CASE jump_stack' = jump_stack
    BY <1>1, <1>3, <1>6
<1> QED BY <1>1, <1>3, <1>4, <1>5, <1>6, JumpStackOfStep

\* No step pushes more elements than the sponge's rate.
LEMMA OpStackHeight ==
    ASSUME VMTypeOK, VMTypeOK', Step, error' = NoError
    PROVE  /\ Len(op_stack) \in Nat /\ Len(op_stack') \in Nat
           /\ Len(op_stack') <= Len(op_stack) + Rate
<1>1. StepCompletes
    BY SuccessfulStep
<1>2. Len(op_stack') = Len(op_stack) + OpStackSizeInfluence(CurrentInstruction)
    BY <1>1, NextTypes DEF VMNext, StepIsTyped, StepCompletes
<1>3. Len(op_stack) \in Nat /\ Len(op_stack') \in Nat
    <2>1. PICK F, s, u : F = Field /\ s = op_stack /\ u = op_stack'
        OBVIOUS
    <2>2. s \in Seq(F) /\ u \in Seq(F)
        BY <2>1 DEF VMTypeOK
    <2>3. Len(s) \in Nat /\ Len(u) \in Nat
        BY ONLY <2>2
    <2> QED BY <2>1, <2>3
<1>4. PICK i : i = CurrentInstruction
    OBVIOUS
<1>5. i \in Instruction
    BY <1>1, <1>4, InstructionTypes DEF StepCompletes
<1>6. /\ Rate \in Nat /\ 1 <= Rate /\ MaxNumWords <= Rate
      /\ DigestLen \in Nat /\ ExtensionDegree \in Nat /\ MaxNumWords \in Nat
    BY AirAssumption, RegisterAssumption, SizeAssumption DEF Rate
<1>7. OpStackSizeInfluence(i) \in Int /\ OpStackSizeInfluence(i) <= Rate
    <2>1. i.op \in NumWordsOps => i.arg \in 1 .. MaxNumWords
        BY <1>5 DEF Instruction, NumWordsOps, RegisterOps, ElementOps, SingleWordOps
    <2>2. /\ i.op \in {"divine", "read_mem", "read_io"} => i.arg \in Nat /\ i.arg <= Rate
          /\ i.op \in {"pop", "write_mem", "write_io"} => -i.arg \in Int /\ -i.arg <= Rate
        BY <1>6, <2>1 DEF NumWordsOps
    <2>3. /\ -1 \in Int /\ -1 <= Rate /\ -DigestLen \in Int /\ -DigestLen <= Rate
          /\ -Rate \in Int /\ -Rate <= Rate /\ 0 <= Rate
          /\ -ExtensionDegree \in Int /\ -ExtensionDegree <= Rate
        BY <1>6
    <2> QED BY <1>6, <2>2, <2>3 DEF OpStackSizeInfluence
<1>8. PICK a, b, x \in Int, m \in Nat :
          a = Len(op_stack) /\ b = Len(op_stack') /\ m = Rate
          /\ x = OpStackSizeInfluence(CurrentInstruction) /\ x <= m
    BY <1>3, <1>4, <1>6, <1>7
<1>9. b = a + x /\ a \in Nat /\ b \in Nat
    BY <1>2, <1>3, <1>8
<1>10. b <= a + m
    BY ONLY <1>8, <1>9
<1> QED BY <1>3, <1>8, <1>10

\* The rows of the first state.
LEMMA InitialRow ==
    ASSUME TraceInit
    PROVE  VMTypeOK /\ InitialConstraints(ProcessorRow)
<1>1. Init /\ VMTypeOK
    BY InitTypes DEF TraceInit
<1>2. PICK r \in Nat, n \in Nat : r = NumRegisters /\ n = DigestLen /\ n + 3 <= r
    BY RegisterAssumption, SizeAssumption
<1>3. PICK digest, stack, row :
          digest = ProgramHash(program) /\ stack = op_stack /\ row = ProcessorRow
    OBVIOUS
<1>4. stack = [i \in 1 .. r |-> IF i <= n THEN digest[n + 1 - i] ELSE 0]
    BY <1>1, <1>2, <1>3 DEF Init
<1>5. Len(stack) = r
    BY <1>2, <1>4, IndexedSequence
<1>6. IsSequence(digest) /\ Len(digest) = n
    <2>1. digest \in Digest
        BY <1>1, <1>3, InputAssumption DEF Init
    <2>2. digest = [k \in 1 .. n |-> digest[k]]
        BY <1>2, <2>1 DEF Digest
    <2> QED BY <1>2, <2>2, IndexedSequence
<1>7. /\ row.st = Tops(0, r) /\ row.op_stack_pointer = r
      /\ \A k \in 1 .. r : row.st[k] = stack[r - (k - 1)]
    BY <1>1, <1>2, <1>3, <1>5, RowFacts DEF RowShape, St
<1>8. \A k \in 1 .. r - n : row.st[k] = 0
    <2> SUFFICES ASSUME NEW k \in 1 .. r - n PROVE row.st[k] = 0
        OBVIOUS
    <2>1. k \in 1 .. r /\ r - (k - 1) \in 1 .. r /\ ~(r - (k - 1) <= n)
        BY <1>2
    <2> QED BY <1>4, <1>7, <2>1
<1>9. \A k \in 1 .. n : row.st[r - n + k] = digest[k]
    <2> SUFFICES ASSUME NEW k \in 1 .. n PROVE row.st[r - n + k] = digest[k]
        OBVIOUS
    <2>1. PICK i \in 1 .. r : i = n + 1 - k /\ i <= n
        BY <1>2
    <2>2. r - n + k \in 1 .. r /\ r - ((r - n + k) - 1) = i /\ n + 1 - i = k
        BY <1>2, <2>1
    <2> QED BY <1>4, <1>7, <2>1, <2>2
<1>10. SubSeq(row.st, r - n + 1, r) = digest
    <2>1. PICK s : s = row.st
        OBVIOUS
    <2>9. PICK l \in Nat : l = r - n + 1
        BY <1>2
    <2>2. IsSequence(s) /\ Len(s) = r
        <3>1. s = [k \in 1 .. r |-> s[k]]
            BY <1>7, <2>1 DEF Tops
        <3> QED BY <1>2, <3>1, IndexedSequence
    <2>3. IsSequence(s) /\ l \in 1 .. (Len(s) + 1) /\ r \in (l - 1) .. Len(s)
        BY <1>2, <2>2, <2>9
    <2>4. /\ IsSequence(SubSeq(s, l, r)) /\ Len(SubSeq(s, l, r)) = r - l + 1
          /\ \A i \in 1 .. (r - l + 1) : SubSeq(s, l, r)[i] = s[l + i - 1]
        BY ONLY <2>3, SubSequence
    <2>5. PICK u : u = SubSeq(s, l, r)
        OBVIOUS
    <2>6. Len(u) = n /\ \A i \in 1 .. n : u[i] = s[r - n + i]
        <3>1. r - l + 1 = n /\ \A i \in 1 .. n : l + i - 1 = r - n + i
            BY <1>2, <2>9
        <3> QED BY <2>4, <2>5, <3>1
    <2>7. IsSequence(u) /\ IsSequence(digest) /\ Len(u) = Len(digest)
          /\ \A i \in 1 .. Len(u) : u[i] = digest[i]
        BY <1>6, <1>9, <2>1, <2>4, <2>5, <2>6
    <2>8. u = digest
        BY ONLY <2>7, SequencesEqual
    <2> QED BY <2>1, <2>5, <2>8, <2>9
<1>11. /\ row.clk = 0 /\ row.ip = 0 /\ row.jsp = 0 /\ row.jso = 0 /\ row.jsd = 0
    <2>1. cycle_count = 0 /\ instruction_pointer = 0 /\ jump_stack = <<>>
        BY <1>1 DEF Init
    <2>2. 0 % P = 0 /\ Len(<<>>) = 0
        BY FieldFacts, EmptySequence, BelowPrime
    <2> QED BY <1>3, <2>1, <2>2 DEF ProcessorRow
<1>12. \A x \in {"clk", "ip", "jsp", "jso", "jsd"} : row[x] = 0
    BY <1>11
<1> QED BY <1>1, <1>2, <1>3, <1>7, <1>8, <1>10, <1>12 DEF InitialConstraints
------------------------------------------------------------------------------
(* The processor table. *)

(***************************************************************************)
(* What is added to the property to make it inductive: the machine before  *)
(* its first step is in the state the initial constraints describe, and    *)
(* neither stack is higher than the steps taken so far can have made it,   *)
(* so its height is a number of the field.                                 *)
(***************************************************************************)
RowsInv ==
    /\ VMTypeOK
    /\ Succeeds =>
           /\ IsSequence(processor_trace)
           /\ Len(jump_stack) <= cycle_count
           /\ Len(op_stack) <= NumRegisters + cycle_count * Rate
           /\ processor_trace = <<>> => InitialConstraints(ProcessorRow)
           /\ ProcessorRowsSatisfyAir

\* A step that succeeds, in a state whose stacks are not too high.
LEMMA AirOfStep ==
    ASSUME RowsInv, VMTypeOK', Step, error' = NoError,
           NEW t, t.cur = ProcessorRow, t.next = ProcessorRow'
    PROVE  /\ AirStep(t)
           /\ t.next.clk = Plus(t.cur.clk, 1)
           /\ Len(jump_stack') <= cycle_count'
           /\ Len(op_stack') <= NumRegisters + cycle_count' * Rate
<1>1. VMTypeOK /\ StepCompletes
    BY SuccessfulStep DEF RowsInv
<1>2. Succeeds
    BY <1>1 DEF StepCompletes, Succeeds
<1>3. PICK p \in Nat, c \in Nat, m \in Nat :
          p = P /\ c = cycle_count /\ m = MaxCycles /\ c < m /\ cycle_count' = c + 1 /\ m < p
    <2>1. cycle_count \in Nat
        BY <1>1 DEF VMTypeOK
    <2> QED BY <1>1, <2>1, FieldFacts, InputAssumption, LinkingAssumption DEF StepCompletes
<1>4. PICK r \in Nat, q \in Nat : r = NumRegisters /\ q = Rate /\ r + m * q < p
    BY <1>3, AirAssumption, RegisterAssumption, SizeAssumption DEF Rate
<1>5. PICK j \in Nat, k \in Nat :
          j = Len(jump_stack) /\ k = Len(jump_stack') /\ k <= j + 1 /\ j <= c
    BY <1>1, <1>2, <1>3, JumpStackHeight DEF RowsInv
<1>6. PICK h \in Nat, g \in Nat :
          h = Len(op_stack) /\ g = Len(op_stack') /\ g <= h + q /\ h <= r + c * q
    BY <1>1, <1>2, <1>3, <1>4, OpStackHeight DEF RowsInv
<1>7. g <= r + (c + 1) * q /\ g < p /\ h < p
    <2>1. (c + 1) * q = c * q + q /\ c * q \in Nat
        BY ONLY c \in Nat, q \in Nat
    <2>2. (c + 1) * q <= m * q
        <3>1. c + 1 <= m
            BY <1>3
        <3>2. PICK e \in Nat : m = (c + 1) + e
            <4>1. m - (c + 1) \in Nat /\ m = (c + 1) + (m - (c + 1))
                BY <1>3, <3>1
            <4> QED BY <4>1
        <3>3. m * q = (c + 1) * q + e * q /\ e * q \in Nat /\ (c + 1) * q \in Nat
            BY ONLY <3>2, c \in Nat, q \in Nat, e \in Nat
        <3> QED BY <3>3
    <2>3. PICK a \in Nat, b \in Nat : a = c * q /\ b = m * q
        BY <2>1, <1>3, <1>4
    <2> QED BY <1>4, <1>6, <2>1, <2>2, <2>3
<1>8. RowsShow(t, op_stack, op_stack')
    <2>1. /\ RowShape /\ RowShape'
          /\ IsSequence(op_stack) /\ IsSequence(op_stack')
          /\ Len(op_stack) >= NumRegisters /\ Len(op_stack') >= NumRegisters
        BY <1>1, RowFacts, NextRowFacts, SeqIsSequence DEF VMTypeOK
    <2>2. /\ t.cur.op_stack_pointer = Len(op_stack)
          /\ t.next.op_stack_pointer = Len(op_stack')
          /\ \A i \in 1 .. NumRegisters : t.cur.st[i] = op_stack[Len(op_stack) - (i - 1)]
          /\ \A i \in 1 .. NumRegisters : t.next.st[i] = op_stack'[Len(op_stack') - (i - 1)]
        BY <2>1 DEF RowShape, St
    <2>3. Len(op_stack) < P /\ Len(op_stack') < P
        BY <1>3, <1>6, <1>7
    <2> QED BY <2>1, <2>2, <2>3 DEF RowsShow
<1>9. Len(jump_stack) + 1 < P
    BY <1>3, <1>5
<1>10. t.next.clk = Plus(t.cur.clk, 1)
    <2>1. t.cur.clk = c % p /\ t.next.clk = (c + 1) % p
        BY <1>3 DEF ProcessorRow
    <2>2. c % P = c
        BY <1>3, BelowPrime
    <2> QED BY <1>3, <2>1, <2>2 DEF Plus
<1> QED BY <1>1, <1>3, <1>4, <1>5, <1>6, <1>7, <1>8, <1>9, <1>10 DEF AirStep

\* The rows behind the one that shows halt.
LEMMA PaddingRows ==
    ASSUME NEW row, NEW t, t.is_padding, t.cur = row, t.next = [row EXCEPT !.clk = Plus(@, 1)],
           row = ProcessorRow
    PROVE  TransitionConstraints(t)
<1>1. row = [row EXCEPT !.clk = row.clk] /\ "clk" \in DOMAIN row
    BY DEF ProcessorRow
<1>2. /\ t.next.clk = Plus(t.cur.clk, 1)
      /\ t.next.ip = t.cur.ip /\ t.next.ci = t.cur.ci /\ t.next.nia = t.cur.nia
      /\ t.next.jsp = t.cur.jsp /\ t.next.jso = t.cur.jso /\ t.next.jsd = t.cur.jsd
      /\ t.next.op_stack_pointer = t.cur.op_stack_pointer /\ t.next.st = t.cur.st
    BY DEF ProcessorRow
<1> QED BY <1>2 DEF TransitionConstraints, PaddingConstraints, KeepJumpStack, KeepOpStack,
                    RemainsExceptTop

\* The constraints are about a pair of rows and not about the state.
LEMMA NewestConstraints ==
    (\E t : t = NewestTransition /\ TransitionConstraints(t))
        => TransitionConstraints(NewestTransition)
OBVIOUS

\* A step that succeeds records a row that continues the table.
LEMMA RowsOfStepSatisfyAir ==
    ASSUME RowsInv, VMTypeOK', TraceNext, error' = NoError
    PROVE  RowsInv'
<1>1. Succeeds /\ Step /\ VMTypeOK /\ StepCompletes /\ InBounds(instruction_pointer)
    BY SuccessfulStep DEF TraceNext, StepCompletes, Succeeds, RowsInv
<1>2. PICK t : t = [cur |-> ProcessorRow, next |-> ProcessorRow', is_padding |-> FALSE]
    OBVIOUS
<1>3. /\ AirStep(t)
      /\ t.next.clk = Plus(t.cur.clk, 1)
      /\ Len(jump_stack') <= cycle_count'
      /\ Len(op_stack') <= NumRegisters + cycle_count' * Rate
    BY <1>1, <1>2, AirOfStep
<1>4. PICK trace, row : trace = processor_trace /\ row = ProcessorRow
    OBVIOUS
<1>5. processor_trace' = Append(trace, row) /\ IsSequence(trace)
    BY <1>1, <1>4 DEF TraceNext, RecordState, RowsInv
<1>6. PICK n \in Nat : n = Len(trace)
    BY <1>5 DEF IsSequence
<1>7. PICK rows : rows = Append(trace, row)
    OBVIOUS
<1>8. /\ IsSequence(rows) /\ Len(rows) = n + 1 /\ rows[n + 1] = row /\ rows # <<>>
      /\ \A i \in 1 .. n : rows[i] = trace[i]
    <2>1. /\ IsSequence(rows) /\ Len(rows) = Len(trace) + 1
          /\ \A i \in 1 .. Len(trace) : rows[i] = trace[i]
          /\ rows[Len(trace) + 1] = row
        BY ONLY <1>5, <1>7, AppendedSequence
    <2> QED BY <1>6, <2>1, EmptySequence
<1>9. processor_trace' = rows
    BY <1>5, <1>7
<1>10. \A x : InitialConstraints(x) => InitialConstraints(x)'
    BY <1>1 DEF InitialConstraints, StepCompletes
<1>11. InitialConstraints(rows[1])
    <2>1. CASE trace = <<>>
        BY <1>1, <1>4, <1>6, <1>8, <2>1, EmptySequence DEF RowsInv
    <2>2. CASE trace # <<>>
        <3>1. n # 0
            <4>1. ASSUME n = 0 PROVE trace = <<>>
                <5>1. PICK empty : empty = <<>>
                    OBVIOUS
                <5>2. /\ IsSequence(trace) /\ IsSequence(empty) /\ Len(trace) = Len(empty)
                      /\ \A i \in 1 .. Len(trace) : trace[i] = empty[i]
                    BY <1>5, <1>6, <4>1, <5>1, EmptySequence
                <5>3. trace = empty
                    BY ONLY <5>2, SequencesEqual
                <5> QED BY <5>1, <5>3
            <4> QED BY <2>2, <4>1
        <3>2. 1 \in 1 .. n
            BY <1>6, <3>1
        <3>3. InitialConstraints(trace[1])
            BY <1>1, <1>4, <2>2 DEF RowsInv, ProcessorRowsSatisfyAir
        <3> QED BY <1>8, <3>2, <3>3
    <2> QED BY <2>1, <2>2
<1>12. InitialConstraints(processor_trace[1])'
    <2>1. PICK x : x = rows[1]
        OBVIOUS
    <2>2. InitialConstraints(x)' /\ processor_trace'[1] = x
        BY <1>9, <1>10, <1>11, <2>1
    <2> QED BY <2>2 DEF InitialConstraints
<1>13. PICK u : u = NewestTransition'
    OBVIOUS
<1>14. u = [cur |-> row,
            next |-> IF halting' THEN [row EXCEPT !.clk = Plus(@, 1)] ELSE ProcessorRow',
            is_padding |-> halting']
    BY <1>8, <1>9, <1>13 DEF NewestTransition
<1>15. TransitionConstraints(u)
    <2>1. CASE halting'
        BY <1>4, <1>14, <2>1, PaddingRows
    <2>2. CASE ~halting'
        <3>1. u.cur = ProcessorRow /\ u.next = ProcessorRow' /\ u.is_padding = FALSE
            <4>1. halting' = FALSE
                BY <1>1, <2>2, StopsAtHalt DEF Halt
            <4> QED BY <1>4, <1>14, <4>1
        <3>2. AirStep(u) /\ u.next.clk = Plus(u.cur.clk, 1)
            BY <1>1, <3>1, AirOfStep
        <3>3. InstructionConstraints(u)
            BY <1>1, <2>2, <3>2, InstructionAir
        <3> QED BY <3>1, <3>2, <3>3 DEF TransitionConstraints
    <2> QED BY <2>1, <2>2
<1>16. TransitionConstraints(NewestTransition)'
    BY <1>13, <1>15
<1>17. halting' => TerminalConstraints(processor_trace[Len(processor_trace)])'
    <2> SUFFICES ASSUME halting'
                 PROVE  TerminalConstraints(processor_trace[Len(processor_trace)])'
        OBVIOUS
    <2>1. Halt
        BY <1>1, StopsAtHalt
    <2>2. Is(ProcessorRow, "halt")
        <3>1. CurrentInstruction.op = "halt"
            BY <2>1 DEF Halt, Executes
        <3>2. "halt" \in Mnemonics
            BY DEF Mnemonics, SingleWordOps
        <3> QED BY <1>1, <3>1, <3>2, InstructionRow
    <2>3. processor_trace'[Len(processor_trace')] = row
        BY <1>8, <1>9
    <2> QED BY <1>4, <2>2, <2>3 DEF TerminalConstraints, Is
<1>18. ProcessorRowsSatisfyAir'
    BY <1>12, <1>16, <1>17 DEF ProcessorRowsSatisfyAir
<1>19. processor_trace' # <<>> /\ IsSequence(processor_trace)'
    BY <1>8, <1>9 DEF IsSequence
<1> QED BY <1>3, <1>18, <1>19 DEF RowsInv

\* The invariant holds before the first step.
LEMMA InitialRowsInv == TraceInit => RowsInv
<1> SUFFICES ASSUME TraceInit PROVE RowsInv
    OBVIOUS
<1>1. VMTypeOK /\ InitialConstraints(ProcessorRow)
    BY InitialRow
<1>2. processor_trace = <<>> /\ cycle_count = 0 /\ jump_stack = <<>>
    BY DEF TraceInit, Init
<1>3. Len(op_stack) = NumRegisters
    BY RegisterAssumption, IndexedSequence DEF TraceInit, Init
<1>4. NumRegisters \in Nat /\ Rate \in Nat
    BY RegisterAssumption, SizeAssumption DEF Rate
<1>5. /\ IsSequence(processor_trace)
      /\ Len(jump_stack) <= cycle_count
      /\ Len(op_stack) <= NumRegisters + cycle_count * Rate
    BY <1>2, <1>3, <1>4, EmptySequence
<1> QED BY <1>1, <1>2, <1>5 DEF RowsInv, ProcessorRowsSatisfyAir

\* Every step keeps them, and so does a step of something else.
LEMMA RowsInvIsInductive == RowsInv /\ [TraceNext]_traceVars => RowsInv'
<1> SUFFICES ASSUME RowsInv, [TraceNext]_traceVars PROVE RowsInv'
    OBVIOUS
<1>1. CASE UNCHANGED traceVars
    <2>1. UNCHANGED <<vmVars, processor_trace>>
        BY <1>1 DEF traceVars, aet
    <2>2. VMTypeOK'
        BY <2>1 DEF RowsInv, VMTypeOK, vmVars
    <2>3. UNCHANGED <<program, op_stack, jump_stack, cycle_count, halting, error,
                      processor_trace>>
        BY <2>1 DEF vmVars
    <2>4. ProcessorRow' = ProcessorRow
        BY <1>1, UnchangedRow
    <2>5. NewestTransition' = NewestTransition
        BY <2>3, <2>4 DEF NewestTransition
    <2>6. Succeeds' = Succeeds
        BY <2>3 DEF Succeeds
    <2>7. \A x : InitialConstraints(x)' = InitialConstraints(x)
        BY <2>3 DEF InitialConstraints
    <2>8. CASE Succeeds
        <3>1. ProcessorRowsSatisfyAir'
            BY <2>3, <2>5, <2>6, <2>7, <2>8
               DEF RowsInv, ProcessorRowsSatisfyAir, TerminalConstraints
        <3>2. processor_trace' = <<>> => InitialConstraints(ProcessorRow)'
            BY <2>3, <2>4, <2>7, <2>8 DEF RowsInv
        <3> QED BY <2>2, <2>3, <2>8, <3>1, <3>2 DEF RowsInv, IsSequence
    <2>9. CASE ~Succeeds
        BY <2>2, <2>6, <2>9 DEF RowsInv
    <2> QED BY <2>8, <2>9
<1>2. CASE TraceNext
    <2>1. VMTypeOK'
        BY <1>2, NextTypes DEF RowsInv, TraceNext, VMNext, StepIsTyped
    <2>2. CASE error' = NoError
        BY <1>2, <2>1, <2>2, RowsOfStepSatisfyAir
    <2>3. CASE error' # NoError
        BY <2>1, <2>3 DEF RowsInv, Succeeds
    <2> QED BY <2>2, <2>3
<1> QED BY <1>1, <1>2

(***************************************************************************)
(* The virtual machine and the constraints of the processor table define   *)
(* the same instructions, for every program, every input and every size of *)
(* the machine: no execution of VM::run that succeeds has a trace its own  *)
(* constraints reject.                                                     *)
(***************************************************************************)
THEOREM ProcessorRowsAreConsistent == TraceSpec => []ProcessorRowsSatisfyAir
<1>1. TraceInit => RowsInv
    BY InitialRowsInv
<1>2. RowsInv /\ [TraceNext]_traceVars => RowsInv'
    BY RowsInvIsInductive
<1>3. RowsInv => ProcessorRowsSatisfyAir
    BY DEF RowsInv, ProcessorRowsSatisfyAir
<1> QED BY <1>1, <1>2, <1>3, PTL DEF TraceSpec
------------------------------------------------------------------------------
(* What the constraints pin. *)

\* The constraints of a pair of rows are those of the instruction the first row shows.
LEMMA Chosen ==
    ASSUME NEW t, NEW op, Shows(t, op), InstructionConstraints(t)
    PROVE  /\ op = "pop" => PopConstraints(t)
           /\ op = "push" => PushConstraints(t)
           /\ op = "divine" => DivineConstraints(t)
           /\ op = "pick" => PickConstraints(t)
           /\ op = "place" => PlaceConstraints(t)
           /\ op = "dup" => DupConstraints(t)
           /\ op = "swap" => SwapConstraints(t)
           /\ op = "halt" => HaltConstraints(t)
           /\ op = "nop" => NopConstraints(t)
           /\ op = "skiz" => SkizConstraints(t)
           /\ op = "call" => CallConstraints(t)
           /\ op = "return" => ReturnConstraints(t)
           /\ op = "recurse" => RecurseConstraints(t)
           /\ op = "recurse_or_return" => RecurseOrReturnConstraints(t)
           /\ op = "assert" => AssertConstraints(t)
           /\ op = "read_mem" => ReadMemConstraints(t)
           /\ op = "write_mem" => WriteMemConstraints(t)
           /\ op = "hash" => HashConstraints(t)
           /\ op = "assert_vector" => AssertVectorConstraints(t)
           /\ op = "sponge_init" => SpongeInitConstraints(t)
           /\ op = "sponge_absorb" => SpongeAbsorbConstraints(t)
           /\ op = "sponge_absorb_mem" => SpongeAbsorbMemConstraints(t)
           /\ op = "sponge_squeeze" => SpongeSqueezeConstraints(t)
           /\ op = "add" => AddConstraints(t)
           /\ op = "addi" => AddIConstraints(t)
           /\ op = "mul" => MulConstraints(t)
           /\ op = "invert" => InvertConstraints(t)
           /\ op = "eq" => EqConstraints(t)
           /\ op = "split" => SplitConstraints(t)
           /\ op = "div_mod" => DivModConstraints(t)
           /\ op = "xx_add" => XxAddConstraints(t)
           /\ op = "xx_mul" => XxMulConstraints(t)
           /\ op = "x_invert" => XInvertConstraints(t)
           /\ op = "xb_mul" => XbMulConstraints(t)
           /\ op = "read_io" => ReadIoConstraints(t)
           /\ op = "write_io" => WriteIoConstraints(t)
           /\ op = "merkle_step" => MerkleStepConstraints(t)
           /\ op = "merkle_step_mem" => MerkleStepMemConstraints(t)
           /\ op = "xx_dot_step" => XxDotStepConstraints(t)
           /\ op = "xb_dot_step" => XbDotStepConstraints(t)
           /\ op = "lt" => WordBinopConstraints(t)
           /\ op = "and" => WordBinopConstraints(t)
           /\ op = "xor" => WordBinopConstraints(t)
           /\ op = "pow" => WordBinopConstraints(t)
           /\ op = "log_2_floor" => WordUnopConstraints(t)
           /\ op = "pop_count" => WordUnopConstraints(t)
<1> USE DEF Shows, InstructionConstraints, IsAnyOf, Mnemonics, DoubleWordOps, NumWordsOps,
            SingleWordOps, RegisterOps, ElementOps
<1>1. op = "pop" => PopConstraints(t)
    OBVIOUS
<1>2. op = "push" => PushConstraints(t)
    OBVIOUS
<1>3. op = "divine" => DivineConstraints(t)
    OBVIOUS
<1>4. op = "pick" => PickConstraints(t)
    OBVIOUS
<1>5. op = "place" => PlaceConstraints(t)
    OBVIOUS
<1>6. op = "dup" => DupConstraints(t)
    OBVIOUS
<1>7. op = "swap" => SwapConstraints(t)
    OBVIOUS
<1>8. op = "halt" => HaltConstraints(t)
    OBVIOUS
<1>9. op = "nop" => NopConstraints(t)
    OBVIOUS
<1>10. op = "skiz" => SkizConstraints(t)
    OBVIOUS
<1>11. op = "call" => CallConstraints(t)
    OBVIOUS
<1>12. op = "return" => ReturnConstraints(t)
    OBVIOUS
<1>13. op = "recurse" => RecurseConstraints(t)
    OBVIOUS
<1>14. op = "recurse_or_return" => RecurseOrReturnConstraints(t)
    OBVIOUS
<1>15. op = "assert" => AssertConstraints(t)
    OBVIOUS
<1>16. op = "read_mem" => ReadMemConstraints(t)
    OBVIOUS
<1>17. op = "write_mem" => WriteMemConstraints(t)
    OBVIOUS
<1>18. op = "hash" => HashConstraints(t)
    OBVIOUS
<1>19. op = "assert_vector" => AssertVectorConstraints(t)
    OBVIOUS
<1>20. op = "sponge_init" => SpongeInitConstraints(t)
    OBVIOUS
<1>21. op = "sponge_absorb" => SpongeAbsorbConstraints(t)
    OBVIOUS
<1>22. op = "sponge_absorb_mem" => SpongeAbsorbMemConstraints(t)
    OBVIOUS
<1>23. op = "sponge_squeeze" => SpongeSqueezeConstraints(t)
    OBVIOUS
<1>24. op = "add" => AddConstraints(t)
    OBVIOUS
<1>25. op = "addi" => AddIConstraints(t)
    OBVIOUS
<1>26. op = "mul" => MulConstraints(t)
    OBVIOUS
<1>27. op = "invert" => InvertConstraints(t)
    OBVIOUS
<1>28. op = "eq" => EqConstraints(t)
    OBVIOUS
<1>29. op = "split" => SplitConstraints(t)
    OBVIOUS
<1>30. op = "div_mod" => DivModConstraints(t)
    OBVIOUS
<1>31. op = "xx_add" => XxAddConstraints(t)
    OBVIOUS
<1>32. op = "xx_mul" => XxMulConstraints(t)
    OBVIOUS
<1>33. op = "x_invert" => XInvertConstraints(t)
    OBVIOUS
<1>34. op = "xb_mul" => XbMulConstraints(t)
    OBVIOUS
<1>35. op = "read_io" => ReadIoConstraints(t)
    OBVIOUS
<1>36. op = "write_io" => WriteIoConstraints(t)
    OBVIOUS
<1>37. op = "merkle_step" => MerkleStepConstraints(t)
    OBVIOUS
<1>38. op = "merkle_step_mem" => MerkleStepMemConstraints(t)
    OBVIOUS
<1>39. op = "xx_dot_step" => XxDotStepConstraints(t)
    OBVIOUS
<1>40. op = "xb_dot_step" => XbDotStepConstraints(t)
    OBVIOUS
<1>41. op = "lt" => WordBinopConstraints(t)
    OBVIOUS
<1>42. op = "and" => WordBinopConstraints(t)
    OBVIOUS
<1>43. op = "xor" => WordBinopConstraints(t)
    OBVIOUS
<1>44. op = "pow" => WordBinopConstraints(t)
    OBVIOUS
<1>45. op = "log_2_floor" => WordUnopConstraints(t)
    OBVIOUS
<1>46. op = "pop_count" => WordUnopConstraints(t)
    OBVIOUS
<1> HIDE DEF Shows, InstructionConstraints
<1> QED BY <1>1, <1>2, <1>3, <1>4, <1>5, <1>6, <1>7, <1>8, <1>9, <1>10, <1>11, <1>12, <1>13,
          <1>14, <1>15, <1>16, <1>17, <1>18, <1>19, <1>20, <1>21, <1>22, <1>23, <1>24,
          <1>25, <1>26, <1>27, <1>28, <1>29, <1>30, <1>31, <1>32, <1>33, <1>34, <1>35,
          <1>36, <1>37, <1>38, <1>39, <1>40, <1>41, <1>42, <1>43, <1>44, <1>45, <1>46

(***************************************************************************)
(* Two rows that may follow the same row: both satisfy the constraints of  *)
(* the instruction `op`, which the row shows.                              *)
(***************************************************************************)
Rivals(t, u, op) ==
    /\ u.cur = t.cur /\ Shows(t, op) /\ Shows(u, op)
    /\ InstructionConstraints(t) /\ InstructionConstraints(u)

\* The registers that no other table answers for are the same in both.
SameControl(t, u) == u.next.ip = t.next.ip /\ KeepJumpStack([cur |-> t.next, next |-> u.next])
SameHeight(t, u) == u.next.op_stack_pointer = t.next.op_stack_pointer
SameStack(t, u) ==
    \A k \in (1 .. NumRegisters) \ LinkedStackRegisters(t) : u.next.st[k] = t.next.st[k]

\* The groups of constraints that many instructions share.
LEMMA SharedGroups ==
    ASSUME NEW t, NEW u, u.cur = t.cur
    PROVE  /\ Step1(t) /\ Step1(u) => SameControl(t, u)
           /\ Step2(t) /\ Step2(u) => SameControl(t, u)
           /\ \A n, free : Grows(t, n, free) /\ Grows(u, n, free) =>
                  /\ SameHeight(t, u)
                  /\ \A k \in free + 1 .. NumRegisters : u.next.st[k] = t.next.st[k]
           /\ \A n, free : Shrinks(t, n, free) /\ Shrinks(u, n, free) =>
                  /\ SameHeight(t, u)
                  /\ \A k \in free + 1 .. NumRegisters - n : u.next.st[k] = t.next.st[k]
           /\ \A n : RemainsExceptTop(t, n) /\ RemainsExceptTop(u, n) =>
                  /\ SameHeight(t, u)
                  /\ \A k \in n + 1 .. NumRegisters : u.next.st[k] = t.next.st[k]
<1>1. Step1(t) /\ Step1(u) => SameControl(t, u)
    BY DEF Step1, IpIncreasesBy, KeepJumpStack, SameControl
<1>2. Step2(t) /\ Step2(u) => SameControl(t, u)
    BY DEF Step2, IpIncreasesBy, KeepJumpStack, SameControl
<1>3. \A n, free : Grows(t, n, free) /\ Grows(u, n, free) =>
          /\ SameHeight(t, u)
          /\ \A k \in free + 1 .. NumRegisters : u.next.st[k] = t.next.st[k]
    BY DEF Grows, SameHeight
<1>4. \A n, free : Shrinks(t, n, free) /\ Shrinks(u, n, free) =>
          /\ SameHeight(t, u)
          /\ \A k \in free + 1 .. NumRegisters - n : u.next.st[k] = t.next.st[k]
    BY DEF Shrinks, SameHeight
<1>5. \A n : RemainsExceptTop(t, n) /\ RemainsExceptTop(u, n) =>
          /\ SameHeight(t, u)
          /\ \A k \in n + 1 .. NumRegisters : u.next.st[k] = t.next.st[k]
    BY DEF RemainsExceptTop, SameHeight
<1> QED BY <1>1, <1>2, <1>3, <1>4, <1>5

\* The argument of an instruction that moves some words.
LEMMA LegalWords ==
    ASSUME NEW row, HasLegalNumberOfWords(row)
    PROVE  IndicatedArg(row) \in Nat
<1>1. MaxNumWords \in Int
    BY RegisterAssumption
<1> QED BY <1>1 DEF HasLegalNumberOfWords

\* The registers that the op stack table answers for.
LEMMA ResurfacedRegisters ==
    ASSUME NEW t, NEW op, Shows(t, op), op \in Mnemonics
    PROVE  /\ op \in ShrinkByOne => Shrinkage(t.cur) = 1
           /\ op \in {"pop", "write_mem", "write_io"} => Shrinkage(t.cur) = IndicatedArg(t.cur)
           /\ op \in {"hash", "assert_vector"} => Shrinkage(t.cur) = DigestLen
           /\ op \in {"xx_add", "xx_mul"} => Shrinkage(t.cur) = ExtensionDegree
           /\ op = "sponge_absorb" => Shrinkage(t.cur) = Rate
           /\ \A k \in 1 .. NumRegisters :
                  k \notin LinkedStackRegisters(t) =>
                      k \notin NumRegisters - Shrinkage(t.cur) + 1 .. NumRegisters
<1> DEFINE MinusSome == {"pop", "write_mem", "write_io"}
           Digests == {"hash", "assert_vector"}
           Xs == {"xx_add", "xx_mul"}
<1>1. PICK row : row = t.cur /\ \A o \in Mnemonics : Is(row, o) <=> o = op
    BY DEF Shows
<1>2. \A ops \in SUBSET Mnemonics : IsAnyOf(row, ops) <=> op \in ops
    BY <1>1 DEF IsAnyOf
<1>3. /\ ShrinkByOne \in SUBSET Mnemonics /\ MinusSome \in SUBSET Mnemonics
      /\ Digests \in SUBSET Mnemonics /\ Xs \in SUBSET Mnemonics
      /\ "sponge_absorb" \in Mnemonics
    BY DEF Mnemonics, DoubleWordOps, SingleWordOps, NumWordsOps, RegisterOps, ElementOps,
           ShrinkByOne
<1>4. Shrinkage(row) = IF op \in ShrinkByOne THEN 1
                       ELSE IF op \in MinusSome THEN IndicatedArg(row)
                       ELSE IF op \in Digests THEN DigestLen
                       ELSE IF op \in Xs THEN ExtensionDegree
                       ELSE IF op = "sponge_absorb" THEN Rate ELSE 0
    <2>1. Shrinkage(row) = IF IsAnyOf(row, ShrinkByOne) THEN 1
                       ELSE IF IsAnyOf(row, MinusSome) THEN IndicatedArg(row)
                       ELSE IF IsAnyOf(row, Digests) THEN DigestLen
                       ELSE IF IsAnyOf(row, Xs) THEN ExtensionDegree
                       ELSE IF Is(row, "sponge_absorb") THEN Rate ELSE 0
        BY DEF Shrinkage, ShrinkByOne
    <2> QED BY <1>1, <1>2, <1>3, <2>1
<1>5. /\ \A o \in ShrinkByOne : o \notin MinusSome /\ o \notin Digests /\ o \notin Xs
      /\ \A o \in MinusSome : o \notin ShrinkByOne
      /\ \A o \in Digests : o \notin ShrinkByOne /\ o \notin MinusSome
      /\ \A o \in Xs : o \notin ShrinkByOne /\ o \notin MinusSome /\ o \notin Digests
      /\ "sponge_absorb" \notin ShrinkByOne /\ "sponge_absorb" \notin MinusSome
      /\ "sponge_absorb" \notin Digests /\ "sponge_absorb" \notin Xs
    BY DEF ShrinkByOne
<1>6. \A k \in NumRegisters - Shrinkage(t.cur) + 1 .. NumRegisters : k \in LinkedStackRegisters(t)
    BY DEF LinkedStackRegisters
<1> QED BY <1>1, <1>4, <1>5, <1>6

\* The registers that the other tables, the input or the prover answer for.
LEMMA LookedUpRegisters ==
    ASSUME NEW t, NEW op, Shows(t, op), NEW k
    PROVE  /\ op \in {"hash", "merkle_step", "merkle_step_mem"} /\ k \in 1 .. DigestLen
                  => k \in LinkedStackRegisters(t)
           /\ op \in {"divine", "read_io"} /\ k \in 1 .. IndicatedArg(t.cur)
                  => k \in LinkedStackRegisters(t)
           /\ op = "read_mem" /\ k \in 2 .. IndicatedArg(t.cur) + 1
                  => k \in LinkedStackRegisters(t)
           /\ op = "sponge_squeeze" /\ k \in 1 .. Rate => k \in LinkedStackRegisters(t)
           /\ op = "sponge_absorb_mem" /\ k \in 2 .. 1 + (Rate - NumHelpers)
                  => k \in LinkedStackRegisters(t)
           /\ op \in {"lt", "and", "xor", "pow", "log_2_floor", "pop_count"} /\ k = 1
                  => k \in LinkedStackRegisters(t)
<1> DEFINE Digests == {"hash", "merkle_step", "merkle_step_mem"}
           Inputs == {"divine", "read_io"}
           Words == {"lt", "and", "xor", "pow", "log_2_floor", "pop_count"}
<1>1. PICK row : row = t.cur /\ \A o \in Mnemonics : Is(row, o) <=> o = op
    BY DEF Shows
<1>2. \A ops \in SUBSET Mnemonics : IsAnyOf(row, ops) <=> op \in ops
    BY <1>1 DEF IsAnyOf
<1>3. /\ Digests \in SUBSET Mnemonics /\ Inputs \in SUBSET Mnemonics
      /\ Words \in SUBSET Mnemonics
      /\ "read_mem" \in Mnemonics /\ "sponge_squeeze" \in Mnemonics
      /\ "sponge_absorb_mem" \in Mnemonics
    BY DEF Mnemonics, DoubleWordOps, SingleWordOps, NumWordsOps, RegisterOps, ElementOps
<1>4. PICK linked :
          linked = CASE IsAnyOf(row, Digests) -> 1 .. DigestLen
                     [] IsAnyOf(row, Inputs) -> 1 .. IndicatedArg(row)
                     [] Is(row, "read_mem") -> 2 .. IndicatedArg(row) + 1
                     [] Is(row, "sponge_squeeze") -> 1 .. Rate
                     [] Is(row, "sponge_absorb_mem") -> 2 .. 1 + (Rate - NumHelpers)
                     [] IsAnyOf(row, Words) -> {1}
                     [] OTHER -> {}
    OBVIOUS
<1>5. \A i \in linked : i \in LinkedStackRegisters(t)
    BY <1>1, <1>4 DEF LinkedStackRegisters
<1> HIDE DEF Digests, Inputs, Words
<1>6. /\ IsAnyOf(row, Digests) <=> op \in Digests
      /\ IsAnyOf(row, Inputs) <=> op \in Inputs
      /\ IsAnyOf(row, Words) <=> op \in Words
      /\ Is(row, "read_mem") <=> op = "read_mem"
      /\ Is(row, "sponge_squeeze") <=> op = "sponge_squeeze"
      /\ Is(row, "sponge_absorb_mem") <=> op = "sponge_absorb_mem"
    BY <1>1, <1>2, <1>3
<1>7. linked = CASE op \in Digests -> 1 .. DigestLen
                 [] op \in Inputs -> 1 .. IndicatedArg(row)
                 [] op = "read_mem" -> 2 .. IndicatedArg(row) + 1
                 [] op = "sponge_squeeze" -> 1 .. Rate
                 [] op = "sponge_absorb_mem" -> 2 .. 1 + (Rate - NumHelpers)
                 [] op \in Words -> {1}
                 [] OTHER -> {}
    BY <1>4, <1>6
<1>8. /\ op \in Digests => linked = 1 .. DigestLen
      /\ op \in Inputs => linked = 1 .. IndicatedArg(row)
      /\ op = "read_mem" => linked = 2 .. IndicatedArg(row) + 1
      /\ op = "sponge_squeeze" => linked = 1 .. Rate
      /\ op = "sponge_absorb_mem" => linked = 2 .. 1 + (Rate - NumHelpers)
      /\ op \in Words => linked = {1}
    BY <1>7 DEF Digests, Inputs, Words
<1> QED BY <1>1, <1>5, <1>8 DEF Digests, Inputs, Words

\* The registers of the next row that no other table answers for are the same.
SameNext(t, u) ==
    /\ u.next.ip = t.next.ip /\ u.next.jsp = t.next.jsp
    /\ LinkedJumpRegisters(t) # {"jso", "jsd"} =>
           u.next.jso = t.next.jso /\ u.next.jsd = t.next.jsd
    /\ SameHeight(t, u) /\ SameStack(t, u)

\* Instructions that do nothing to the jump stack.
LEMMA ControlAndStack ==
    ASSUME NEW t, NEW u, SameControl(t, u), SameHeight(t, u), SameStack(t, u)
    PROVE  SameNext(t, u)
BY DEF SameControl, KeepJumpStack, SameNext

\* All but a few registers on top, and a few at the bottom, are the same.
LEMMA MiddleAndTop ==
    ASSUME NEW t, NEW u, NEW free \in Nat, NEW n \in Nat,
           \A k \in free + 1 .. NumRegisters - n : u.next.st[k] = t.next.st[k],
           \A k \in 1 .. free : k \in 1 .. NumRegisters /\ k \notin LinkedStackRegisters(t)
                                    => u.next.st[k] = t.next.st[k],
           \A k \in 1 .. NumRegisters :
               k \notin LinkedStackRegisters(t) => k \notin NumRegisters - n + 1 .. NumRegisters
    PROVE  SameStack(t, u)
<1>1. PICK r \in Nat : r = NumRegisters
    BY RegisterAssumption
<1> SUFFICES ASSUME NEW k \in 1 .. r, k \notin LinkedStackRegisters(t)
             PROVE  u.next.st[k] = t.next.st[k]
    BY <1>1 DEF SameStack
<1>2. k \in 1 .. free \/ k \in free + 1 .. r - n
    BY <1>1
<1> QED BY <1>1, <1>2

\* Sizes and what can be said of the instruction.
LEMMA RivalFacts ==
    ASSUME NEW t, NEW u, NEW op \in Mnemonics, Rivals(t, u, op)
    PROVE  /\ u.cur = t.cur /\ Shows(t, op) /\ Shows(u, op)
           /\ InstructionConstraints(t) /\ InstructionConstraints(u)
           /\ DigestLen \in Nat /\ ExtensionDegree \in Nat /\ Rate \in Nat
           /\ NumRegisters \in Nat /\ DigestLen > 0 /\ ExtensionDegree > 0
BY SizeAssumption, RegisterAssumption DEF Rivals, Rate

\* A stack that shrinks: what it brings back is the op stack table's.
LEMMA ShrinkingPinned ==
    ASSUME NEW t, NEW u, NEW op \in Mnemonics, Rivals(t, u, op),
           NEW n \in Nat, NEW free \in Nat, Shrinks(t, n, free), Shrinks(u, n, free),
           Shrinkage(t.cur) = n,
           \A k \in 1 .. free : k \in 1 .. NumRegisters /\ k \notin LinkedStackRegisters(t)
                                    => u.next.st[k] = t.next.st[k]
    PROVE  SameHeight(t, u) /\ SameStack(t, u)
<1>1. /\ SameHeight(t, u)
      /\ \A k \in free + 1 .. NumRegisters - n : u.next.st[k] = t.next.st[k]
    BY RivalFacts, SharedGroups
<1>2. \A k \in 1 .. NumRegisters :
          k \notin LinkedStackRegisters(t) => k \notin NumRegisters - n + 1 .. NumRegisters
    BY RivalFacts, ResurfacedRegisters
<1> QED BY <1>1, <1>2, MiddleAndTop

\* A stack that grows, and is the same above what grew.
LEMMA GrowingPinned ==
    ASSUME NEW t, NEW u, u.cur = t.cur, NEW m, NEW free \in Nat,
           Grows(t, m, free), Grows(u, m, free),
           \A k \in 1 .. free : k \in 1 .. NumRegisters /\ k \notin LinkedStackRegisters(t)
                                    => u.next.st[k] = t.next.st[k]
    PROVE  SameHeight(t, u) /\ SameStack(t, u)
<1>1. /\ SameHeight(t, u)
      /\ \A k \in free + 1 .. NumRegisters : u.next.st[k] = t.next.st[k]
    BY SharedGroups
<1>2. PICK r \in Nat : r = NumRegisters
    BY RegisterAssumption
<1>3. PICK n \in Nat : n = 0 /\ r - n = r /\ \A k \in 1 .. r : k \notin r + 1 .. r
    BY <1>2
<1>4. /\ free \in Nat /\ n \in Nat
      /\ \A k \in free + 1 .. NumRegisters - n : u.next.st[k] = t.next.st[k]
      /\ \A k \in 1 .. free : k \in 1 .. NumRegisters /\ k \notin LinkedStackRegisters(t)
                                    => u.next.st[k] = t.next.st[k]
      /\ \A k \in 1 .. NumRegisters : k \notin LinkedStackRegisters(t)
                                    => k \notin NumRegisters - n + 1 .. NumRegisters
    BY <1>1, <1>2, <1>3
<1>5. SameStack(t, u)
    BY ONLY <1>4, MiddleAndTop
<1> QED BY <1>1, <1>5

\* A stack that keeps its height.
LEMMA RemainingPinned ==
    ASSUME NEW t, NEW u, u.cur = t.cur, NEW free \in Nat,
           RemainsExceptTop(t, free), RemainsExceptTop(u, free),
           \A k \in 1 .. free : k \in 1 .. NumRegisters /\ k \notin LinkedStackRegisters(t)
                                    => u.next.st[k] = t.next.st[k]
    PROVE  SameHeight(t, u) /\ SameStack(t, u)
<1>1. /\ SameHeight(t, u)
      /\ \A k \in free + 1 .. NumRegisters : u.next.st[k] = t.next.st[k]
    BY SharedGroups
<1>2. PICK r \in Nat : r = NumRegisters
    BY RegisterAssumption
<1>3. PICK n \in Nat : n = 0 /\ r - n = r /\ \A k \in 1 .. r : k \notin r + 1 .. r
    BY <1>2
<1>4. /\ free \in Nat /\ n \in Nat
      /\ \A k \in free + 1 .. NumRegisters - n : u.next.st[k] = t.next.st[k]
      /\ \A k \in 1 .. free : k \in 1 .. NumRegisters /\ k \notin LinkedStackRegisters(t)
                                    => u.next.st[k] = t.next.st[k]
      /\ \A k \in 1 .. NumRegisters : k \notin LinkedStackRegisters(t)
                                    => k \notin NumRegisters - n + 1 .. NumRegisters
    BY <1>1, <1>2, <1>3
<1>5. SameStack(t, u)
    BY ONLY <1>4, MiddleAndTop
<1> QED BY <1>1, <1>5

\* pop, write_io, assert, assert_vector, sponge_absorb, skiz and write_mem.
LEMMA DroppingPinned ==
    ASSUME NEW t, NEW u, NEW op \in Mnemonics, Rivals(t, u, op),
           op \in {"pop", "write_io", "assert", "assert_vector", "sponge_absorb", "write_mem"}
    PROVE  SameNext(t, u)
<1>1. /\ u.cur = t.cur /\ DigestLen \in Nat /\ Rate \in Nat
      /\ op \in ShrinkByOne => Shrinkage(t.cur) = 1
      /\ op \in {"pop", "write_mem", "write_io"} => Shrinkage(t.cur) = IndicatedArg(t.cur)
      /\ op \in {"hash", "assert_vector"} => Shrinkage(t.cur) = DigestLen
      /\ op = "sponge_absorb" => Shrinkage(t.cur) = Rate
    BY RivalFacts, ResurfacedRegisters
<1>2. Shows(t, op) /\ Shows(u, op) /\ InstructionConstraints(t) /\ InstructionConstraints(u)
    BY RivalFacts
<1>3. PICK n : n = IndicatedArg(t.cur)
    OBVIOUS
<1>4. \A k \in 1 .. 0 : FALSE
    OBVIOUS
<1>5. CASE op \in {"pop", "write_io"}
    <2>1. PopConstraints(t) /\ PopConstraints(u)
        <3>1. op = "pop" => PopConstraints(t) /\ PopConstraints(u)
            BY <1>2, Chosen
        <3>2. op = "write_io" => WriteIoConstraints(t) /\ WriteIoConstraints(u)
            BY <1>2, Chosen
        <3> QED BY <1>5, <3>1, <3>2 DEF WriteIoConstraints
    <2>2. /\ Step2(t) /\ Step2(u) /\ HasLegalNumberOfWords(t.cur)
          /\ Shrinks(t, n, 0) /\ Shrinks(u, n, 0)
        BY <1>1, <1>3, <2>1 DEF PopConstraints, ShrinksBy
    <2>3. n \in Nat /\ Shrinkage(t.cur) = n
        BY <1>1, <1>3, <1>5, <2>2, LegalWords
    <2>4. SameHeight(t, u) /\ SameStack(t, u)
        BY <1>4, <2>2, <2>3, ShrinkingPinned
    <2> QED BY <1>1, <2>2, <2>4, SharedGroups, ControlAndStack
<1>6. CASE op = "assert"
    <2>1. AssertConstraints(t) /\ AssertConstraints(u)
        BY <1>2, <1>6, Chosen
    <2>2. Step1(t) /\ Step1(u) /\ Shrinks(t, 1, 0) /\ Shrinks(u, 1, 0)
        BY <2>1 DEF AssertConstraints, ShrinkOpStack
    <2>3. Shrinkage(t.cur) = 1
        BY <1>1, <1>6 DEF ShrinkByOne
    <2>4. SameHeight(t, u) /\ SameStack(t, u)
        BY <1>4, <2>2, <2>3, ShrinkingPinned
    <2> QED BY <1>1, <2>2, <2>4, SharedGroups, ControlAndStack
<1>7. CASE op = "assert_vector"
    <2>1. AssertVectorConstraints(t) /\ AssertVectorConstraints(u)
        BY <1>2, <1>7, Chosen
    <2>2. Step1(t) /\ Step1(u) /\ Shrinks(t, DigestLen, 0) /\ Shrinks(u, DigestLen, 0)
        BY <2>1 DEF AssertVectorConstraints, ShrinksBy
    <2>3. Shrinkage(t.cur) = DigestLen
        BY <1>1, <1>7
    <2>4. SameHeight(t, u) /\ SameStack(t, u)
        BY <1>1, <1>4, <2>2, <2>3, ShrinkingPinned
    <2> QED BY <1>1, <2>2, <2>4, SharedGroups, ControlAndStack
<1>8. CASE op = "sponge_absorb"
    <2>1. SpongeAbsorbConstraints(t) /\ SpongeAbsorbConstraints(u)
        BY <1>2, <1>8, Chosen
    <2>2. Step1(t) /\ Step1(u) /\ Shrinks(t, Rate, 0) /\ Shrinks(u, Rate, 0)
        BY <2>1 DEF SpongeAbsorbConstraints, ShrinksBy
    <2>3. Shrinkage(t.cur) = Rate
        BY <1>1, <1>8
    <2>4. SameHeight(t, u) /\ SameStack(t, u)
        BY <1>1, <1>4, <2>2, <2>3, ShrinkingPinned
    <2> QED BY <1>1, <2>2, <2>4, SharedGroups, ControlAndStack
<1>9. CASE op = "write_mem"
    <2>1. WriteMemConstraints(t) /\ WriteMemConstraints(u)
        BY <1>2, <1>9, Chosen
    <2>2. /\ Step2(t) /\ Step2(u) /\ HasLegalNumberOfWords(t.cur)
          /\ Shrinks(t, n, 1) /\ Shrinks(u, n, 1) /\ u.next.st[1] = t.next.st[1]
        BY <1>1, <1>3, <2>1 DEF WriteMemConstraints
    <2>3. n \in Nat /\ Shrinkage(t.cur) = n
        BY <1>1, <1>3, <1>9, <2>2, LegalWords
    <2>4. \A k \in 1 .. 1 : u.next.st[k] = t.next.st[k]
        BY <2>2
    <2>5. SameHeight(t, u) /\ SameStack(t, u)
        BY <2>2, <2>3, <2>4, ShrinkingPinned
    <2> QED BY <1>1, <2>2, <2>5, SharedGroups, ControlAndStack
<1> QED BY <1>5, <1>6, <1>7, <1>8, <1>9
------------------------------------------------------------------------------
(* Instructions whose constraints are equations for every register. *)

\* divine, read_io, push, dup, read_mem and sponge_squeeze.
LEMMA PushingPinned ==
    ASSUME NEW t, NEW u, NEW op \in Mnemonics, Rivals(t, u, op),
           op \in {"divine", "read_io", "push", "dup", "read_mem", "sponge_squeeze"}
    PROVE  SameNext(t, u)
<1>1. /\ u.cur = t.cur /\ Rate \in Nat
      /\ Shows(t, op) /\ InstructionConstraints(t) /\ Shows(u, op) /\ InstructionConstraints(u)
    BY RivalFacts
<1>2. \A k : /\ op \in {"divine", "read_io"} /\ k \in 1 .. IndicatedArg(t.cur)
                    => k \in LinkedStackRegisters(t)
             /\ op = "read_mem" /\ k \in 2 .. IndicatedArg(t.cur) + 1
                    => k \in LinkedStackRegisters(t)
             /\ op = "sponge_squeeze" /\ k \in 1 .. Rate => k \in LinkedStackRegisters(t)
    BY <1>1, LookedUpRegisters
<1>3. PICK n : n = IndicatedArg(t.cur)
    OBVIOUS
<1>4. CASE op \in {"divine", "read_io"}
    <2>1. DivineConstraints(t) /\ DivineConstraints(u)
        <3>1. op = "divine" => DivineConstraints(t) /\ DivineConstraints(u)
            BY <1>1, Chosen
        <3>2. op = "read_io" => ReadIoConstraints(t) /\ ReadIoConstraints(u)
            BY <1>1, Chosen
        <3> QED BY <1>4, <3>1, <3>2 DEF ReadIoConstraints
    <2>2. /\ Step2(t) /\ Step2(u) /\ HasLegalNumberOfWords(t.cur)
          /\ Grows(t, n, n) /\ Grows(u, n, n)
        BY <1>1, <1>3, <2>1 DEF DivineConstraints, GrowsBy
    <2>3. n \in Nat /\ \A k \in 1 .. n : k \in LinkedStackRegisters(t)
        BY <1>2, <1>3, <1>4, <2>2, LegalWords
    <2>4. SameHeight(t, u) /\ SameStack(t, u)
        BY <1>1, <2>2, <2>3, GrowingPinned
    <2> QED BY <1>1, <2>2, <2>4, SharedGroups, ControlAndStack
<1>5. CASE op \in {"push", "dup"}
    <2>1. op = "push" => PushConstraints(t) /\ PushConstraints(u)
        BY <1>1, Chosen
    <2>2. op = "dup" => DupConstraints(t) /\ DupConstraints(u)
        BY <1>1, Chosen
    <2>3. /\ Step2(t) /\ Step2(u) /\ Grows(t, 1, 1) /\ Grows(u, 1, 1)
          /\ u.next.st[1] = t.next.st[1]
        BY <1>1, <1>5, <2>1, <2>2 DEF PushConstraints, DupConstraints, GrowOpStack
    <2>4. \A k \in 1 .. 1 : u.next.st[k] = t.next.st[k]
        BY <2>3
    <2>5. SameHeight(t, u) /\ SameStack(t, u)
        BY <1>1, <2>3, <2>4, GrowingPinned
    <2> QED BY <1>1, <2>3, <2>5, SharedGroups, ControlAndStack
<1>6. CASE op = "read_mem"
    <2>1. ReadMemConstraints(t) /\ ReadMemConstraints(u)
        BY <1>1, <1>6, Chosen
    <2>2. /\ Step2(t) /\ Step2(u) /\ HasLegalNumberOfWords(t.cur)
          /\ Grows(t, n, n + 1) /\ Grows(u, n, n + 1) /\ u.next.st[1] = t.next.st[1]
        BY <1>1, <1>3, <2>1 DEF ReadMemConstraints
    <2>3. n \in Nat
        BY <1>3, <2>2, LegalWords
    <2>4. PICK m \in Nat : m = n + 1
        BY <2>3
    <2>5. \A k \in 1 .. m : k \notin LinkedStackRegisters(t) => u.next.st[k] = t.next.st[k]
        <3>1. \A k \in 1 .. m : k = 1 \/ k \in 2 .. n + 1
            BY <2>3, <2>4
        <3> QED BY <1>2, <1>3, <1>6, <2>2, <3>1
    <2>6. SameHeight(t, u) /\ SameStack(t, u)
        BY <1>1, <2>2, <2>4, <2>5, GrowingPinned
    <2> QED BY <1>1, <2>2, <2>6, SharedGroups, ControlAndStack
<1>7. CASE op = "sponge_squeeze"
    <2>1. SpongeSqueezeConstraints(t) /\ SpongeSqueezeConstraints(u)
        BY <1>1, <1>7, Chosen
    <2>2. /\ Step1(t) /\ Step1(u) /\ Grows(t, Rate, Rate) /\ Grows(u, Rate, Rate)
          /\ \A k \in 1 .. Rate : k \in LinkedStackRegisters(t)
        BY <1>2, <1>7, <2>1 DEF SpongeSqueezeConstraints, GrowsBy
    <2>3. SameHeight(t, u) /\ SameStack(t, u)
        BY <1>1, <2>2, GrowingPinned
    <2> QED BY <1>1, <2>2, <2>3, SharedGroups, ControlAndStack
<1> QED BY <1>4, <1>5, <1>6, <1>7

\* pick, place, swap, nop, halt, sponge_init, addi, sponge_absorb_mem, and the
\* functions of one word.
LEMMA RewritingPinned ==
    ASSUME NEW t, NEW u, NEW op \in Mnemonics, Rivals(t, u, op),
           op \in {"pick", "place", "swap", "nop", "halt", "sponge_init", "addi",
                   "sponge_absorb_mem", "log_2_floor", "pop_count"}
    PROVE  SameNext(t, u)
<1>1. /\ u.cur = t.cur /\ Rate \in Nat
      /\ Shows(t, op) /\ InstructionConstraints(t) /\ Shows(u, op) /\ InstructionConstraints(u)
    BY RivalFacts
<1>2. \A k : /\ op = "sponge_absorb_mem" /\ k \in 2 .. 1 + (Rate - NumHelpers)
                    => k \in LinkedStackRegisters(t)
             /\ op \in {"log_2_floor", "pop_count"} /\ k = 1 => k \in LinkedStackRegisters(t)
    BY <1>1, LookedUpRegisters
<1>3. CASE op \in {"pick", "place", "swap"}
    <2>1. PICK stack : Rearranges(t, stack) /\ Rearranges(u, stack)
        <3>1. CASE op = "pick"
            BY <1>1, <3>1, Chosen DEF PickConstraints
        <3>2. CASE op = "place"
            BY <1>1, <3>2, Chosen DEF PlaceConstraints
        <3>3. CASE op = "swap"
            BY <1>1, <3>3, Chosen DEF SwapConstraints
        <3> QED BY <1>3, <3>1, <3>2, <3>3
    <2>2. /\ Step2(t) /\ Step2(u) /\ u.next.st = t.next.st
          /\ u.next.op_stack_pointer = t.next.op_stack_pointer
        BY <1>1, <2>1 DEF Rearranges, KeepOpStackHeight, RemainsExceptTop
    <2>3. SameHeight(t, u) /\ SameStack(t, u)
        BY <2>2 DEF SameHeight, SameStack
    <2> QED BY <1>1, <2>2, <2>3, SharedGroups, ControlAndStack
<1>4. CASE op \in {"nop", "halt", "sponge_init"}
    <2>1. /\ op = "nop" => NopConstraints(t) /\ NopConstraints(u)
          /\ op = "halt" => HaltConstraints(t) /\ HaltConstraints(u)
          /\ op = "sponge_init" => SpongeInitConstraints(t) /\ SpongeInitConstraints(u)
        BY <1>1, Chosen
    <2>2. /\ Step1(t) /\ Step1(u) /\ RemainsExceptTop(t, 0) /\ RemainsExceptTop(u, 0)
          /\ \A k \in 1 .. 0 : FALSE
        BY <1>4, <2>1 DEF NopConstraints, HaltConstraints, SpongeInitConstraints, KeepOpStack
    <2>3. SameHeight(t, u) /\ SameStack(t, u)
        BY <1>1, <2>2, RemainingPinned
    <2> QED BY <1>1, <2>2, <2>3, SharedGroups, ControlAndStack
<1>5. CASE op = "addi"
    <2>1. AddIConstraints(t) /\ AddIConstraints(u)
        BY <1>1, <1>5, Chosen
    <2>2. /\ Step2(t) /\ Step2(u) /\ RemainsExceptTop(t, 1) /\ RemainsExceptTop(u, 1)
          /\ \A k \in 1 .. 1 : u.next.st[k] = t.next.st[k]
        BY <1>1, <2>1 DEF AddIConstraints
    <2>3. SameHeight(t, u) /\ SameStack(t, u)
        BY <1>1, <2>2, RemainingPinned
    <2> QED BY <1>1, <2>2, <2>3, SharedGroups, ControlAndStack
<1>6. CASE op \in {"log_2_floor", "pop_count"}
    <2>1. WordUnopConstraints(t) /\ WordUnopConstraints(u)
        BY <1>1, <1>6, Chosen
    <2>2. /\ Step1(t) /\ Step1(u) /\ RemainsExceptTop(t, 1) /\ RemainsExceptTop(u, 1)
          /\ \A k \in 1 .. 1 : k \in LinkedStackRegisters(t)
        BY <1>2, <1>6, <2>1 DEF WordUnopConstraints
    <2>3. SameHeight(t, u) /\ SameStack(t, u)
        BY <1>1, <2>2, RemainingPinned
    <2> QED BY <1>1, <2>2, <2>3, SharedGroups, ControlAndStack
<1>7. CASE op = "sponge_absorb_mem"
    <2>1. SpongeAbsorbMemConstraints(t) /\ SpongeAbsorbMemConstraints(u)
        BY <1>1, <1>7, Chosen
    <2>2. PICK n \in Nat : n = 1 + (Rate - NumHelpers)
        BY <1>1, RegisterAssumption
    <2>3. /\ Step1(t) /\ Step1(u) /\ RemainsExceptTop(t, n) /\ RemainsExceptTop(u, n)
          /\ u.next.st[1] = t.next.st[1]
        BY <1>1, <2>1, <2>2 DEF SpongeAbsorbMemConstraints
    <2>4. \A k \in 1 .. n : k \notin LinkedStackRegisters(t) => u.next.st[k] = t.next.st[k]
        <3>1. \A k \in 1 .. n : k = 1 \/ k \in 2 .. n
            BY <2>2
        <3> QED BY <1>2, <1>7, <2>2, <2>3, <3>1
    <2>5. SameHeight(t, u) /\ SameStack(t, u)
        BY <1>1, <2>2, <2>3, <2>4, RemainingPinned
    <2> QED BY <1>1, <2>3, <2>5, SharedGroups, ControlAndStack
<1> QED BY <1>3, <1>4, <1>5, <1>6, <1>7

\* call, return, recurse and skiz.
LEMMA JumpingPinned ==
    ASSUME NEW t, NEW u, NEW op \in Mnemonics, Rivals(t, u, op),
           op \in {"call", "return", "recurse", "skiz"}
    PROVE  SameNext(t, u)
<1>1. /\ u.cur = t.cur
      /\ Shows(t, op) /\ InstructionConstraints(t) /\ Shows(u, op) /\ InstructionConstraints(u)
    BY RivalFacts
<1>2. /\ \A k \in 1 .. 0 : FALSE
      /\ RemainsExceptTop(t, 0) /\ RemainsExceptTop(u, 0) =>
             SameHeight(t, u) /\ SameStack(t, u)
    <2>1. \A k \in 1 .. 0 : FALSE
        OBVIOUS
    <2> QED BY <1>1, <2>1, RemainingPinned
<1>3. CASE op = "call"
    <2>1. CallConstraints(t) /\ CallConstraints(u)
        BY <1>1, <1>3, Chosen
    <2> QED BY <1>1, <1>2, <2>1 DEF CallConstraints, KeepOpStack, SameNext
<1>4. CASE op = "return"
    <2>1. ReturnConstraints(t) /\ ReturnConstraints(u)
        BY <1>1, <1>4, Chosen
    <2>2. LinkedJumpRegisters(t) = {"jso", "jsd"}
        BY <1>1, <1>4 DEF LinkedJumpRegisters, Shows
    <2> QED BY <1>1, <1>2, <2>1, <2>2 DEF ReturnConstraints, KeepOpStack, SameNext
<1>5. CASE op = "recurse"
    <2>1. RecurseConstraints(t) /\ RecurseConstraints(u)
        BY <1>1, <1>5, Chosen
    <2> QED BY <1>1, <1>2, <2>1 DEF RecurseConstraints, KeepOpStack, KeepJumpStack, SameNext
<1>6. CASE op = "skiz"
    <2>1. SkizConstraints(t) /\ SkizConstraints(u)
        BY <1>1, <1>6, Chosen
    <2>2. /\ u.next.ip = t.next.ip /\ KeepJumpStack(t) /\ KeepJumpStack(u)
          /\ Shrinks(t, 1, 0) /\ Shrinks(u, 1, 0)
        BY <1>1, <2>1 DEF SkizConstraints, IpIncreasesBy, ShrinkOpStack
    <2>3. Shrinkage(t.cur) = 1
        BY <1>1, <1>6, ResurfacedRegisters DEF ShrinkByOne
    <2>4. SameHeight(t, u) /\ SameStack(t, u)
        BY <1>2, <2>2, <2>3, ShrinkingPinned
    <2>5. SameControl(t, u)
        BY <1>1, <2>2 DEF SameControl, KeepJumpStack
    <2> QED BY <2>4, <2>5, ControlAndStack
<1> QED BY <1>3, <1>4, <1>5, <1>6
------------------------------------------------------------------------------
(* Instructions whose constraints are equations for sums and products. *)

\* Numbers with the same remainder differ by a multiple.
LEMMA RemaindersDiffer ==
    ASSUME NEW n \in Nat \ {0}, NEW x \in Int, NEW y \in Int, x % n = y % n
    PROVE  \E q \in Int : x - y = n * q
<1>1. \A z \in Int : z \div n \in Int /\ z % n \in 0 .. (n - 1) /\ z = n * (z \div n) + (z % n)
    OBVIOUS
<1>2. PICK a \in Int, r \in 0 .. (n - 1) : r = x % n /\ x = n * a + r
    BY <1>1
<1>3. PICK b \in Int, d \in 0 .. (n - 1) : d = y % n /\ y = n * b + d
    BY <1>1
<1>4. PICK q \in Int : q = a - b
    OBVIOUS
<1>5. n * q = n * a - n * b
    BY <1>4
<1>6. PICK v \in Int, w \in Int : v = n * a /\ w = n * b
    OBVIOUS
<1>7. r = d /\ x = v + r /\ y = w + d /\ n * q = v - w
    BY <1>2, <1>3, <1>5, <1>6
<1>8. PICK m \in Int : m = n * q
    OBVIOUS
<1>9. r \in Int /\ m = v - w /\ x - y = v - w
    BY <1>7, <1>8
<1> QED BY <1>8, <1>9

\* The only multiple of n that is smaller than n is 0.
LEMMA SmallMultiple ==
    ASSUME NEW n \in Nat \ {0}, NEW q \in Int, n * q > -n, n * q < n
    PROVE  q = 0
<1>1. q >= 1 => n * q >= n
    OBVIOUS
<1>2. q <= -1 => n * q <= -n
    OBVIOUS
<1> QED BY <1>1, <1>2

\* A field element is determined by its distance from a number.
LEMMA DistancePins ==
    ASSUME NEW a \in Field, NEW b \in Field, NEW c \in Int, (a + c) % P = (b + c) % P
    PROVE  a = b
<1>1. PICK p \in Nat \ {0} : p = P
    BY FieldFacts
<1>2. a \in 0 .. (p - 1) /\ b \in 0 .. (p - 1)
    BY <1>1 DEF Field
<1>3. PICK x \in Int, y \in Int : x = a + c /\ y = b + c /\ x % p = y % p
    BY <1>1, <1>2
<1>4. PICK q \in Int : x - y = p * q
    BY <1>1, <1>3, RemaindersDiffer
<1>5. PICK m \in Int : m = p * q /\ m > -p /\ m < p /\ m = a - b
    BY <1>2, <1>3, <1>4
<1>6. q = 0
    BY <1>1, <1>5, SmallMultiple
<1> QED BY <1>2, <1>5, <1>6

\* A multiple of a number that is not 0 changes with the other factor.
LEMMA FactorPins ==
    ASSUME NEW c \in Field \ {0}, NEW x \in Field, NEW y \in Int
    PROVE  (c * Plus(x, 1) + y) % P # (c * x + y) % P
<1>1. PICK p \in Nat \ {0} : p = P
    BY FieldFacts
<1>2. c \in 1 .. (p - 1) /\ x \in Int
    BY <1>1 DEF Field
<1>3. PICK e \in Int, z \in Int : z = Plus(x, 1) /\ z = (x + 1) - p * e
    <2>1. \A v \in Int : v \div p \in Int /\ v % p \in Int /\ v = p * (v \div p) + (v % p)
        OBVIOUS
    <2>2. PICK v \in Int : v = x + 1
        BY <1>2
    <2>3. PICK d \in Int, w \in Int : w = v % p /\ v = p * d + w
        BY <2>1
    <2>4. PICK m \in Int : m = p * d
        OBVIOUS
    <2>5. w = v - m
        BY <2>3, <2>4
    <2> QED BY <1>1, <2>2, <2>3, <2>4, <2>5 DEF Plus
<1>4. c * z = c * x + c - p * (c * e)
    <2>1. c * z = c * ((x + 1) - p * e)
        BY <1>3
    <2>2. c * ((x + 1) - p * e) = c * x + c - p * (c * e)
        BY <1>2
    <2> QED BY <2>1, <2>2
<1> SUFFICES ASSUME (c * z + y) % p = (c * x + y) % p PROVE FALSE
    BY <1>1, <1>3
<1>5. PICK f \in Int, g \in Int, k \in Int : f = c * z /\ g = c * x /\ k = c * e
    BY <1>2
<1>6. PICK h \in Int : h = p * k
    OBVIOUS
<1>7. f = g + c - h
    BY <1>4, <1>5, <1>6
<1>8. PICK v \in Int, w \in Int : v = f + y /\ w = g + y /\ v % p = w % p
    BY <1>5
<1>9. PICK q \in Int : v - w = p * q
    BY <1>8, RemaindersDiffer
<1>10. PICK i \in Int : i = p * q /\ i = c - h
    <2>1. PICK i \in Int : i = p * q
        OBVIOUS
    <2>2. i = v - w
        BY <1>9, <2>1
    <2>3. c \in Int
        BY <1>2
    <2>4. v - w = c - h
        BY <1>7, <1>8, <2>3
    <2> QED BY <2>1, <2>2, <2>4
<1>11. PICK j \in Int : j = q + k
    OBVIOUS
<1>12. p * j = p * q + p * k
    BY <1>11
<1>13. p * j = c
    BY <1>2, <1>6, <1>10, <1>12
<1>14. PICK m \in Int : m = p * j /\ m = c /\ m > -p /\ m < p
    BY <1>2, <1>13
<1>15. j = 0
    BY <1>14, SmallMultiple
<1> QED BY <1>2, <1>13, <1>15

\* The smallest numbers are elements of the field.
LEMMA SmallFactors == 2 \in Field \ {0} /\ WordSize \in Field \ {0}
<1>1. PICK w \in Nat, p \in Int : w = WordSize /\ w >= 2 /\ p = P /\ p = w * w - w + 1
    BY SizeAssumption DEF P
<1>2. w * w >= 2 * w
    <2>1. w * w = 2 * w + (w - 2) * w
        BY <1>1
    <2>2. (w - 2) * w >= 0
        <3>1. PICK v \in Nat : v = w - 2
            BY <1>1
        <3>2. v * w \in Nat
            BY <1>1
        <3> QED BY <3>1, <3>2
    <2>3. PICK a \in Int, b \in Int : a = w * w /\ b = (w - 2) * w
        BY <1>1
    <2> QED BY <1>1, <2>1, <2>2, <2>3
<1>3. PICK s \in Int : s = w * w
    BY <1>1
<1>4. p > w
    BY <1>1, <1>2, <1>3
<1> QED BY <1>1, <1>4 DEF Field

\* One register is one higher, or none is.
Altered(t, u) ==
    /\ t.next.st \in [1 .. NumRegisters -> Field] /\ u.next.st \in [1 .. NumRegisters -> Field]
    /\ \A k \in 1 .. NumRegisters : u.next.st[k] # t.next.st[k] =>
           /\ u.next.st[k] = Plus(t.next.st[k], 1)
           /\ \A i \in 1 .. NumRegisters : i # k => u.next.st[i] = t.next.st[i]

\* A sum that the constraints fix: neither summand can change alone.
LEMMA SumPins ==
    ASSUME NEW t, NEW u, Altered(t, u), NEW i \in 1 .. NumRegisters, NEW j \in 1 .. NumRegisters,
           i # j, NEW c \in Field \ {0},
           Plus(c * u.next.st[i], u.next.st[j]) = Plus(c * t.next.st[i], t.next.st[j])
    PROVE  u.next.st[i] = t.next.st[i] /\ u.next.st[j] = t.next.st[j]
<1>1. PICK x \in Field, y \in Field, v \in Field, w \in Field :
          x = t.next.st[i] /\ y = t.next.st[j] /\ v = u.next.st[i] /\ w = u.next.st[j]
    BY DEF Altered
<1>2. /\ v # x => v = Plus(x, 1) /\ w = y
      /\ w # y => w = Plus(y, 1) /\ v = x
    BY <1>1 DEF Altered
<1>3. c \in Int /\ x \in Int /\ y \in Int /\ w \in Int /\ c * x \in Int
    BY FieldFacts
<1>4. v # x => FALSE
    <2> SUFFICES ASSUME v # x PROVE FALSE
        OBVIOUS
    <2>1. (c * Plus(x, 1) + y) % P = (c * x + y) % P
        BY <1>1, <1>2 DEF Plus
    <2> QED BY <1>3, <2>1, FactorPins
<1>5. w # y => FALSE
    <2> SUFFICES ASSUME w # y PROVE FALSE
        OBVIOUS
    <2>1. PICK m \in Int : m = c * x
        BY <1>3
    <2>2. (m + w) % P = (m + y) % P
        BY <1>1, <1>2, <2>1 DEF Plus
    <2>3. (w + m) % P = (y + m) % P
        BY <1>3, <2>1, <2>2
    <2> QED BY <2>1, <2>3, DistancePins
<1> QED BY <1>1, <1>4, <1>5

\* The same when one summand is not a register of the next row.
LEMMA ProductPins ==
    ASSUME NEW t, NEW u, Altered(t, u), NEW i \in 1 .. NumRegisters, NEW c \in Field \ {0},
           NEW y \in Int, Plus(c * u.next.st[i], y) = Plus(c * t.next.st[i], y)
    PROVE  u.next.st[i] = t.next.st[i]
<1>1. PICK x \in Field, v \in Field : x = t.next.st[i] /\ v = u.next.st[i]
    BY DEF Altered
<1>2. v # x => v = Plus(x, 1)
    BY <1>1 DEF Altered
<1>3. (c * Plus(x, 1) + y) % P # (c * x + y) % P
    BY FactorPins
<1> QED BY <1>1, <1>2, <1>3 DEF Plus

\* The extension field element on top of a row.
LEMMA TopElement ==
    ASSUME NEW st \in [1 .. NumRegisters -> Field]
    PROVE  /\ XElement(st, 1) \in XField
           /\ \A k \in 1 .. ExtensionDegree : XElement(st, 1)[k] = st[k]
<1>1. PICK e \in Nat \ {0}, r \in Nat : e = ExtensionDegree /\ r = NumRegisters /\ e <= r
    BY XSizes
<1>2. PICK x : x = [k \in 1 .. e |-> st[k]]
    OBVIOUS
<1>3. x \in XField /\ \A k \in 1 .. e : x[k] = st[k] /\ st[1 + k - 1] = x[k]
    <2>1. \A k \in 1 .. e : 1 + k - 1 = k /\ st[k] \in Field
        BY <1>1
    <2> QED BY <1>1, <1>2, <2>1 DEF XField
<1>4. st = [k \in 1 .. r |-> st[k]]
    BY <1>1
<1>5. IsSequence(st) /\ Len(st) = r /\ 1 + e - 1 <= Len(st) /\ 1 \in Nat \ {0}
    <2>1. IsSequence(st) /\ Len(st) = r
        BY ONLY <1>4, r \in Nat, IndexedSequence
    <2> QED BY <1>1, <2>1
<1>6. XElement(st, 1) = x
    BY <1>1, <1>3, <1>5, XElementIs
<1> QED BY <1>1, <1>3, <1>6

\* add, mul, eq, lt, and, xor and pow.
LEMMA BinopPinned ==
    ASSUME NEW t, NEW u, NEW op \in Mnemonics, Rivals(t, u, op),
           op \in {"add", "mul", "eq", "lt", "and", "xor", "pow"}
    PROVE  SameNext(t, u)
<1>1. /\ u.cur = t.cur
      /\ Shows(t, op) /\ InstructionConstraints(t) /\ Shows(u, op) /\ InstructionConstraints(u)
    BY RivalFacts
<1>2. Shrinkage(t.cur) = 1
    BY <1>1, ResurfacedRegisters DEF ShrinkByOne
<1>3. op \in {"lt", "and", "xor", "pow"} => 1 \in LinkedStackRegisters(t)
    BY <1>1, LookedUpRegisters
<1>4. /\ op = "add" => AddConstraints(t) /\ AddConstraints(u)
      /\ op = "mul" => MulConstraints(t) /\ MulConstraints(u)
      /\ op = "eq" => EqConstraints(t) /\ EqConstraints(u)
      /\ op \in {"lt", "and", "xor", "pow"} => WordBinopConstraints(t) /\ WordBinopConstraints(u)
    <2>1. op = "lt" => WordBinopConstraints(t) /\ WordBinopConstraints(u)
        BY <1>1, Chosen
    <2>2. op = "and" => WordBinopConstraints(t) /\ WordBinopConstraints(u)
        BY <1>1, Chosen
    <2>3. op = "xor" => WordBinopConstraints(t) /\ WordBinopConstraints(u)
        BY <1>1, Chosen
    <2>4. op = "pow" => WordBinopConstraints(t) /\ WordBinopConstraints(u)
        BY <1>1, Chosen
    <2>5. /\ op = "add" => AddConstraints(t) /\ AddConstraints(u)
          /\ op = "mul" => MulConstraints(t) /\ MulConstraints(u)
          /\ op = "eq" => EqConstraints(t) /\ EqConstraints(u)
        BY <1>1, Chosen
    <2> QED BY <2>1, <2>2, <2>3, <2>4, <2>5
<1>5. Step1(t) /\ Step1(u) /\ Shrinks(t, 1, 1) /\ Shrinks(u, 1, 1)
    BY <1>4 DEF AddConstraints, MulConstraints, EqConstraints, WordBinopConstraints, Binop
<1>6. 1 \in LinkedStackRegisters(t) \/ u.next.st[1] = t.next.st[1]
    BY <1>1, <1>3, <1>4 DEF AddConstraints, MulConstraints, EqConstraints
<1>7. \A k \in 1 .. 1 : k \notin LinkedStackRegisters(t) => u.next.st[k] = t.next.st[k]
    BY <1>6
<1>8. SameHeight(t, u) /\ SameStack(t, u)
    BY <1>2, <1>5, <1>7, ShrinkingPinned
<1> QED BY <1>1, <1>5, <1>8, SharedGroups, ControlAndStack

\* hash, xx_add, xx_mul and xb_mul.
LEMMA ShrinkingElementsPinned ==
    ASSUME NEW t, NEW u, NEW op \in Mnemonics, Rivals(t, u, op),
           t.next.st \in [1 .. NumRegisters -> Field], u.next.st \in [1 .. NumRegisters -> Field],
           op \in {"hash", "xx_add", "xx_mul", "xb_mul"}
    PROVE  SameNext(t, u)
<1>1. /\ u.cur = t.cur /\ ExtensionDegree \in Nat /\ DigestLen \in Nat
      /\ Shows(t, op) /\ InstructionConstraints(t) /\ Shows(u, op) /\ InstructionConstraints(u)
    BY RivalFacts
<1>2. /\ op \in {"hash", "assert_vector"} => Shrinkage(t.cur) = DigestLen
      /\ op \in {"xx_add", "xx_mul"} => Shrinkage(t.cur) = ExtensionDegree
      /\ op = "xb_mul" => Shrinkage(t.cur) = 1
    BY <1>1, ResurfacedRegisters DEF ShrinkByOne
<1>3. CASE op = "hash"
    <2>1. HashConstraints(t) /\ HashConstraints(u)
        BY <1>1, <1>3, Chosen
    <2>2. /\ Step1(t) /\ Step1(u)
          /\ Shrinks(t, DigestLen, DigestLen) /\ Shrinks(u, DigestLen, DigestLen)
        BY <2>1 DEF HashConstraints
    <2>3. \A k \in 1 .. DigestLen : k \in LinkedStackRegisters(t)
        BY <1>1, <1>3, LookedUpRegisters
    <2>4. SameHeight(t, u) /\ SameStack(t, u)
        BY <1>1, <1>2, <1>3, <2>2, <2>3, ShrinkingPinned
    <2> QED BY <1>1, <2>2, <2>4, SharedGroups, ControlAndStack
<1>4. CASE op \in {"xx_add", "xx_mul"}
    <2>1. /\ op = "xx_add" => XxAddConstraints(t) /\ XxAddConstraints(u)
          /\ op = "xx_mul" => XxMulConstraints(t) /\ XxMulConstraints(u)
        BY <1>1, Chosen
    <2>2. /\ Step1(t) /\ Step1(u)
          /\ Shrinks(t, ExtensionDegree, ExtensionDegree)
          /\ Shrinks(u, ExtensionDegree, ExtensionDegree)
        BY <1>4, <2>1 DEF XxAddConstraints, XxMulConstraints, ShrinksByThreeAboveTopThree
    <2>3. \A k \in 1 .. ExtensionDegree : u.next.st[k] = t.next.st[k]
        <3>1. CASE op = "xx_add"
            BY <1>1, <2>1, <3>1 DEF XxAddConstraints
        <3>2. CASE op = "xx_mul"
            <4>1. XElement(u.next.st, 1) = XElement(t.next.st, 1)
                BY <1>1, <2>1, <3>2 DEF XxMulConstraints
            <4>2. \A k \in 1 .. ExtensionDegree : /\ XElement(t.next.st, 1)[k] = t.next.st[k]
                                                  /\ XElement(u.next.st, 1)[k] = u.next.st[k]
                BY TopElement
            <4> QED BY <4>1, <4>2
        <3> QED BY <1>4, <3>1, <3>2
    <2>4. SameHeight(t, u) /\ SameStack(t, u)
        BY <1>1, <1>2, <1>4, <2>2, <2>3, ShrinkingPinned
    <2> QED BY <1>1, <2>2, <2>4, SharedGroups, ControlAndStack
<1>5. CASE op = "xb_mul"
    <2>1. XbMulConstraints(t) /\ XbMulConstraints(u)
        BY <1>1, <1>5, Chosen
    <2>2. /\ Step1(t) /\ Step1(u)
          /\ Shrinks(t, 1, ExtensionDegree) /\ Shrinks(u, 1, ExtensionDegree)
          /\ \A k \in 1 .. ExtensionDegree : u.next.st[k] = t.next.st[k]
        BY <1>1, <2>1 DEF XbMulConstraints, ShrinksAboveTopThree
    <2>3. SameHeight(t, u) /\ SameStack(t, u)
        BY <1>1, <1>2, <1>5, <2>2, ShrinkingPinned
    <2> QED BY <1>1, <2>2, <2>3, SharedGroups, ControlAndStack
<1> QED BY <1>3, <1>4, <1>5

\* The two dot products.
LEMMA DotStepPinned ==
    ASSUME NEW t, NEW u, NEW op \in Mnemonics, Rivals(t, u, op),
           op \in {"xx_dot_step", "xb_dot_step"}
    PROVE  SameNext(t, u)
<1>1. /\ u.cur = t.cur /\ ExtensionDegree \in Nat
      /\ Shows(t, op) /\ InstructionConstraints(t) /\ Shows(u, op) /\ InstructionConstraints(u)
    BY RivalFacts
<1>2. PICK size, product : DotStepConstraints(t, size, product)
                           /\ DotStepConstraints(u, size, product)
    <2>1. CASE op = "xx_dot_step"
        BY <1>1, <2>1, Chosen DEF XxDotStepConstraints
    <2>2. CASE op = "xb_dot_step"
        BY <1>1, <2>2, Chosen DEF XbDotStepConstraints
    <2> QED BY <2>1, <2>2
<1>3. PICK n \in Nat : n = ExtensionDegree + 2
    BY <1>1
<1>4. /\ Step1(t) /\ Step1(u) /\ RemainsExceptTop(t, n) /\ RemainsExceptTop(u, n)
      /\ u.next.st[1] = t.next.st[1] /\ u.next.st[2] = t.next.st[2]
      /\ \A k \in 1 .. ExtensionDegree : u.next.st[k + 2] = t.next.st[k + 2]
    BY <1>1, <1>2, <1>3 DEF DotStepConstraints
<1>5. \A k \in 1 .. n : u.next.st[k] = t.next.st[k]
    <2> SUFFICES ASSUME NEW k \in 1 .. n PROVE u.next.st[k] = t.next.st[k]
        OBVIOUS
    <2>1. k = 1 \/ k = 2 \/ \E i \in 1 .. ExtensionDegree : i + 2 = k
        <3>1. (k - 2 \in 1 .. ExtensionDegree /\ (k - 2) + 2 = k) \/ k = 1 \/ k = 2
            BY <1>1, <1>3
        <3> QED BY <3>1
    <2> QED BY <1>4, <2>1
<1>6. SameHeight(t, u) /\ SameStack(t, u)
    BY <1>1, <1>4, <1>5, RemainingPinned
<1> QED BY <1>1, <1>4, <1>6, SharedGroups, ControlAndStack

\* The two inversions.
LEMMA InversesPinned ==
    ASSUME NEW t, NEW u, NEW op \in Mnemonics, Rivals(t, u, op), Altered(t, u),
           t.cur.st \in [1 .. NumRegisters -> Field],
           op \in {"invert", "x_invert"}
    PROVE  SameNext(t, u)
<1>1. /\ u.cur = t.cur /\ ExtensionDegree \in Nat
      /\ Shows(t, op) /\ InstructionConstraints(t) /\ Shows(u, op) /\ InstructionConstraints(u)
    BY RivalFacts
<1>2. /\ t.next.st \in [1 .. NumRegisters -> Field] /\ u.next.st \in [1 .. NumRegisters -> Field]
      /\ 1 \in 1 .. NumRegisters
    BY XSizes DEF Altered
<1>3. CASE op = "invert"
    <2>1. InvertConstraints(t) /\ InvertConstraints(u)
        BY <1>1, <1>3, Chosen
    <2>2. /\ Step1(t) /\ Step1(u) /\ RemainsExceptTop(t, 1) /\ RemainsExceptTop(u, 1)
          /\ Times(t.next.st[1], t.cur.st[1]) = 1 /\ Times(u.next.st[1], t.cur.st[1]) = 1
        BY <1>1, <2>1 DEF InvertConstraints
    <2>3. PICK c \in Field, x \in Field, v \in Field :
              c = t.cur.st[1] /\ x = t.next.st[1] /\ v = u.next.st[1]
        BY <1>2
    <2>4. c \in Int /\ x \in Int /\ v \in Int /\ P \in Nat \ {0} /\ 1 < P
        BY FieldFacts
    <2>5. c # 0
        <3>1. x * 0 = 0 /\ 0 % P = 0
            BY <2>4
        <3> QED BY <2>2, <2>3, <3>1 DEF Times
    <2>6. Plus(c * v, 0) = 1 /\ Plus(c * x, 0) = 1
        <3>1. c * v + 0 = v * c /\ c * x + 0 = x * c
            BY <2>4
        <3> QED BY <2>2, <2>3, <3>1 DEF Times, Plus
    <2>7. c \in Field \ {0} /\ 0 \in Int /\ Plus(c * u.next.st[1], 0) = Plus(c * t.next.st[1], 0)
        BY <2>3, <2>5, <2>6
    <2>8. u.next.st[1] = t.next.st[1]
        BY <1>2, <2>7, ProductPins
    <2>9. \A k \in 1 .. 1 : u.next.st[k] = t.next.st[k]
        BY <2>8
    <2>10. SameHeight(t, u) /\ SameStack(t, u)
        BY <1>1, <2>2, <2>9, RemainingPinned
    <2> QED BY <1>1, <2>2, <2>10, SharedGroups, ControlAndStack
<1>4. CASE op = "x_invert"
    <2>1. XInvertConstraints(t) /\ XInvertConstraints(u)
        BY <1>1, <1>4, Chosen
    <2>2. /\ Step1(t) /\ Step1(u)
          /\ RemainsExceptTop(t, ExtensionDegree) /\ RemainsExceptTop(u, ExtensionDegree)
          /\ XMul(XElement(t.cur.st, 1), XElement(t.next.st, 1)) = Lift(1)
          /\ XMul(XElement(t.cur.st, 1), XElement(u.next.st, 1)) = Lift(1)
        BY <1>1, <2>1 DEF XInvertConstraints
    <2>3. /\ XElement(t.cur.st, 1) \in XField
          /\ XElement(t.next.st, 1) \in XField /\ XElement(u.next.st, 1) \in XField
          /\ \A k \in 1 .. ExtensionDegree : /\ XElement(t.next.st, 1)[k] = t.next.st[k]
                                             /\ XElement(u.next.st, 1)[k] = u.next.st[k]
        BY <1>2, TopElement
    <2>4. XElement(u.next.st, 1) = XElement(t.next.st, 1)
        BY <2>2, <2>3, UniqueInverses
    <2>5. \A k \in 1 .. ExtensionDegree : u.next.st[k] = t.next.st[k]
        BY <2>3, <2>4
    <2>6. SameHeight(t, u) /\ SameStack(t, u)
        BY <1>1, <2>2, <2>5, RemainingPinned
    <2> QED BY <1>1, <2>2, <2>6, SharedGroups, ControlAndStack
<1> QED BY <1>3, <1>4

\* merkle_step and merkle_step_mem.
LEMMA MerkleStepPinned ==
    ASSUME NEW t, NEW u, NEW op \in Mnemonics, Rivals(t, u, op), Altered(t, u),
           op \in {"merkle_step", "merkle_step_mem"}
    PROVE  SameNext(t, u)
<1>1. /\ u.cur = t.cur
      /\ Shows(t, op) /\ InstructionConstraints(t) /\ Shows(u, op) /\ InstructionConstraints(u)
    BY RivalFacts
<1>2. PICK d \in Nat, r \in Nat : d = DigestLen /\ r = NumRegisters /\ d + 3 <= r
    BY SizeAssumption, RegisterAssumption
<1>3. PICK i \in 1 .. NumRegisters : i = d + 1
    BY <1>2
<1>4. MerkleStepSharedConstraints(t) /\ MerkleStepSharedConstraints(u)
    <2>1. CASE op = "merkle_step"
        BY <1>1, <2>1, Chosen DEF MerkleStepConstraints
    <2>2. CASE op = "merkle_step_mem"
        BY <1>1, <2>2, Chosen DEF MerkleStepMemConstraints
    <2> QED BY <2>1, <2>2
<1>5. PICK bit \in Int : /\ Step1(t) /\ Step1(u)
                         /\ Plus(2 * t.next.st[i], bit) = t.cur.st[i]
                         /\ Plus(2 * u.next.st[i], bit) = t.cur.st[i]
    BY <1>1, <1>2, <1>3, <1>4 DEF MerkleStepSharedConstraints
<1>6. u.next.st[i] = t.next.st[i]
    <2>1. Plus(2 * u.next.st[i], bit) = Plus(2 * t.next.st[i], bit)
        BY <1>5
    <2> QED BY <2>1, SmallFactors, ProductPins
<1>7. \A k \in 1 .. d : k \in LinkedStackRegisters(t)
    BY <1>1, <1>2, LookedUpRegisters
<1>8. CASE op = "merkle_step"
    <2>1. MerkleStepConstraints(t) /\ MerkleStepConstraints(u)
        BY <1>1, <1>8, Chosen
    <2>2. PICK n \in Nat : n = d + 1
        BY <1>2
    <2>3. RemainsExceptTop(t, n) /\ RemainsExceptTop(u, n)
        BY <1>2, <2>1, <2>2 DEF MerkleStepConstraints
    <2>4. \A k \in 1 .. n : k \notin LinkedStackRegisters(t) => u.next.st[k] = t.next.st[k]
        <3>1. \A k \in 1 .. n : k \in 1 .. d \/ k = i
            BY <1>2, <1>3, <2>2
        <3> QED BY <1>6, <1>7, <3>1
    <2>5. SameHeight(t, u) /\ SameStack(t, u)
        BY <1>1, <2>3, <2>4, RemainingPinned
    <2> QED BY <1>1, <1>5, <2>5, SharedGroups, ControlAndStack
<1>9. CASE op = "merkle_step_mem"
    <2>1. MerkleStepMemConstraints(t) /\ MerkleStepMemConstraints(u)
        BY <1>1, <1>9, Chosen
    <2>2. PICK n \in Nat : n = d + 3
        BY <1>2
    <2>3. /\ RemainsExceptTop(t, n) /\ RemainsExceptTop(u, n)
          /\ u.next.st[d + 2] = t.next.st[d + 2] /\ u.next.st[d + 3] = t.next.st[d + 3]
        BY <1>1, <1>2, <2>1, <2>2 DEF MerkleStepMemConstraints
    <2>4. \A k \in 1 .. n : k \notin LinkedStackRegisters(t) => u.next.st[k] = t.next.st[k]
        <3>1. \A k \in 1 .. n : k \in 1 .. d \/ k = i \/ k = d + 2 \/ k = d + 3
            BY <1>2, <1>3, <2>2
        <3> QED BY <1>6, <1>7, <2>3, <3>1
    <2>5. SameHeight(t, u) /\ SameStack(t, u)
        BY <1>1, <2>3, <2>4, RemainingPinned
    <2> QED BY <1>1, <1>5, <2>5, SharedGroups, ControlAndStack
<1> QED BY <1>8, <1>9

\* split and div_mod, whose results add up to the operand.
LEMMA SummandsPinned ==
    ASSUME NEW t, NEW u, NEW op \in Mnemonics, Rivals(t, u, op), Altered(t, u),
           t.cur.st \in [1 .. NumRegisters -> Field],
           op = "div_mod" => t.cur.st[2] # 0,
           op \in {"split", "div_mod"}
    PROVE  SameNext(t, u)
<1>1. /\ u.cur = t.cur
      /\ Shows(t, op) /\ InstructionConstraints(t) /\ Shows(u, op) /\ InstructionConstraints(u)
    BY RivalFacts
<1>2. 1 \in 1 .. NumRegisters /\ 2 \in 1 .. NumRegisters /\ 1 # 2
    BY SizeAssumption, RegisterAssumption
<1>3. CASE op = "split"
    <2>1. SplitConstraints(t) /\ SplitConstraints(u)
        BY <1>1, <1>3, Chosen
    <2>2. /\ Step1(t) /\ Step1(u) /\ Grows(t, 1, 2) /\ Grows(u, 1, 2)
          /\ Plus(WordSize * u.next.st[2], u.next.st[1])
                 = Plus(WordSize * t.next.st[2], t.next.st[1])
        BY <1>1, <2>1 DEF SplitConstraints, GrowsAboveTopTwo
    <2>3. u.next.st[2] = t.next.st[2] /\ u.next.st[1] = t.next.st[1]
        BY <1>2, <2>2, SmallFactors, SumPins
    <2>4. \A k \in 1 .. 2 : u.next.st[k] = t.next.st[k]
        BY <2>3
    <2>5. SameHeight(t, u) /\ SameStack(t, u)
        BY <1>1, <2>2, <2>4, GrowingPinned
    <2> QED BY <1>1, <2>2, <2>5, SharedGroups, ControlAndStack
<1>4. CASE op = "div_mod"
    <2>1. DivModConstraints(t) /\ DivModConstraints(u)
        BY <1>1, <1>4, Chosen
    <2>2. PICK c \in Field \ {0} : c = t.cur.st[2]
        BY <1>2, <1>4
    <2>3. /\ Step1(t) /\ Step1(u) /\ RemainsExceptTop(t, 2) /\ RemainsExceptTop(u, 2)
          /\ Plus(c * u.next.st[2], u.next.st[1]) = Plus(c * t.next.st[2], t.next.st[1])
        BY <1>1, <2>1, <2>2 DEF DivModConstraints
    <2>4. u.next.st[2] = t.next.st[2] /\ u.next.st[1] = t.next.st[1]
        BY <1>2, <2>3, SumPins
    <2>5. \A k \in 1 .. 2 : u.next.st[k] = t.next.st[k]
        BY <2>4
    <2>6. SameHeight(t, u) /\ SameStack(t, u)
        BY <1>1, <2>3, <2>5, RemainingPinned
    <2> QED BY <1>1, <2>3, <2>6, SharedGroups, ControlAndStack
<1> QED BY <1>3, <1>4

\* The helper variable that tells recurse_or_return whether two registers agree.
HelperDecides(row) ==
    LET difference == Minus(row.st[DigestLen + 2], row.st[DigestLen + 1])
    IN  /\ row.hv[1] \in Int
        /\ row.hv[1] = 0 \/ Times(row.hv[1], difference) = 1

\* Weights 0 and 1 choose a summand.
LEMMA ChosenSummand ==
    /\ \A a, b \in Int : Plus(Times(1, a), Times(0, b)) = a % P
    /\ \A a, b \in Int : Plus(Times(0, a), Times(1, b)) = b % P
    /\ Minus(1, 0) = 1 /\ Minus(1, 1) = 0
    /\ \A a \in Int : Times(0, a) = 0
<1>1. PICK p \in Nat \ {0} : p = P /\ 1 < p
    BY FieldFacts
<1>2. 0 % p = 0 /\ 1 % p = 1
    BY <1>1
<1>3. \A a \in Int : a % p \in 0 .. (p - 1) /\ (a % p) % p = a % p
    BY <1>1
<1>4. \A a \in Int : 0 * a = 0 /\ 1 * a = a /\ a + 0 = a /\ 0 + a = a
    OBVIOUS
<1>5. \A a \in Int : a % p \in Int
    BY <1>3
<1>6. \A a \in Int : Times(1, a) = a % p /\ Times(0, a) = 0
    BY <1>1, <1>2, <1>4 DEF Times
<1>7. \A a \in Int : Plus(a % p, 0) = a % p /\ Plus(0, a % p) = a % p
    BY <1>1, <1>3, <1>4, <1>5 DEF Plus
<1>8. \A a, b \in Int : Plus(Times(1, a), Times(0, b)) = a % P
    BY <1>1, <1>6, <1>7
<1>9. \A a, b \in Int : Plus(Times(0, a), Times(1, b)) = b % P
    BY <1>1, <1>6, <1>7
<1>10. 1 - 0 = 1 /\ 1 - 1 = 0
    OBVIOUS
<1> QED BY <1>1, <1>2, <1>4, <1>8, <1>9, <1>10 DEF Times, Minus

\* The control registers of a row are field elements.
ControlTyped(row) ==
    row.ip \in Field /\ row.jsp \in Field /\ row.jso \in Field /\ row.jsd \in Field

\* Of two field elements at the same distance from a number there is only one.
LEMMA ZeroDistancePins ==
    ASSUME NEW a \in Field, NEW b \in Field, NEW c \in Int, Minus(a, c) % P = 0, Minus(b, c) % P = 0
    PROVE  a = b
<1>1. PICK p \in Nat \ {0} : p = P /\ a \in Int /\ b \in Int
    BY FieldFacts
<1>2. \A z \in Int : (z % p) % p = z % p
    BY <1>1
<1>3. PICK d \in Int : d = -c /\ a - c = a + d /\ b - c = b + d /\ a + d \in Int /\ b + d \in Int
    BY <1>1
<1>4. (a + d) % P = (b + d) % P
    BY <1>1, <1>2, <1>3 DEF Minus
<1> QED BY <1>3, <1>4, DistancePins

\* recurse_or_return: the helper variable says which of the two cases the constraints are.
LEMMA RecurseOrReturnPinned ==
    ASSUME NEW t, NEW u, NEW op \in Mnemonics, Rivals(t, u, op), op = "recurse_or_return",
           ControlTyped(t.cur), ControlTyped(t.next), ControlTyped(u.next),
           t.cur.st \in [1 .. NumRegisters -> Field], HelperDecides(t.cur)
    PROVE  SameNext(t, u)
<1>1. /\ u.cur = t.cur
      /\ Shows(t, op) /\ InstructionConstraints(t) /\ Shows(u, op) /\ InstructionConstraints(u)
    BY RivalFacts
<1>2. RecurseOrReturnConstraints(t) /\ RecurseOrReturnConstraints(u)
    BY <1>1, Chosen
<1>3. KeepOpStack(t) /\ KeepOpStack(u)
    BY <1>2 DEF RecurseOrReturnConstraints
<1>4. SameHeight(t, u) /\ SameStack(t, u)
    <2>1. \A k \in 1 .. 0 : FALSE
        OBVIOUS
    <2> QED BY <1>1, <1>3, <2>1, RemainingPinned DEF KeepOpStack
<1>5. PICK hv, difference, differs, equals :
          /\ hv = t.cur.hv[1]
          /\ difference = Minus(t.cur.st[DigestLen + 2], t.cur.st[DigestLen + 1])
          /\ differs = Times(hv, difference) /\ equals = Minus(1, differs)
    OBVIOUS
<1> DEFINE Vanishes(a, b) == Plus(Times(equals, a), Times(differs, b)) = 0
           Vanish(next) ==
               /\ Vanishes(hv, Minus(next.jso, t.cur.jso))
               /\ Vanishes(difference, Minus(next.jsd, t.cur.jsd))
               /\ Vanishes(Minus(next.ip, t.cur.jso), Minus(next.ip, t.cur.jsd))
               /\ Vanishes(Minus(next.jsp, t.cur.jsp - 1), Minus(next.jsp, t.cur.jsp))
<1>6. Vanish(t.next) /\ Vanish(u.next)
    <2>1. Vanish(t.next)
        BY <1>2, <1>5 DEF RecurseOrReturnConstraints
    <2>2. Vanish(u.next)
        BY <1>1, <1>2, <1>5 DEF RecurseOrReturnConstraints
    <2> QED BY <2>1, <2>2
<1>7. /\ t.cur.ip \in Int /\ t.cur.jso \in Int /\ t.cur.jsd \in Int /\ t.cur.jsp \in Int
      /\ t.cur.jsp - 1 \in Int
      /\ t.next.ip \in Field /\ t.next.jsp \in Field /\ t.next.jso \in Field /\ t.next.jsd \in Field
      /\ u.next.ip \in Field /\ u.next.jsp \in Field /\ u.next.jso \in Field /\ u.next.jsd \in Field
    <2>1. PICK ip \in Field, jsp \in Field, jso \in Field, jsd \in Field :
              ip = t.cur.ip /\ jsp = t.cur.jsp /\ jso = t.cur.jso /\ jsd = t.cur.jsd
        BY DEF ControlTyped
    <2>2. ip \in Int /\ jsp \in Int /\ jso \in Int /\ jsd \in Int
        BY FieldFacts
    <2>3. jsp - 1 \in Int
        BY <2>2
    <2> QED BY <2>1, <2>2, <2>3 DEF ControlTyped
<1>8. hv \in Int /\ difference \in Int
    <2>1. DigestLen + 2 \in 1 .. NumRegisters /\ DigestLen + 1 \in 1 .. NumRegisters
        BY SizeAssumption, RegisterAssumption
    <2>2. t.cur.st[DigestLen + 2] \in Field /\ t.cur.st[DigestLen + 1] \in Field
        BY <2>1
    <2> QED BY <1>5, <2>2, FieldDifference, FieldFacts DEF HelperDecides
<1>9. \A a \in Field, b \in Int : Minus(a, b) \in Int
    <2>1. \A a \in Field, b \in Int : a - b \in Int
        BY FieldFacts
    <2> QED BY <2>1, FieldFacts DEF Minus
<1>10. CASE hv = 0
    <2>1. differs = 0 /\ equals = 1
        BY <1>5, <1>8, <1>10, ChosenSummand
    <2>2. /\ Minus(t.next.ip, t.cur.jso) % P = 0 /\ Minus(u.next.ip, t.cur.jso) % P = 0
          /\ Minus(t.next.jsp, t.cur.jsp - 1) % P = 0 /\ Minus(u.next.jsp, t.cur.jsp - 1) % P = 0
        <3>1. \A a, b \in Int : Vanishes(a, b) => a % P = 0
            BY <2>1, ChosenSummand
        <3> HIDE DEF Vanishes
        <3> QED BY <1>6, <1>7, <1>9, <3>1
    <2>3. u.next.ip = t.next.ip /\ u.next.jsp = t.next.jsp
        BY <1>7, <2>2, ZeroDistancePins
    <2>4. LinkedJumpRegisters(t) = {"jso", "jsd"}
        <3>1. Is(t.cur, "recurse_or_return")
            BY <1>1 DEF Shows
        <3> QED BY <1>5, <1>10, <3>1 DEF LinkedJumpRegisters
    <2> QED BY <1>4, <2>3, <2>4 DEF SameNext
<1>11. CASE hv # 0
    <2>1. differs = 1 /\ equals = 0
        BY <1>5, <1>11, ChosenSummand DEF HelperDecides
    <2>2. /\ Minus(t.next.ip, t.cur.jsd) % P = 0 /\ Minus(u.next.ip, t.cur.jsd) % P = 0
          /\ Minus(t.next.jsp, t.cur.jsp) % P = 0 /\ Minus(u.next.jsp, t.cur.jsp) % P = 0
          /\ Minus(t.next.jso, t.cur.jso) % P = 0 /\ Minus(u.next.jso, t.cur.jso) % P = 0
          /\ Minus(t.next.jsd, t.cur.jsd) % P = 0 /\ Minus(u.next.jsd, t.cur.jsd) % P = 0
        <3>1. \A a, b \in Int : Vanishes(a, b) => b % P = 0
            BY <2>1, ChosenSummand
        <3> HIDE DEF Vanishes
        <3> QED BY <1>6, <1>7, <1>8, <1>9, <3>1
    <2>3. /\ u.next.ip = t.next.ip /\ u.next.jsp = t.next.jsp
          /\ u.next.jso = t.next.jso /\ u.next.jsd = t.next.jsd
        BY <1>7, <2>2, ZeroDistancePins
    <2> QED BY <1>4, <2>3 DEF SameNext
<1> QED BY <1>10, <1>11
------------------------------------------------------------------------------
(* Every instruction. *)

\* A row as the machine records it: the numbers in it are field elements or integers.
TypedRow(row) ==
    /\ row = [clk |-> row.clk, ip |-> row.ip, ci |-> row.ci, nia |-> row.nia,
              jsp |-> row.jsp, jso |-> row.jso, jsd |-> row.jsd,
              st |-> row.st, op_stack_pointer |-> row.op_stack_pointer, hv |-> row.hv]
    /\ row.clk \in Int /\ row.ci \in Int /\ row.nia \in Int /\ row.op_stack_pointer \in Int
    /\ ControlTyped(row)
    /\ row.st \in [1 .. NumRegisters -> Field]

(***************************************************************************)
(* What the pinning needs to know of a row and its constraints alone do    *)
(* not say: a divisor is not zero, and the helper variable that decides    *)
(* between two cases is derived as the machine derives it.                 *)
(***************************************************************************)
Pinnable(row, op) ==
    /\ op \in Mnemonics
    /\ \A o \in Mnemonics : Is(row, o) <=> o = op
    /\ op = "div_mod" => row.st[2] # 0
    /\ op = "recurse_or_return" => HelperDecides(row)

\* Every instruction pins the registers that no other table answers for.
LEMMA AllPinned ==
    ASSUME NEW t, NEW u, NEW op, Pinnable(t.cur, op), Rivals(t, u, op), Altered(t, u),
           TypedRow(t.cur), ControlTyped(t.next), ControlTyped(u.next)
    PROVE  SameNext(t, u)
<1>1. /\ op \in Mnemonics
      /\ op = "div_mod" => t.cur.st[2] # 0
      /\ op = "recurse_or_return" => HelperDecides(t.cur)
    BY DEF Pinnable
<1>2. /\ t.cur.st \in [1 .. NumRegisters -> Field] /\ ControlTyped(t.cur)
      /\ t.next.st \in [1 .. NumRegisters -> Field] /\ u.next.st \in [1 .. NumRegisters -> Field]
    BY DEF TypedRow, Altered
<1>3. CASE op \in {"pop", "write_io", "assert", "assert_vector", "sponge_absorb", "write_mem"}
    BY <1>1, <1>3, DroppingPinned
<1>4. CASE op \in {"divine", "read_io", "push", "dup", "read_mem", "sponge_squeeze"}
    BY <1>1, <1>4, PushingPinned
<1>5. CASE op \in {"pick", "place", "swap", "nop", "halt", "sponge_init", "addi",
                   "sponge_absorb_mem", "log_2_floor", "pop_count"}
    BY <1>1, <1>5, RewritingPinned
<1>6. CASE op \in {"call", "return", "recurse", "skiz"}
    BY <1>1, <1>6, JumpingPinned
<1>7. CASE op \in {"add", "mul", "eq", "lt", "and", "xor", "pow"}
    BY <1>1, <1>7, BinopPinned
<1>8. CASE op \in {"hash", "xx_add", "xx_mul", "xb_mul"}
    BY <1>1, <1>2, <1>8, ShrinkingElementsPinned
<1>9. CASE op \in {"xx_dot_step", "xb_dot_step"}
    BY <1>1, <1>9, DotStepPinned
<1>10. CASE op \in {"invert", "x_invert"}
    BY <1>1, <1>2, <1>10, InversesPinned
<1>11. CASE op \in {"merkle_step", "merkle_step_mem"}
    BY <1>1, <1>11, MerkleStepPinned
<1>12. CASE op \in {"split", "div_mod"}
    BY <1>1, <1>2, <1>12, SummandsPinned
<1>13. CASE op = "recurse_or_return"
    BY <1>1, <1>2, <1>13, RecurseOrReturnPinned
<1> QED
    BY <1>1, <1>3, <1>4, <1>5, <1>6, <1>7, <1>8, <1>9, <1>10, <1>11, <1>12, <1>13
       DEF Mnemonics, DoubleWordOps, NumWordsOps, SingleWordOps, RegisterOps, ElementOps

\* The next number is another one.
LEMMA NextDiffers == \A x \in Int : Plus(x, 1) # x /\ Plus(x, 1) \in Field
<1> SUFFICES ASSUME NEW x \in Int PROVE Plus(x, 1) # x /\ Plus(x, 1) \in Field
    OBVIOUS
<1>1. PICK p \in Nat \ {0} : p = P /\ 1 < p /\ Field = 0 .. (p - 1)
    BY FieldFacts DEF Field
<1>2. x + 1 \in Int
    OBVIOUS
<1>3. (x + 1) % p \in 0 .. (p - 1)
    BY <1>1, <1>2
<1>4. x \in 0 .. (p - 1) => (x + 1) % p # x
    <2>1. CASE x + 1 < p /\ x >= 0
        <3>1. (x + 1) % p = x + 1
            BY <1>1, <2>1
        <3> QED BY <3>1
    <2>2. CASE x + 1 = p
        <3>1. (x + 1) % p = 0
            BY <1>1, <2>2
        <3> QED BY <1>1, <2>2, <3>1
    <2> QED BY <1>1, <2>1, <2>2
<1> QED BY <1>1, <1>3, <1>4 DEF Plus

\* A row of which one register is one higher.
Raised(row, r) == [row EXCEPT ![r] = Plus(@, 1)]
RaisedElement(row, k) == [row EXCEPT !.st[k] = Plus(@, 1)]

\* What else is in such a row, when the register is one of the stack.
LEMMA RaisedElementFacts ==
    ASSUME NEW row, TypedRow(row), NEW k \in 1 .. NumRegisters, NEW v, v = RaisedElement(row, k)
    PROVE  /\ v.st \in [1 .. NumRegisters -> Field]
           /\ v.st[k] = Plus(row.st[k], 1) /\ v.st[k] # row.st[k]
           /\ \A i \in 1 .. NumRegisters : i # k => v.st[i] = row.st[i]
           /\ v.ip = row.ip /\ v.jsp = row.jsp /\ v.jso = row.jso /\ v.jsd = row.jsd
<1>1. PICK st \in [1 .. NumRegisters -> Field] : st = row.st
    BY DEF TypedRow
<1>2. st[k] \in Field /\ st[k] \in Int
    BY <1>1, FieldFacts
<1>3. Plus(st[k], 1) \in Field /\ Plus(st[k], 1) # st[k]
    BY <1>2, NextDiffers
<1>4. v.st = [st EXCEPT ![k] = Plus(st[k], 1)]
    BY <1>1 DEF RaisedElement, TypedRow
<1>5. /\ v.st \in [1 .. NumRegisters -> Field] /\ v.st[k] = Plus(st[k], 1)
      /\ \A i \in 1 .. NumRegisters : i # k => v.st[i] = st[i]
    BY <1>3, <1>4
<1>6. v.ip = row.ip /\ v.jsp = row.jsp /\ v.jso = row.jso /\ v.jsd = row.jsd
    BY DEF TypedRow, RaisedElement
<1> QED BY <1>1, <1>3, <1>5, <1>6

\* The transition `t` with another next row.
With(t, row) == [t EXCEPT !.next = row]

\* A transition of the processor table, as the property takes it apart.
Transition(t) ==
    /\ t = [cur |-> t.cur, next |-> t.next, is_padding |-> t.is_padding]
    /\ t.is_padding \in BOOLEAN
    /\ TypedRow(t.cur) /\ TypedRow(t.next)
    /\ TransitionConstraints(t)

\* A row of which one control register is one higher.
LEMMA RaisedFacts ==
    ASSUME NEW row, TypedRow(row),
           NEW r \in {"clk", "ip", "jsp", "jso", "jsd", "op_stack_pointer", "ci", "nia"},
           NEW v, v = Raised(row, r)
    PROVE  /\ v.st = row.st
           /\ v.clk = IF r = "clk" THEN Plus(row.clk, 1) ELSE row.clk
           /\ v.ip = IF r = "ip" THEN Plus(row.ip, 1) ELSE row.ip
           /\ v.jsp = IF r = "jsp" THEN Plus(row.jsp, 1) ELSE row.jsp
           /\ v.jso = IF r = "jso" THEN Plus(row.jso, 1) ELSE row.jso
           /\ v.jsd = IF r = "jsd" THEN Plus(row.jsd, 1) ELSE row.jsd
           /\ v.ci = IF r = "ci" THEN Plus(row.ci, 1) ELSE row.ci
           /\ v.nia = IF r = "nia" THEN Plus(row.nia, 1) ELSE row.nia
           /\ v.op_stack_pointer = IF r = "op_stack_pointer" THEN Plus(row.op_stack_pointer, 1)
                                   ELSE row.op_stack_pointer
<1>1. row = [clk |-> row.clk, ip |-> row.ip, ci |-> row.ci, nia |-> row.nia,
             jsp |-> row.jsp, jso |-> row.jso, jsd |-> row.jsd,
             st |-> row.st, op_stack_pointer |-> row.op_stack_pointer, hv |-> row.hv]
    BY DEF TypedRow
<1>2. CASE r = "clk"
    BY <1>1, <1>2 DEF Raised
<1>3. CASE r = "ip"
    BY <1>1, <1>3 DEF Raised
<1>4. CASE r = "jsp"
    BY <1>1, <1>4 DEF Raised
<1>5. CASE r = "jso"
    BY <1>1, <1>5 DEF Raised
<1>6. CASE r = "jsd"
    BY <1>1, <1>6 DEF Raised
<1>7. CASE r = "ci"
    BY <1>1, <1>7 DEF Raised
<1>8. CASE r = "nia"
    BY <1>1, <1>8 DEF Raised
<1>9. CASE r = "op_stack_pointer"
    BY <1>1, <1>9 DEF Raised
<1> QED BY <1>2, <1>3, <1>4, <1>5, <1>6, <1>7, <1>8, <1>9

\* Two rows of field elements that follow the same row, one altered.
LEMMA RivalsOf ==
    ASSUME NEW t, Transition(t), ~t.is_padding, NEW op, Pinnable(t.cur, op), NEW v,
           TransitionConstraints(With(t, v))
    PROVE  /\ Rivals(t, With(t, v), op)
           /\ With(t, v).next = v
           /\ v.clk = Plus(t.cur.clk, 1) /\ t.next.clk = Plus(t.cur.clk, 1)
<1>1. PICK u : u = With(t, v)
    OBVIOUS
<1>2. u.cur = t.cur /\ u.next = v /\ u.is_padding = t.is_padding
    BY <1>1 DEF With, Transition
<1>3. Shows(t, op) /\ Shows(u, op)
    BY <1>2 DEF Pinnable, Shows
<1>4. /\ InstructionConstraints(t) /\ t.next.clk = Plus(t.cur.clk, 1)
    BY DEF Transition, TransitionConstraints
<1>5. InstructionConstraints(u) /\ u.next.clk = Plus(u.cur.clk, 1)
    BY <1>1, <1>2 DEF TransitionConstraints
<1> QED BY <1>1, <1>2, <1>3, <1>4, <1>5 DEF Rivals

\* No control register can be one higher.
LEMMA ControlRegisterPinned ==
    ASSUME NEW t, Transition(t), ~t.is_padding, NEW op, Pinnable(t.cur, op),
           NEW r \in {"clk", "ip", "jsp", "jso", "jsd", "op_stack_pointer"},
           r \notin LinkedJumpRegisters(t)
    PROVE  ~TransitionConstraints(With(t, Raised(t.next, r)))
<1>1. PICK v, u : v = Raised(t.next, r) /\ u = With(t, v)
    OBVIOUS
<1> SUFFICES ASSUME TransitionConstraints(u) PROVE FALSE
    BY <1>1
<1>2. TypedRow(t.next) /\ TypedRow(t.cur)
    BY DEF Transition
<1>3. /\ v.st = t.next.st
      /\ v.clk = IF r = "clk" THEN Plus(t.next.clk, 1) ELSE t.next.clk
      /\ v.ip = IF r = "ip" THEN Plus(t.next.ip, 1) ELSE t.next.ip
      /\ v.jsp = IF r = "jsp" THEN Plus(t.next.jsp, 1) ELSE t.next.jsp
      /\ v.jso = IF r = "jso" THEN Plus(t.next.jso, 1) ELSE t.next.jso
      /\ v.jsd = IF r = "jsd" THEN Plus(t.next.jsd, 1) ELSE t.next.jsd
      /\ v.op_stack_pointer = IF r = "op_stack_pointer" THEN Plus(t.next.op_stack_pointer, 1)
                              ELSE t.next.op_stack_pointer
    <2>1. PICK row : row = t.next
        OBVIOUS
    <2>2. /\ TypedRow(row) /\ v = Raised(row, r)
          /\ r \in {"clk", "ip", "jsp", "jso", "jsd", "op_stack_pointer", "ci", "nia"}
        BY <1>1, <1>2, <2>1
    <2>3. /\ v.st = row.st
          /\ v.clk = IF r = "clk" THEN Plus(row.clk, 1) ELSE row.clk
          /\ v.ip = IF r = "ip" THEN Plus(row.ip, 1) ELSE row.ip
          /\ v.jsp = IF r = "jsp" THEN Plus(row.jsp, 1) ELSE row.jsp
          /\ v.jso = IF r = "jso" THEN Plus(row.jso, 1) ELSE row.jso
          /\ v.jsd = IF r = "jsd" THEN Plus(row.jsd, 1) ELSE row.jsd
          /\ v.op_stack_pointer = IF r = "op_stack_pointer" THEN Plus(row.op_stack_pointer, 1)
                                  ELSE row.op_stack_pointer
        BY ONLY <2>2, RaisedFacts
    <2> QED BY <2>1, <2>3
<1>4. /\ Rivals(t, u, op) /\ u.next = v
      /\ v.clk = Plus(t.cur.clk, 1) /\ t.next.clk = Plus(t.cur.clk, 1)
    BY <1>1, RivalsOf
<1>5. /\ t.next.clk \in Int /\ t.next.op_stack_pointer \in Int
      /\ t.next.ip \in Field /\ t.next.jsp \in Field /\ t.next.jso \in Field /\ t.next.jsd \in Field
      /\ t.next.ip \in Int /\ t.next.jsp \in Int /\ t.next.jso \in Int /\ t.next.jsd \in Int
      /\ t.next.st \in [1 .. NumRegisters -> Field]
    BY <1>2, FieldFacts DEF TypedRow, ControlTyped
<1>6. ControlTyped(t.next) /\ ControlTyped(u.next) /\ Altered(t, u)
    <2>1. ControlTyped(t.next)
        BY <1>2 DEF TypedRow
    <2>2. ControlTyped(u.next)
        BY <1>3, <1>4, <1>5, NextDiffers DEF ControlTyped
    <2>3. Altered(t, u)
        BY <1>3, <1>4, <1>5 DEF Altered
    <2> QED BY <2>1, <2>2, <2>3
<1>7. SameNext(t, u)
    BY <1>2, <1>4, <1>6, AllPinned
<1>8. /\ v.ip = t.next.ip /\ v.jsp = t.next.jsp
      /\ LinkedJumpRegisters(t) # {"jso", "jsd"} => v.jso = t.next.jso /\ v.jsd = t.next.jsd
      /\ v.op_stack_pointer = t.next.op_stack_pointer
      /\ v.clk = t.next.clk
    BY <1>4, <1>7 DEF SameNext, SameHeight
<1>9. \A x \in Int : Plus(x, 1) # x
    BY NextDiffers
<1>10. r # "clk" /\ r # "ip" /\ r # "jsp" /\ r # "op_stack_pointer"
    BY <1>3, <1>5, <1>8, <1>9
<1>11. r \in {"jso", "jsd"} /\ LinkedJumpRegisters(t) # {"jso", "jsd"}
    BY <1>10
<1> QED BY <1>3, <1>5, <1>8, <1>9, <1>11

\* Nor can a register of the stack.
LEMMA StackRegisterPinned ==
    ASSUME NEW t, Transition(t), ~t.is_padding, NEW op, Pinnable(t.cur, op),
           NEW k \in (1 .. NumRegisters) \ LinkedStackRegisters(t)
    PROVE  ~TransitionConstraints(With(t, RaisedElement(t.next, k)))
<1>1. PICK v, u : v = RaisedElement(t.next, k) /\ u = With(t, v)
    OBVIOUS
<1> SUFFICES ASSUME TransitionConstraints(u) PROVE FALSE
    BY <1>1
<1>2. TypedRow(t.next) /\ TypedRow(t.cur) /\ k \in 1 .. NumRegisters
    BY DEF Transition
<1>4. /\ v.st \in [1 .. NumRegisters -> Field]
      /\ v.st[k] = Plus(t.next.st[k], 1) /\ v.st[k] # t.next.st[k]
      /\ \A i \in 1 .. NumRegisters : i # k => v.st[i] = t.next.st[i]
      /\ v.ip = t.next.ip /\ v.jsp = t.next.jsp /\ v.jso = t.next.jso /\ v.jsd = t.next.jsd
    <2>1. PICK row : row = t.next
        OBVIOUS
    <2>2. TypedRow(row) /\ v = RaisedElement(row, k) /\ k \in 1 .. NumRegisters
        BY <1>1, <1>2, <2>1
    <2>3. /\ v.st \in [1 .. NumRegisters -> Field]
          /\ v.st[k] = Plus(row.st[k], 1) /\ v.st[k] # row.st[k]
          /\ \A i \in 1 .. NumRegisters : i # k => v.st[i] = row.st[i]
          /\ v.ip = row.ip /\ v.jsp = row.jsp /\ v.jso = row.jso /\ v.jsd = row.jsd
        BY ONLY <2>2, RaisedElementFacts
    <2> QED BY <2>1, <2>3
<1>5. Rivals(t, u, op) /\ u.next = v
    BY <1>1, RivalsOf
<1>6. ControlTyped(t.next) /\ ControlTyped(u.next) /\ Altered(t, u)
    <2>1. ControlTyped(t.next) /\ t.next.st \in [1 .. NumRegisters -> Field]
        BY <1>2 DEF TypedRow
    <2>2. ControlTyped(u.next)
        BY <1>4, <1>5, <2>1 DEF ControlTyped
    <2>3. Altered(t, u)
        BY <1>4, <1>5, <2>1 DEF Altered
    <2> QED BY <2>1, <2>2, <2>3
<1>7. SameNext(t, u)
    BY <1>2, <1>5, <1>6, AllPinned
<1> QED BY <1>4, <1>5, <1>7 DEF SameNext, SameStack

\* In the padding no register but the clock changes.
LEMMA PaddingPinned ==
    ASSUME NEW t, Transition(t), t.is_padding
    PROVE  /\ \A r \in {"clk", "ip", "jsp", "jso", "jsd", "op_stack_pointer", "ci", "nia"} :
                  ~TransitionConstraints(With(t, Raised(t.next, r)))
           /\ \A k \in 1 .. NumRegisters :
                  ~TransitionConstraints(With(t, RaisedElement(t.next, k)))
<1>1. TypedRow(t.next) /\ TypedRow(t.cur)
    BY DEF Transition
<1>2. \A v : TransitionConstraints(With(t, v)) =>
          /\ v.clk = t.next.clk /\ v.ip = t.next.ip /\ v.ci = t.next.ci /\ v.nia = t.next.nia
          /\ v.jsp = t.next.jsp /\ v.jso = t.next.jso /\ v.jsd = t.next.jsd
          /\ v.op_stack_pointer = t.next.op_stack_pointer
          /\ \A k \in 1 .. NumRegisters : v.st[k] = t.next.st[k]
    <2>1. \A x : x.is_padding /\ TransitionConstraints(x) =>
              /\ x.next.clk = Plus(x.cur.clk, 1)
              /\ x.next.ip = x.cur.ip /\ x.next.ci = x.cur.ci /\ x.next.nia = x.cur.nia
              /\ x.next.jsp = x.cur.jsp /\ x.next.jso = x.cur.jso /\ x.next.jsd = x.cur.jsd
              /\ x.next.op_stack_pointer = x.cur.op_stack_pointer
              /\ \A k \in 1 .. NumRegisters : x.next.st[k] = x.cur.st[k]
        <3>1. \A k \in 1 .. NumRegisters : k \in 0 + 1 .. NumRegisters
            OBVIOUS
        <3> QED BY <3>1 DEF TransitionConstraints, PaddingConstraints, KeepJumpStack, KeepOpStack,
                            RemainsExceptTop
    <2> SUFFICES ASSUME NEW v, TransitionConstraints(With(t, v))
                 PROVE  /\ v.clk = t.next.clk /\ v.ip = t.next.ip /\ v.ci = t.next.ci
                        /\ v.nia = t.next.nia
                        /\ v.jsp = t.next.jsp /\ v.jso = t.next.jso /\ v.jsd = t.next.jsd
                        /\ v.op_stack_pointer = t.next.op_stack_pointer
                        /\ \A k \in 1 .. NumRegisters : v.st[k] = t.next.st[k]
        OBVIOUS
    <2>2. PICK u : u = With(t, v)
        OBVIOUS
    <2>3. u.cur = t.cur /\ u.next = v /\ u.is_padding /\ TransitionConstraints(u)
        BY <2>2 DEF With, Transition
    <2>4. TransitionConstraints(t)
        BY DEF Transition
    <2> QED BY <2>1, <2>3, <2>4
<1>3. \A x \in Int : Plus(x, 1) # x
    BY NextDiffers
<1>4. /\ t.next.clk \in Int /\ t.next.op_stack_pointer \in Int
      /\ t.next.ci \in Int /\ t.next.nia \in Int
      /\ t.next.ip \in Int /\ t.next.jsp \in Int /\ t.next.jso \in Int /\ t.next.jsd \in Int
    BY <1>1, FieldFacts DEF TypedRow, ControlTyped
<1>5. ASSUME NEW r \in {"clk", "ip", "jsp", "jso", "jsd", "op_stack_pointer", "ci", "nia"},
             NEW v, v = Raised(t.next, r), TransitionConstraints(With(t, v))
      PROVE  FALSE
    <2>1. /\ v.clk = t.next.clk /\ v.ip = t.next.ip /\ v.ci = t.next.ci /\ v.nia = t.next.nia
          /\ v.jsp = t.next.jsp /\ v.jso = t.next.jso /\ v.jsd = t.next.jsd
          /\ v.op_stack_pointer = t.next.op_stack_pointer
        BY <1>2, <1>5
    <2>2. /\ v.clk = IF r = "clk" THEN Plus(t.next.clk, 1) ELSE t.next.clk
          /\ v.ip = IF r = "ip" THEN Plus(t.next.ip, 1) ELSE t.next.ip
          /\ v.jsp = IF r = "jsp" THEN Plus(t.next.jsp, 1) ELSE t.next.jsp
          /\ v.jso = IF r = "jso" THEN Plus(t.next.jso, 1) ELSE t.next.jso
          /\ v.jsd = IF r = "jsd" THEN Plus(t.next.jsd, 1) ELSE t.next.jsd
          /\ v.ci = IF r = "ci" THEN Plus(t.next.ci, 1) ELSE t.next.ci
          /\ v.nia = IF r = "nia" THEN Plus(t.next.nia, 1) ELSE t.next.nia
          /\ v.op_stack_pointer = IF r = "op_stack_pointer" THEN Plus(t.next.op_stack_pointer, 1)
                                  ELSE t.next.op_stack_pointer
        <3>1. PICK row : row = t.next
            OBVIOUS
        <3>2. /\ TypedRow(row) /\ v = Raised(row, r)
              /\ r \in {"clk", "ip", "jsp", "jso", "jsd", "op_stack_pointer", "ci", "nia"}
            BY <1>1, <1>5, <3>1
        <3>3. /\ v.clk = IF r = "clk" THEN Plus(row.clk, 1) ELSE row.clk
              /\ v.ip = IF r = "ip" THEN Plus(row.ip, 1) ELSE row.ip
              /\ v.jsp = IF r = "jsp" THEN Plus(row.jsp, 1) ELSE row.jsp
              /\ v.jso = IF r = "jso" THEN Plus(row.jso, 1) ELSE row.jso
              /\ v.jsd = IF r = "jsd" THEN Plus(row.jsd, 1) ELSE row.jsd
              /\ v.ci = IF r = "ci" THEN Plus(row.ci, 1) ELSE row.ci
              /\ v.nia = IF r = "nia" THEN Plus(row.nia, 1) ELSE row.nia
              /\ v.op_stack_pointer = IF r = "op_stack_pointer" THEN Plus(row.op_stack_pointer, 1)
                                      ELSE row.op_stack_pointer
            BY ONLY <3>2, RaisedFacts
        <3> QED BY <3>1, <3>3
    <2> QED BY <1>3, <1>4, <1>5, <2>1, <2>2
<1>6. ASSUME NEW k \in 1 .. NumRegisters,
             NEW v, v = RaisedElement(t.next, k), TransitionConstraints(With(t, v))
      PROVE  FALSE
    <2>1. v.st[k] = t.next.st[k]
        BY <1>2, <1>6
    <2>3. v.st[k] # t.next.st[k]
        <3>1. PICK row : row = t.next
            OBVIOUS
        <3>2. TypedRow(row) /\ v = RaisedElement(row, k) /\ k \in 1 .. NumRegisters
            BY <1>1, <1>6, <3>1
        <3>3. v.st[k] # row.st[k]
            BY ONLY <3>2, RaisedElementFacts
        <3> QED BY <3>1, <3>3
    <2> QED BY <2>1, <2>3
<1> QED BY <1>5, <1>6
------------------------------------------------------------------------------
(* The rows the machine records. *)

\* The machine records typed rows as long as the jump stack is not too high.
LEMMA RecordedRow ==
    ASSUME VMTypeOK, Len(jump_stack) < P
    PROVE  TypedRow(ProcessorRow)
<1>1. PICK p \in Nat \ {0} : p = P /\ Field = 0 .. (p - 1)
    BY FieldFacts DEF Field
<1>2. cycle_count \in Int /\ instruction_pointer \in Nat
    BY InputAssumption DEF VMTypeOK
<1>3. ProcessorRow.clk \in Int /\ ProcessorRow.ip \in Field
    <2>1. cycle_count % P \in Field /\ instruction_pointer % P \in Field
        <3>1. \A a \in Int : a % P \in Field
            BY FieldFacts
        <3> QED BY ONLY <1>2, <3>1
    <2>2. ProcessorRow.clk = cycle_count % P /\ ProcessorRow.ip = instruction_pointer % P
        BY DEF ProcessorRow
    <2> QED BY <2>1, <2>2, FieldFacts
<1>4. ProcessorRow.jsp \in Field
    <2>1. PICK F, s : F = [origin : Field, destination : Field] /\ s = jump_stack
        OBVIOUS
    <2>2. s \in Seq(F)
        BY <2>1 DEF VMTypeOK
    <2>3. Len(s) \in Nat
        BY ONLY <2>2
    <2>4. Len(s) \in Field
        BY <1>1, <2>1, <2>3
    <2> QED BY <2>1, <2>4 DEF ProcessorRow
<1>5. ProcessorRow.jso \in Field /\ ProcessorRow.jsd \in Field
    BY JumpShapeFacts DEF JumpShape
<1>6. \A op \in DoubleWordOps \cup SingleWordOps : Opcode[op] \in Int
    <2>1. \A o \in 0 .. 127 : o \in Int
        OBVIOUS
    <2> QED BY <2>1, OpcodeFacts
<1>7. ProcessorRow.ci \in Int
    <2>1. "nop" \in DoubleWordOps \cup SingleWordOps
        BY DEF SingleWordOps
    <2>2. InBounds(instruction_pointer) =>
              CurrentInstruction.op \in DoubleWordOps \cup SingleWordOps
        BY <1>2, InstructionsAt DEF CurrentInstruction
    <2> QED BY <1>6, <2>1, <2>2 DEF ProcessorRow
<1>8. ProcessorRow.nia \in Int
    <2>1. ProcessorRow.nia = NextInstructionOrArgument
        BY DEF ProcessorRow
    <2>2. CASE ~InBounds(instruction_pointer)
        BY <2>1, <2>2 DEF NextInstructionOrArgument
    <2>3. CASE InBounds(instruction_pointer) /\ HasArg(CurrentInstruction)
        <3>1. Arg \in Int
            <4>1. CurrentInstruction.op \in NumWordsOps \cup RegisterOps \cup ElementOps
                BY <2>3 DEF HasArg, DoubleWordOps
            <4>2. \A a \in 1 .. MaxNumWords : a \in Int
                OBVIOUS
            <4>3. \A a \in Register : a \in Int
                BY DEF Register
            <4> QED BY <2>3, <4>1, <4>2, <4>3, InstructionTypes, FieldFacts
        <3> QED BY <2>1, <2>3, <3>1 DEF NextInstructionOrArgument
    <2>4. CASE InBounds(instruction_pointer) /\ ~HasArg(CurrentInstruction)
        <3>1. NextAddress \in Nat
            BY <2>4, InstructionTypes
        <3>2. InBounds(NextAddress) =>
                  InstructionAt(NextAddress).op \in DoubleWordOps \cup SingleWordOps
            BY <3>1, InstructionsAt
        <3>3. NextInstructionOrArgument =
                  IF InBounds(NextAddress) THEN Opcode[InstructionAt(NextAddress).op] ELSE 1
            BY <2>4 DEF NextInstructionOrArgument
        <3> QED BY <1>6, <2>1, <3>2, <3>3
    <2> QED BY <2>2, <2>3, <2>4
<1>9. /\ ProcessorRow.op_stack_pointer \in Int
      /\ ProcessorRow.st \in [1 .. NumRegisters -> Field]
    <2>1. /\ 0 \in Nat /\ NumRegisters \in Nat /\ 0 + NumRegisters <= Len(op_stack)
          /\ Len(op_stack) \in Nat
        BY DepthFacts
    <2>2. Tops(0, NumRegisters) \in [1 .. NumRegisters -> Field]
        BY <2>1, StackAccess
    <2> QED BY <2>1, <2>2 DEF ProcessorRow
<1>10. PICK row : row = ProcessorRow
    OBVIOUS
<1>11. row = [clk |-> row.clk, ip |-> row.ip, ci |-> row.ci, nia |-> row.nia,
              jsp |-> row.jsp, jso |-> row.jso, jsd |-> row.jsd,
              st |-> row.st, op_stack_pointer |-> row.op_stack_pointer, hv |-> row.hv]
    BY <1>10 DEF ProcessorRow
<1> QED BY <1>3, <1>4, <1>5, <1>7, <1>8, <1>9, <1>10, <1>11 DEF TypedRow, ControlTyped

\* The machine divides by no zero.
LEMMA DivisorIsNotZero ==
    ASSUME Step, error' = NoError, CurrentInstruction.op = "div_mod"
    PROVE  St(1) # 0
<1> USE DEF Executes, OnStackOnly, Fails, NoError
<1>1. ~StackInstruction
    BY DEF StackInstruction, Pop, Push, Divine, Pick, Place, Dup, Swap
<1>2. ~ControlInstruction
    BY DEF ControlInstruction, Nop, Skiz, Call, Return, Recurse, RecurseOrReturn,
           AssertInstruction, Halt
<1>3. ~MemoryInstruction
    BY DEF MemoryInstruction, ReadMem, WriteMem
<1>4. ~HashInstruction
    BY DEF HashInstruction, Hash, SpongeInit, SpongeAbsorb, SpongeAbsorbMem,
           SpongeSqueeze, AssertVector
<1>5. ~FieldInstruction
    BY DEF FieldInstruction, Add, AddI, Mul, Invert, Eq
<1>6. CASE U32Instruction
    BY <1>6 DEF U32Instruction, Split, Lt, And, Xor, Log2Floor, Pow, DivMod, PopCount,
                WithU32Calls
<1>7. ~ExtensionInstruction
    BY DEF ExtensionInstruction, XxAdd, XxMul, XInvert, XbMul
<1>8. ~IoInstruction
    BY DEF IoInstruction, WriteIo, ReadIo
<1>9. ~ManyInOneInstruction
    BY DEF ManyInOneInstruction, MerkleStep, MerkleStepMem, XxDotStep, XbDotStep,
           MerkleStepTo, DotStep
<1>10. ~(InstructionPointerOverflow \/ TooShallow)
    BY DEF InstructionPointerOverflow, TooShallow
<1> QED
    BY <1>1, <1>2, <1>3, <1>4, <1>5, <1>6, <1>7, <1>8, <1>9, <1>10 DEF Step

\* A row that a step records can be pinned.
LEMMA RecordedRowIsPinnable ==
    ASSUME RowsInv, Step, error' = NoError
    PROVE  TypedRow(ProcessorRow) /\ \E op \in Mnemonics : Pinnable(ProcessorRow, op)
<1>1. VMTypeOK /\ StepCompletes /\ Succeeds /\ InBounds(instruction_pointer)
    BY SuccessfulStep DEF StepCompletes, Succeeds, RowsInv
<1>2. Len(jump_stack) < P
    <2>1. PICK F, s : F = [origin : Field, destination : Field] /\ s = jump_stack
        OBVIOUS
    <2>2. s \in Seq(F)
        BY <1>1, <2>1 DEF VMTypeOK
    <2>3. Len(s) \in Nat
        BY ONLY <2>2
    <2>4. PICK p \in Nat, c \in Nat, m \in Nat :
              p = P /\ c = cycle_count /\ m = MaxCycles /\ c <= m /\ m < p
        BY <1>1, FieldFacts, InputAssumption, LinkingAssumption DEF VMTypeOK
    <2>5. Len(jump_stack) <= cycle_count
        BY <1>1 DEF RowsInv
    <2> QED BY <2>1, <2>3, <2>4, <2>5
<1>3. PICK row, op : row = ProcessorRow /\ op = CurrentInstruction.op
    OBVIOUS
<1>4. /\ op \in Mnemonics /\ row.hv = DeriveHelperVariables
      /\ \A o \in Mnemonics : Is(row, o) <=> o = op
    BY <1>1, <1>3, InstructionRow
<1>5. /\ row.st[2] = St(1) /\ row.st[DigestLen + 1] = St(DigestLen)
      /\ row.st[DigestLen + 2] = St(DigestLen + 1)
      /\ St(DigestLen) \in Field /\ St(DigestLen + 1) \in Field
    <2>1. PICK r \in Nat, d \in Nat \ {0} : r = NumRegisters /\ d = DigestLen /\ d + 3 <= r
        BY RegisterAssumption, SizeAssumption
    <2>2. \A k \in 1 .. r : row.st[k] = St(k - 1)
        BY <1>1, <1>3, <2>1, RowFacts DEF RowShape
    <2>3. \A k \in 0 .. (r - 1) : St(k) \in Field
        BY <1>1, <2>1, DepthFacts
    <2>4. /\ 2 \in 1 .. r /\ d + 1 \in 1 .. r /\ d + 2 \in 1 .. r
          /\ d \in 0 .. (r - 1) /\ d + 1 \in 0 .. (r - 1)
          /\ 2 - 1 = 1 /\ (d + 1) - 1 = d /\ (d + 2) - 1 = d + 1
        BY <2>1
    <2> QED BY <2>1, <2>2, <2>3, <2>4
<1>6. op = "div_mod" => row.st[2] # 0
    BY <1>3, <1>5, DivisorIsNotZero
<1>7. ASSUME op = "recurse_or_return" PROVE HelperDecides(row)
    <2>1. PICK difference \in Field : difference = Minus(St(DigestLen + 1), St(DigestLen))
        BY <1>5, FieldDifference
    <2>2. row.hv = Helpers(<<InverseOrZero(difference)>>)
        BY <1>1, <1>3, <1>4, <1>7, <2>1 DEF DeriveHelperVariables, NumWordsOps, RegisterOps
    <2>3. row.hv[1] = InverseOrZero(difference)
        BY <2>2, SingleHelper
    <2>4. /\ row.hv[1] \in Int
          /\ row.hv[1] = 0 \/ Times(row.hv[1], difference) = 1
        BY <2>1, <2>3, InverseFacts, FieldFacts
    <2> QED BY <1>5, <2>1, <2>4 DEF HelperDecides
<1>8. Pinnable(row, op)
    BY <1>4, <1>6, <1>7 DEF Pinnable
<1>9. TypedRow(ProcessorRow)
    BY <1>1, <1>2, RecordedRow
<1>10. \E o \in Mnemonics : Pinnable(ProcessorRow, o)
    BY <1>3, <1>4, <1>8
<1> QED BY <1>9, <1>10

(***************************************************************************)
(* The row recorded last is one whose constraints pin the next row.  The   *)
(* constraints alone would not say so: that a divisor is not zero, for     *)
(* instance, is up to the machine.                                         *)
(***************************************************************************)
PinInv ==
    /\ RowsInv
    /\ Succeeds /\ processor_trace # <<>> =>
           /\ TypedRow(processor_trace[Len(processor_trace)])
           /\ \E op \in Mnemonics : Pinnable(processor_trace[Len(processor_trace)], op)

\* A step that succeeds records such a row.
LEMMA StepRecordsPinnableRow ==
    ASSUME PinInv, VMTypeOK', TraceNext, error' = NoError
    PROVE  PinInv'
<1>1. RowsInv /\ Succeeds /\ Step
    BY SuccessfulStep DEF PinInv, TraceNext, StepCompletes, Succeeds
<1>2. RowsInv'
    BY <1>1, RowsOfStepSatisfyAir
<1>3. PICK trace, row : trace = processor_trace /\ row = ProcessorRow
    OBVIOUS
<1>4. processor_trace' = Append(trace, row) /\ IsSequence(trace)
    <2>1. IsSequence(processor_trace)
        BY <1>1 DEF RowsInv
    <2>2. StepCompletes /\ InBounds(instruction_pointer)
        BY <1>1, SuccessfulStep DEF StepCompletes
    <2>3. processor_trace' = Append(processor_trace, ProcessorRow)
        BY <1>1, <2>2 DEF TraceNext, RecordState
    <2> QED BY <1>3, <2>1, <2>3
<1>5. PICK rows : rows = Append(trace, row)
    OBVIOUS
<1>6. rows[Len(rows)] = row
    <2>1. Len(rows) = Len(trace) + 1 /\ rows[Len(trace) + 1] = row
        BY ONLY <1>4, <1>5, AppendedSequence
    <2> QED BY <2>1
<1>7. processor_trace'[Len(processor_trace')] = row
    BY <1>4, <1>5, <1>6
<1>8. TypedRow(row) /\ \E op \in Mnemonics : Pinnable(row, op)
    BY <1>1, <1>3, RecordedRowIsPinnable
<1>9. /\ TypedRow(processor_trace[Len(processor_trace)])'
      /\ (\E op \in Mnemonics : Pinnable(processor_trace[Len(processor_trace)], op))'
    BY <1>7, <1>8 DEF TypedRow, ControlTyped, Pinnable, HelperDecides, Is
<1> QED BY <1>2, <1>9 DEF PinInv

\* The row recorded last and the one behind it are typed, and the first can be pinned.
LEMMA NewestRows ==
    ASSUME PinInv, Succeeds, processor_trace # <<>>,
           NEW t, t = NewestTransition
    PROVE  /\ Transition(t) /\ t.is_padding = halting
           /\ t.cur = processor_trace[Len(processor_trace)]
           /\ \E op \in Mnemonics : Pinnable(t.cur, op)
<1>1. PICK row : row = processor_trace[Len(processor_trace)]
    OBVIOUS
<1>2. PICK op \in Mnemonics : TypedRow(row) /\ Pinnable(row, op)
    BY <1>1 DEF PinInv
<1>3. VMTypeOK /\ TransitionConstraints(t) /\ Len(jump_stack) <= cycle_count
    BY <1>1 DEF PinInv, RowsInv, ProcessorRowsSatisfyAir
<1>4. t = [cur |-> row,
           next |-> IF halting THEN Raised(row, "clk") ELSE ProcessorRow,
           is_padding |-> halting]
    BY <1>1 DEF NewestTransition, Raised
<1>5. TypedRow(ProcessorRow)
    <2>1. PICK F, s : F = [origin : Field, destination : Field] /\ s = jump_stack
        OBVIOUS
    <2>2. s \in Seq(F)
        BY <1>3, <2>1 DEF VMTypeOK
    <2>3. Len(s) \in Nat
        BY ONLY <2>2
    <2>4. PICK p \in Nat, c \in Nat, m \in Nat :
              p = P /\ c = cycle_count /\ m = MaxCycles /\ c <= m /\ m < p
        BY <1>3, FieldFacts, InputAssumption, LinkingAssumption DEF VMTypeOK
    <2>5. Len(jump_stack) < P
        BY <1>3, <2>1, <2>3, <2>4
    <2> QED BY <1>3, <2>5, RecordedRow
<1>6. TypedRow(Raised(row, "clk"))
    <2>1. PICK v : v = Raised(row, "clk")
        OBVIOUS
    <2>2. row.clk \in Int
        BY <1>2 DEF TypedRow
    <2>3. Plus(row.clk, 1) \in Int
        BY <2>2, NextDiffers, FieldFacts
    <2>4. v = [clk |-> Plus(row.clk, 1), ip |-> row.ip, ci |-> row.ci, nia |-> row.nia,
               jsp |-> row.jsp, jso |-> row.jso, jsd |-> row.jsd,
               st |-> row.st, op_stack_pointer |-> row.op_stack_pointer, hv |-> row.hv]
        BY <1>2, <2>1 DEF TypedRow, Raised
    <2>5. v = [clk |-> v.clk, ip |-> v.ip, ci |-> v.ci, nia |-> v.nia,
               jsp |-> v.jsp, jso |-> v.jso, jsd |-> v.jsd,
               st |-> v.st, op_stack_pointer |-> v.op_stack_pointer, hv |-> v.hv]
        BY <2>4
    <2> QED BY <1>2, <2>1, <2>3, <2>4, <2>5 DEF TypedRow, ControlTyped
<1>7. Transition(t) /\ t.is_padding = halting /\ Pinnable(t.cur, op)
    <2>1. halting \in BOOLEAN
        BY <1>3 DEF VMTypeOK
    <2>2. t = [cur |-> t.cur, next |-> t.next, is_padding |-> t.is_padding]
        BY <1>4
    <2>3. TypedRow(t.next)
        BY <1>4, <1>5, <1>6
    <2>4. t.cur = row /\ t.is_padding = halting
        BY <1>4
    <2> QED BY <1>2, <1>3, <2>1, <2>2, <2>3, <2>4 DEF Transition
<1> QED BY <1>1, <1>4, <1>7

\* With the rows recorded so far, the constraints leave nothing open.
LEMMA NewestRegistersArePinned ==
    ASSUME PinInv
    PROVE  ConstraintsPinRegisters
<1> SUFFICES ASSUME Succeeds, processor_trace # <<>> PROVE ConstraintsPinRegisters
    BY DEF ConstraintsPinRegisters
<1>1. PICK t : t = NewestTransition
    OBVIOUS
<1>2. PICK op \in Mnemonics : Transition(t) /\ Pinnable(t.cur, op)
    BY <1>1, NewestRows
<1> DEFINE registers == {"clk", "ip", "jsp", "jso", "jsd", "op_stack_pointer"}
<1>3. CASE t.is_padding
    <2>1. /\ \A r \in registers \cup {"ci", "nia"} :
                 ~TransitionConstraints(With(t, Raised(t.next, r)))
          /\ \A k \in 1 .. NumRegisters :
                 ~TransitionConstraints(With(t, RaisedElement(t.next, k)))
        BY <1>2, <1>3, PaddingPinned
    <2> QED BY <1>1, <1>3, <2>1 DEF ConstraintsPinRegisters, With, Raised, RaisedElement
<1>4. CASE ~t.is_padding
    <2>1. /\ \A r \in registers \ LinkedJumpRegisters(t) :
                 ~TransitionConstraints(With(t, Raised(t.next, r)))
          /\ \A k \in (1 .. NumRegisters) \ LinkedStackRegisters(t) :
                 ~TransitionConstraints(With(t, RaisedElement(t.next, k)))
        BY <1>2, <1>4, ControlRegisterPinned, StackRegisterPinned
    <2> QED BY <1>1, <1>4, <2>1 DEF ConstraintsPinRegisters, With, Raised, RaisedElement
<1> QED BY <1>3, <1>4

\* The invariant holds before the first step.
LEMMA InitialPinInv == TraceInit => PinInv
<1> SUFFICES ASSUME TraceInit PROVE PinInv
    OBVIOUS
<1>1. processor_trace = <<>>
    BY DEF TraceInit
<1>2. RowsInv
    BY InitialRowsInv
<1> QED BY <1>1, <1>2 DEF PinInv

\* Every step keeps it.
LEMMA PinInvIsInductive == PinInv /\ [TraceNext]_traceVars => PinInv'
<1> SUFFICES ASSUME PinInv, [TraceNext]_traceVars PROVE PinInv'
    OBVIOUS
<1>1. CASE UNCHANGED traceVars
    <2>1. RowsInv'
        BY <1>1, RowsInvIsInductive DEF PinInv
    <2>2. processor_trace' = processor_trace /\ error' = error
        BY <1>1 DEF traceVars, vmVars, aet
    <2>3. PICK row : row = processor_trace[Len(processor_trace)]
        OBVIOUS
    <2>4. processor_trace'[Len(processor_trace')] = row
        BY <2>2, <2>3
    <2>5. /\ (TypedRow(processor_trace[Len(processor_trace)]))' <=> TypedRow(row)
          /\ (\E op \in Mnemonics : Pinnable(processor_trace[Len(processor_trace)], op))'
                 <=> \E op \in Mnemonics : Pinnable(row, op)
        BY <2>4 DEF TypedRow, ControlTyped, Pinnable, HelperDecides, Is
    <2> QED BY <2>1, <2>2, <2>3, <2>5 DEF PinInv, Succeeds
<1>2. CASE TraceNext
    <2>1. RowsInv' /\ VMTypeOK'
        BY <1>2, RowsInvIsInductive DEF PinInv, RowsInv
    <2>2. CASE error' = NoError
        BY <1>2, <2>1, <2>2, StepRecordsPinnableRow
    <2>3. CASE error' # NoError
        BY <2>1, <2>3 DEF PinInv, Succeeds
    <2> QED BY <2>2, <2>3
<1> QED BY <1>1, <1>2

(***************************************************************************)
(* The constraints of the processor table leave nothing open, for every    *)
(* program, every input and every size of the machine: a register of the   *)
(* next row that is one higher than the machine leaves it violates a       *)
(* constraint, unless the argument with another table answers for it.      *)
(***************************************************************************)
THEOREM RegistersArePinned == TraceSpec => []ConstraintsPinRegisters
<1>1. PinInv => ConstraintsPinRegisters
    BY NewestRegistersArePinned
<1> QED BY <1>1, InitialPinInv, PinInvIsInductive, PTL DEF TraceSpec
------------------------------------------------------------------------------
(* The auxiliary columns. *)

(***************************************************************************)
(* The row shows instruction `i`: its opcode, its argument in nia and,     *)
(* where the constraints look for it, in the helper variables.  Behind the *)
(* sibling of a merkle step is the lowest bit of the node index.           *)
(***************************************************************************)
ShowsInstruction(row, i) ==
    /\ i \in Instruction
    /\ row.ci = Opcode[i.op]
    /\ i.op \in DoubleWordOps => row.nia = i.arg
    /\ i.op \in NumWordsOps => IndicatedArg(row) = i.arg
    /\ i.op \in {"merkle_step", "merkle_step_mem"} =>
           row.hv[DigestLen + 1] = row.st[DigestLen + 1] % 2

\* Every mnemonic has an opcode, and nothing else has.
LEMMA OpcodesAreOfMnemonics == DOMAIN Opcode = Mnemonics
BY DEF Opcode, Mnemonics, DoubleWordOps, SingleWordOps, NumWordsOps, RegisterOps, ElementOps

\* The types of an instruction's parts.
LEMMA InstructionParts ==
    ASSUME NEW i \in Instruction
    PROVE  /\ i = [op |-> i.op, arg |-> i.arg]
           /\ i.op \in Mnemonics
           /\ i.op \in NumWordsOps => i.arg \in 1 .. MaxNumWords
           /\ i.op \in RegisterOps => i.arg \in Register
           /\ i.op \notin DoubleWordOps => i.arg = 0
           /\ i # NotAnInstruction
<1>1. /\ i.op \in NumWordsOps => i.op \notin RegisterOps /\ i.op \notin ElementOps
                                     /\ i.op \notin SingleWordOps
      /\ i.op \in RegisterOps => i.op \notin NumWordsOps /\ i.op \notin ElementOps
                                     /\ i.op \notin SingleWordOps
    BY DEF NumWordsOps, RegisterOps, ElementOps, SingleWordOps
<1>2. \/ i \in [op : NumWordsOps, arg : 1 .. MaxNumWords]
      \/ i \in [op : RegisterOps, arg : Register]
      \/ i \in [op : ElementOps, arg : Field]
      \/ i \in [op : SingleWordOps, arg : {0}]
    BY DEF Instruction
<1>3. i = [op |-> i.op, arg |-> i.arg]
    BY <1>2
<1>4. i.op \in Mnemonics
    BY <1>2 DEF Mnemonics, DoubleWordOps
<1>5. i # NotAnInstruction
    BY <1>4 DEF NotAnInstruction, Mnemonics, DoubleWordOps, SingleWordOps, NumWordsOps,
                RegisterOps, ElementOps
<1>6. /\ i.op \in NumWordsOps => i.arg \in 1 .. MaxNumWords
      /\ i.op \in RegisterOps => i.arg \in Register
    BY <1>1, <1>2
<1>7. i.op \notin DoubleWordOps => i.arg = 0
    BY <1>2 DEF DoubleWordOps
<1> QED BY <1>3, <1>4, <1>5, <1>6, <1>7

(***************************************************************************)
(* instruction_from_row finds the instruction the row shows.               *)
(***************************************************************************)
LEMMA FoundInRow ==
    ASSUME NEW row, NEW i, ShowsInstruction(row, i)
    PROVE  /\ InstructionFromRow(row) = i
           /\ i # NotAnInstruction
           /\ i.op \in Mnemonics
           /\ \A o \in Mnemonics : Is(row, o) <=> o = i.op
           /\ \A ops \in SUBSET Mnemonics : IsAnyOf(row, ops) <=> i.op \in ops
<1>1. PICK op, arg : op = i.op /\ arg = i.arg
    OBVIOUS
<1>2. /\ i = [op |-> op, arg |-> arg] /\ op \in Mnemonics /\ i # NotAnInstruction
      /\ op \in NumWordsOps => arg \in 1 .. MaxNumWords
      /\ op \in RegisterOps => arg \in Register
      /\ op \notin DoubleWordOps => arg = 0
    <2>1. i \in Instruction
        BY DEF ShowsInstruction
    <2>2. /\ i = [op |-> i.op, arg |-> i.arg] /\ i.op \in Mnemonics /\ i # NotAnInstruction
          /\ i.op \in NumWordsOps => i.arg \in 1 .. MaxNumWords
          /\ i.op \in RegisterOps => i.arg \in Register
          /\ i.op \notin DoubleWordOps => i.arg = 0
        BY ONLY <2>1, InstructionParts
    <2> QED BY <1>1, <2>2
<1>3. row.ci = Opcode[op] /\ (op \in DoubleWordOps => row.nia = arg)
    BY <1>1 DEF ShowsInstruction
<1>4. \A o \in Mnemonics : Is(row, o) <=> o = op
    BY <1>2, <1>3, OpcodesDiffer DEF Is
<1>5. (CHOOSE o \in DOMAIN Opcode : Opcode[o] = row.ci) = op
    <2>1. \A o \in DOMAIN Opcode : Opcode[o] = row.ci <=> o = op
        BY <1>4, OpcodesAreOfMnemonics DEF Is
    <2>2. op \in DOMAIN Opcode
        BY <1>2, OpcodesAreOfMnemonics
    <2> HIDE DEF Opcode
    <2> QED BY <2>1, <2>2
<1>6. InstructionFromRow(row) = i
    <2>1. /\ op \in NumWordsOps => row.nia \in 1 .. MaxNumWords
          /\ op \in RegisterOps => row.nia \in Register
        BY <1>2, <1>3 DEF DoubleWordOps
    <2> QED BY <1>2, <1>3, <1>5, <2>1 DEF InstructionFromRow
<1>7. \A ops \in SUBSET Mnemonics : IsAnyOf(row, ops) <=> op \in ops
    BY <1>4 DEF IsAnyOf
<1> QED BY <1>1, <1>2, <1>4, <1>6, <1>7

(***************************************************************************)
(* Two rows of which the first shows the instruction `i`.                  *)
(***************************************************************************)
Extends(t, i) ==
    /\ ShowsInstruction(t.cur, i)
    /\ t.is_padding => i.op = "halt"
    /\ t.cur.st \in [1 .. NumRegisters -> Field]
    /\ t.next.st \in [1 .. NumRegisters -> Field]

\* Input and output.
LEMMA ExtendedIo ==
    ASSUME NEW t, NEW i, Extends(t, i)
    PROVE  ExtendInput(t) = InputSymbols(t) /\ ExtendOutput(t) = OutputSymbols(t)
<1>1. /\ InstructionFromRow(t.cur) = i
      /\ \A o \in Mnemonics : Is(t.cur, o) <=> o = i.op
    BY FoundInRow DEF Extends
<1>2. {"read_io", "write_io"} \subseteq NumWordsOps /\ NumWordsOps \subseteq Mnemonics
    BY DEF Mnemonics, DoubleWordOps, NumWordsOps
<1>3. i.op \in NumWordsOps => IndicatedArg(t.cur) = i.arg
    BY DEF Extends, ShowsInstruction
<1>4. CASE i.op = "read_io"
    BY <1>1, <1>2, <1>3, <1>4 DEF ExtendInput, ExtendOutput, InputSymbols, OutputSymbols
<1>5. CASE i.op = "write_io"
    BY <1>1, <1>2, <1>3, <1>5 DEF ExtendInput, ExtendOutput, InputSymbols, OutputSymbols
<1>6. CASE i.op \notin {"read_io", "write_io"}
    BY <1>1, <1>2, <1>6 DEF ExtendInput, ExtendOutput, InputSymbols, OutputSymbols
<1> QED BY <1>4, <1>5, <1>6

\* The preimages and digests of hash and the merkle steps.
LEMMA ExtendedHash ==
    ASSUME NEW t, NEW i, Extends(t, i)
    PROVE  /\ ExtendHashInput(t.cur) = HashInputs(t.cur)
           /\ ExtendHashDigest(t) = HashDigests(t)
<1> DEFINE Steps == {"merkle_step", "merkle_step_mem"}
           Hashes == {"hash", "merkle_step", "merkle_step_mem"}
<1>1. PICK row : row = t.cur
    OBVIOUS
<1>2. /\ InstructionFromRow(row) = i
      /\ \A o \in Mnemonics : Is(row, o) <=> o = i.op
      /\ \A ops \in SUBSET Mnemonics : IsAnyOf(row, ops) <=> i.op \in ops
    BY <1>1, FoundInRow DEF Extends
<1>3. Steps \in SUBSET Mnemonics /\ Hashes \in SUBSET Mnemonics /\ "hash" \in Mnemonics
    BY DEF Mnemonics, SingleWordOps
<1>4. /\ Is(row, "hash") <=> i.op = "hash"
      /\ IsAnyOf(row, Steps) <=> i.op \in Steps
      /\ IsAnyOf(row, Hashes) <=> i.op \in Hashes
    BY <1>2, <1>3
<1>5. ExtendHashDigest(t) = HashDigests(t)
    BY <1>1, <1>2, <1>4 DEF ExtendHashDigest, HashDigests
<1>6. i.op \in Steps =>
          (row.hv[DigestLen + 1] = 1 <=> ~(row.st[DigestLen + 1] % 2 = 0))
    <2>1. PICK x \in Int : x = row.st[DigestLen + 1]
        <3>1. DigestLen + 1 \in 1 .. NumRegisters
            BY SizeAssumption, RegisterAssumption
        <3> QED BY <1>1, <3>1, FieldFacts DEF Extends
    <2>2. x % 2 \in {0, 1}
        BY <2>1
    <2> QED BY <1>1, <2>1, <2>2 DEF Extends, ShowsInstruction
<1>7. ExtendHashInput(row) = HashInputs(row)
    <2>1. CASE i.op = "hash"
        BY <1>2, <1>4, <2>1 DEF ExtendHashInput, HashInputs
    <2>2. CASE i.op \in Steps /\ row.st[DigestLen + 1] % 2 = 0
        BY <1>2, <1>4, <1>6, <2>2 DEF ExtendHashInput, HashInputs
    <2>3. CASE i.op \in Steps /\ ~(row.st[DigestLen + 1] % 2 = 0)
        BY <1>2, <1>4, <1>6, <2>3 DEF ExtendHashInput, HashInputs
    <2>4. CASE i.op \notin Hashes
        BY <1>2, <1>4, <2>4 DEF ExtendHashInput, HashInputs
    <2> QED BY <2>1, <2>2, <2>3, <2>4
<1> QED BY <1>1, <1>5, <1>7

\* What an instruction that absorbs from RAM finds on the stack.
LEMMA AbsorbedFromStack ==
    ASSUME NEW st \in [1 .. NumRegisters -> Field]
    PROVE  SubSeq(st, 2, Rate - NumHelpers + 1) = [k \in 1 .. Rate - NumHelpers |-> st[k + 1]]
<1>1. PICK n \in Nat, r \in Nat : n = Rate - NumHelpers /\ r = NumRegisters /\ n + 1 <= r
    <2>1. PICK q \in Nat, h \in Nat, r \in Nat :
              q = Rate /\ h = NumHelpers /\ r = NumRegisters /\ h <= q /\ q <= r /\ h >= 1
        BY SizeAssumption, RegisterAssumption, LinkingAssumption DEF Rate
    <2> QED BY <2>1
<1>2. IsSequence(st) /\ Len(st) = r
    <2>1. st = [k \in 1 .. r |-> st[k]]
        BY <1>1
    <2> QED BY <1>1, <2>1, IndexedSequence
<1>3. PICK u : u = SubSeq(st, 2, n + 1)
    OBVIOUS
<1>4. IsSequence(u) /\ Len(u) = n /\ \A k \in 1 .. n : u[k] = st[k + 1]
    <2>1. IsSequence(st) /\ 2 \in 1 .. (Len(st) + 1) /\ n + 1 \in (2 - 1) .. Len(st)
        BY <1>1, <1>2
    <2>2. PICK m \in Int : m = n + 1 /\ m \in (2 - 1) .. Len(st)
        BY <2>1
    <2>3. /\ IsSequence(SubSeq(st, 2, m)) /\ Len(SubSeq(st, 2, m)) = m - 2 + 1
          /\ \A k \in 1 .. (m - 2 + 1) : SubSeq(st, 2, m)[k] = st[2 + k - 1]
        BY ONLY <2>1, <2>2, SubSequence
    <2>4. m - 2 + 1 = n /\ \A k \in 1 .. n : 2 + k - 1 = k + 1
        BY <2>2
    <2> QED BY <1>3, <2>2, <2>3, <2>4
<1>5. u = [k \in 1 .. n |-> u[k]]
    BY <1>4 DEF IsSequence
<1>6. u = [k \in 1 .. n |-> st[k + 1]]
    BY <1>4, <1>5
<1> QED BY <1>1, <1>3, <1>6

\* The rows of the sponge argument.
LEMMA ExtendedSponge ==
    ASSUME NEW t, NEW i, Extends(t, i)
    PROVE  ExtendSponge(t) = SpongeRows(t)
<1> DEFINE Sponges == {"sponge_init", "sponge_absorb", "sponge_absorb_mem", "sponge_squeeze"}
<1>1. /\ InstructionFromRow(t.cur) = i
      /\ \A o \in Mnemonics : Is(t.cur, o) <=> o = i.op
    BY FoundInRow DEF Extends
<1>2. Sponges \subseteq Mnemonics
    BY DEF Mnemonics, SingleWordOps
<1>3. \A o \in Sponges : Is(t.cur, o) <=> o = i.op
    BY <1>1, <1>2
<1>4. SubSeq(t.next.st, 2, Rate - NumHelpers + 1)
          = [k \in 1 .. Rate - NumHelpers |-> t.next.st[k + 1]]
    BY AbsorbedFromStack DEF Extends
<1>5. CASE i.op = "sponge_init"
    BY <1>1, <1>3, <1>5 DEF ExtendSponge, SpongeRows
<1>6. CASE i.op = "sponge_absorb"
    BY <1>1, <1>3, <1>6 DEF ExtendSponge, SpongeRows
<1>7. CASE i.op = "sponge_absorb_mem"
    BY <1>1, <1>3, <1>4, <1>7 DEF ExtendSponge, SpongeRows
<1>8. CASE i.op = "sponge_squeeze"
    BY <1>1, <1>3, <1>8 DEF ExtendSponge, SpongeRows
<1>9. CASE i.op \notin Sponges
    BY <1>1, <1>3, <1>9 DEF ExtendSponge, SpongeRows
<1> QED BY <1>5, <1>6, <1>7, <1>8, <1>9

\* The instructions that look something up in the u32 table.
U32Ops == {"split", "lt", "and", "xor", "log_2_floor", "pow", "div_mod", "pop_count",
           "merkle_step", "merkle_step_mem"}

(***************************************************************************)
(* U32 look-ups: as many inverses are taken as were collected, and what    *)
(* they are the inverses of is what the constraints look up.               *)
(***************************************************************************)
LEMMA ExtendedU32 ==
    ASSUME NEW t, NEW i, Extends(t, i)
    PROVE  ToInvert(t) = U32Rows(t) /\ InversesTaken(t) = Len(ToInvert(t))
<1>1. PICK op : op = i.op
    OBVIOUS
<1>2. /\ InstructionFromRow(t.cur).op = op
      /\ \A o \in Mnemonics : Is(t.cur, o) <=> o = op
    BY <1>1, FoundInRow DEF Extends
<1>3. \A o \in U32Ops : Is(t.cur, o) <=> o = op
    <2>1. U32Ops \subseteq Mnemonics
        BY DEF U32Ops, Mnemonics, SingleWordOps
    <2> QED BY <1>2, <2>1
<1>4. Times(Minus(Plus(t.cur.st[1], t.cur.st[2]), t.next.st[1]), InverseOf(2))
          = Times(InverseOf(2), Minus(Plus(t.cur.st[1], t.cur.st[2]), t.next.st[1]))
    <2>1. PICK a \in Int : a = Minus(Plus(t.cur.st[1], t.cur.st[2]), t.next.st[1])
        <3>1. 1 \in 1 .. NumRegisters /\ 2 \in 1 .. NumRegisters
            BY SizeAssumption, RegisterAssumption
        <3>2. PICK x \in Int, y \in Int, z \in Int :
                  x = t.cur.st[1] /\ y = t.cur.st[2] /\ z = t.next.st[1]
            BY <3>1, FieldFacts DEF Extends
        <3>3. \A v \in Int : v % P \in Int
            BY FieldFacts
        <3>4. PICK w \in Int : w = Plus(x, y)
            BY <3>3 DEF Plus
        <3>5. Minus(w, z) \in Int
            BY <3>3 DEF Minus
        <3> QED BY <3>2, <3>4, <3>5
    <2>2. PICK b \in Int : b = InverseOf(2)
        BY SmallFactors, ExternalRanges, FieldFacts DEF ArithmeticRanges
    <2>3. a * b = b * a
        OBVIOUS
    <2> QED BY <2>1, <2>2, <2>3 DEF Times
<1> DEFINE cur == t.cur.st
           next == t.next.st
           Steps == {"merkle_step", "merkle_step_mem"}
<1>5. U32Rows(t) =
          CASE op = "split" -> <<U32Row("split", next[1], next[2], 0)>>
            [] op = "lt" -> <<U32Row("lt", cur[1], cur[2], next[1])>>
            [] op = "and" -> <<U32Row("and", cur[1], cur[2], next[1])>>
            [] op = "pow" -> <<U32Row("pow", cur[1], cur[2], next[1])>>
            [] op = "xor" ->
                   <<U32Row("and", cur[1], cur[2],
                            Times(InverseOf(2), Minus(Plus(cur[1], cur[2]), next[1])))>>
            [] op = "log_2_floor" -> <<U32Row("log_2_floor", cur[1], 0, next[1])>>
            [] op = "pop_count" -> <<U32Row("pop_count", cur[1], 0, next[1])>>
            [] op = "div_mod" ->
                   <<U32Row("lt", next[1], cur[2], 1), U32Row("split", cur[1], next[2], 0)>>
            [] op \in Steps ->
                   <<U32Row("split", cur[DigestLen + 1], next[DigestLen + 1], 0)>>
            [] OTHER -> <<>>
    <2>1. IsAnyOf(t.cur, {"merkle_step", "merkle_step_mem"}) <=> op \in Steps
        BY <1>3 DEF IsAnyOf, U32Ops
    <2> QED BY <1>3, <2>1 DEF U32Rows, U32Ops
<1>6. CASE op = "split"
    <2>1. ToInvert(t) = <<U32Row("split", next[1], next[2], 0)>>
        BY <1>2, <1>6 DEF ToInvert
    <2>2. InversesTaken(t) = 1
        BY <1>2, <1>6 DEF InversesTaken, IsU32Instruction
    <2> QED BY <1>5, <1>6, <2>1, <2>2
<1>7. CASE op = "lt"
    <2>1. ToInvert(t) = <<U32Row("lt", cur[1], cur[2], next[1])>>
        BY <1>2, <1>7 DEF ToInvert
    <2>2. InversesTaken(t) = 1
        BY <1>2, <1>7 DEF InversesTaken, IsU32Instruction
    <2> QED BY <1>5, <1>7, <2>1, <2>2
<1>8. CASE op = "and"
    <2>1. ToInvert(t) = <<U32Row("and", cur[1], cur[2], next[1])>>
        BY <1>2, <1>8 DEF ToInvert
    <2>2. InversesTaken(t) = 1
        BY <1>2, <1>8 DEF InversesTaken, IsU32Instruction
    <2> QED BY <1>5, <1>8, <2>1, <2>2
<1>9. CASE op = "pow"
    <2>1. ToInvert(t) = <<U32Row("pow", cur[1], cur[2], next[1])>>
        BY <1>2, <1>9 DEF ToInvert
    <2>2. InversesTaken(t) = 1
        BY <1>2, <1>9 DEF InversesTaken, IsU32Instruction
    <2> QED BY <1>5, <1>9, <2>1, <2>2
<1>10. CASE op = "xor"
    <2>1. ToInvert(t) = <<U32Row("and", cur[1], cur[2],
                                 Times(Minus(Plus(cur[1], cur[2]), next[1]), InverseOf(2)))>>
        BY <1>2, <1>10 DEF ToInvert
    <2>2. InversesTaken(t) = 1
        BY <1>2, <1>10 DEF InversesTaken, IsU32Instruction
    <2> QED BY <1>4, <1>5, <1>10, <2>1, <2>2
<1>11. CASE op = "log_2_floor"
    <2>1. ToInvert(t) = <<U32Row("log_2_floor", cur[1], 0, next[1])>>
        BY <1>2, <1>11 DEF ToInvert
    <2>2. InversesTaken(t) = 1
        BY <1>2, <1>11 DEF InversesTaken, IsU32Instruction
    <2> QED BY <1>5, <1>11, <2>1, <2>2
<1>12. CASE op = "pop_count"
    <2>1. ToInvert(t) = <<U32Row("pop_count", cur[1], 0, next[1])>>
        BY <1>2, <1>12 DEF ToInvert
    <2>2. InversesTaken(t) = 1
        BY <1>2, <1>12 DEF InversesTaken, IsU32Instruction
    <2> QED BY <1>5, <1>12, <2>1, <2>2
<1>13. CASE op = "div_mod"
    <2>1. ToInvert(t) = <<U32Row("lt", next[1], cur[2], 1), U32Row("split", cur[1], next[2], 0)>>
        BY <1>2, <1>13 DEF ToInvert
    <2>2. InversesTaken(t) = 2
        BY <1>2, <1>13 DEF InversesTaken, IsU32Instruction
    <2> QED BY <1>5, <1>13, <2>1, <2>2
<1>14. CASE op \in Steps
    <2>1. ToInvert(t) = <<U32Row("split", cur[DigestLen + 1], next[DigestLen + 1], 0)>>
        BY <1>2, <1>14 DEF ToInvert
    <2>2. InversesTaken(t) = 1
        BY <1>2, <1>14 DEF InversesTaken, IsU32Instruction
    <2> QED BY <1>5, <1>14, <2>1, <2>2
<1>15. CASE op \notin U32Ops
    <2>1. ToInvert(t) = <<>>
        BY <1>2, <1>15 DEF ToInvert, U32Ops
    <2>2. InversesTaken(t) = 0
        BY <1>2, <1>15 DEF InversesTaken, IsU32Instruction, U32Ops
    <2>3. U32Rows(t) = <<>>
        BY <1>5, <1>15 DEF U32Ops
    <2> QED BY <2>1, <2>2, <2>3, EmptySequence
<1> QED BY <1>6, <1>7, <1>8, <1>9, <1>10, <1>11, <1>12, <1>13, <1>14, <1>15
    DEF U32Ops

(***************************************************************************)
(* How many elements move between the stack and the underflow memory, and  *)
(* in which direction.  The row's constraints list the instructions, the   *)
(* instruction set declares an influence.                                  *)
(***************************************************************************)
LEMMA MovedElements ==
    ASSUME NEW row, NEW i, ShowsInstruction(row, i)
    PROVE  \E g \in Nat, h \in Nat : /\ g = Growth(row) /\ h = Shrinkage(row)
                                     /\ g = 0 \/ h = 0
                                     /\ OpStackSizeInfluence(i) = g - h
<1>1. PICK op, arg : op = i.op /\ arg = i.arg
    OBVIOUS
<1>2. /\ op \in Mnemonics
      /\ \A o \in Mnemonics : Is(row, o) <=> o = op
      /\ \A ops \in SUBSET Mnemonics : IsAnyOf(row, ops) <=> op \in ops
    BY <1>1, FoundInRow
<1>3. op \in NumWordsOps => IndicatedArg(row) = arg /\ arg \in Nat
    <2>1. op \in NumWordsOps => IndicatedArg(row) = arg /\ i \in Instruction
        BY <1>1 DEF ShowsInstruction
    <2>2. op \in NumWordsOps => arg \in 1 .. MaxNumWords
        BY <1>1, <2>1, InstructionParts
    <2>3. \A a \in 1 .. MaxNumWords : a \in Nat
        BY RegisterAssumption
    <2> QED BY <2>1, <2>2, <2>3
<1>4. Rate \in Nat /\ DigestLen \in Nat /\ ExtensionDegree \in Nat
    BY SizeAssumption DEF Rate
<1> DEFINE One == {"push", "dup", "split"}
           Some == {"divine", "read_mem", "read_io"}
           MinusSome == {"pop", "write_mem", "write_io"}
           Digests == {"hash", "assert_vector"}
           Xs == {"xx_add", "xx_mul"}
<1>6. /\ One \in SUBSET Mnemonics /\ Some \in SUBSET Mnemonics
      /\ ShrinkByOne \in SUBSET Mnemonics /\ MinusSome \in SUBSET Mnemonics
      /\ Digests \in SUBSET Mnemonics /\ Xs \in SUBSET Mnemonics
      /\ "sponge_squeeze" \in Mnemonics /\ "sponge_absorb" \in Mnemonics
    BY DEF Mnemonics, DoubleWordOps, SingleWordOps, NumWordsOps, RegisterOps, ElementOps,
           ShrinkByOne
<1>7. Growth(row) = IF op \in One THEN 1
                    ELSE IF op \in Some THEN IndicatedArg(row)
                    ELSE IF op = "sponge_squeeze" THEN Rate ELSE 0
    BY <1>2, <1>6 DEF Growth
<1>8. Shrinkage(row) = IF op \in ShrinkByOne THEN 1
                       ELSE IF op \in MinusSome THEN IndicatedArg(row)
                       ELSE IF op \in Digests THEN DigestLen
                       ELSE IF op \in Xs THEN ExtensionDegree
                       ELSE IF op = "sponge_absorb" THEN Rate ELSE 0
    <2>1. Shrinkage(row) = IF IsAnyOf(row, ShrinkByOne) THEN 1
                       ELSE IF IsAnyOf(row, MinusSome) THEN IndicatedArg(row)
                       ELSE IF IsAnyOf(row, Digests) THEN DigestLen
                       ELSE IF IsAnyOf(row, Xs) THEN ExtensionDegree
                       ELSE IF Is(row, "sponge_absorb") THEN Rate ELSE 0
        BY DEF Shrinkage, ShrinkByOne
    <2> QED BY <1>2, <1>6, <2>1
<1>9. CASE op \in One
    <2>1. Growth(row) = 1 /\ Shrinkage(row) = 0
        BY <1>7, <1>8, <1>9 DEF ShrinkByOne
    <2>2. OpStackSizeInfluence(i) = 1
        BY <1>1, <1>9, Influences
    <2> QED BY <2>1, <2>2
<1>10. CASE op \in Some
    <2>1. Growth(row) = arg /\ Shrinkage(row) = 0 /\ arg \in Nat
        BY <1>3, <1>7, <1>8, <1>10 DEF ShrinkByOne, NumWordsOps
    <2>2. OpStackSizeInfluence(i) = arg
        BY <1>1, <1>10, Influences
    <2> QED BY <2>1, <2>2
<1>11. CASE op = "sponge_squeeze"
    <2>1. Growth(row) = Rate /\ Shrinkage(row) = 0
        BY <1>7, <1>8, <1>11 DEF ShrinkByOne
    <2>2. OpStackSizeInfluence(i) = Rate
        BY <1>1, <1>11, Influences
    <2> QED BY <1>4, <2>1, <2>2
<1>12. CASE op \in ShrinkByOne
    <2>1. Growth(row) = 0 /\ Shrinkage(row) = 1
        BY <1>7, <1>8, <1>12 DEF ShrinkByOne
    <2>2. OpStackSizeInfluence(i) = -1
        BY <1>1, <1>12, Influences
    <2> QED BY <2>1, <2>2
<1>13. CASE op \in MinusSome
    <2>1. Growth(row) = 0 /\ Shrinkage(row) = arg /\ arg \in Nat
        BY <1>3, <1>7, <1>8, <1>13 DEF ShrinkByOne, NumWordsOps
    <2>2. OpStackSizeInfluence(i) = -arg
        BY <1>1, <1>13, Influences
    <2> QED BY <2>1, <2>2
<1>14. CASE op \in Digests
    <2>1. Growth(row) = 0 /\ Shrinkage(row) = DigestLen
        BY <1>7, <1>8, <1>14 DEF ShrinkByOne
    <2>2. OpStackSizeInfluence(i) = -DigestLen
        BY <1>1, <1>14, Influences
    <2> QED BY <1>4, <2>1, <2>2
<1>15. CASE op \in Xs
    <2>1. Growth(row) = 0 /\ Shrinkage(row) = ExtensionDegree
        BY <1>7, <1>8, <1>15 DEF ShrinkByOne
    <2>2. OpStackSizeInfluence(i) = -ExtensionDegree
        BY <1>1, <1>15, Influences
    <2> QED BY <1>4, <2>1, <2>2
<1>16. CASE op = "sponge_absorb"
    <2>1. Growth(row) = 0 /\ Shrinkage(row) = Rate
        BY <1>7, <1>8, <1>16 DEF ShrinkByOne
    <2>2. OpStackSizeInfluence(i) = -Rate
        BY <1>1, <1>16, Influences
    <2> QED BY <1>4, <2>1, <2>2
<1>17. CASE op \notin One \cup Some \cup ShrinkByOne \cup MinusSome \cup Digests \cup Xs
                          \cup {"sponge_squeeze", "sponge_absorb"}
    <2>1. Growth(row) = 0 /\ Shrinkage(row) = 0
        BY <1>7, <1>8, <1>17
    <2>2. OpStackSizeInfluence(i) = 0
        BY <1>1, <1>17 DEF OpStackSizeInfluence
    <2> QED BY <2>1, <2>2
<1> QED BY <1>9, <1>10, <1>11, <1>12, <1>13, <1>14, <1>15, <1>16, <1>17

\* The larger of a number and its negative.
LEMMA Magnitude ==
    ASSUME NEW n \in Int
    PROVE  S!Max({n, -n}) = IF n >= 0 THEN n ELSE -n
<1>1. PICK m \in {n, -n} : m = IF n >= 0 THEN n ELSE -n
    OBVIOUS
<1>2. \A x \in {n, -n} : (\A y \in {n, -n} : x >= y) <=> x = m
    BY <1>1
<1>3. S!Max({n, -n}) = CHOOSE x \in {n, -n} : \A y \in {n, -n} : x >= y
    BY DEF S!Max
<1> QED BY <1>1, <1>2, <1>3

(***************************************************************************)
(* The factors of the op stack table's running product.                    *)
(***************************************************************************)
LEMMA ExtendedOpStack ==
    ASSUME NEW t, NEW i, Extends(t, i)
    PROVE  FactorForOpStack(t) = OpStackRows(t)
<1>1. InstructionFromRow(t.cur) = i /\ i # NotAnInstruction
    BY FoundInRow DEF Extends
<1>2. PICK g \in Nat, h \in Nat : /\ g = Growth(t.cur) /\ h = Shrinkage(t.cur)
                                  /\ g = 0 \/ h = 0
                                  /\ OpStackSizeInfluence(i) = g - h
    BY MovedElements DEF Extends
<1>3. PICK grown, shrunk : /\ grown = OpStackFactors(t, t.cur, g)
                           /\ shrunk = OpStackFactors(t, t.next, h)
    OBVIOUS
<1>4. /\ IsSequence(grown) /\ Len(grown) = g
      /\ IsSequence(shrunk) /\ Len(shrunk) = h
    BY <1>3, FactorFacts
<1>5. OpStackRows(t) = IF g > 0 THEN grown ELSE shrunk
    <2>1. OpStackRows(t) = grown \o shrunk
        BY <1>2, <1>3 DEF OpStackRows
    <2>2. /\ Len(grown) = 0 => grown \o shrunk = shrunk
          /\ Len(shrunk) = 0 => grown \o shrunk = grown
        BY ONLY <1>4, EmptyPrepended
    <2> QED BY <1>2, <1>4, <2>1, <2>2
<1>6. CASE t.is_padding
    <2>1. i.op = "halt"
        BY <1>6 DEF Extends
    <2>2. OpStackSizeInfluence(i) = 0
        BY <2>1, Influences
    <2>3. shrunk = <<>> /\ ~(g > 0)
        <3>1. g = 0 /\ h = 0
            BY <1>2, <2>2
        <3>2. PICK empty : empty = <<>>
            OBVIOUS
        <3>3. /\ IsSequence(shrunk) /\ IsSequence(empty) /\ Len(shrunk) = Len(empty)
              /\ \A k \in 1 .. Len(shrunk) : shrunk[k] = empty[k]
            BY <1>4, <3>1, <3>2, EmptySequence
        <3>4. shrunk = empty
            BY ONLY <3>3, SequencesEqual
        <3> QED BY <3>1, <3>2, <3>4
    <2>4. FactorForOpStack(t) = <<>>
        BY <1>6 DEF FactorForOpStack
    <2> QED BY <1>5, <2>3, <2>4
<1>7. CASE ~t.is_padding
    <2>1. PICK influence \in Int : influence = OpStackSizeInfluence(i) /\ influence = g - h
        BY <1>2
    <2>2. S!Max({influence, -influence}) = IF influence >= 0 THEN influence ELSE -influence
        BY Magnitude
    <2>3. CASE g > 0
        <3>1. S!Max({influence, -influence}) = g /\ influence > 0
            BY <1>2, <2>1, <2>2, <2>3
        <3>2. FactorForOpStack(t) = OpStackFactors(t, t.cur, g)
            BY <1>1, <1>7, <2>1, <3>1 DEF FactorForOpStack, OpStackFactors
        <3> QED BY <1>3, <1>5, <2>3, <3>2
    <2>4. CASE ~(g > 0)
        <3>1. S!Max({influence, -influence}) = h /\ ~(influence > 0)
            BY <1>2, <2>1, <2>2, <2>4
        <3>2. FactorForOpStack(t) = OpStackFactors(t, t.next, h)
            BY <1>1, <1>7, <2>1, <3>1 DEF FactorForOpStack, OpStackFactors
        <3> QED BY <1>3, <1>5, <2>4, <3>2
    <2> QED BY <2>3, <2>4
<1> QED BY <1>6, <1>7

(***************************************************************************)
(* The factors of the RAM table's running product.                         *)
(***************************************************************************)
LEMMA ExtendedRam ==
    ASSUME NEW t, NEW i, Extends(t, i)
    PROVE  FactorForRam(t) = RamRows(t)
<1>1. PICK op, arg : op = i.op /\ arg = i.arg
    OBVIOUS
<1>2. InstructionFromRow(t.cur) = i /\ \A o \in Mnemonics : Is(t.cur, o) <=> o = op
    BY <1>1, FoundInRow DEF Extends
<1>3. \A o \in RamOps : Is(t.cur, o) <=> o = op
    <2>1. RamOps \subseteq Mnemonics
        BY DEF RamOps, Mnemonics, DoubleWordOps, NumWordsOps, SingleWordOps
    <2> QED BY <1>2, <2>1
<1>4. op \in {"read_mem", "write_mem"} => IndicatedArg(t.cur) = arg /\ arg \in Nat
    <2>1. op \in {"read_mem", "write_mem"} => op \in NumWordsOps
        BY DEF NumWordsOps
    <2>2. op \in NumWordsOps => IndicatedArg(t.cur) = arg /\ i \in Instruction
        BY <1>1 DEF Extends, ShowsInstruction
    <2>3. op \in NumWordsOps => arg \in 1 .. MaxNumWords
        BY <1>1, <2>2, InstructionParts
    <2>4. \A a \in 1 .. MaxNumWords : a \in Nat
        BY RegisterAssumption
    <2> QED BY <2>1, <2>2, <2>3, <2>4
<1> DEFINE hv(from, count) == SubSeq(t.cur.hv, from, from + count - 1)
<1>5. RamRows(t) =
          CASE op = "read_mem" ->
                   [k \in 1 .. IndicatedArg(t.cur) |->
                       RamRow(t, t.next.st[1] + k, t.next.st[k + 1], FALSE)]
            [] op = "write_mem" ->
                   [k \in 1 .. IndicatedArg(t.cur) |->
                       RamRow(t, t.cur.st[1] + k - 1, t.cur.st[k + 1], TRUE)]
            [] op = "sponge_absorb_mem" ->
                   ReadFromRamTo(t, t.cur.st[1],
                       SubSeq(t.next.st, 2, Rate - NumHelpers + 1) \o hv(1, NumHelpers))
            [] op = "merkle_step_mem" ->
                   ReadFromRamTo(t, t.cur.st[DigestLen + 3], hv(1, DigestLen))
            [] op = "xx_dot_step" ->
                   ReadFromRamTo(t, t.cur.st[1], hv(1, ExtensionDegree))
                       \o ReadFromRamTo(t, t.cur.st[2], hv(ExtensionDegree + 1, ExtensionDegree))
            [] op = "xb_dot_step" ->
                   ReadFromRamTo(t, t.cur.st[1], hv(1, 1))
                       \o ReadFromRamTo(t, t.cur.st[2], hv(2, ExtensionDegree))
            [] OTHER -> <<>>
    BY <1>3 DEF RamRows, RamOps
<1>6. ~t.is_padding \/ op = "halt"
    BY <1>1 DEF Extends
<1>7. PICK n \in Nat, d \in Nat, e \in Nat : n = NumHelpers /\ d = DigestLen /\ e = ExtensionDegree
    BY SizeAssumption, RegisterAssumption DEF Rate
<1>8. CASE op = "read_mem"
    <2>1. PICK pointer \in Int : pointer = t.next.st[1]
        <3>1. 1 \in 1 .. NumRegisters
            BY SizeAssumption, RegisterAssumption
        <3> QED BY <3>1, FieldFacts DEF Extends
    <2>2. \A k \in 1 .. arg : pointer + (k - 1) + 1 = pointer + k
        BY <2>1
    <2>3. FactorForRam(t) = [k \in 1 .. arg |->
              RamRow(t, pointer + (k - 1) + 1, t.next.st[k + 1], FALSE)]
        BY <1>1, <1>2, <1>6, <1>8, <2>1 DEF FactorForRam, OffsetRamPointer
    <2>4. RamRows(t) = [k \in 1 .. arg |-> RamRow(t, pointer + k, t.next.st[k + 1], FALSE)]
        BY <1>4, <1>5, <1>8, <2>1
    <2> QED BY <2>2, <2>3, <2>4
<1>9. CASE op = "write_mem"
    <2>1. PICK pointer \in Int : pointer = t.cur.st[1]
        <3>1. 1 \in 1 .. NumRegisters
            BY SizeAssumption, RegisterAssumption
        <3> QED BY <3>1, FieldFacts DEF Extends
    <2>2. \A k \in 1 .. arg : pointer + (k - 1) = pointer + k - 1
        BY <2>1
    <2>3. FactorForRam(t) = [k \in 1 .. arg |->
              RamRow(t, pointer + (k - 1), t.cur.st[k + 1], TRUE)]
        BY <1>1, <1>2, <1>6, <1>9, <2>1 DEF FactorForRam, OffsetRamPointer
    <2>4. RamRows(t) = [k \in 1 .. arg |-> RamRow(t, pointer + k - 1, t.cur.st[k + 1], TRUE)]
        BY <1>4, <1>5, <1>9, <2>1
    <2> QED BY <2>2, <2>3, <2>4
<1> DEFINE reads(pointer, values) ==
               [k \in DOMAIN values |-> RamRow(t, pointer + k - 1, values[k], FALSE)]
<1>10. \A pointer, values : ReadFromRamTo(t, pointer, values) = reads(pointer, values)
    BY DEF ReadFromRamTo
<1> HIDE DEF reads
<1>11. CASE op = "sponge_absorb_mem"
    <2>1. SubSeq(t.next.st, 2, Rate - NumHelpers + 1)
              = [k \in 1 .. Rate - NumHelpers |-> t.next.st[k + 1]]
        BY AbsorbedFromStack DEF Extends
    <2>2. 1 + n - 1 = n
        OBVIOUS
    <2>3. FactorForRam(t) = reads(t.cur.st[1],
              [k \in 1 .. Rate - NumHelpers |-> t.next.st[k + 1]] \o SubSeq(t.cur.hv, 1, n))
        BY <1>1, <1>2, <1>6, <1>7, <1>11 DEF FactorForRam, reads
    <2>4. RamRows(t) = ReadFromRamTo(t, t.cur.st[1],
              SubSeq(t.next.st, 2, Rate - NumHelpers + 1) \o SubSeq(t.cur.hv, 1, n))
        BY <1>5, <1>7, <1>11, <2>2
    <2> QED BY <1>10, <2>1, <2>3, <2>4
<1>12. CASE op = "merkle_step_mem"
    <2>1. 1 + d - 1 = d
        OBVIOUS
    <2>2. FactorForRam(t) = reads(t.cur.st[DigestLen + 3], SubSeq(t.cur.hv, 1, d))
        BY <1>1, <1>2, <1>6, <1>7, <1>12 DEF FactorForRam, reads
    <2>3. RamRows(t) = ReadFromRamTo(t, t.cur.st[DigestLen + 3], SubSeq(t.cur.hv, 1, d))
        BY <1>5, <1>7, <1>12, <2>1
    <2> QED BY <1>10, <2>2, <2>3
<1>13. CASE op = "xx_dot_step"
    <2>1. 1 + e - 1 = e /\ (e + 1) + e - 1 = 2 * e
        OBVIOUS
    <2>2. FactorForRam(t) = reads(t.cur.st[1], SubSeq(t.cur.hv, 1, e))
                                \o reads(t.cur.st[2], SubSeq(t.cur.hv, e + 1, 2 * e))
        BY <1>1, <1>2, <1>6, <1>7, <1>13 DEF FactorForRam, reads
    <2>3. RamRows(t) = ReadFromRamTo(t, t.cur.st[1], SubSeq(t.cur.hv, 1, e))
                           \o ReadFromRamTo(t, t.cur.st[2], SubSeq(t.cur.hv, e + 1, 2 * e))
        BY <1>5, <1>7, <1>13, <2>1
    <2> QED BY <1>10, <2>2, <2>3
<1>14. CASE op = "xb_dot_step"
    <2>1. 1 + 1 - 1 = 1 /\ 2 + e - 1 = e + 1
        OBVIOUS
    <2>2. FactorForRam(t) = reads(t.cur.st[1], SubSeq(t.cur.hv, 1, 1))
                                \o reads(t.cur.st[2], SubSeq(t.cur.hv, 2, e + 1))
        BY <1>1, <1>2, <1>6, <1>7, <1>14 DEF FactorForRam, reads
    <2>3. RamRows(t) = ReadFromRamTo(t, t.cur.st[1], SubSeq(t.cur.hv, 1, 1))
                           \o ReadFromRamTo(t, t.cur.st[2], SubSeq(t.cur.hv, 2, e + 1))
        BY <1>5, <1>7, <1>14, <2>1
    <2> QED BY <1>10, <2>2, <2>3
<1>15. CASE op \notin RamOps
    <2>1. RamRows(t) = <<>>
        BY <1>5, <1>15 DEF RamOps
    <2>2. FactorForRam(t) = <<>>
        BY <1>1, <1>2, <1>15 DEF FactorForRam, RamOps
    <2> QED BY <2>1, <2>2
<1> QED BY <1>8, <1>9, <1>11, <1>12, <1>13, <1>14, <1>15 DEF RamOps
------------------------------------------------------------------------------
\* What a step records shows the instruction it executes.
LEMMA RecordedRowShows ==
    ASSUME VMTypeOK, InBounds(instruction_pointer)
    PROVE  ShowsInstruction(ProcessorRow, CurrentInstruction)
<1>1. PICK row, op : row = ProcessorRow /\ op = CurrentInstruction.op
    OBVIOUS
<1>2. row.ci = Opcode[op] /\ row.hv = DeriveHelperVariables
    BY <1>1, InstructionRow
<1>3. op \in DoubleWordOps => row.nia = CurrentInstruction.arg
    BY <1>1 DEF ProcessorRow, NextInstructionOrArgument, HasArg, Arg
<1>4. op \in NumWordsOps => IndicatedArg(row) = CurrentInstruction.arg
    BY <1>1, ArgumentIsIndicated DEF Arg
<1>5. ASSUME op \in {"merkle_step", "merkle_step_mem"}
      PROVE  row.hv[DigestLen + 1] = row.st[DigestLen + 1] % 2
    <2>1. PICK n \in Nat : n = DigestLen /\ n + 1 \in 1 .. NumRegisters /\ n + 1 \in 1 .. NumHelpers
        BY SizeAssumption, RegisterAssumption, LinkingAssumption DEF Rate
    <2>2. row.st[n + 1] = St(n)
        <3>1. \A k \in 1 .. NumRegisters : row.st[k] = St(k - 1)
            BY <1>1, RowFacts DEF RowShape
        <3>2. (n + 1) - 1 = n
            OBVIOUS
        <3> QED BY <2>1, <3>1, <3>2
    <2>3. PICK bit : bit = <<St(n) % 2>>
        OBVIOUS
    <2>4. IsSequence(bit) /\ Len(bit) = 1 /\ bit[1] = St(n) % 2
        BY <2>3 DEF IsSequence
    <2>5. PICK first : row.hv = Helpers(first \o bit) /\ IsSequence(first) /\ Len(first) = n
        <3>1. CASE op = "merkle_step"
            <4>1. row.hv = Helpers(SecretDigestOrDefault \o bit)
                BY <1>1, <1>2, <2>1, <2>3, <3>1 DEF DeriveHelperVariables, NumWordsOps, RegisterOps
            <4>2. IsSequence(SecretDigestOrDefault) /\ Len(SecretDigestOrDefault) = n
                <5>1. PICK D, s : D = Digest /\ s = secret_digests
                    OBVIOUS
                <5>2. s \in Seq(D)
                    BY <5>1 DEF VMTypeOK
                <5>3. s # <<>> => Head(s) \in D
                    BY ONLY <5>2
                <5>4. PICK first : first = SecretDigestOrDefault
                    OBVIOUS
                <5>5. first = [k \in 1 .. n |-> first[k]]
                    <6>1. CASE s # <<>>
                        BY <2>1, <5>1, <5>3, <5>4, <6>1 DEF SecretDigestOrDefault, Digest
                    <6>2. CASE s = <<>>
                        BY <2>1, <5>1, <5>4, <6>2 DEF SecretDigestOrDefault
                    <6> QED BY <6>1, <6>2
                <5>6. IsSequence(first) /\ Len(first) = n
                    BY ONLY <5>5, n \in Nat, IndexedSequence
                <5> QED BY <5>4, <5>6
            <4> QED BY <4>1, <4>2
        <3>2. CASE op = "merkle_step_mem"
            <4>1. PICK first : first = Contents(Addresses(St(DigestLen + 2), 1, DigestLen))
                OBVIOUS
            <4>2. row.hv = Helpers(first \o bit)
                BY <1>1, <1>2, <2>1, <2>3, <3>2, <4>1
                DEF DeriveHelperVariables, NumWordsOps, RegisterOps
            <4>3. IsSequence(first) /\ Len(first) = n
                BY <2>1, <4>1, ContentsFacts, SizeAssumption
            <4> QED BY <4>2, <4>3
        <3> QED BY <1>5, <3>1, <3>2
    <2>6. Len(first \o bit) = n + 1 /\ (first \o bit)[n + 1] = St(n) % 2
        <3>1. IsSequence(first) /\ IsSequence(bit)
            BY <2>4, <2>5
        <3>2. /\ Len(first \o bit) = Len(first) + Len(bit)
              /\ \A k \in 1 .. Len(bit) : (first \o bit)[Len(first) + k] = bit[k]
            BY ONLY <3>1, ConcatenatedSequence
        <3>3. 1 \in 1 .. 1
            OBVIOUS
        <3> QED BY <2>4, <2>5, <3>2, <3>3
    <2>7. row.hv[n + 1] = St(n) % 2
        BY <2>1, <2>5, <2>6 DEF Helpers
    <2> QED BY <2>1, <2>2, <2>7
<1>6. CurrentInstruction \in Instruction
    BY InstructionTypes
<1> QED BY <1>1, <1>2, <1>3, <1>4, <1>5, <1>6 DEF ShowsInstruction

(***************************************************************************)
(* The row recorded last shows an instruction, both in ci and nia, from    *)
(* which extend reads it, and in the helper variables, from which the      *)
(* constraints do.                                                         *)
(***************************************************************************)
ExtensionInv ==
    /\ PinInv
    /\ Succeeds /\ processor_trace # <<>> =>
           \E i \in Instruction : ShowsInstruction(processor_trace[Len(processor_trace)], i)

\* A step that succeeds records such a row.
LEMMA StepRecordsShownRow ==
    ASSUME PinInv, PinInv', TraceNext, error' = NoError
    PROVE  ExtensionInv'
<1>1. Succeeds /\ Step /\ VMTypeOK /\ InBounds(instruction_pointer)
    BY SuccessfulStep DEF PinInv, RowsInv, TraceNext, StepCompletes, Succeeds
<1>2. PICK trace, row, i :
          trace = processor_trace /\ row = ProcessorRow /\ i = CurrentInstruction
    OBVIOUS
<1>3. processor_trace' = Append(trace, row) /\ IsSequence(trace)
    BY <1>1, <1>2 DEF TraceNext, RecordState, PinInv, RowsInv
<1>4. PICK rows : rows = Append(trace, row)
    OBVIOUS
<1>5. rows[Len(rows)] = row
    <2>1. Len(rows) = Len(trace) + 1 /\ rows[Len(trace) + 1] = row
        BY ONLY <1>3, <1>4, AppendedSequence
    <2> QED BY <2>1
<1>6. processor_trace'[Len(processor_trace')] = row
    BY <1>3, <1>4, <1>5
<1>7. i \in Instruction /\ ShowsInstruction(row, i)
    BY <1>1, <1>2, InstructionTypes, RecordedRowShows
<1>8. (\E j \in Instruction : ShowsInstruction(processor_trace[Len(processor_trace)], j))'
    BY <1>6, <1>7 DEF ShowsInstruction, IndicatedArg
<1> QED BY <1>8 DEF ExtensionInv

\* What extend adds for the rows recorded so far is what the constraints demand.
LEMMA NewestColumnsAreExtended ==
    ASSUME ExtensionInv
    PROVE  ExtensionSatisfiesAir
<1> SUFFICES ASSUME Succeeds, processor_trace # <<>> PROVE ExtensionSatisfiesAir
    BY DEF ExtensionSatisfiesAir
<1>1. PICK t : t = NewestTransition
    OBVIOUS
<1>2. /\ Transition(t) /\ t.is_padding = halting
      /\ t.cur = processor_trace[Len(processor_trace)]
    BY <1>1, NewestRows DEF ExtensionInv
<1>3. PICK i \in Instruction : ShowsInstruction(t.cur, i)
    BY <1>2 DEF ExtensionInv
<1>4. t.is_padding => i.op = "halt"
    <2>1. halting => Is(t.cur, "halt")
        BY <1>2 DEF ExtensionInv, PinInv, RowsInv, ProcessorRowsSatisfyAir, TerminalConstraints
    <2>2. "halt" \in Mnemonics
        BY DEF Mnemonics, SingleWordOps
    <2> QED BY <1>2, <1>3, <2>1, <2>2, FoundInRow
<1>5. Extends(t, i)
    BY <1>2, <1>3, <1>4 DEF Extends, Transition, TypedRow
<1>6. /\ ExtendInput(t) = InputSymbols(t) /\ ExtendOutput(t) = OutputSymbols(t)
      /\ ExtendHashInput(t.cur) = HashInputs(t.cur)
      /\ ExtendHashDigest(t) = HashDigests(t)
      /\ ExtendSponge(t) = SpongeRows(t)
      /\ InversesTaken(t) = Len(ToInvert(t)) /\ ToInvert(t) = U32Rows(t)
      /\ FactorForOpStack(t) = OpStackRows(t)
      /\ FactorForRam(t) = RamRows(t)
    BY <1>5, ExtendedIo, ExtendedHash, ExtendedSponge, ExtendedU32, ExtendedOpStack, ExtendedRam
<1> QED BY <1>1, <1>6 DEF ExtensionSatisfiesAir

(***************************************************************************)
(* What ProcessorTable::extend adds to the auxiliary columns is what the   *)
(* constraints demand, for every program, every input and every size of    *)
(* the machine: the prover, who reads the instruction from ci and nia, and *)
(* the constraints, which read it from ci and the helper variables, derive *)
(* the same symbols, look-ups and factors from every pair of rows.         *)
(***************************************************************************)
THEOREM AuxiliaryColumnsAreConsistent == TraceSpec => []ExtensionSatisfiesAir
<1>1. TraceInit => ExtensionInv
    <2> SUFFICES ASSUME TraceInit PROVE ExtensionInv
        OBVIOUS
    <2>1. processor_trace = <<>>
        BY DEF TraceInit
    <2>2. PinInv
        BY InitialPinInv
    <2> QED BY <2>1, <2>2 DEF ExtensionInv
<1>2. ExtensionInv /\ [TraceNext]_traceVars => ExtensionInv'
    <2> SUFFICES ASSUME ExtensionInv, [TraceNext]_traceVars PROVE ExtensionInv'
        OBVIOUS
    <2>1. PinInv /\ PinInv'
        BY PinInvIsInductive DEF ExtensionInv
    <2>2. CASE UNCHANGED traceVars
        <3>1. processor_trace' = processor_trace /\ error' = error
            BY <2>2 DEF traceVars, vmVars, aet
        <3>2. PICK row : row = processor_trace[Len(processor_trace)]
            OBVIOUS
        <3>3. processor_trace'[Len(processor_trace')] = row
            BY <3>1, <3>2
        <3>4. (\E i \in Instruction : ShowsInstruction(processor_trace[Len(processor_trace)], i))'
                  <=> \E i \in Instruction : ShowsInstruction(row, i)
            BY <3>3 DEF ShowsInstruction, IndicatedArg
        <3> QED BY <2>1, <3>1, <3>2, <3>4 DEF ExtensionInv, Succeeds
    <2>3. CASE TraceNext
        <3>1. CASE error' = NoError
            BY <2>1, <2>3, <3>1, StepRecordsShownRow
        <3>2. CASE error' # NoError
            BY <2>1, <3>2 DEF ExtensionInv, Succeeds
        <3> QED BY <3>1, <3>2
    <2> QED BY <2>2, <2>3
<1>3. ExtensionInv => ExtensionSatisfiesAir
    BY NewestColumnsAreExtended
<1> QED BY <1>1, <1>2, <1>3, PTL DEF TraceSpec
==============================================================================
