# Triton VM in TLA+

Triton VM executes a program on a stack machine, records the execution in an
algebraic execution trace, arranges the trace in tables, and proves with a STARK
that the tables satisfy the constraints of an AIR. A proof exists only if four
things, written apart from each other, agree: what an instruction *does* (Rust),
what it *records* for the co-processors (Rust), how the tables are *arranged and
padded* (Rust), and what the *constraints demand* (circuits). A proof is accepted
only if two more agree: the prover, whichever of its code paths memory permits, and
the verifier. These modules model those six and check that they agree.

The modules translate the repository's source; every definition that stands for
code is listed with its lines in `PROJECT.json` under `map`. Where the source and a
document disagree the source is modelled, and the disagreement is a run of its own.

An operator whose comment starts with `wrong` is a deliberately incorrect variant of
the operator after it (a dropped case, an off-by-one, a swapped order). No behaviour
uses one. They show that a property can fail: with the variant in place of the right
operator, TLC finds the property named in `PROJECT.json` under `mutants` violated.

## Inventory

| Component | State | Operations | What makes it correct | Where |
|---|---|---|---|---|
| Virtual machine, `triton-vm/src/vm.rs` | program, inputs, output, RAM, op stack, jump stack, sponge, cycle count, instruction pointer, halting | `step`: 46 instructions; `run`, `trace_execution`, `profile` loop over it | stack never shallower than 16 between steps, failing steps keep the state, execution stays on instruction boundaries, forward programs end | `VM`, `VMTypes`, `VM_proofs` |
| Instruction set, `triton-isa/src/instruction.rs` | none | opcode, size, argument, influence on the stack | the influence table agrees with the machine | `Isa` |
| Op stack, `triton-isa/src/op_stack.rs` | elements, recorded underflow accesses | push, pop, insert, remove, canonicalise | accesses of one step are all reads or all writes once cancelling ones are gone | `VM`, `TraceExecution` |
| Execution trace, `triton-vm/src/aet.rs` | rows and multiplicities per table | `record_state`, `record_co_processor_call` | records equal what the processor's constraints derive from its rows; every limb that is looked up is counted once where it is looked up; the program's words are what is hashed | `TraceExecution`, `TableLinking`, `HashTrace` |
| Memory-like tables, `table/{op_stack,ram,jump_stack}.rs` | the trace's rows | `fill`, `pad` | the tables satisfy their AIR; every read sees the last access | `MemoryTables`, `MemoryAir`, `LoggedMemory`, `Memory_proofs` |
| Processor table, `table/processor.rs` | rows, clock-jump multiplicities | `fill`, `pad`, `extend` | look-ups of clock jump differences balance with padding; auxiliary columns are the ones the constraints demand | `MemoryTables`, `ProcessorExtension` |
| U32 table, `table/u32.rs` | entries with multiplicities | `fill`, `pad`, `extend`, height prediction | results are Rust's, heights are as predicted, AIR satisfied | `U32Table`, `U32Fill` |
| Program table, `table/program.rs` | words, multiplicities | `fill`, `pad`, `extend` | instruction look-ups balance; the chunks it sends are the ones the hash table absorbs, padding included | `HashTables`, `LookupAir`, `TableLinking` |
| Hash, cascade, lookup tables, `table/{hash,cascade,lookup}.rs` | rows in four modes, multiplicities | `fill`, `pad`, `extend` | the tables satisfy their AIR; preimages, digests and sponge states match the processor; limb and byte look-ups balance | `Tip5Rounds`, `HashTrace`, `HashTables`, `HashAir`, `LookupAir` |
| AIR, `triton-air/src` | none | initial, consistency, transition, terminal constraints | honest tables satisfy them; those of the processor and the hash table leave no register of the next row open, with the exceptions that `hash_remains` shows | `MemoryAir`, `U32Fill`, `TableLinking`, `ProcessorAir`, `HashAir`, `LookupAir` |
| Assembler, `triton-isa/src/{parser,program}.rs` | label map, debug information | parse, resolve labels, print, encode, decode | `decode` inverts `encode`; labels and debug information meet the instructions they belong to; printed programs assemble | `Assembler` |
| Domains, `arithmetic_domain.rs` | none | evaluate, interpolate, extend, halve, zerofier | computed exactly where they are used | `ArithmeticDomain` |
| Master tables, `table/master_table.rs`, `config.rs` | main and auxiliary tables, randomizers, optional caches | create, pad, extend, maybe cache, commit, reveal rows, combine quotients | what was committed to can be revealed, with and without caches | `MasterTables` |
| STARK, proof stream, `stark.rs`, `proof_stream.rs`, `proof_item.rs` | items, Fiat-Shamir sponge, the locals of both parties | prove, verify | honest proofs are accepted; both sides take the sponge through the same states; a proof with an item missing or out of place is refused | `Stark`, `ProofStream`, `MasterTables` |
| FRI, `fri.rs` | rounds, codewords, proof stream | commit, query, verify | same, for every number of rounds, including a challenge the prover draws and discards | `Fri`, `Stark` |
| Profilers, `execution_trace_profiler.rs` | call stack, heights | enter and exit spans, add up heights | spans are the calls, heights are the tables' | `Profile` |
| Constraint circuits and builder, `triton-constraint-circuit`, `triton-constraint-builder` | graphs of shared nodes, changed in place, at build time | build and simplify, lower the degree, generate Rust and Triton assembly | constraints keep their values; derived columns can be filled in order; generated code computes the constraints | `Circuit`, `DegreeLowering`, `DerivedColumns`, `Codegen` |
| Memory layout, errors, entry points, examples | none over time | numerics and wrappers | unit-testable functions | not modelled |

Components interact by calls: `trace_execution_of_state` records the machine's state,
calls `step`, and hands the returned co-processor calls to the trace; the prover fills
the tables from the finished trace, in an order that matters in one place (the
processor table receives the clock jump differences of the three memory-like tables),
and pads them all to one height. Prover and verifier share nothing but their
parameters, the claim and the proof. Nothing is concurrent apart from data-parallel loops
over disjoint rows, and nothing is persisted. What is hard here is agreement across
representations, boundaries (full or empty stacks and tables, the end of memory, the
end of the program), what padding does to arguments, several small updates within
one instruction, two caches that are filled independently and used only together,
domains of which either may be the longer one, and, at build time, graphs that are
rewritten in place while rules made earlier still point into them. `PROJECT.json` lists these hazards with the lines where they bite.

## Modules

| Module | Extends | Contents |
|---|---|---|
| `TwentyFirst` | | External: the field, its extension, `u32` arithmetic, the Tip5 permutation, as parameters |
| `Isa` | `TwentyFirst` | Instructions, opcodes, sizes, declared influence |
| `VM` | `Isa` | The machine: one action per instruction, with its error paths |
| `VMTypes` | `VM` | Type invariant, step properties, control flow, termination |
| `VM_proofs` | `VMTypes` | Theorems |
| `InductionLemmas` | | Induction as the provers can use it; sequences whose elements have no type |
| `TraceExecution` | `VM` | The loop of `trace_execution_of_state` and the trace |
| `U32Table` | `Isa` | Sections, height and padding of the u32 table, as pure operators |
| `TableLinking` | `TraceExecution`, `U32Table` | The arguments between the processor and the other tables |
| `MemoryTables` | `TraceExecution` | `fill` and `pad` of op stack, RAM, jump stack and processor tables |
| `MemoryAir` | `MemoryTables` | Their constraints, the arguments that involve padding; the RAM as an implementation of `LoggedMemory` |
| `LoggedMemory` | | Abstract: a memory whose accesses are logged in batches |
| `LoggedMemory_proofs` | `LoggedMemory` | Theorem: the log is coherent |
| `ProcessorAir` | `TableLinking` | The constraints on the registers of two rows, for every instruction and for padding |
| `Arguments_proofs` | `ProcessorAir`, `VM_proofs`, `InductionLemmas` | Theorems: op stack, RAM, input and output arguments, cancelling accesses |
| `Memory_proofs` | `MemoryAir`, `Arguments_proofs`, `LoggedMemory_proofs` | Theorems: RAM is a logged memory, jump stack argument, the memory tables' constraints, look-ups of clock jump differences |
| `ProcessorAir_proofs` | `Arguments_proofs`, `ProcessorExtension` | Theorems: the processor table's constraints hold, one lemma per instruction, and pin every register of the next row; the auxiliary columns are extended as the constraints demand |
| `ProcessorExtension` | `ProcessorAir` | What the prover adds to the processor table's auxiliary columns |
| `Tip5Rounds` | `TwentyFirst` | Tip5 by rounds, with split-and-lookup, over a field as small as the instance |
| `HashTrace` | `TableLinking`, `Tip5Rounds` | The trace's program hash, hash and sponge rows, and look-up multiplicities |
| `HashTables` | `HashTrace` | `fill`, `pad` and `extend` of program, hash, cascade and lookup tables; heights |
| `HashAir` | `HashTables` | The hash table's constraints |
| `LookupAir` | `HashAir` | The constraints of the other three, the cross-table terminals |
| `Profile` | `HashTables` | `VM::profile` beside the recorded trace |
| `Assembler` | `Isa` | Source code to program and back, words to program and back |
| `U32Fill` | `U32Table` | Filling and padding the u32 table, its constraints |
| `ArithmeticDomain` | | A prime field, polynomials, domains |
| `MasterTables` | `ArithmeticDomain` | The prover's tables, their extension, caches, commitments and quotients; the AIR is a parameter |
| `ProofStream` | | Items, the sponge and what alters it; Merkle trees |
| `Fri` | `MasterTables`, `ProofStream` | What FRI's two parties compute |
| `Stark` | `Fri` | Prover, delivery of the proof, verifier |
| `Stark_proofs` | `Stark`, `InductionLemmas` | Theorems: agreement of the sponges, refusal of faulty proofs |
| `Circuit` | `TwentyFirst` | Builder, simplification, sharing, degree and value of constraint circuits |
| `DegreeLowering` | `Circuit` | Lowering four sections of constraints, one substitution per step |
| `DerivedColumns` | `DegreeLowering` | The code that fills the new columns; what lowering has to keep |
| `Codegen` | `DerivedColumns` | The Rust code and both versions of the assembly, section by section, and machines that run them |
| `MC*` | | Instances for TLC; `MCArithmetic` makes the parameters executable, `MCAssembly` writes programs |

**The machine.** A variable per field of `VMState`; the op stack is a sequence whose
last element is `st0`. A step that completes is one action, as `step` is one call. Its
co-processor calls are kept in `underflow_io`, `ram_calls`, `tip5_calls` and
`u32_calls` until the next step. A step that fails sets `error` to the variant of
`InstructionError`, returns no calls and leaves the state that `VMError` carries.
Instructions that pop and push are written by their net effect together with the
accesses that this many pops and pushes record at the bottom of the registers; the
stack is shorter in between, as in the code. A program is a sequence of instructions
in which a double-word instruction stands twice, as `Program::instructions` stores it.

**The trace.** Rows are records of registers. In `TraceExecution` an entry of the hash and
sponge traces stands for the whole permutation that starts from its state;
`HashTables` expands it to the rows of its rounds. The order of co-processor calls
within a step is kept per co-processor, which is what the tables see.

**The hash coprocessor.** `HashTrace` runs with the machine, since the multiplicities of
the cascade and lookup tables are updated call by call and depend on which limb was
looked up first. The permutation is computed: two rounds of four split-and-lookup
elements and an MDS matrix over a field of 241, with limbs of two bits in place of
16. All auxiliary columns of the four tables are written row by row, as `extend` does,
and the constraints relate them row by row, so that a mode, a round or a padding row
at which an accumulator moves or stays wrongly is seen there and not only in the
terminal. `HashConstraintsPinNextRow` perturbs each column of the next row that the
transition and consistency constraints answer for. To main columns it adds one, a sample for those
in which the constraints are not linear (mode, instruction, round number). From auxiliary
columns it takes what the row adds, or adds what the row does not. A running
evaluation's constraint is a sum of terms that are meant for different cases; `RunningEvaluation`
adds up the coefficients of the terms that say "remains", which cancel in two cases, see
the run `hash_remains`. `OpenColumns` lists these two with the other columns that
the constraints leave open; of the auxiliary ones it is checked that they are open, so that
no exception is made in vain.

**The assembler.** Source code is a sequence of lexemes; a program has the fields of
`Program` and `DebugInformation`. Where a hash map decides between two labels of one
address the choice is left open. `Parse`, `Display`, `EncodeProgram` and `Decode` are
what a caller can do with a program, in any order.

**The profiler.** `Profile` adds the profiler's variables to the traced machine, so that
its own bookkeeping of heights can be compared with the tables, and its spans with
the rows of the processor table.

**Circuits.** A node is an identifier; the builder's record maps it to an expression whose
operands are identifiers, so that redirecting references changes every circuit and
every substitution rule that contains the node, as `Rc<RefCell<..>>` does. `Substitute` is one
turn of the loop of `lower_to_degree`, `NextSection` the call for the next section.
A rule serves twice: as a constraint, and as code that fills its column from the
columns before it. The latter is sound only if no rule comes to refer to a later
column, although rules change after they are made. Nothing in the code checks this; it
rests on the order in which `pick_node_to_substitute` chooses (most occurrences first), and
`DerivedColumnsCanBeFilled` fails if the highest degree is preferred. `Codegen`
generates the code of one section per step, with the sets of shared nodes that the
backends keep from section to section, and runs it: the Rust code on shared bindings, the
assembly on a stack and a page of memory. A constraint
that is part of another one, or constant, makes the generator panic; `OnlyFaultySourcesFail`
says that lowering never brings this about by itself.

**Arguments.** The code states that two tables hold the same rows by running products,
evaluations and logarithmic derivatives of randomly compressed rows. The modules
compare the rows themselves, as bags, or as sequences where the code uses an
evaluation. Left out is the (negligible) chance that different rows compress equally.

**Constraints.** A constraint polynomial is a predicate of one or two rows that holds
where it vanishes. Inverse columns (`x_inv`, Bezout coefficients) are replaced by the
fact that they witness. The bits of the current instruction are represented by the
instruction; the helper variables are columns as in the code. `ConstraintsPinRegisters`
turns every register of the next row, one at a time, to another value, and demands
that a constraint notices unless the register is one that another table answers for.
One other value is enough: the constraints are linear in the registers of the next
row, except for one product in `split`, which determines each factor by the rest.

**The proof system.** `Prover::prove` and `Verifier::verify` are straight-line
programs around loops over FRI's rounds. `stage` says which part comes next; a part
ends where the party samples, so that a step is "send, then sample" or "receive,
check, then sample", with the code's order of items. The records `prover` and
`verifier` are the locals that are still needed. Whether an extension is cached is a
choice of the step that makes it, once per table, as the outcome of a memory
allocation is. Interpolation, evaluation, folding, segments and quotients are
computed, not assumed: the verifier of the model evaluates the same equations on the
same numbers.

Abstracted are

* the sponge, by the history of what it absorbed and how often it was sampled, with a
  function of that history as its output, and hashing, by the identity: a Merkle root
  *is* the sequence of leaves, and an authentication structure names tree and indices;
* the extension field, by the base field. What the prover needs of it, points outside
  all domains, is a third coset of the subgroup the domains lie in;
* the AIR, a parameter (`MCStark` has one with a constraint of each kind and one of
  the target degree), and the pseudo-random generator of trace randomizers, a function
  of seed and column;
* the encoding of a proof. A proof is a sequence of items; `Deliver` hands it over
  intact, with one item lost, one repeated, or two neighbours swapped;
* the verifier's comparisons of numbers of rows (`IncorrectNumberOf...`), which the
  inclusion proofs imply.

## Runs

TLC checks all behaviours of the instance with the given programs and inputs.

| Run | Instance | Question |
|---|---|---|
| `vm` | 5 registers, field of 13 (words of 2 bits), all ordered pairs of 60 instructions behind five reads with four choices of input and tokens, and up to three control-flow instructions with calls to every address | types and depth, declared influence, what failure keeps, instruction boundaries, termination without recursion |
| `trace` | the code's register counts, field of 241, pairs of instructions behind 15 reads, triples of hashing instructions, procedures of up to four control-flow instructions, three inputs | op stack, RAM, u32 and I/O arguments; processor constraints; the processor table's auxiliary columns as extended and as constrained |
| `memory` | as above, three memory instructions, and procedures of up to four control-flow instructions, up to 20 cycles | op stack, RAM and jump stack tables with padding, look-ups, refinement |
| `u32` | words of 4 bits, all single entries, all pairs of edge cases, up to two rows of padding | u32 table against AIR, results and prediction |
| `hash` | field of 241, two rounds, limbs of 2 bits; any one or two of the seven hashing instructions on an initialised sponge, programs of six lengths around the rate, and programs that call, recurse, return in both ways and halt inside a call | program, hash, cascade and lookup tables against their AIR, cross-table terminals, attestation, which columns the constraints leave open, profiler against trace |
| `assembler` | all source code of up to four lexemes of a small set and up to two of a set of odd ones, all sequences of up to four of a set of words | labels and debug information, printing, encoding |
| `stark` | field of 769, padded heights 8 and 16, expansion factors 2, 4 and 8, FRI with 3, 2, 1 and 0 rounds, two claims, caching fixed or left open, any one fault of delivery | completeness, agreement of sponges, caches, quotient segments, refusal of faulty proofs |
| `codegen` | integers modulo 4033, extension of degree 2, two main and two auxiliary columns, all pairs of 11 consistency constraints beside three sets of transition constraints, target degrees 2, 3 and 4 | derived columns, lowering, sharing, generated code |
| `single_row_aux` | `codegen`'s | *violated*: the generator's promise of code for all rules |
| `hash_remains` | `hash`'s | *violated*: a document's description of the hash table's auxiliary columns in rows that add nothing to them |
| `short_fri_domain` | `stark`'s, expansion factor 2, no cache | *violated*: completeness without a cache |
| `many_randomizers` | `stark`'s, 9 randomizers at height 8 | *violated*: completeness with many randomizers |

**Bounds and why they suffice.** `MaxCycles` bounds the cycle count; programs in
`vm` and `trace` have few instructions, so the bound is out of
reach except for programs that loop, which are cut. In `vm` no program
`ForwardProgramsStop` speaks about reaches the bound, or the run would fail. The small
field of these runs keeps the relation between words and field (P = 2^(2w) - 2^w + 1) that `split`,
the u32 checks and addresses depend on; 5 registers keep every distinction between
register and underflow memory, while the trace runs use the real 16 registers because
the constraints name registers and helper variables by number. Two instructions in
sequence suffice for the arguments, which relate consecutive rows; three for the
sponge and RAM, which relate accesses across steps. Stacks are deep enough (31
elements) that no instruction of a pair runs into the bottom by accident, and
`vm` covers the shallow ones. `OtherHeights` is the height of the tables that
are not part of the run: a small and a large one, so padding is short and long.
`MaxPaddingRows` is two, since a third row relates to the second as the second to the
first. Entries of the u32 table are taken one at a time exhaustively and two at a time
at their boundaries; sections meet only at their ends. One of the inputs has zeros on
top, for the comparison of zero with zero and the look-ups of empty ranges.

In `hash`, two rounds are the fewest that have a first and a last one with a row in between
that is neither the first nor the last of the permutation; four look-up elements and
the state's full width of 16 are the code's. Two hashing instructions in every order make
every mode follow every mode that may precede it; programs end right before, at and
right behind the end of a chunk of the rate. Permutation constants are arbitrary; nothing
checked depends on their values.

In `assembler`, four lexemes are the fewest for a call over a double-word instruction to a label with a hint or breakpoint in between; the words have a
representative of each kind of instruction, arguments that are legal and not, and
lengths that are too small and too large.

In `codegen`, circuits never divide, so that values need not form a field; 4033 is not prime, and large
enough that different polynomials of the instance differ at the points they are
evaluated at. The eleven constraints contain what the builder folds (zeros, ones,
constants of either field), nodes it shares also with operands swapped, products whose
factors are shared by the other constraint of the pair, and constraints over an
auxiliary column. Pairs are taken in both orders and with themselves, which makes the
generator's checks fail where they should. Targets 2 to 4 leave between no and several
substitutions per section, so that the columns of a section start behind those of
earlier ones; transition constraints refer to both rows.

In `stark`, 769 = 3 * 2^8 + 1 has a subgroup of order 256 and two cosets, enough for
domains, offset domains and challenges. Two claims make a trace that changes in every
row before it is constant, and one that never changes. The expansion factors put the
FRI domain below, at and above the quotient domain's length, and the numbers of
collinearity checks leave FRI three rounds, two, one and none. Two columns of either
kind, with constraints of every kind, meet every section of the weights and every
zerofier. The configurations obey the two conditions that the code needs and does not
check, see below; each violated run drops one.

Deadlock is checked in `stark`, where a finished verification stutters. In the other
runs it is not: the machine stops when it halts or fails, the table when it is padded, the
assembler when it rejects its input, code generation when it is done or fails.

**Fairness.** Only `ForwardProgramsStop` uses it: `VMFairness` is weak fairness of
`Step`. `run` and `trace_execution_of_state` call `step` in a loop with nothing else
in it, so an enabled step is taken. No run asks for fairness of a particular
instruction: which one executes is determined by the program.

## What the violated runs show

One shows two constraints that say less than their description, and break no proof of a
complete run:

* `hash_remains`: `specification/src/hash-table.md` says when each running evaluation and
  logarithmic derivative of the hash table accumulates; "otherwise, it remains
  unchanged". `extend` leaves them unchanged. The constraints do not demand it in two cases.
  That of `RunningEvaluationHashInput` adds up two terms that say so, with the coefficients
  `round_no'` and `Mode' - 3`. In round 1 of the mode sponge (2) and in round 2 of
  program hashing (1) these cancel, and the constraint says nothing, although the comment
  in the code, too, says "if (and only if)". The same form has no such row for the digest
  (with `round_no' - 5` in place of `round_no'`), for the program's chunks (`Mode' - 1`)
  and for the sponge. The constraint of the look-up columns has no case for padding rows.

One is a fault of the constraint builder that no present constraint meets:

* `single_row_aux`: the closures that fill derived auxiliary columns of initial,
  consistency and terminal constraints bind `main_table_row` and `auxiliary_row`, and
  the rules inside them read `main_row` and `aux_row`. The first such constraint
  whose degree is too high makes `triton-vm` fail to compile. `LoweringPreservesConstraints`
  computes the columns' values as if the variables were bound.

A further case is kept out of the properties. `Program::decode` accepts calls to the argument
word of another instruction, and such a program executes, with the argument read as a
copy of its instruction. Its trace cannot be proved: the processor looks up the
opcode where the program table has the argument's value. The assembler makes no such
program (`AddressesMatchInstructions`), and neither does the instance of `hash`, in
which the instruction look-ups have to balance.

Two are faults of the prover: it returns a proof that the verifier refuses.

* `short_fri_domain`: when the extended tables are not cached, `merkle_tree` hashes
  the rows on `evaluation_domain()`, the longer of FRI domain and quotient domain. For
  an expansion factor of 2 that is the quotient domain, and the opened rows, taken on
  the FRI domain, are not in the tree. `config.rs` promises that caching affects
  performance only.
* `many_randomizers`: the trace domain is half the randomized trace domain. As soon as
  there are more trace randomizers than rows, that is longer than the padded height in
  the proof, from which the verifier takes the generator for next rows and the
  zerofiers. `Stark::new(240, 1)` asks for 258 randomizers, and 256 is the smallest
  padded height there is.

Four more divergences were met while modelling and have no run, because the code is
consistent with itself, most often by a property named here:

* `specification/src/clock-jump-differences-and-inner-sorting.md` excludes a clock jump
  difference of 0. A dot-product step over overlapping ranges reads an address twice
  in one cycle, and the RAM table looks up clock cycle 0, which exists
  (`ClockJumpLookupBalances`).
* `specification/src/registers.md` says `jso` holds the instruction pointer of the last
  `call`. It holds the return address (`JumpStackArgumentBalances`).
* `specification/src/u32-table.md` says the padding copies the result of the last row.
  Behind `lt` it is always 2, "undecided"; `U32TableSatisfiesAir` fails if it is copied.

* `prove_program` (`triton-vm/src/lib.rs`) is documented to crash, and proof generation to
  fail, if an input does not conform to the program. A program that leaves input
  unread runs to its end and is proved, with a claim about the whole input; the input
  argument of that claim does not balance. `IoArgumentsBalance` is therefore about
  the input that was read.

## Theorems

The modules whose names end in `_proofs`, and the lemmas of `InductionLemmas` they rest
on, are checked by TLAPS. What they prove holds for every set of programs, inputs,
memories, every word size, every register count and every configuration of the proof
system that satisfies the assumptions:

* `SizeAssumption`, `RegisterAssumption`: the machine's sizes fit together; the code's
  values (5, 6, 3, 16, 6, 5, 2^32) satisfy them.
* `InputAssumption`: programs are what the assembler and `decode` produce, inputs and
  memories consist of field elements.
* `ExternalRanges`: the functions of the library `twenty-first` and of `u32` return
  values of their types.
* `ArithmeticLaws`: an inverse is one, in the field and in its extension, and the product
  with a base field element is taken coefficient by coefficient. The
  constraints of `invert`, `x_invert`, `skiz`, `recurse_or_return` and `xb_mul` rest on it,
  hence only `ProcessorRowsAreConsistent` and the two theorems with stronger invariants,
  `RegistersArePinned` and `AuxiliaryColumnsAreConsistent`.
* `UniqueInverses`: an extension field element has one inverse. Only `RegistersArePinned`
  rests on it, for `x_invert`; that base field inverses are unique is not assumed.
* `LinkingAssumption`: a number of words fits the four bits it is decomposed into, the
  helper variables hold what the instructions put there, and the cycle count, a `u32`,
  is less than the field's prime.
* `AirAssumption`: four bits hold an argument that is an element of the op stack, the
  opcodes are field elements, and so is the height that a stack can reach while the
  cycle count is a `u32`. The same three theorems rest on it.
* `HeightAssumption`: the tables without a model of their own have a height, and it is not zero.
* `ConfigurationsAssumption`: the types of the parameters; a padded height is a power of
  two that comes back from its logarithm; FRI folds a natural number of times.

| Theorem | States | Argument |
|---|---|---|
| `TypeCorrectness` | `VMSpec => []VMTypeOK` | `VMTypeOK` is inductive. That the stack has at least `NumRegisters` elements is not by itself: instructions look only at the net change before they run. One lemma per instruction shows that it writes a sequence of field elements whose length changes as declared. |
| `DeclaredInfluence` | `VMSpec => StepHasDeclaredInfluence` | The length part of the same lemmas. |
| `FailuresKeepTheState` | `VMSpec => FailureKeepsState` | Every step either completes, fails by `Fails`, or is `skiz` failing on its look-up (`StepShape`). |
| `ControlFlowIntegrity` | `VMSpec => []AtInstructionStart` | Inductive with `VMTypeOK`. A call's return address is behind its argument, so the jump stack's origins belong to the invariant, and so do its destinations for `recurse`. |
| `Coherence` | `LogSpec => []LogIsCoherent` | Coherence relates entries of the log, a step relates entries to contents. The link is `ContentsAreLogged`: an address holds the value of every access behind which it has not been written. With it, coherence is inductive. |
| `RamRefinesLoggedMemory` | `TraceSpec => RamIsLoggedMemory` | `StepAccesses`, one case per instruction: a step leaves RAM alone, reads a sequence of addresses, or writes to distinct ones. They are distinct because `write_mem` writes fewer words than the field has elements. Invariant `TraceInv`: the machine's types, and clocks in the trace that lie before the cycle count. |
| `RamCoherence` | `TraceSpec => []RamTraceIsCoherent` | The two theorems before it. |
| `UnderflowIoIsUniform` | `TraceSpec => []CanonicalIoIsUniform` | Instructions edit registers only. What an instruction's pops have read is therefore what its pushes write back, innermost first, so accesses cancel at the border of reads and writes until one kind is left, or none. The recursion of `canonicalize_sequence` is unfolded for every length. |
| `MemoryArguments` | `TraceSpec => []MemoryArgumentsBalance` | Invariant `MemoryInv`: the op stack table and the RAM table are rearrangements of all that the processor's constraints derive from two rows at a time. See below. |
| `JumpStackArgument` | `TraceSpec => []JumpStackArgumentBalances` | Invariant `ClockInv`: the row recorded in cycle `k` has clock `k - 1`. The rest is about one state. See below. |
| `IoArguments` | `TraceSpec => []IoArgumentsBalance` | Invariant: what is left of the input and what was written are what the rows of `read_io` and `write_io` show. One step adds one transition; the decomposed argument says how many of the symbols it shows count. |
| `MemoryTablesAreConsistent` | `TraceSpec => []MemoryTablesSatisfyAir` | Every pair of consecutive rows of the filled and padded op stack, RAM and jump stack tables satisfies the tables' constraints. Invariants `ClockInv`, `FramesInv`, `UnderflowInv` and `RamCoherence`. See below. |
| `ClockJumpLookups` | `TraceSpec => []ClockJumpLookupBalances` | What the three padded tables look up, counted with multiplicity, is what the processor table serves. Invariants `ClockInv`, `UnderflowInv` and `TraceInv`. See below. |
| `ProcessorRowsAreConsistent` | `TraceSpec => []ProcessorRowsSatisfyAir` | Invariant `RowsInv`. One lemma per instruction shows that its step satisfies all of the instruction's constraints. See below. |
| `RegistersArePinned` | `TraceSpec => []ConstraintsPinRegisters` | Invariant `PinInv`. A row with one register one higher violates a constraint: one lemma per group of instructions shows that two rows which satisfy the constraints agree. See below. |
| `AuxiliaryColumnsAreConsistent` | `TraceSpec => []ExtensionSatisfiesAir` | Invariant `ExtensionInv`: both `extend` and the constraints find in the row recorded last the instruction that was executed. One lemma per group of columns. See below. |
| `StarkInvariance` | `Spec => []StarkInv` | See below. |
| `StarkTypeCorrectness` | `Spec => []StarkTypeOK` | Part of `StarkInv`. |
| `ProofIntegrity` | `Spec => []OnlyTheProofIsAccepted` | From `StarkInv`, by what the delivery did. |
| `SpongeAgreement` | `Spec => []SpongesAgree` | From `StarkInv`: equal items have equal histories. |

**Op stack and RAM.** `MemoryArgumentsBalance` compares bags, and bags are awkward to
reason about: the proof exhibits, step by step, the permutation that takes the rows
recorded to the rows derived, and `RearrangedBags` turns permutations into equal bags.
Rows recorded by a step that grows the stack are the derived ones in order; those of
a step that shrinks it, in reverse. RAM accesses of `read_mem` are derived in reverse,
those of `xx_dot_step` interleave two ranges, the others are in order. An address
computed from a register, and reduced, equals the one the instruction computed, reduced
at other points, also across the end of the field. That the last row recorded has
no successor in the table is why `Transitions` appends the current state, and why the
invariant speaks only of executions that have not failed: a failing step has recorded its
row but no accesses.

**Jump stack.** A row's place in the sorted table is the number of rows up to it. The
sets of the rows up to a row form a chain (`NumbersMakeAChain`), so every place is taken
exactly once (`ChainPlaces`), and the sorted rows are the processor table's in another
order. The row of the last cycle, behind which `pad` inserts, is found by its clock:
`ClockInv` makes it unique. `RearrangedAroundPadding` moves the inserted rows to the end,
where the processor table has its padding. There is room for them because the padded
height, a power of two, is at least the length of the longest table (`PowerBetween`).

**Memory tables.** The constraints relate neighbours in a sorted table; the machine relates
a row to what was there before. The invariants bridge this row by row, in the order of
time. `UnderflowInv` says that the underflow accesses recorded so far are coherent, and that
the last access of each location shows what the op stack holds there now; `FramesInv` says
the same of the jump stack, where the last visit of a depth shows the frame that is still
there, unless that visit ended in a return. Sorting is stable, so the neighbours in a
table are consecutive in time among the rows of their address (`SortedNeighbours` and the
lemmas around it), and coherence at the one place gives the constraint at the other.
That the region of every RAM pointer is contiguous, which the code's Bézout columns show,
is `SortedPointersAreContiguous`.

**Clock jump differences.** A difference occurs in a flattened sequence of look-ups as often
as there are pairs of consecutive rows of one pointer that are that far apart
(`FlattenedOccurrences`, `DifferencesCounted`), so bags need not be taken apart. `fill`
counts before the tables are padded. Padding behind the op stack and RAM tables looks up
nothing (`PaddingLooksUpNothing`). Padding in the middle of the jump stack table looks up
the difference 1 once per row, and none is lost: the row behind the padding belongs to a
deeper jump stack, as did its predecessor before (`CountingPaddingLooksUpOne`). `pad` adds the
same number to the multiplicity of row 1, also where that row is padding. Rows of one
pointer are sorted by cycle, so every difference is at least 0 and less than the cycle
count (`DifferencesAreCycles`); it is the clock of a row of the processor table, which
serves it, and no reduction modulo the prime makes two of them equal.

**Processor rows.** A row and its successor are the machine before and after one step. The
lemma of an instruction unfolds the step, names the values of all registers of both rows,
and derives the instruction's groups of constraints, for all arguments, register counts and
word sizes. The groups that many instructions share (the stack grows, shrinks, keeps its
remainder) are lemmas of their own. `RowsInv` adds what a single step does not show: the
machine before its first step satisfies the initial constraints; the jump stack is no higher
than the cycle count, and the op stack no higher than `NumRegisters` plus `Rate` for every
cycle. Hence the numbers in a row are less than the prime and adding in the field is
adding.

**Pinned registers.** `Rivals` are two rows that both satisfy the constraints behind the same
row. For most instructions the constraints are equations for the registers, and rivals agree
on all registers that no other table answers for, whatever they hold. Where they are
equations for sums or products, the proof needs that only one register was altered
(`Altered`): in `split`, `div_mod` and the Merkle steps, changing one summand changes the sum,
because its factor, 2 or 2^32 or the divisor, is not zero in the field (`SumPins`,
`FactorPins`); no inverse is needed for this, only that the multiples of the prime closer to zero than
the prime are zero (`SmallMultiple`). Two facts are not among the constraints of the registers and come from the machine: that the divisor of
`div_mod` is not zero, which the u32 table answers for, and that the helper variable of
`recurse_or_return` is an inverse or zero. `PinInv` adds them to `RowsInv`, for the
row recorded last.

**Auxiliary columns.** `extend` decodes the instruction of a row from the columns `ci` and
`nia`, the constraints select theirs by `ci` and the helper variables. That both find the
one executed is the invariant's part, `ExtensionInv`, for the row recorded last: the opcode
identifies the mnemonic, since no two share one (`FoundInRow`), and the argument is in `nia`
for instructions that have one. The rest is about two neighbouring rows. One lemma per
group of columns shows that both sides derive the same sequence, hence the same bag: for
input and output, hashing, the sponge, the u32 coprocessor, the op stack and RAM
(`ExtendedIo` to `ExtendedRam`). Two of them differ in substance. The op stack
moves by the influence that the instruction declares for `extend`, but by a list of
groups of instructions for the constraints (`MovedElements`). The side of a Merkle
step's sibling is the lowest bit of the node index for `extend`, but a helper variable for
the constraints; that the two agree belongs to the invariant. The inverses that `extend` takes for
u32 look-ups are as many as it collected.

**Prover and verifier.** `StarkInv` is the conjunction of `ProverInv` and
`VerifierInv`. Either says that the sponge's history is a function of the items
(`EventAt`): at each stage, how many items the party has sent or read, of which kinds
they are, and how many events the sponge has seen. With that, both parties' histories
are prefixes of the same function of the same items, including the challenge that FRI's
prover draws and discards. For faulty deliveries the invariant also has to say which
of the trees the items that were read are opened against (`HeightAndTreesAreSent`,
`RoundsAreSent`, `ResponsesAreSent`, `LeafsAreSent`), since kinds alone notice only
part of the faults: a lost item makes the proof too short, a repeated one leaves an
item of another kind in the last place, and two neighbours of the same kind are told
apart by the trees that their leafs or responses were authenticated by. This rests on
hashing being the identity in the model. The theorems do not need the AIR or the
polynomials, and so hold for the configurations of the violated runs, too.

**Induction.** The library's induction theorems take an operator as a parameter, which
the provers at hand cannot instantiate. `InductionLemmas` proves induction over a set of
naturals from the well-foundedness of the order of finite sets. With it, what folds
and recursive functions compute can be unfolded for every length (`FlattenSeq`,
`Canonicalize`).

Each property was checked by TLC (`vm`, `memory`, `trace`, `stark`) before it was proved.

Only model-checked:

* `ForwardProgramsStop`, which is liveness under fairness;
* completeness of the proof system, `CommitmentsCanBeRevealed` and `SegmentsRecombine`,
  which rest on identities of polynomials over finite fields;
* `U32ArgumentBalances`, which depends on the values of functions that are external, and
  of which nothing but ranges is assumed;
* `U32TableSatisfiesAir` and the other properties of `U32Fill`: filling is recursive, and
  its values are those of the same external functions;
* the hash coprocessor with its lookup tables: Tip5 is an external function for the
  proofs, and its rounds are computed only in the instance;
* the assembler and the profiler;
* the constraint circuits, whose modules declare recursive operators, which the provers
  do not accept.

## Not modelled

* Soundness in the cryptographic sense: that no proof of a false claim is found. It
  depends on degrees, the size of the extension field and the sponge. What is checked
  of the verifier is that it notices items out of place, and of the processor's and the hash table's
  constraints that they leave no register of a next row open, up to the columns of
  `hash_remains`.
* The constraints of `recurse_or_return` add two cases up and rely on a helper variable
  that is an inverse or zero. They are checked for the helper variables the machine
  derives, not for others.
* The constraints of `halt` are never exercised: the row after an honest machine's
  `halt` is a padding row, which has constraints of its own.
* White space, comments and the spelling of names in source code; the wording of parse
  errors.
* Look-up columns of the hash table in padding rows are pinned by no constraint; the
  models state what `extend` does there.
* The `u32` overflow of the cycle count and of the u32 table's height: out of reach of
  instances with a few cycles.
* Of code generation: the constants of degree bounds, tokens and formatting of the
  emitted Rust, and the counts of constraints. The generated code is run in the model
  as the expressions and instructions that it consists of. `codegen` has constraints of
  its own, not the AIR's: hundreds of constraints of hundreds of nodes are out of reach.
* `profiler.rs` measures wall-clock time and prints it. Memory layout, error formatting
  and thin entry points have no behaviour over time.

## Plan

Done: the machine and its theorems, the trace and its arguments, all nine tables with
their constraints, the proof system with its caches, the assembler, the profiler, the
constraint builder, the theorem that RAM is a logged memory, the theorems on the op
stack, RAM, jump stack, input and output arguments, on the constraints of the memory and
processor tables, on what the processor's constraints pin, on the
processor table's auxiliary columns, on the look-ups of clock jump differences,
and on the sponges of prover and verifier.

Proof left: the termination measure of forward programs as a safety property.
