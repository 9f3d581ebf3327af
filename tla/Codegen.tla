-------------------------------- MODULE Codegen --------------------------------
(***************************************************************************)
(* The two back ends of the constraint builder.  RustBackend binds nodes   *)
(* that are referred to more than once to variables; TasmBackend stores    *)
(* them in memory, under their identifiers.  Identifiers repeat from       *)
(* section to section.  Both evaluate the main constraints of a section    *)
(* before its auxiliary ones.                                              *)
(*                                                                         *)
(* Rust code is a tree: a leaf, [node |-> id] for a variable, or           *)
(* [op, lhs, rhs].  Triton assembly is a sequence of instructions; `list`  *)
(* names the address of an array that the memory layout will provide.      *)
(***************************************************************************)
EXTENDS DerivedColumns

CONSTANTS
    OutArrayOffset,         \* OUT_ARRAY_OFFSET, in extension field elements
    MemPageSize,            \* MEM_PAGE_SIZE
    ArrayAddress,           \* a memory layout: arrays' addresses
    OutOfDomainRow(_, _)    \* arbitrary elements: a name and the row's length

LOCAL INSTANCE FiniteSetsExt
LOCAL INSTANCE Functions
LOCAL INSTANCE TLC

VARIABLES
    generating,     \* the section code is generated for, a position in Sections, or 5
    failed,         \* code generation panicked
    rust,           \* a section's code from RustBackend
    tasm            \* [static, dynamic |-> TasmBackend and the code it emitted]

codegenVars == <<loweringVars, generating, failed, rust, tasm>>

\* combine_with_substitution_induced_constraints
Combined(s) == constraints[s] \o main_rules[s] \o aux_rules[s]
------------------------------------------------------------------------------
(***************************************************************************)
(* consume: a constraint is taken out of its builder as a copy of its root *)
(* node.  assert_unique_ids finds the identifier a second time if the node *)
(* is also the root of, or lies below, another constraint.                 *)
(***************************************************************************)
HasUniqueIds(b, roots) ==
    \A i, j \in DOMAIN roots : i # j => roots[i] \notin NodesBelow(b, roots[j])

\* How often roots and nodes refer to a node; a node visited again is not descended into.
RefCount(b, roots, id) ==
    LET binops == {n \in NodesOf(b, roots) : IsBinOp(Expr(b, n))}
        count(condition(_)) == Cardinality({n \in binops : condition(Expr(b, n))})
    IN  Cardinality({i \in DOMAIN roots : roots[i] = id})
            + count(LAMBDA e : e.lhs = id) + count(LAMBDA e : e.rhs = id)
RefCounts(b, roots) == [id \in NodesOf(b, roots) |-> RefCount(b, roots, id)]

(***************************************************************************)
(* declare_shared_nodes and store_all_shared_nodes go through the circuits *)
(* in the same way: once per reference count, from the highest to two, and *)
(* down to the first node of at least that count.  `misplaced` stands for  *)
(* the assertion that a node reached is of exactly that count.             *)
(***************************************************************************)
RECURSIVE VisitNode(_, _, _, _, _)
VisitNode(b, refs, count, visited, id) ==
    LET e == Expr(b, id)
    IN  IF id \in Range(visited.order) \/ ~IsBinOp(e) THEN visited
        ELSE IF refs[id] < count
        THEN VisitNode(b, refs, count, VisitNode(b, refs, count, visited, e.lhs), e.rhs)
        ELSE [order |-> Append(visited.order, id),
              misplaced |-> visited.misplaced \/ refs[id] # count]

\* wrong: begins with the lowest count
CountsAscending(refs) == S!SetToSortSeq({c \in Range(refs) : c > 1}, <)
CountsInOrder(refs) == S!SetToSortSeq({c \in Range(refs) : c > 1}, >)

SharedNodes(b, roots) ==
    LET refs == RefCounts(b, roots)
        visit_all(visited, count) ==
            S!FoldLeft(LAMBDA v, id : VisitNode(b, refs, count, v, id), visited, roots)
    IN  S!FoldLeft(visit_all, [order |-> <<>>, misplaced |-> FALSE], CountsInOrder(refs))

\* The partition of a section's constraints.
MainFirst(b, roots) ==
    S!SelectSeq(roots, LAMBDA id : EvaluatesToBaseElement(b, id))
        \o S!SelectSeq(roots, LAMBDA id : ~EvaluatesToBaseElement(b, id))

CanGenerate(b, roots) ==
    /\ HasUniqueIds(b, roots)
    /\ \A i \in DOMAIN roots : Degree(b, roots[i]) >= 1
    /\ ~SharedNodes(b, roots).misplaced
------------------------------------------------------------------------------
(* RustBackend. *)

RECURSIVE RustNode(_, _, _)
RustNode(b, scope, id) ==
    LET e == Expr(b, id)
    IN  IF id \in scope THEN [node |-> id]
        ELSE IF ~IsBinOp(e) THEN e
        ELSE [op |-> e.op, lhs |-> RustNode(b, scope, e.lhs), rhs |-> RustNode(b, scope, e.rhs)]

RustCode(b, roots) ==
    LET shared == SharedNodes(b, roots).order
        constraint_order == MainFirst(b, roots)
        scope(k) == Range(SubSeq(shared, 1, k))
    IN  [bindings |-> [k \in DOMAIN shared |->
                          [node |-> shared[k], code |-> RustNode(b, scope(k - 1), shared[k])]],
         values |-> [i \in DOMAIN constraint_order |->
                        RustNode(b, scope(Len(shared)), constraint_order[i])]]

\* What the compiled code computes, variables being a function from nodes to values.
RECURSIVE ValueOfCode(_, _, _)
ValueOfCode(code, variables, point) ==
    IF "node" \in DOMAIN code THEN variables[code.node]
    ELSE IF IsBinOp(code)
    THEN Operation(code.op, ValueOfCode(code.lhs, variables, point),
                            ValueOfCode(code.rhs, variables, point))
    ELSE LeafValue(code, point)

RunRust(code, point) ==
    LET bind(variables, k) ==
            [n \in DOMAIN variables \cup {code.bindings[k].node} |->
                IF n \in DOMAIN variables THEN variables[n]
                ELSE ValueOfCode(code.bindings[k].code, variables, point)]
        variables == S!FoldLeft(bind, <<>>, [k \in DOMAIN code.bindings |-> k])
    IN  [i \in DOMAIN code.values |-> ValueOfCode(code.values[i], variables, point)]
------------------------------------------------------------------------------
(* TasmBackend. *)

Push(word) == <<[op |-> "push", word |-> word]>>
PushAddress(list, offset) == <<[op |-> "push", list |-> list, word |-> offset]>>
WithArg(op, arg) == <<[op |-> op, arg |-> arg]>>
NoArg(op) == <<[op |-> op]>>

ReadOffset(index) == index * ExtensionDegree + ExtensionDegree - 1
ReadElement == WithArg("read_mem", ExtensionDegree) \o WithArg("pop", 1)
LoadFromList(list, index) == PushAddress(list, ReadOffset(index)) \o ReadElement
LoadFromPointedToList(list, index) ==
    PushAddress(list, 0) \o WithArg("read_mem", 1) \o WithArg("pop", 1)
        \o WithArg("addi", ReadOffset(index)) \o ReadElement
StoreElement(index) ==
    PushAddress("page", index * ExtensionDegree) \o WithArg("write_mem", ExtensionDegree)
        \o WithArg("pop", 1)

ListOf(i) == IF i.main THEN (IF i.current THEN "current_main" ELSE "next_main")
                       ELSE (IF i.current THEN "current_aux" ELSE "next_aux")

LoadLeaf(e, is_static) ==
    IF IsBConst(e) THEN Push(e.bfe)
    ELSE IF IsXConst(e) THEN
        S!FlattenSeq([k \in 1 .. ExtensionDegree |-> Push(e.xfe[ExtensionDegree + 1 - k])])
    ELSE IF IsInput(e) THEN
        IF is_static THEN LoadFromList(ListOf(e.input), e.input.column)
                     ELSE LoadFromPointedToList(ListOf(e.input), e.input.column)
    ELSE LoadFromList("challenges", e.challenge)

\* Cheaper instructions where one operand is a constant of the base field.
RECURSIVE TasmNode(_, _, _, _)
TasmNode(b, is_static, scope, id) ==
    LET e == Expr(b, id)
        lhs == TasmNode(b, is_static, scope, e.lhs)
        rhs == TasmNode(b, is_static, scope, e.rhs)
        l == Expr(b, e.lhs)
        r == Expr(b, e.rhs)
    IN  IF id \in scope THEN LoadFromList("page", id)
        ELSE IF ~IsBinOp(e) THEN LoadLeaf(e, is_static)
        ELSE IF ~IsBConst(l) /\ ~IsBConst(r)
        THEN lhs \o rhs \o NoArg(IF e.op = "add" THEN "xx_add" ELSE "xx_mul")
        ELSE IF e.op = "add" THEN
            IF IsBConst(r) THEN lhs \o WithArg("addi", r.bfe) ELSE rhs \o WithArg("addi", l.bfe)
        ELSE (IF IsBConst(r) THEN lhs \o rhs ELSE rhs \o lhs) \o NoArg("xb_mul")

NewTasmBackend(is_static) ==
    [is_static |-> is_static, scope |-> {}, elements_written |-> 0, code |-> <<>>]

(***************************************************************************)
(* Code that stores the shared nodes and then the constraints, by a        *)
(* backend to which the nodes `stored` are in memory already.              *)
(***************************************************************************)
StoringNodesAndConstraints(backend, stored, b, roots) ==
    LET shared == S!SelectSeq(SharedNodes(b, roots).order, LAMBDA id : id \notin stored)
        in_order == MainFirst(b, roots)
        scope(k) == stored \cup Range(SubSeq(shared, 1, k))
        evaluate(k, id) == TasmNode(b, backend.is_static, scope(k), id)
        output_index(i) == OutArrayOffset + backend.elements_written + i - 1
    IN  [backend EXCEPT
            !.scope = scope(Len(shared)),
            !.elements_written = @ + Len(roots),
            !.code = @
                \o S!FlattenSeq([k \in DOMAIN shared |->
                       evaluate(k - 1, shared[k]) \o StoreElement(shared[k])])
                \o S!FlattenSeq([i \in DOMAIN in_order |->
                       evaluate(Len(shared), in_order[i]) \o StoreElement(output_index(i))])]

\* wrong: takes nodes that an earlier section stored for this section's
TokenizeKeepingScope(backend, b, roots) ==
    StoringNodesAndConstraints(backend, backend.scope, b, roots)
Tokenize(backend, b, roots) == StoringNodesAndConstraints(backend, {}, b, roots)

\* The dynamic version first moves its arguments to the start of the free page.
WriteRowPointersToRam ==
    S!FlattenSeq([k \in 1 .. 4 |->
        PushAddress(<<"next_aux", "next_main", "current_aux", "current_main">>[k], 0)
            \o WithArg("write_mem", 1) \o WithArg("pop", 1)])
PrepareReturnValues == PushAddress("page", OutArrayOffset * ExtensionDegree)
------------------------------------------------------------------------------
CodegenInit ==
    /\ LoweringInit
    /\ generating = 1
    /\ failed = FALSE
    /\ rust = [s \in Section |-> [bindings |-> <<>>, values |-> <<>>]]
    /\ tasm = [static |-> NewTasmBackend(TRUE),
               dynamic |-> [NewTasmBackend(FALSE) EXCEPT !.code = WriteRowPointersToRam]]

Lower == LoweringNext /\ UNCHANGED <<generating, failed, rust, tasm>>

GenerateSection ==
    /\ IsLowered /\ generating <= 4 /\ ~failed
    /\ LET s == Sections[generating]
           b == builder[s]
           roots == Combined(s)
           generated(backend) == Tokenize(backend, b, roots)
       IN  IF CanGenerate(b, roots)
           THEN /\ rust' = [rust EXCEPT ![s] = RustCode(b, roots)]
                /\ tasm' = [tasm EXCEPT !.static = generated(@), !.dynamic = generated(@)]
                /\ generating' = generating + 1
                /\ UNCHANGED failed
           ELSE failed' = TRUE /\ UNCHANGED <<generating, rust, tasm>>
    /\ UNCHANGED loweringVars

CodegenNext == Lower \/ GenerateSection
CodegenSpec == CodegenInit /\ [][CodegenNext]_codegenVars
------------------------------------------------------------------------------
(* Running Triton assembly. *)

Drop(n, s) == SubSeq(s, n + 1, Len(s))
TopElement(s) == SubSeq(s, 1, ExtensionDegree)

\* A machine is a record of stack, RAM and the addresses written to.
Execute(m, i, address) ==
    LET d == ExtensionDegree
        s == m.stack
        word == IF "list" \in DOMAIN i THEN address[i.list] + i.word ELSE i.word
        with_stack(stack) == [m EXCEPT !.stack = stack]
        written == {s[1] + j : j \in 0 .. (i.arg - 1)}
    IN  CASE i.op = "push" -> with_stack(<<word>> \o s)
          [] i.op = "pop" -> with_stack(Drop(i.arg, s))
          [] i.op = "addi" -> with_stack(<<Plus(s[1], i.arg)>> \o Tail(s))
          [] i.op = "read_mem" ->
                 with_stack(<<s[1] - i.arg>>
                     \o [j \in 1 .. i.arg |-> m.ram[s[1] - i.arg + j]] \o Tail(s))
          [] i.op = "write_mem" ->
                 [stack |-> <<s[1] + i.arg>> \o Drop(i.arg + 1, s),
                  ram |-> FoldSet(LAMBDA p, ram : [ram EXCEPT ![p] = s[p - s[1] + 2]],
                                  m.ram, written),
                  written |-> m.written \cup written]
          [] i.op = "xx_add" ->
                 with_stack(XPlus(TopElement(s), TopElement(Drop(d, s))) \o Drop(2 * d, s))
          [] i.op = "xx_mul" ->
                 with_stack(XMul(TopElement(s), TopElement(Drop(d, s))) \o Drop(2 * d, s))
          [] i.op = "xb_mul" ->
                 with_stack(XMul(Lift(s[1]), TopElement(Tail(s))) \o Drop(d + 1, s))

Page == ArrayAddress["page"] .. (ArrayAddress["page"] + MemPageSize - 1)
InputLists == {"current_main", "current_aux", "next_main", "next_aux", "challenges"}
RamOfList(elements, start) ==
    [a \in start .. (start + ExtensionDegree * Len(elements) - 1) |->
        elements[(a - start) \div ExtensionDegree + 1][((a - start) % ExtensionDegree) + 1]]
\* The page starts as zeros, like all of RAM.
RamOf(point) ==
    LET rams == {RamOfList(point[l], ArrayAddress[l]) : l \in InputLists}
        zeros == [p \in Page |-> 0]
    IN  FoldSet(LAMBDA r, ram : r @@ ram, zeros, rams)

StackedRowPointers ==
    <<ArrayAddress["next_aux"], ArrayAddress["next_main"],
      ArrayAddress["current_aux"], ArrayAddress["current_main"]>>
\* The dynamic version keeps the pointers at the start of the free page.
DynamicAddress ==
    [ArrayAddress EXCEPT
        !.page = @ + 4,
        !.current_main = ArrayAddress["page"], !.current_aux = ArrayAddress["page"] + 1,
        !.next_main = ArrayAddress["page"] + 2, !.next_aux = ArrayAddress["page"] + 3]

RECURSIVE ExecuteFrom(_, _, _, _)
ExecuteFrom(m, code, n, address) ==
    IF n > Len(code) THEN m
    ELSE ExecuteFrom(Execute(m, code[n], address), code, n + 1, address)

RunTasm(backend, point) ==
    LET address == IF backend.is_static THEN ArrayAddress ELSE DynamicAddress
        start == [stack |-> IF backend.is_static THEN <<>> ELSE StackedRowPointers,
                  ram |-> RamOf(point), written |-> {}]
    IN  ExecuteFrom(start, backend.code \o PrepareReturnValues, 1, address)

\* The elements of the array to which the code returns a pointer.
Evaluated(m, n) ==
    [i \in 1 .. n |-> [k \in 1 .. ExtensionDegree |->
        m.ram[m.stack[1] + (i - 1) * ExtensionDegree + k - 1]]]
------------------------------------------------------------------------------
\* Constraints are evaluated in arbitrary rows, out of the domain of the trace.
OutOfDomainPoint ==
    LET main(name) == OutOfDomainRow(name, MainSectionStart("term") + Len(main_rules["term"]))
        aux(name) == OutOfDomainRow(name, AuxSectionStart("term") + Len(aux_rules["term"]))
    IN  [current_main |-> main(1), next_main |-> main(2),
         current_aux |-> aux(3), next_aux |-> aux(4),
         challenges |-> (CHOOSE t \in Tables : TRUE).challenges]

SectionValues(s, point) ==
    LET in_order == MainFirst(builder[s], Combined(s))
    IN  [i \in DOMAIN in_order |-> Evaluate(builder[s], in_order[i], point)]

(***************************************************************************)
(* Prover and verifier evaluate the same constraints in the same order:    *)
(* the Rust code of every section, and both versions of the assembly,      *)
(* yield the values of the section's circuits, main constraints first.     *)
(* The assembly leaves nothing but the result's address on the stack and   *)
(* writes to its page of memory only.  No node is read that is bound or    *)
(* stored later, or was stored for another section.                        *)
(***************************************************************************)
GeneratedCodeEvaluatesConstraints ==
    generating = 5 =>
        LET point == OutOfDomainPoint
            values == S!FlattenSeq([i \in 1 .. 4 |-> SectionValues(Sections[i], point)])
        IN  /\ \A s \in Section : RunRust(rust[s], point) = SectionValues(s, point)
            /\ \A backend \in {tasm.static, tasm.dynamic} :
                   LET m == RunTasm(backend, point) IN
                   /\ Len(m.stack) = 1
                   /\ Evaluated(m, Len(values)) = values
                   /\ m.written \subseteq Page

(***************************************************************************)
(* Code generation fails for no other reason than what the author wrote: a *)
(* constraint that is itself a part of another one, or that is constant.   *)
(* Lowering gives neither identifiers to two constraints nor constants to  *)
(* one.                                                                    *)
(***************************************************************************)
OnlyFaultySourcesFail ==
    failed =>
        LET s == Sections[generating]
            built == BuildAll(source[s])
        IN  \/ ~HasUniqueIds(built.builder, built.constraints)
            \/ \E i \in DOMAIN built.constraints :
                   Degree(built.builder, built.constraints[i]) < 1
==============================================================================
