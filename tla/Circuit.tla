-------------------------------- MODULE Circuit --------------------------------
(***************************************************************************)
(* Constraint circuits: polynomials as a graph of operations in which      *)
(* equal nodes are shared.  A builder is a record                          *)
(*   nodes  every node ever made, an expression by identifier;             *)
(*   known  the identifiers in `all_nodes`, where equal nodes are sought;  *)
(*   root   the node the last operation returned.                          *)
(* An expression is [bfe], [xfe], [challenge] or [input |-> ...] for a     *)
(* leaf, or [op |-> "add" or "mul", lhs, rhs] with identifiers as          *)
(* operands.  Nodes change in place when the degree is lowered, which is   *)
(* why operands are identifiers.  A term is an expression with terms for   *)
(* operands: what the author of a constraint writes down.                  *)
(***************************************************************************)
EXTENDS TwentyFirst, FiniteSets

S == INSTANCE SequencesExt

IsBinOp(e) == "op" \in DOMAIN e
IsBConst(e) == "bfe" \in DOMAIN e
IsXConst(e) == "xfe" \in DOMAIN e
IsInput(e) == "input" \in DOMAIN e
IsConst(e) == IsBConst(e) \/ IsXConst(e)

ConstantValue(e) == IF IsBConst(e) THEN Lift(e.bfe) ELSE e.xfe
IsConstant(e, b) == IsConst(e) /\ ConstantValue(e) = Lift(b)
IsZero(e) == IsConstant(e, 0)
IsOne(e) == IsConstant(e, 1)
IsNegOne(e) == IsConstant(e, P - 1)

(***************************************************************************)
(* InputIndicator: a column of the main or auxiliary table, in the current *)
(* or, for transition constraints, the next row.  Columns count from zero. *)
(***************************************************************************)
Indicator(main, current, column) == [main |-> main, current |-> current, column |-> column]
MainTableInput(column) == [input |-> Indicator(TRUE, TRUE, column)]
AuxTableInput(column) == [input |-> Indicator(FALSE, TRUE, column)]

Operation(op, x, y) == IF op = "add" THEN XPlus(x, y) ELSE XMul(x, y)
ConstantOperation(op, l, r) ==
    LET value == Operation(op, ConstantValue(l), ConstantValue(r))
    IN  IF IsBConst(l) /\ IsBConst(r) THEN [bfe |-> value[1]] ELSE [xfe |-> value]
------------------------------------------------------------------------------
(* Looking at circuits. *)

Expr(b, id) == b.nodes[id]

\* Equality ignores identifiers: two expressions with the same operations and leaves.
RECURSIVE SameExpression(_, _, _)
SameExpression(b, e, f) ==
    IF IsBinOp(e) /\ IsBinOp(f)
    THEN /\ e.op = f.op
         /\ SameExpression(b, Expr(b, e.lhs), Expr(b, f.lhs))
         /\ SameExpression(b, Expr(b, e.rhs), Expr(b, f.rhs))
    ELSE e = f

RECURSIVE Degree(_, _)
Degree(b, id) ==
    LET e == Expr(b, id)
        l == Degree(b, e.lhs)
        r == Degree(b, e.rhs)
        larger == IF l > r THEN l ELSE r
    IN  IF IsZero(e) THEN -1
        ELSE IF ~IsBinOp(e) THEN (IF IsInput(e) THEN 1 ELSE 0)
        ELSE IF e.op = "add" THEN larger
        ELSE IF l <= -1 \/ r <= -1 THEN -1 ELSE l + r

RECURSIVE EvaluatesToBaseElement(_, _)
EvaluatesToBaseElement(b, id) ==
    LET e == Expr(b, id)
    IN  IF IsBinOp(e)
        THEN EvaluatesToBaseElement(b, e.lhs) /\ EvaluatesToBaseElement(b, e.rhs)
        ELSE IsBConst(e) \/ (IsInput(e) /\ e.input.main)

(***************************************************************************)
(* A point is a record of two pairs of rows and the challenges, all        *)
(* extension field elements.  A column that a row lacks reads as zero.     *)
(***************************************************************************)
RowOf(point, i) ==
    IF i.main THEN (IF i.current THEN point.current_main ELSE point.next_main)
              ELSE (IF i.current THEN point.current_aux ELSE point.next_aux)
InputValue(i, point) ==
    LET row == RowOf(point, i)
    IN  IF i.column < Len(row) THEN row[i.column + 1] ELSE XZero

LeafValue(e, point) ==
    IF IsConst(e) THEN ConstantValue(e)
    ELSE IF IsInput(e) THEN InputValue(e.input, point)
    ELSE point.challenges[e.challenge + 1]

RECURSIVE Evaluate(_, _, _)
Evaluate(b, id, point) ==
    LET e == Expr(b, id)
    IN  IF IsBinOp(e)
        THEN Operation(e.op, Evaluate(b, e.lhs, point), Evaluate(b, e.rhs, point))
        ELSE LeafValue(e, point)

\* The nodes below a node, itself included.
RECURSIVE NodesBelow(_, _)
NodesBelow(b, id) ==
    LET e == Expr(b, id)
    IN  {id} \cup IF IsBinOp(e) THEN NodesBelow(b, e.lhs) \cup NodesBelow(b, e.rhs) ELSE {}

NodesOf(b, roots) == UNION {NodesBelow(b, roots[i]) : i \in DOMAIN roots}
------------------------------------------------------------------------------
(* Building circuits. *)

NewBuilder == [nodes |-> <<>>, known |-> {}, root |-> 0]

KnownEqual(b, e) == {id \in b.known : SameExpression(b, Expr(b, id), e)}
Returning(b, id) == [b EXCEPT !.root = id]
\* Identifiers count from one.
WithNewNode(b, e) ==
    LET id == Len(b.nodes) + 1
    IN  [nodes |-> Append(b.nodes, e), known |-> b.known \cup {id}, root |-> id]

(***************************************************************************)
(* Whichever equal node the hash map yields first; EqualNodesAreShared     *)
(* states that there is only one.                                          *)
(***************************************************************************)
FindOrInsert(b, e) ==
    IF KnownEqual(b, e) # {} THEN Returning(b, CHOOSE id \in KnownEqual(b, e) : TRUE)
                             ELSE WithNewNode(b, e)

IsUnliftable(x) == x = Lift(x[1])
MakeLeaf(b, e) ==
    FindOrInsert(b, IF IsXConst(e) /\ IsUnliftable(e.xfe) THEN [bfe |-> e.xfe[1]] ELSE e)

\* wrong: seeks the new node, but not the one with the operands in the other order
BinOpNodeWithoutCommuting(b, op, lhs, rhs) ==
    LET l == Expr(b, lhs)
        r == Expr(b, rhs)
    IN  IF IsConst(l) /\ IsConst(r) THEN MakeLeaf(b, ConstantOperation(op, l, r))
        ELSE FindOrInsert(b, [op |-> op, lhs |-> lhs, rhs |-> rhs])
(***************************************************************************)
(* `binop`: neutral and absorbing operands and constants are folded, then  *)
(* an equal node is sought, with its operands in either order.             *)
(***************************************************************************)
BinOpNode(b, op, lhs, rhs) ==
    LET l == Expr(b, lhs)
        r == Expr(b, rhs)
        commuted == [op |-> op, lhs |-> rhs, rhs |-> lhs]
    IN  CASE op = "add" /\ IsZero(r) -> Returning(b, lhs)
          [] op = "add" /\ ~IsZero(r) /\ IsZero(l) -> Returning(b, rhs)
          [] op = "mul" /\ IsOne(r) -> Returning(b, lhs)
          [] op = "mul" /\ ~IsOne(r) /\ IsOne(l) -> Returning(b, rhs)
          [] op = "mul" /\ ~IsOne(r) /\ ~IsOne(l) /\ IsZero(r) -> Returning(b, rhs)
          [] op = "mul" /\ ~IsOne(r) /\ ~IsOne(l) /\ ~IsZero(r) /\ IsZero(l) -> Returning(b, lhs)
          [] OTHER ->
              IF IsConst(l) /\ IsConst(r) THEN MakeLeaf(b, ConstantOperation(op, l, r))
              ELSE IF KnownEqual(b, commuted) # {} THEN FindOrInsert(b, commuted)
              ELSE FindOrInsert(b, [op |-> op, lhs |-> lhs, rhs |-> rhs])

Negate(b, id) ==
    LET minus_one == MakeLeaf(b, [bfe |-> P - 1])
    IN  BinOpNode(minus_one, "mul", minus_one.root, id)
Subtract(b, lhs, rhs) ==
    LET negated == Negate(b, rhs) IN BinOpNode(negated, "add", lhs, negated.root)

\* What a constraint's author does: operations on what operations returned.
RECURSIVE Build(_, _)
Build(b, term) ==
    IF ~IsBinOp(term) THEN MakeLeaf(b, term)
    ELSE LET left == Build(b, term.lhs)
             right == Build(left, term.rhs)
         IN  IF term.op = "sub" THEN Subtract(right, left.root, right.root)
                                ELSE BinOpNode(right, term.op, left.root, right.root)

\* What the author means: the same operations on values.
RECURSIVE ValueOfTerm(_, _)
ValueOfTerm(term, point) ==
    LET l == ValueOfTerm(term.lhs, point)
        r == ValueOfTerm(term.rhs, point)
    IN  IF ~IsBinOp(term) THEN LeafValue(term, point)
        ELSE IF term.op = "sub" THEN XPlus(l, XMul(Lift(P - 1), r))
        ELSE Operation(term.op, l, r)

\* All constraints of a section, built one after the other.
BuildAll(terms) ==
    S!FoldLeft(LAMBDA built, term :
                   LET b == Build(built.builder, term)
                   IN  [builder |-> b, constraints |-> Append(built.constraints, b.root)],
               [builder |-> NewBuilder, constraints |-> <<>>], terms)
==============================================================================
