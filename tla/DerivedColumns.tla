----------------------------- MODULE DerivedColumns -----------------------------
(***************************************************************************)
(* The code that fills the columns which degree lowering introduces, and   *)
(* what lowering has to keep.  All main columns are filled before the      *)
(* auxiliary ones, in either table section by section, and within a        *)
(* section rule by rule on a row that grows by one column at a time.       *)
(***************************************************************************)
EXTENDS DegreeLowering

LOCAL INSTANCE FiniteSetsExt

MainSectionStart(s) ==
    NumMainColumns + MapThenSumSet(LAMBDA t : Len(main_rules[t]), {t \in Section : Before(t, s)})
AuxSectionStart(s) ==
    NumAuxColumns + MapThenSumSet(LAMBDA t : Len(aux_rules[t]), {t \in Section : Before(t, s)})

(***************************************************************************)
(* substitution_rule_to_code accepts "variable + (-1 * expression)" only.  *)
(***************************************************************************)
IsSubstitutionRule(b, rule) ==
    LET e == Expr(b, rule)
    IN  /\ IsBinOp(e) /\ e.op = "add" /\ IsInput(Expr(b, e.lhs))
        /\ LET negated == Expr(b, e.rhs)
           IN  IsBinOp(negated) /\ negated.op = "mul" /\ IsNegOne(Expr(b, negated.lhs))
RuleVariable(b, rule) == Expr(b, Expr(b, rule).lhs)
RuleExpression(b, rule) == Expr(b, Expr(b, rule).rhs).rhs

RulesInOrder(rules) ==
    S!FlattenSeq([i \in 1 .. 4 |->
        [k \in DOMAIN rules[Sections[i]] |->
            [section |-> Sections[i], rule |-> rules[Sections[i]][k]]]])
------------------------------------------------------------------------------
(***************************************************************************)
(* A table is a record of main rows, auxiliary rows and challenges.  Rules *)
(* of transition constraints have no value in the last row, which stays    *)
(* zero.  Values are computed as if all rows that a rule reads were bound, *)
(* see RulesReadRowsInScope.                                               *)
(***************************************************************************)
HasNextRow(t, row) == row < Len(t.main)
PointAt(t, row) ==
    LET next == IF HasNextRow(t, row) THEN row + 1 ELSE row
    IN  [current_main |-> t.main[row], current_aux |-> t.aux[row],
         next_main |-> t.main[next], next_aux |-> t.aux[next], challenges |-> t.challenges]

DerivedValue(t, row, r) ==
    IF r.section = "tran" /\ ~HasNextRow(t, row) THEN XZero
    ELSE Evaluate(builder[r.section], RuleExpression(builder[r.section], r.rule), PointAt(t, row))

WithMainColumn(t, r) ==
    [t EXCEPT !.main = [row \in DOMAIN @ |-> Append(@[row], DerivedValue(t, row, r))]]
WithAuxColumn(t, r) ==
    [t EXCEPT !.aux = [row \in DOMAIN @ |-> Append(@[row], DerivedValue(t, row, r))]]

FilledDerivedColumns(t) ==
    S!FoldLeft(WithAuxColumn, S!FoldLeft(WithMainColumn, t, RulesInOrder(main_rules)),
               RulesInOrder(aux_rules))
------------------------------------------------------------------------------
(***************************************************************************)
(* In the code that fills columns, an input is a variable named for its    *)
(* row; around the rules of a section, closures bind such variables.       *)
(***************************************************************************)
RowName(s, i) ==
    IF s = "tran"
    THEN IF i.main THEN (IF i.current THEN "current_main_row" ELSE "next_main_row")
                   ELSE (IF i.current THEN "current_aux_row" ELSE "next_aux_row")
    ELSE IF i.main THEN "main_row" ELSE "aux_row"

RowsBoundInMainCode(s) ==
    IF s = "tran" THEN {"current_main_row", "next_main_row"} ELSE {"main_row"}
RowsBoundInAuxCode(s) ==
    IF s = "tran"
    THEN {"current_main_row", "next_main_row", "current_aux_row", "next_aux_row"}
    ELSE {"main_table_row", "auxiliary_row"}
------------------------------------------------------------------------------
IsLowered == lowering = 5

InputsOf(b, id) ==
    {Expr(b, n).input : n \in {m \in NodesBelow(b, id) : IsInput(Expr(b, m))}}

\* The row that is being filled ends before the rule's column, the next row with the section.
IsFilledBefore(i, start, k) == i.column < start + (IF i.current THEN k - 1 ELSE 0)

(***************************************************************************)
(* Every rule defines the column at its place, and reads only columns that *)
(* are filled by then; main columns depend on no auxiliary column and no   *)
(* challenge.  Rules change after they are made: a node replaced later may *)
(* be part of an earlier rule, which then reads the later column.  That    *)
(* this never happens rests on which node pick_node_to_substitute chooses. *)
(***************************************************************************)
DerivedColumnsCanBeFilled ==
    \A s \in Section :
        LET b == builder[s] IN
        /\ \A k \in DOMAIN main_rules[s] :
               LET rule == main_rules[s][k] start == MainSectionStart(s) IN
               /\ IsSubstitutionRule(b, rule)
               /\ RuleVariable(b, rule) = MainTableInput(start + k - 1)
               /\ EvaluatesToBaseElement(b, rule)
               /\ \A i \in InputsOf(b, RuleExpression(b, rule)) : IsFilledBefore(i, start, k)
        /\ \A k \in DOMAIN aux_rules[s] :
               LET rule == aux_rules[s][k] start == AuxSectionStart(s) IN
               /\ IsSubstitutionRule(b, rule)
               /\ RuleVariable(b, rule) = AuxTableInput(start + k - 1)
               /\ \A i \in InputsOf(b, RuleExpression(b, rule)) :
                      i.main \/ IsFilledBefore(i, start, k)

(***************************************************************************)
(* On tables whose derived columns are filled, the lowered constraints     *)
(* have the values of the constraints as they were written, and the rules  *)
(* hold.  Simplification, sharing, all substitutions, the numbering of     *)
(* columns across sections and filling take part in this.                  *)
(***************************************************************************)
LoweringPreservesConstraints ==
    IsLowered =>
        \A t \in Tables :
            LET filled == FilledDerivedColumns(t) IN
            \A s \in Section : \A row \in DOMAIN t.main :
                (s = "tran" => HasNextRow(t, row)) =>
                    LET value(id) == Evaluate(builder[s], id, PointAt(filled, row)) IN
                    /\ \A i \in DOMAIN source[s] :
                           value(constraints[s][i]) = ValueOfTerm(source[s][i], PointAt(t, row))
                    /\ \A k \in DOMAIN main_rules[s] : value(main_rules[s][k]) = XZero
                    /\ \A k \in DOMAIN aux_rules[s] : value(aux_rules[s][k]) = XZero

(***************************************************************************)
(* Lowering ends, with constraints and rules of the target degree, and     *)
(* never replaces more nodes than had something to lower: a node of degree *)
(* one can be replaced forever, as the comment in                          *)
(* pick_node_to_substitute says.                                           *)
(***************************************************************************)
LoweringReachesTarget ==
    /\ \A s \in Section :
           LET built == BuildAll(source[s]).builder
           IN  Len(main_rules[s]) + Len(aux_rules[s])
                   <= Cardinality({n \in built.known : Degree(built, n) > 1})
    /\ IsLowered =>
           \A s \in Section :
               MulticircuitDegree(builder[s], constraints[s] \o main_rules[s] \o aux_rules[s])
                   <= target

(***************************************************************************)
(* Equal nodes are one node, also with operands swapped and after nodes    *)
(* were replaced in place.  The builder looks for "an existing expression" *)
(* in a hash map: with two of them it would return either.                 *)
(***************************************************************************)
EqualNodesAreShared ==
    \A s \in Section :
        LET b == builder[s] IN
        \A m, n \in b.known :
            LET e == Expr(b, m)
                f == Expr(b, n)
                swapped == [op |-> f.op, lhs |-> f.rhs, rhs |-> f.lhs]
            IN  m # n => e # f /\ (IsBinOp(f) => e # swapped)

(***************************************************************************)
(* substitutions.rs, generate_degree_lowering_table_code: "Generate code   *)
(* that evaluates all substitution rules in order."  Every row that a rule *)
(* names has to be bound where the rule's code is put.                     *)
(***************************************************************************)
RulesReadRowsInScope ==
    \A s \in Section :
        LET rows_of(rule) ==
                {RowName(s, i) : i \in InputsOf(builder[s], RuleExpression(builder[s], rule))}
        IN  /\ \A k \in DOMAIN main_rules[s] : rows_of(main_rules[s][k]) \subseteq RowsBoundInMainCode(s)
            /\ \A k \in DOMAIN aux_rules[s] : rows_of(aux_rules[s][k]) \subseteq RowsBoundInAuxCode(s)
==============================================================================
