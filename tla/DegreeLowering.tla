----------------------------- MODULE DegreeLowering -----------------------------
(***************************************************************************)
(* The constraint builder up to code generation: the constraints of four   *)
(* sections are built, and each section is lowered to the target degree by *)
(* replacing one node at a time with a new column.  Every replacement      *)
(* changes the circuits, earlier substitution rules included, in place.    *)
(*                                                                         *)
(* Substitution rules serve twice: as further constraints, and as the code *)
(* that fills the new columns, in which a rule is evaluated once and in    *)
(* order.                                                                  *)
(***************************************************************************)
EXTENDS Circuit

CONSTANTS
    SourceConstraints,  \* what authors may write: functions from sections to
                        \*   sequences of terms
    TargetDegrees,      \* DegreeLoweringInfo::target_degree
    NumMainColumns,     \* DegreeLoweringInfo::num_main_cols, before lowering
    NumAuxColumns,      \* DegreeLoweringInfo::num_aux_cols, before lowering
    Tables              \* sample tables: records of main and auxiliary rows and challenges

LOCAL INSTANCE Bags
LOCAL INSTANCE FiniteSetsExt

ASSUME TargetDegreeAssumption == TargetDegrees \subseteq Nat \ {0, 1}

Sections == <<"init", "cons", "tran", "term">>
Section == {Sections[i] : i \in 1 .. 4}
Before(s, t) == \E i, j \in 1 .. 4 : i < j /\ Sections[i] = s /\ Sections[j] = t

VARIABLES
    source,        \* the constraints as written
    target,        \* the target degree
    builder,       \* a builder per section
    constraints,   \* the roots of a section's constraints
    main_rules,    \* the roots of a section's substitution rules, for main columns
    aux_rules,     \* and for auxiliary columns
    lowering       \* the section being lowered, a position in Sections, or 5

loweringVars == <<source, target, builder, constraints, main_rules, aux_rules, lowering>>
------------------------------------------------------------------------------
(* Choosing the node to substitute. *)

MulticircuitDegree(b, roots) ==
    Max({-1} \cup {Degree(b, roots[i]) : i \in DOMAIN roots})

\* All nodes in a circuit, as often as the circuit refers to them.
RECURSIVE AllNodesInCircuit(_, _)
AllNodesInCircuit(b, id) ==
    LET e == Expr(b, id)
    IN  SetToBag({id}) (+)
            IF IsBinOp(e) THEN AllNodesInCircuit(b, e.lhs) (+) AllNodesInCircuit(b, e.rhs)
                          ELSE EmptyBag

(***************************************************************************)
(* Candidates lie below a node of too high a degree and are themselves of  *)
(* a degree that a rule may have.  `unique` compares expressions; nodes of *)
(* a circuit that are equal are one.                                       *)
(***************************************************************************)
HighDegreeNodes(b, roots, t) == {n \in NodesOf(b, roots) : Degree(b, n) > t}
Occurrences(b, roots, t) ==
    FoldSet(LAMBDA n, bag : AllNodesInCircuit(b, n) (+) bag, EmptyBag,
            HighDegreeNodes(b, roots, t))
IsCandidate(b, t, id) == 1 < Degree(b, id) /\ Degree(b, id) <= t

MostBy(nodes, measure) ==
    {n \in nodes : \A m \in nodes : measure[m] <= measure[n]}

\* wrong: prefers nodes of a high degree, and among these the ones that occur often
PickNodeByDegree(b, roots, t) ==
    LET occurrences == Occurrences(b, roots, t)
        candidates == {n \in DOMAIN occurrences : IsCandidate(b, t, n)}
        degree == [n \in candidates |-> Degree(b, n)]
        steepest == MostBy(candidates, degree)
    IN  Min(MostBy(steepest, occurrences))
\* wrong: takes nodes of degree one for candidates as well
PickNodeOfAnyDegree(b, roots, t) ==
    LET occurrences == Occurrences(b, roots, t)
        candidates == {n \in DOMAIN occurrences : Degree(b, n) \in 1 .. t}
        degree == [n \in candidates |-> Degree(b, n)]
        frequent == MostBy(candidates, occurrences)
    IN  Min(MostBy(frequent, degree))
(***************************************************************************)
(* pick_node_to_substitute: the candidate that occurs most often; of those *)
(* the one of the highest degree; of those the oldest.                     *)
(***************************************************************************)
PickNode(b, roots, t) ==
    LET occurrences == Occurrences(b, roots, t)
        candidates == {n \in DOMAIN occurrences : IsCandidate(b, t, n)}
        degree == [n \in candidates |-> Degree(b, n)]
        frequent == MostBy(candidates, occurrences)
    IN  Min(MostBy(frequent, degree))
------------------------------------------------------------------------------
(* Substituting it. *)

\* Nodes that are no longer known, such as `old` itself, keep their operands.
RedirectAllReferences(b, old, new) ==
    LET known == b.known \ {old}
        redirected(id) == IF id = old THEN new ELSE id
    IN  [b EXCEPT
            !.known = known,
            !.nodes = [n \in DOMAIN @ |->
                IF n \in known /\ IsBinOp(@[n])
                THEN [@[n] EXCEPT !.lhs = redirected(@), !.rhs = redirected(@)]
                ELSE @[n]]]

(***************************************************************************)
(* The builder and constraints after a substitution, and its rule, "new    *)
(* variable minus chosen node".                                            *)
(***************************************************************************)
Substituted(b, roots, chosen, new_input) ==
    LET with_variable == MakeLeaf(b, new_input)
        variable == with_variable.root
        redirected == RedirectAllReferences(with_variable, chosen, variable)
    IN  [builder |-> Subtract(redirected, variable, chosen),
         constraints |-> [i \in DOMAIN roots |->
                             IF roots[i] = chosen THEN variable ELSE roots[i]]]

\* wrong: does not count the columns of earlier sections
NumMainColumnsForgetting(s) == NumMainColumns
\* lower_to_target_degree_through_substitutions: the columns before those of a section.
NumMainColumnsBefore(s) ==
    NumMainColumns +
        MapThenSumSet(LAMBDA t : Len(main_rules[t]), {t \in Section : Before(t, s)})
NumAuxColumnsBefore(s) ==
    NumAuxColumns + MapThenSumSet(LAMBDA t : Len(aux_rules[t]), {t \in Section : Before(t, s)})

NewInput(s, is_main) ==
    IF is_main THEN MainTableInput(NumMainColumnsBefore(s) + Len(main_rules[s]))
               ELSE AuxTableInput(NumAuxColumnsBefore(s) + Len(aux_rules[s]))
------------------------------------------------------------------------------
LoweringInit ==
    /\ source \in SourceConstraints
    /\ target \in TargetDegrees
    /\ builder = [s \in Section |-> BuildAll(source[s]).builder]
    /\ constraints = [s \in Section |-> BuildAll(source[s]).constraints]
    /\ main_rules = [s \in Section |-> <<>>]
    /\ aux_rules = [s \in Section |-> <<>>]
    /\ lowering = 1

\* One turn of the loop of lower_to_degree.
Substitute ==
    /\ lowering <= 4
    /\ LET s == Sections[lowering]
           b == builder[s]
           chosen == PickNode(b, constraints[s], target)
           is_main == EvaluatesToBaseElement(b, chosen)
           result == Substituted(b, constraints[s], chosen, NewInput(s, is_main))
           rule == result.builder.root
       IN  /\ MulticircuitDegree(b, constraints[s]) > target
           /\ builder' = [builder EXCEPT ![s] = result.builder]
           /\ constraints' = [constraints EXCEPT ![s] = result.constraints]
           /\ IF EvaluatesToBaseElement(result.builder, rule)
              THEN main_rules' = [main_rules EXCEPT ![s] = Append(@, rule)]
                   /\ UNCHANGED aux_rules
              ELSE aux_rules' = [aux_rules EXCEPT ![s] = Append(@, rule)]
                   /\ UNCHANGED main_rules
    /\ UNCHANGED <<source, target, lowering>>

NextSection ==
    /\ lowering <= 4
    /\ MulticircuitDegree(builder[Sections[lowering]], constraints[Sections[lowering]]) <= target
    /\ lowering' = lowering + 1
    /\ UNCHANGED <<source, target, builder, constraints, main_rules, aux_rules>>

LoweringNext == Substitute \/ NextSection
LoweringSpec == LoweringInit /\ [][LoweringNext]_loweringVars
==============================================================================
