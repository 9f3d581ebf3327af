------------------------------- MODULE MCCodegen -------------------------------
(***************************************************************************)
(* Pairs of constraints over two main and two auxiliary columns and a      *)
(* challenge.  Circuits never divide, so that the numbers they compute     *)
(* with need not be a field: here they are the integers modulo 4033.       *)
(***************************************************************************)
EXTENDS Codegen, MCArithmetic, TLC

x == MainTableInput(0)
y == MainTableInput(1)
a == AuxTableInput(0)
NextX == [input |-> Indicator(TRUE, FALSE, 0)]
NextA == [input |-> Indicator(FALSE, FALSE, 1)]
Alpha == [challenge |-> 0]
C(n) == [bfe |-> n % P]
Ext == [xfe |-> <<3, 5>>]
p ++ q == [op |-> "add", lhs |-> p, rhs |-> q]
p -- q == [op |-> "sub", lhs |-> p, rhs |-> q]
p ** q == [op |-> "mul", lhs |-> p, rhs |-> q]

xy == x ** y
SingleRowConstraints ==
    {(x ** x) ** (x ** x),
     ((((x ** x) ** x) ** x) ** x) -- y,
     ((xy ++ C(1)) ** x) ** ((xy ++ C(1)) ** x),
     xy ** (y ** (y ** a)),
     (y ** x) ** (xy ** C(-1)) ++ (C(-1) ** xy),
     (((x ** a) -- Alpha) ** ((x ** a) -- Alpha)) ** (y ++ Ext),
     (C(0) ** x) ++ (C(1) ** (x -- (y ** (y ** y)))),
     (C(0) -- xy) ** ((C(0) -- xy) ** x),
     xy,
     (a ** (a ** Ext)) ** (a ++ C(7)),
     ((C(2) ++ C(3)) ** (x ++ [xfe |-> <<4, 0>>])) -- ([xfe |-> <<1, 0>>] ** x)}

TransitionConstraints ==
    {<<>>,
     <<(NextX -- x) ** (xy ** NextX), NextA -- (a ** (Alpha -- (xy ** NextX)))>>,
     <<((NextA ** a) ** (NextX ** x)) ** NextX, ((NextX ** x) ** y) -- ((NextX ** x) ** (a ** a))>>}

MCSources ==
    {("init" :> <<x -- C(1)>>) @@ ("cons" :> <<c, d>>) @@ ("tran" :> t)
        @@ ("term" :> <<(y ** y) ** (a -- (y ** y))>>) :
        c \in SingleRowConstraints, d \in SingleRowConstraints, t \in TransitionConstraints}

Lifted(row) == [i \in DOMAIN row |-> Lift(row[i])]
MCTables ==
    {[main |-> <<Lifted(<<7, 12>>), Lifted(<<0, 31>>), Lifted(<<1000, 5>>)>>,
      aux |-> <<<< <<2, 9>>, <<14, 3>> >>, << <<77, 1>>, <<6, 0>> >>, << <<5, 5>>, <<8, 21>> >>>>,
      challenges |-> << <<17, 40>> >>]}

MCOutOfDomainRow(name, length) ==
    [i \in 1 .. length |-> <<(97 * i * i + 31 * name) % P, (53 * i + 411 * name + 2) % P>>]

MCArrayAddress ==
    [page |-> 1000, current_main |-> 0, current_aux |-> 100, next_main |-> 200,
     next_aux |-> 300, challenges |-> 400]
==============================================================================
