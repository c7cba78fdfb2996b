----------------------------- MODULE MCExpression -----------------------------
(***************************************************************************)
(* Expressions of up to four operands, numbers and registers of class R    *)
(* and MR, and conditions of up to three relations.                        *)
(***************************************************************************)
EXTENDS Expression

RValue(x) == setRRegDataValue(resetNoneValue, [id |-> 1, comment |-> <<>>, value |-> x])
MrValue(x) == setMrRegDataValue(resetNoneValue, [id |-> 2, comment |-> <<>>, value |-> x])

Leaves == {Number(2), Number(3), Variable(RValue(5)), Variable(MrValue(7))}

Pairs(L, ops, R) == {Pair(l, op, r) : l \in L, op \in ops, r \in R}

Sums == {"+", "-", "*"}

Small == Leaves \cup {Negative(Number(2)), Negative(Variable(RValue(5)))}
           \cup Pairs(Leaves, Sums, Leaves)
           \cup Pairs({Number(2), Variable(RValue(5))}, {"^"}, {Number(2), Number(3)})

MCTrees ==
  Small \cup {Negative(t) : t \in Small} \cup Pairs(Small, Sums, Small)
  \cup Pairs(Small, {"^"}, {Number(2), Pair(Number(2), "^", Number(2)), Pair(Number(2), "-", Number(1))})

Comparisons == Pairs({Number(2), Variable(RValue(5))}, Relations, {Number(3), Variable(RValue(5))})

Junctions == Pairs(Comparisons, Logical, Comparisons)

Few == Pairs({Number(2)}, {"<", "<<"}, {Number(2), Number(3)})

MCConditions ==
  Pairs(Small, {"<", "="}, Leaves) \cup Junctions \cup Pairs(Few, Logical, Junctions)

=============================================================================
