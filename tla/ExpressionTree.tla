---------------------------- MODULE ExpressionTree ----------------------------
(***************************************************************************)
(* What an expression means: a tree, its value, and the text it is written *)
(* as.  Operators bind, from the loosest to the tightest: and or, then the *)
(* relations, then + -, then * / %, then ^, then the signs.  + - * / %     *)
(* group to the left, ^ to the right, the others not at all.               *)
(* A tree is a leaf, a sign before a tree, or two trees with an operator.  *)
(***************************************************************************)
EXTENDS EvalValue

Number(x) == [is |-> "number", v |-> x]
Variable(v) == [is |-> "variable", v |-> v]
Delimiter(op) == [is |-> "delimiter", v |-> op]
Negative(t) == [is |-> "sign", t |-> t]
Pair(l, op, r) == [is |-> "pair", l |-> l, op |-> op, r |-> r]

Logical == {"and", "or"}
Relations == {"<", "<=", ">", ">=", "=", "<<"}
Additive == {"+", "-"}
Multiplicative == {"*", "/", "%"}

OperatorLevel(op) ==
  CASE op \in Logical -> 1 [] op \in Relations -> 2 [] op \in Additive -> 3
    [] op \in Multiplicative -> 4 [] op = "^" -> 5

TreeLevel(t) ==
  CASE t.is = "pair" -> OperatorLevel(t.op) [] t.is = "sign" -> 6 [] OTHER -> 7

(***************************************************************************)
(* The meaning: a value, and for a condition whether it holds.             *)
(***************************************************************************)
Compare(op, x, y) ==
  CASE op = "<" -> x < y [] op = "<=" -> x <= y [] op = ">" -> x > y [] op = ">=" -> x >= y
    [] op = "=" -> x = y [] op = "<<" -> x # y

RECURSIVE Meaning(_), Truth(_), Text(_, _), Leftmost(_), Spine(_), Refilled(_)

Meaning(t) ==
  CASE t.is = "number" -> setFloatValue(resetNoneValue, t.v)
    [] t.is = "variable" -> t.v
    [] t.is = "sign" -> calcUnary(Meaning(t.t))
    [] t.is = "pair" -> arith(t.op, Meaning(t.l), Meaning(t.r))

Truth(t) ==
  CASE t.op = "and" -> Truth(t.l) /\ Truth(t.r)
    [] t.op = "or" -> Truth(t.l) \/ Truth(t.r)
    [] OTHER -> Compare(t.op, getFloatValue(Meaning(t.l)), getFloatValue(Meaning(t.r)))

\* The text of a tree where nothing looser than a level may stand.
Text(t, level) ==
  LET own == TreeLevel(t)
      bare == CASE t.is = "sign" -> <<Delimiter("-")>> \o Text(t.t, 7)
                [] t.is = "pair" ->
                     Text(t.l, IF own \in {3, 4} THEN own ELSE own + 1)
                       \o <<Delimiter(t.op)>> \o Text(t.r, IF own = 5 THEN 5 ELSE own + 1)
                [] OTHER -> <<t>>
  IN  IF own < level THEN <<Delimiter("(")>> \o bare \o <<Delimiter(")")>> ELSE bare

(***************************************************************************)
(* Trees the code reads wrongly: a number that is an operand behind two    *)
(* others of the same level, one of which began with a register.           *)
(***************************************************************************)
Leftmost(t) ==
  CASE t.is = "pair" -> Leftmost(t.l) [] t.is = "sign" -> Leftmost(t.t) [] OTHER -> t

\* The operands behind the first one of a sum or product.
Spine(t) ==
  IF t.is = "pair" /\ TreeLevel(t) \in {3, 4}
  THEN {t.r} \cup (IF TreeLevel(t.l) = TreeLevel(t) THEN Spine(t.l) ELSE {})
  ELSE {}

Refilled(t) ==
  CASE t.is = "sign" -> Refilled(t.t)
    [] t.is = "pair" ->
         \/ Refilled(t.l) \/ Refilled(t.r)
         \/ /\ TreeLevel(t) \in {3, 4} /\ TreeLevel(t.l) = TreeLevel(t)
            /\ Leftmost(t.r).is = "number"
            /\ \E s \in Spine(t.l) : Leftmost(s).is = "variable"
    [] OTHER -> FALSE

=============================================================================
