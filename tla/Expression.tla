------------------------------ MODULE Expression ------------------------------
(***************************************************************************)
(* How expressions are read: get_exp and the levels below it               *)
(* (forsight_basint.cpp).  A reading p holds the text ts that begins with  *)
(* the token read last, the variable v a level fills, the condition b and  *)
(* whether an error was reported.  A level is called with the first token  *)
(* of its operand read and returns with the first token behind it read.    *)
(* Variables stand in the text as the values find_var yields; function     *)
(* calls, which fill v as numbers do, are left out.                        *)
(***************************************************************************)
EXTENDS ExpressionTree

CONSTANTS Trees, Conditions    \* the expressions and conditions a run reads

VARIABLES
  doing,                       \* "assign" or "decide"
  tree, got                    \* what is read, and what came of it

vars == <<doing, tree, got>>

Eol == [is |-> "eol"]

At(p) == Head(p.ts)

Is(p, ops) == At(p).is = "delimiter" /\ At(p).v \in ops

get_token(p) == IF Len(p.ts) = 1 THEN p ELSE [p EXCEPT !.ts = Tail(@)]

\* The next operand, read into a variable that holds v.
Into(p, v) == [get_token(p) EXCEPT !.v = v]

\* and and or are single characters once they are read: the pointer goes back into
\* the word.
putback(p) ==
  IF Is(p, Logical) THEN [p EXCEPT !.ts = <<[is |-> "torn"]>> \o Tail(@)] ELSE p

RECURSIVE level1(_), level2(_), level3(_), level4(_), level5(_), level6(_), level7(_),
          Terms(_, _), Factors(_, _)

primitive(p) ==
  CASE At(p).is = "number" -> get_token([p EXCEPT !.v = setFloatValue(@, At(p).v)])
    [] At(p).is = "variable" -> get_token([p EXCEPT !.v = At(p).v])
    [] OTHER -> [p EXCEPT !.err = TRUE]

Closed(l) == [l EXCEPT !.err = @ \/ ~Is(l, {")"})]

\* Variant: the closing parenthesis is left for the caller.
level7Open(p) == IF Is(p, {"("}) THEN Closed(level1(get_token(p))) ELSE primitive(p)

level7(p) == IF Is(p, {"("}) THEN get_token(Closed(level1(get_token(p)))) ELSE primitive(p)

Signed(l, sign) == IF sign = "-" THEN [l EXCEPT !.v = calcUnary(@)] ELSE l

level6(p) ==
  IF Is(p, {"+", "-"}) THEN Signed(level7(get_token(p)), At(p).v) ELSE level7(p)

\* What is computed of l and the operand h read behind it.
Combined(l, h) == [h EXCEPT !.v = arith(At(l).v, l.v, @)]

\* Variant: the exponent is no further power.
RaisedOnce(l) == IF Is(l, {"^"}) THEN Combined(l, level6(Into(l, resetNoneValue))) ELSE l

Raised(l) == IF Is(l, {"^"}) THEN Combined(l, level5(Into(l, resetNoneValue))) ELSE l

level5(p) == Raised(level6(p))

\* The loops of level4 and level3 read every further operand into the same hold.
NextFactor(l, h) == Factors(Combined(l, h), h.v)

Factors(l, hold) ==
  IF Is(l, Multiplicative) THEN NextFactor(l, level5(Into(l, hold))) ELSE l

level4(p) == Factors(level5(p), resetNoneValue)

NextTerm(l, h) == Terms(Combined(l, h), h.v)

Terms(l, hold) ==
  IF Is(l, Additive) THEN NextTerm(l, level4(Into(l, hold))) ELSE l

level3(p) == Terms(level4(p), resetNoneValue)

\* The condition of the operands is overwritten.
Compared(l, r) ==
  [r EXCEPT !.v = l.v, !.b = Compare(At(l).v, getFloatValue(l.v), getFloatValue(r.v))]

Relation(l) == IF Is(l, Relations) THEN Compared(l, level3(Into(l, resetNoneValue))) ELSE l

level2(p) == Relation(level3(p))

Joined(l, r) == [r EXCEPT !.v = l.v, !.b = IF At(l).v = "and" THEN l.b /\ @ ELSE l.b \/ @]

\* Variant: the second condition replaces the first.
LogicalLast(l) ==
  IF Is(l, Logical) THEN [level2(Into(l, resetNoneValue)) EXCEPT !.v = l.v] ELSE l

\* One and or or; a condition that is no relation counts as true.
LogicalPair(l) ==
  IF Is(l, Logical)
  THEN Joined(l, level2([Into(l, resetNoneValue) EXCEPT !.b = TRUE]))
  ELSE l

level1(p) == LogicalPair(level2(p))

get_exp(ts, b) == putback(level1([ts |-> ts, v |-> resetNoneValue, b |-> b, err |-> FALSE]))

(***************************************************************************)
(* A tree is chosen and its text is read.                                  *)
(***************************************************************************)
Unread == [ts |-> <<>>]

Init ==
  /\ \/ doing = "assign" /\ tree \in Trees
     \/ doing = "decide" /\ tree \in Conditions
  /\ got = Unread

Read(what, b) ==
  /\ doing = what
  /\ got = Unread
  /\ got' = get_exp(Text(tree, 1) \o <<Eol>>, b)
  /\ UNCHANGED <<doing, tree>>

assignment == Read("assign", FALSE)

calc_conditions == Read("decide", TRUE)

Next == assignment \/ calc_conditions

Spec == Init /\ [][Next]_vars

-----------------------------------------------------------------------------
\* The text of an expression or a condition is read to its end, without an error.
ReadWhole == got # Unread => got.ts = <<Eol>> /\ ~got.err

\* The value is that of the tree: operators bind and group as ExpressionTree says.
\* The trees left out are those in which a number is read into a hold that a register
\* was read into before.
MeansItsTree ==
  got # Unread /\ doing = "assign" /\ ~Refilled(tree) => got.v = Meaning(tree)

\* A condition holds when its relations and what joins them say so, whatever the
\* relations compare.
HoldsAsWritten == got # Unread /\ doing = "decide" => got.b = Truth(tree)

\* The comments at level3 and level4: "Add or subtract two terms", "Multiply or divide
\* two factors".
TermsAreAdded == got # Unread /\ doing = "assign" => got.v = Meaning(tree)

=============================================================================
