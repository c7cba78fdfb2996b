------------------------------ MODULE EvalValue ------------------------------
(***************************************************************************)
(* The values of expressions: class eval_value of forsight_eval_type.h.    *)
(* A value has a set of types (the bits of evalType) and one field for     *)
(* each of them; the setters add a type and never take one away.  A value  *)
(* read from a register carries the register itself beside the number or   *)
(* the string, and arithmetic keeps both.  The class has a payload for     *)
(* each kind of register; a value is built by one setter, so one payload,  *)
(* reg, stands for the five.  Numbers are integers, a string or a comment  *)
(* is a sequence of tokens, a position has a coordinate for each member of *)
(* Axes.                                                                   *)
(* TYPE_INT and TYPE_PL have no public setter that a program reaches.      *)
(***************************************************************************)
EXTENDS Integers, Sequences

CONSTANTS Axes,         \* the coordinates of a position: 1 to 6 in the code
          FloatLimit    \* integers up to it are exact in a float: 2^24 in the code

ASSUME AxesAssumption == 1 \in Axes

ASSUME FloatLimitAssumption == FloatLimit \in Nat \ {0}

POS_TYPE_CARTESIAN == 0
POS_TYPE_JOINT == 1

Zero == [a \in Axes |-> 0]

NoData == [id |-> 0, comment |-> <<>>, value |-> 0]

ZeroPosition == [type |-> POS_TYPE_CARTESIAN, pose |-> Zero, joint |-> Zero]

resetNoneValue ==
  [type |-> {}, f |-> -1, str |-> <<>>, pose |-> Zero, joint |-> Zero, reg |-> NoData]

\* fValue is a float: beyond FloatLimit a number is rounded to the nearest multiple
\* of a power of two, to the even one of two.
Spacing(x) ==
  CHOOSE p \in {2^k : k \in 0 .. 10} :
    /\ x \in -FloatLimit * p .. FloatLimit * p
    /\ p > 1 => x \notin -FloatLimit * (p \div 2) .. FloatLimit * (p \div 2)

AsFloat(x) ==
  LET p == Spacing(x)
      up == 2 * (x % p) > p \/ (2 * (x % p) = p /\ (x \div p) % 2 = 1)
  IN  p * (x \div p + IF up THEN 1 ELSE 0)

\* Fault: fValue as a double.
setDoubleValue(v, x) == [v EXCEPT !.type = @ \cup {"FLOAT"}, !.f = x]

setFloatValue(v, x) == [v EXCEPT !.type = @ \cup {"FLOAT"}, !.f = AsFloat(x)]
setStringValue(v, s) == [v EXCEPT !.type = @ \cup {"STRING"}, !.str = s]
setPoseValue(v, p) == [v EXCEPT !.type = @ \cup {"POSE"}, !.pose = p]
setJointValue(v, j) == [v EXCEPT !.type = @ \cup {"JOINT"}, !.joint = j]
setPrRegDataValue(v, d) == [v EXCEPT !.type = @ \cup {"PR"}, !.reg = d]
setHrRegDataValue(v, d) == [v EXCEPT !.type = @ \cup {"HR"}, !.reg = d]

setSrRegDataValue(v, d) ==
  [setStringValue(v, d.value) EXCEPT !.type = @ \cup {"SR"}, !.reg = d]

setRRegDataValue(v, d) ==
  [setFloatValue(v, d.value) EXCEPT !.type = @ \cup {"R"}, !.reg = d]

setMrRegDataValue(v, d) ==
  [setFloatValue(v, d.value) EXCEPT !.type = @ \cup {"MR"}, !.reg = d]

\* The position of the robot becomes a position register without an id: reg_pr is
\* not initialised, junk is what the memory holds.
setPrRegDataWithJointValue(v, j, junk) ==
  [v EXCEPT !.type = @ \cup {"PR"},
            !.reg = [id |-> junk, comment |-> <<"junk">>,
                     value |-> [type |-> POS_TYPE_JOINT, pose |-> Zero, joint |-> j]]]

setPrRegDataWithPoseEulerValue(v, p, junk) ==
  [v EXCEPT !.type = @ \cup {"PR"},
            !.reg = [id |-> junk, comment |-> <<"junk">>,
                     value |-> [type |-> POS_TYPE_CARTESIAN, pose |-> p, joint |-> Zero]]]

getFloatValue(v) == IF "FLOAT" \in v.type THEN v.f ELSE -1
getStringValue(v) == IF "STRING" \in v.type THEN v.str ELSE <<>>

\* A value that is no position register yields the cleared one, whose id is 0.
getPrRegDataValue(v) ==
  IF "PR" \in v.type THEN v.reg ELSE [NoData EXCEPT !.value = ZeroPosition]

(***************************************************************************)
(* Arithmetic.  The left operand decides: its type must be exactly one of  *)
(* a few, the right one's too, and any other pair leaves it unchanged.     *)
(* Quotients are taken of integers: where the code divides floating-point  *)
(* numbers the definitions hold when the division leaves no rest.          *)
(***************************************************************************)
Float == {"FLOAT"}
RFloat == {"R", "FLOAT"}
MrFloat == {"MR", "FLOAT"}
SrString == {"SR", "STRING"}
PrJoint == {"PR", "JOINT"}
PrPose == {"PR", "POSE"}

IsNumber(h) == h.type \in {Float, RFloat, MrFloat}

\* What the branches for registers take from the right operand.
Operand(h) == IF h.type = Float THEN getFloatValue(h) ELSE h.reg.value

\* int division truncates.
Quotient(x, y) ==
  LET q(a, b) == a \div b IN
  IF (x < 0) = (y < 0) THEN q(IF x < 0 THEN -x ELSE x, IF y < 0 THEN -y ELSE y)
  ELSE -q(IF x < 0 THEN -x ELSE x, IF y < 0 THEN -y ELSE y)

AddAxes(p, q, sign) == [a \in Axes |-> p[a] + sign * q[a]]

\* A register operand and its copy in fValue.
Both(v, reg, f) == [v EXCEPT !.reg.value = reg, !.f = AsFloat(f)]

\* Joint positions add coordinate by coordinate, Cartesian ones not at all
\* (calcCartesianPosAdd returns its first argument).
CalcPosition(v, h, sign) ==
  CASE v.type = PrJoint /\ h.type \in {{"JOINT"}, PrJoint} ->
         [v EXCEPT !.joint = AddAxes(@, h.joint, sign),
                   !.reg.value.joint = AddAxes(@, h.joint, sign)]
    [] v.type = PrPose /\ h.type \in {{"POSE"}, PrPose} -> [v EXCEPT !.reg.value.pose = v.pose]
    [] OTHER -> v

calcAdd(v, h) ==
  CASE v.type = Float -> [v EXCEPT !.f = AsFloat(@ + getFloatValue(h))]
    [] v.type \in {RFloat, MrFloat} /\ IsNumber(h) ->
         Both(v, v.reg.value + Operand(h), v.f + Operand(h))
    [] v.type = SrString /\ h.type \in {{"STRING"}, SrString} ->
         [v EXCEPT !.str = @ \o h.str, !.reg.value = @ \o h.str]
    [] OTHER -> CalcPosition(v, h, 1)

Occurs(key, s) == \E i \in 1 .. Len(s) - Len(key) + 1 : SubSeq(s, i, i + Len(key) - 1) = key

calcSubtract(v, h) ==
  CASE v.type = Float -> [v EXCEPT !.f = AsFloat(@ - getFloatValue(h))]
    [] v.type \in {RFloat, MrFloat} /\ IsNumber(h) ->
         Both(v, v.reg.value - Operand(h), v.f - Operand(h))
    [] v.type = SrString /\ h.type \in {{"STRING"}, SrString} ->
         LET s == IF Occurs(h.str, v.str) THEN SubSeq(v.str, 1, Len(v.str) - Len(h.str))
                  ELSE v.str
         IN  [v EXCEPT !.str = s, !.reg.value = s]
    [] OTHER -> CalcPosition(v, h, -1)

\* A string times n: n copies are appended to the first.
Copies(s, n) == [i \in 1 .. Len(s) * (IF n < 0 THEN 1 ELSE n + 1) |-> s[((i - 1) % Len(s)) + 1]]

\* Fault: the register that the value carries is forgotten.
calcMultiplyNumber(v, h) ==
  IF IsNumber(v) /\ IsNumber(h) THEN [v EXCEPT !.f = AsFloat(@ * Operand(h))] ELSE v

calcMultiply(v, h) ==
  CASE v.type = Float -> [v EXCEPT !.f = AsFloat(@ * getFloatValue(h))]
    [] v.type \in {RFloat, MrFloat} /\ IsNumber(h) ->
         Both(v, v.reg.value * Operand(h), v.f * Operand(h))
    [] v.type = SrString /\ h.type = Float ->
         LET s == Copies(v.str, getFloatValue(h)) IN [v EXCEPT !.str = s, !.reg.value = s]
    [] OTHER -> v

calcDivide(v, h) ==
  CASE v.type = Float -> [v EXCEPT !.f = Quotient(@, getFloatValue(h))]
    [] v.type \in {RFloat, MrFloat} /\ IsNumber(h) ->
         Both(v, Quotient(v.reg.value, Operand(h)), Quotient(v.f, Operand(h)))
    [] OTHER -> v

\* Plain numbers: the divisor is asked for as an int, which no value is, and -1
\* answers.
calcMod(v, h) ==
  LET rest == v.reg.value - Quotient(v.reg.value, Operand(h)) * Operand(h) IN
  CASE v.type = Float -> [v EXCEPT !.f = AsFloat(@ - Quotient(@, -1) * getFloatValue(h))]
    [] v.type \in {RFloat, MrFloat} /\ IsNumber(h) -> Both(v, rest, rest)
    [] OTHER -> v

\* The loop multiplies by the exponent.
Power(x, ex) == IF ex = 0 THEN 1 ELSE IF ex < 0 THEN x ELSE x * ex ^ (ex - 1)

calcPower(v, h) ==
  LET ex == getFloatValue(h)
      reg == Power(v.reg.value, ex)
  IN  CASE v.type = Float -> [v EXCEPT !.f = AsFloat(Power(@, ex))]
        [] v.type \in {RFloat, MrFloat} -> Both(v, reg, reg)
        [] OTHER -> v

calcUnary(v) ==
  CASE v.type = Float -> [v EXCEPT !.f = -@]
    [] v.type \in {RFloat, MrFloat} -> Both(v, -v.reg.value, -v.reg.value)
    [] OTHER -> v

arith(o, v, h) ==
  CASE o = "-" -> calcSubtract(v, h)
    [] o = "+" -> calcAdd(v, h)
    [] o = "*" -> calcMultiply(v, h)
    [] o = "/" -> calcDivide(v, h)
    [] o = "%" -> calcMod(v, h)
    [] o = "^" -> calcPower(v, h)

=============================================================================
