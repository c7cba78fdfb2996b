--------------------------- MODULE MCRegisterAccess ---------------------------
(***************************************************************************)
(* One program and the operator at two registers of each kind.  Numbers    *)
(* beyond FloatLimit and beyond MAX_REG_VALUE occur, registers that do not *)
(* exist, registers without a comment, and indices that do not fit into a  *)
(* uint16_t (of four numbers here).                                        *)
(***************************************************************************)
EXTENDS RegisterAccess

P(x) == [a \in Axes |-> x]
Used(text, x) == [is_valid |-> TRUE, comment |-> text, value |-> x]
Unused(k) == [is_valid |-> FALSE, comment |-> <<"Not used">>, value |-> Created(k)]

CartesianPos(x, y) == [type |-> POS_TYPE_CARTESIAN, pose |-> P(x), joint |-> P(y)]
JointPos(x, y) == [type |-> POS_TYPE_JOINT, pose |-> P(x), joint |-> P(y)]

MCContents ==
  {[PR |-> <<Used(<<>>, JointPos(1, 2)), Used(<<"p">>, CartesianPos(3, 4))>>,
    SR |-> <<Used(<<"s">>, <<"7", "b">>), Used(<<"s">>, <<"b">>)>>,
    R |-> <<Used(<<"r">>, 9), Used(<<>>, 2)>>,
    MR |-> <<Used(<<"m">>, 6), Unused("MR")>>,
    HR |-> <<Used(<<"h">>, P(1)), Unused("HR")>>],
   [PR |-> <<Used(<<"p">>, CartesianPos(2, 9)), Unused("PR")>>,
    SR |-> <<Used(<<>>, <<"b">>), Unused("SR")>>,
    R |-> <<Used(<<"r">>, 4), Unused("R")>>,
    MR |-> <<Used(<<>>, 9), Used(<<"m">>, 2)>>,
    HR |-> <<Used(<<>>, P(2)), Used(<<"h">>, P(3))>>]}

At(k, i, m) == [kind |-> k, id |-> i, member |-> m, axis |-> 1]
Value(v) == [is |-> "value", v |-> v]
Num(x) == Value(setFloatValue(None, x))
Text(s) == Value(setStringValue(None, s))
Reg(k, i, m) == [is |-> "register", at |-> At(k, i, m)]

Let(to, o) == [to |-> to, left |-> o, op |-> "", right |-> o, rest |-> P(1)]
Compute(to, o, op, h) == [to |-> to, left |-> o, op |-> op, right |-> h, rest |-> P(1)]

Scalars == {"SR", "R", "MR"}

\* Numbers, strings and registers assigned to registers.
Scalar ==
  {Let(At(k, i, ""), o) : k \in Scalars, i \in Ids,
     o \in {Num(5), Num(10), Text(<<"b">>), Reg("R", 1, ""), Reg("MR", 1, ""), Reg("SR", 1, ""),
            Reg("R", 1, "value")}}
  \cup {Let(At(k, 2, "value"), Num(3)) : k \in Scalars}
  \cup {Let(At(k, 1, "comment"), Reg("SR", 1, "comment")) : k \in Kinds}
  \cup {Let(At(k, 1, "id"), Num(2)) : k \in Kinds}
  \cup {Let(At("R", 1, "other"), Num(3)), Let(At("R", 1, ""), Reg("R", 1, "other"))}
  \cup {Let(At(k, i, ""), Reg("R", j, "")) : k \in Scalars, i \in {5, 8}, j \in {2, 6}}
  \cup {Let(At(k, 5, "comment"), Text(<<"b">>)) : k \in Kinds}

\* Members of positions, and positions.
Position ==
  {Let(At("PR", 1, m), Num(x)) : m \in {"x", "j", "pj", "pose", "joint"}, x \in {5, 10}}
  \cup {Let(At("PR", i, "type"), Num(x)) : i \in Ids, x \in 0 .. 2}
  \cup {Let(At("HR", 1, m), Num(x)) : m \in {"j", "hj", "joint"}, x \in {3, 10}}
  \cup {Let(At(k, 2, m), Reg(k, 1, m)) : k \in {"PR", "HR"}, m \in {"", "joint"}}
  \cup {Let(At("PR", 1, "pose"), Reg("PR", 2, "pose")), Let(At("R", 1, ""), Reg("PR", 1, "pj")),
        Let(At("PR", 1, ""), [is |-> "cur_jpos"]), Let(At("PR", 1, ""), [is |-> "cur_pos"])}

Arithmetic ==
  {Compute(At("R", 1, ""), o, op, h) : op \in {"+", "-", "*", "/", "%"},
     o \in {Num(4), Reg("R", 1, ""), Reg("MR", 2, "")}, h \in {Num(2), Reg("R", 2, ""), Reg("MR", 2, "")}}
  \cup {Compute(At("R", 1, ""), o, "^", Num(x)) : o \in {Num(4), Reg("R", 1, "")}, x \in {0, 2}}
  \cup {Compute(At("SR", 2, ""), Reg("SR", 1, ""), op, h) : op \in {"+", "-", "*"},
           h \in {Num(2), Reg("SR", 2, "")}}
  \cup {Compute(At("PR", 1, "joint"), [is |-> "cur_jpos"], op, [is |-> "cur_jpos"]) : op \in {"+", "-"}}
  \cup {Compute(At("MR", 1, ""), o, "unary", o) : o \in {Num(4), Reg("MR", 1, ""), Reg("R", 1, "")}}

MCStatements == Scalar \cup Position \cup Arithmetic

Data(i, text, x) == [id |-> i, comment |-> text, value |-> x]
Mod(t, x) == [cmd |-> "MOD_REG", to |-> t, x |-> x]

MCRequests ==
  {[cmd |-> "DEL_REG", to |-> At(k, 1, "")] : k \in Kinds}
  \cup {[cmd |-> "READ_REG", to |-> At(k, 1, m)] : k \in Kinds, m \in {"", "id", "comment"}}
  \cup {[cmd |-> "READ_REG", to |-> At(k, 1, "value")] : k \in Scalars}
  \cup {[cmd |-> "READ_REG", to |-> At("PR", 1, m)] : m \in {"pose", "joint", "type"}}
  \cup {[cmd |-> "READ_REG", to |-> At("HR", 1, "joint")]}
  \cup {Mod(At(k, 1, "comment"), [text |-> <<"o">>]) : k \in Kinds}
  \cup {Mod(At(k, 1, "id"), [number |-> 2]) : k \in Kinds}
  \cup {Mod(At(k, 5, "comment"), [text |-> <<"o">>]) : k \in Kinds}
  \cup {[cmd |-> c, to |-> At("R", 6, "")] : c \in {"READ_REG", "DEL_REG"}}
  \cup {Mod(At("PR", 1, ""), [PR |-> Data(1, <<"o">>, CartesianPos(0, 0))]), Mod(At("SR", 1, ""), [SR |-> Data(2, <<>>, <<"o">>)]),
        Mod(At("R", 1, ""), [R |-> Data(2, <<"o">>, 1)]), Mod(At("MR", 1, ""), [MR |-> Data(2, <<"o">>, 1)]),
        Mod(At("HR", 1, ""), [HR |-> Data(2, <<"o">>, P(0))]), Mod(At("PR", 1, "pose"), [position |-> P(0)]),
        Mod(At("PR", 1, "joint"), [position |-> P(0)]), Mod(At("PR", 1, "type"), [number |-> 0]), Mod(At("SR", 1, "value"), [text |-> <<"o">>]),
        Mod(At("R", 1, "value"), [number |-> 1]), Mod(At("MR", 1, "value"), [number |-> 1]), Mod(At("HR", 1, "joint"), [position |-> P(0)])}

MCHere == [pose |-> P(1), joint |-> P(2)]

\* Bounds: one statement against one request, and three statements alone.
OneEach == [x \in Actors |-> 1]

=============================================================================
