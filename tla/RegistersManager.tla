--------------------------- MODULE RegistersManager ---------------------------
(***************************************************************************)
(* The members of registers as programs and the operator name them         *)
(* (forsight_registers_manager.cpp).  A target t names a kind, an id, a    *)
(* member and, where the member is one coordinate, the axis; got is what   *)
(* the class answers when the register is read, junk a number that stands  *)
(* for memory nobody initialised.  Values to be written come as sets of at *)
(* most one register, as in RegManagerWrapper.                             *)
(*                                                                         *)
(* The index iRegIdx of a statement is an int (atoi), that of a request    *)
(* too.  It is used for nothing but the calls of the wrapper, and so a     *)
(* target is narrowed once, on its way in: t below names the register that *)
(* the calls reach.                                                        *)
(***************************************************************************)
EXTENDS RegManagerWrapper, TLC

None == resetNoneValue

Narrowed(t) == [t EXCEPT !.id = uint16_t(@)]

JunkPosition(junk) == [a \in Axes |-> junk]

\* A register data variable that was never filled; a std::string is empty.
JunkData(k, junk) ==
  [id |-> junk, comment |-> <<"junk">>,
   value |-> CASE k = "PR" -> [type |-> junk, pose |-> JunkPosition(junk),
                               joint |-> JunkPosition(junk)]
               [] k = "HR" -> JunkPosition(junk)
               [] k = "SR" -> <<>>
               [] OTHER -> junk]

(***************************************************************************)
(* get_register.                                                           *)
(***************************************************************************)
ReadPrPose(t, got, junk) ==
  LET p == getPosePr(got, JunkPosition(junk)) IN
  IF t.member = "pose" THEN setPoseValue(None, p) ELSE setFloatValue(None, p[t.axis])

ReadPrJoint(t, got, junk) ==
  LET j == getJointPr(got, JunkPosition(junk)) IN
  IF t.member = "joint" THEN setJointValue(None, j) ELSE setFloatValue(None, j[t.axis])

\* pj: both tests ask for a Cartesian position; a joint position is not read.
ReadPrEither(t, got, junk) ==
  LET d == getPr(got, JunkData("PR", junk)) IN
  IF d.value.type = POS_TYPE_CARTESIAN THEN setFloatValue(None, d.value.pose[t.axis]) ELSE None

ReadPr(t, got, junk) ==
  CASE t.member = "" -> setPrRegDataValue(None, getPr(got, JunkData("PR", junk)))
    [] t.member \in {"pose", "x"} -> ReadPrPose(t, got, junk)
    [] t.member \in {"joint", "j"} -> ReadPrJoint(t, got, junk)
    [] t.member = "pj" -> ReadPrEither(t, got, junk)
    [] t.member = "type" -> setFloatValue(None, getTypePr(got, junk))
    [] t.member = "id" -> setFloatValue(None, getIdPr(got, junk))
    [] t.member = "comment" -> setStringValue(None, getCommentPr(got, <<"junk">>))
    [] OTHER -> None

ReadSr(t, got, junk) ==
  CASE t.member = "" -> setSrRegDataValue(None, getSr(got, JunkData("SR", junk)))
    [] t.member = "value" -> setStringValue(None, getValueSr(got, <<>>))
    [] t.member = "id" -> setFloatValue(None, getIdSr(got, junk))
    [] t.member = "comment" -> setStringValue(None, getCommentSr(got, <<"junk">>))
    [] OTHER -> None

ReadR(t, got, junk) ==
  CASE t.member = "" -> setRRegDataValue(None, getR(got, JunkData("R", junk)))
    [] t.member = "value" -> setFloatValue(None, getValueR(got, junk))
    [] t.member = "id" -> setFloatValue(None, getIdR(got, junk))
    [] t.member = "comment" -> setStringValue(None, getCommentR(got, <<"junk">>))
    [] OTHER -> None

ReadMr(t, got, junk) ==
  CASE t.member = "" -> setMrRegDataValue(None, getMr(got, JunkData("MR", junk)))
    [] t.member = "value" -> setFloatValue(None, getValueMr(got, junk))
    [] t.member = "id" -> setFloatValue(None, getIdMr(got, junk))
    [] t.member = "comment" -> setStringValue(None, getCommentMr(got, <<"junk">>))
    [] OTHER -> None

\* id and comment come from the PR register of the same number, pr.
ReadHr(t, got, pr, junk) ==
  CASE t.member = "" -> setHrRegDataValue(None, getHr(got, JunkData("HR", junk)))
    [] t.member = "joint" -> setJointValue(None, getJointHr(got, JunkPosition(junk)))
    [] t.member = "j" -> setFloatValue(None, getJointHr(got, JunkPosition(junk))[t.axis])
    [] t.member = "hj" -> setFloatValue(None, getHr(got, JunkData("HR", junk)).value[t.axis])
    [] t.member = "id" -> setFloatValue(None, getIdPr(pr, junk))
    [] t.member = "comment" -> setStringValue(None, getCommentPr(pr, <<"junk">>))
    [] OTHER -> None

get_register(st, t, junk) ==
  LET got == getReg(st, t.kind, t.id) IN
  CASE t.kind = "PR" -> ReadPr(t, got, junk)
    [] t.kind = "SR" -> ReadSr(t, got, junk)
    [] t.kind = "R" -> ReadR(t, got, junk)
    [] t.kind = "MR" -> ReadMr(t, got, junk)
    [] t.kind = "HR" -> ReadHr(t, got, getReg(st, "PR", t.id), junk)

(***************************************************************************)
(* set_register: the registers passed on when v is assigned to t.  A       *)
(* position may be given as a list of numbers: v and then those of rest.   *)
(***************************************************************************)
Listed(v, rest) == [rest EXCEPT ![1] = getFloatValue(v)]

WritePrPose(t, v, rest, got) ==
  CASE v.type = Float -> setPosePr(got, Listed(v, rest))
    [] v.type = {"POSE"} -> setPosePr(got, v.pose)
    [] OTHER -> {}

IfType(ty, got, d) == IF got.ok /\ got.data.value.type = ty THEN setPr(d) ELSE {}

WritePrX(t, v, got) ==
  IfType(POS_TYPE_CARTESIAN, got, [got.data EXCEPT !.value.pose[t.axis] = getFloatValue(v)])

WritePrJoint(t, v, rest, got) ==
  CASE v.type = Float -> setJointPr(got, Listed(v, rest))
    [] v.type = {"JOINT"} -> setJointPr(got, v.joint)
    [] OTHER -> {}

WritePrJ(t, v, got) ==
  IfType(POS_TYPE_JOINT, got, [got.data EXCEPT !.value.joint[t.axis] = getFloatValue(v)])

WritePrEither(t, v, got) == WritePrX(t, v, got) \cup WritePrJ(t, v, got)

WritePr(t, v, rest, got) ==
  CASE t.member = "" -> setPr(getPrRegDataValue(v))
    [] t.member = "pose" -> WritePrPose(t, v, rest, got)
    [] t.member = "x" -> WritePrX(t, v, got)
    [] t.member = "joint" -> WritePrJoint(t, v, rest, got)
    [] t.member = "j" -> WritePrJ(t, v, got)
    [] t.member = "pj" -> WritePrEither(t, v, got)
    [] t.member = "type" -> setTypePr(got, getFloatValue(v))
    [] t.member = "id" -> setIdPr(got, getFloatValue(v))
    [] t.member = "comment" -> setCommentPr(got, getStringValue(v))
    [] OTHER -> {}

\* sprintf and atof: a number is one token, and only the first token is looked at.
Printed(x) == <<ToString(x)>>

atof(s) ==
  LET numbers == {x \in -MAX_REG_VALUE .. MAX_REG_VALUE : s # <<>> /\ s[1] = ToString(x)}
  IN  IF numbers = {} THEN 0 ELSE CHOOSE x \in numbers : TRUE

\* .value takes the next token of the program, the end of the line by then.  A plain
\* number is not printed.
WriteSr(t, v, got) ==
  CASE t.member = "" /\ v.type = {"STRING"} -> setValueSr(got, t.id, getStringValue(v))
    [] t.member = "" /\ v.type = SrString -> setSr(v.reg, t.id)
    [] t.member = "" /\ v.type \in {RFloat, MrFloat} -> setValueSr(got, t.id, Printed(v.f))
    [] t.member = "value" -> setValueSr(got, t.id, <<"\r">>)
    [] t.member = "id" -> setIdSr(got, t.id, getFloatValue(v))
    [] t.member = "comment" -> setCommentSr(got, getStringValue(v))
    [] OTHER -> {}

WriteR(t, v, got) ==
  CASE t.member = "" /\ v.type \in {Float, MrFloat} -> setValueR(got, t.id, getFloatValue(v))
    [] t.member = "" /\ v.type = RFloat -> setR(v.reg, t.id)
    [] t.member = "" /\ v.type = SrString -> setValueR(got, t.id, atof(getStringValue(v)))
    [] t.member = "value" -> setValueR(got, t.id, getFloatValue(v))
    [] t.member = "id" -> setIdR(got, t.id, getFloatValue(v))
    [] t.member = "comment" -> setCommentR(got, getStringValue(v))
    [] OTHER -> {}

WriteMr(t, v, got) ==
  CASE t.member = "" /\ v.type \in {Float, RFloat} -> setValueMr(got, t.id, getFloatValue(v))
    [] t.member = "" /\ v.type = MrFloat -> setMr(v.reg, t.id)
    [] t.member = "" /\ v.type = SrString -> setValueMr(got, t.id, atof(getStringValue(v)))
    [] t.member = "value" -> setValueMr(got, t.id, getFloatValue(v))
    [] t.member = "id" -> setIdMr(got, t.id, getFloatValue(v))
    [] t.member = "comment" -> setCommentMr(got, getStringValue(v))
    [] OTHER -> {}

WriteHrJoint(t, v, rest, got) ==
  CASE v.type = Float -> setJointHr(got, Listed(v, rest))
    [] v.type = {"JOINT"} -> setJointHr(got, v.joint)
    [] OTHER -> {}

WriteHrJ(t, v, got) ==
  IF got.ok THEN setHr([got.data EXCEPT !.value[t.axis] = getFloatValue(v)]) ELSE {}

\* hrRegDataFake, which stands in for a value that is no HR, is not initialised.
WriteHr(t, v, rest, got, junk) ==
  CASE t.member = "" -> setHr(IF "HR" \in v.type THEN v.reg ELSE JunkData("HR", junk))
    [] t.member = "joint" -> WriteHrJoint(t, v, rest, got)
    [] t.member \in {"j", "hj"} -> WriteHrJ(t, v, got)
    [] t.member = "id" -> setIdHr(got, getFloatValue(v))
    [] t.member = "comment" -> setCommentHr(got, getStringValue(v))
    [] OTHER -> {}

set_register(t, v, rest, got, junk) ==
  CASE t.kind = "PR" -> WritePr(t, v, rest, got)
    [] t.kind = "SR" -> WriteSr(t, v, got)
    [] t.kind = "R" -> WriteR(t, v, got)
    [] t.kind = "MR" -> WriteMr(t, v, got)
    [] t.kind = "HR" -> WriteHr(t, v, rest, got, junk)

(***************************************************************************)
(* The operator's commands carry the member as it is stored.               *)
(***************************************************************************)
forgesight_read_reg(t, got, junk) ==
  LET k == t.kind IN
  CASE t.member = "" -> (CASE k = "PR" -> getPr(got, JunkData(k, junk))
                           [] k = "SR" -> getSr(got, JunkData(k, junk))
                           [] k = "R" -> getR(got, JunkData(k, junk))
                           [] k = "MR" -> getMr(got, JunkData(k, junk))
                           [] k = "HR" -> getHr(got, JunkData(k, junk)))
    [] t.member = "pose" -> getPosePr(got, JunkPosition(junk))
    [] t.member = "joint" -> IF k = "PR" THEN getJointPr(got, JunkPosition(junk))
                             ELSE getJointHr(got, JunkPosition(junk))
    [] t.member = "type" -> getTypePr(got, junk)
    [] t.member = "value" -> (CASE k = "SR" -> getValueSr(got, <<>>)
                                [] k = "R" -> getValueR(got, junk)
                                [] k = "MR" -> getValueMr(got, junk))
    [] t.member = "id" -> (CASE k = "PR" -> getIdPr(got, junk) [] k = "SR" -> getIdSr(got, junk)
                             [] k = "R" -> getIdR(got, junk) [] k = "MR" -> getIdMr(got, junk)
                             [] k = "HR" -> getIdHr(got, junk))
    [] t.member = "comment" -> (CASE k = "PR" -> getCommentPr(got, <<>>)
                                  [] k = "SR" -> getCommentSr(got, <<>>)
                                  [] k = "R" -> getCommentR(got, <<>>)
                                  [] k = "MR" -> getCommentMr(got, <<>>)
                                  [] k = "HR" -> getCommentHr(got, <<>>))

ModPr(t, x, got) ==
  CASE t.member = "" -> setPr(x)
    [] t.member = "pose" -> setPosePr(got, x)
    [] t.member = "joint" -> setJointPr(got, x)
    [] t.member = "type" -> setTypePr(got, x)
    [] t.member = "id" -> setIdPr(got, x)
    [] t.member = "comment" -> setCommentPr(got, x)

ModSr(t, x, got) ==
  CASE t.member = "" -> setSr(x, t.id)
    [] t.member = "value" -> setValueSr(got, t.id, x)
    [] t.member = "id" -> setIdSr(got, t.id, x)
    [] t.member = "comment" -> setCommentSr(got, x)

ModR(t, x, got) ==
  CASE t.member = "" -> setR(x, t.id)
    [] t.member = "value" -> setValueR(got, t.id, x)
    [] t.member = "id" -> setIdR(got, t.id, x)
    [] t.member = "comment" -> setCommentR(got, x)

ModMr(t, x, got) ==
  CASE t.member = "" -> setMr(x, t.id)
    [] t.member = "value" -> setValueMr(got, t.id, x)
    [] t.member = "id" -> setIdMr(got, t.id, x)
    [] t.member = "comment" -> setCommentMr(got, x)

ModHr(t, x, got) ==
  CASE t.member = "" -> setHr(x)
    [] t.member = "joint" -> setJointHr(got, x)
    [] t.member = "id" -> setIdHr(got, x)
    [] t.member = "comment" -> setCommentHr(got, x)

forgesight_mod_reg(t, x, got) ==
  CASE t.kind = "PR" -> ModPr(t, x, got)
    [] t.kind = "SR" -> ModSr(t, x, got)
    [] t.kind = "R" -> ModR(t, x, got)
    [] t.kind = "MR" -> ModMr(t, x, got)
    [] t.kind = "HR" -> ModHr(t, x, got)

forgesight_del_reg(st, t) ==
  CASE t.kind = "PR" -> delPr(st, t.id)
    [] t.kind = "SR" -> delSr(st, t.id)
    [] t.kind = "R" -> delR(st, t.id)
    [] t.kind = "MR" -> delMr(st, t.id)
    [] t.kind = "HR" -> delHr(st, t.id)

=============================================================================
