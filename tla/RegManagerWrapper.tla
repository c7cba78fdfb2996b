-------------------------- MODULE RegManagerWrapper --------------------------
(***************************************************************************)
(* The functions of reg_manager_interface_wrapper.cpp over the registers   *)
(* of all classes: st[kind][id] is an entry with its value.  A function    *)
(* that asks a class is given the class's answer, got.  When it says no a  *)
(* getter leaves its caller's variable alone, whose junk comes back, and   *)
(* a setter of one member, which reads the register, changes it and writes *)
(* it whole, yields what it passes on: a set of at most one register.      *)
(*                                                                         *)
(* Every function takes the register as uint16_t num: an index that does   *)
(* not fit has lost its upper bits when the function begins.  An id or num *)
(* below is what is left of it (uint16_t), a value put into a register's   *)
(* id is an int.                                                           *)
(***************************************************************************)
EXTENDS BaseReg

CONSTANT Uint16             \* how many numbers a uint16_t holds, 2^16 in the code

ASSUME Uint16Assumption == Uint16 \in Nat \ {0}

uint16_t(n) == n % Uint16

(***************************************************************************)
(* The classes behind RegManagerInterface.                                 *)
(***************************************************************************)
Holding(entry, value) == [is_valid |-> entry.is_valid, comment |-> entry.comment, value |-> value]

getReg(st, k, id) ==
  IF id \in Ids /\ st[k][id].is_valid
  THEN [ok |-> TRUE,
        data |-> [id |-> id, comment |-> st[k][id].comment, value |-> st[k][id].value]]
  ELSE [ok |-> FALSE, data |-> [id |-> id, comment |-> <<>>, value |-> Created(k)]]

addReg(st, k, d) ==
  IF isAddInputValid(st[k], d.id) /\ ~OutOfLimit(k, d.value)
  THEN [st EXCEPT ![k][d.id] = Holding(packAddRegData(d.comment), d.value)]
  ELSE st

SetAdmitted(st, k, d) == isDeleteInputValid(st[k], d.id) /\ ~OutOfLimit(k, d.value)

setReg(st, k, d) ==
  [st EXCEPT ![k][d.id] = Holding(packSetRegData(d.comment), d.value)]

deleteReg(st, k, id) ==
  IF isDeleteInputValid(st[k], id)
  THEN [st EXCEPT ![k][id] = Holding(packDeleteRegData, Cleared(k, @.value))]
  ELSE st

\* setXx: set, and add when that fails.
Upsert(st, k, d) == IF SetAdmitted(st, k, d) THEN setReg(st, k, d) ELSE addReg(st, k, d)

Answer(got, x, junk) == IF got.ok THEN x ELSE junk

\* Fault: whether the register could be read is not asked.
ChangedUnasked(got, d) == {d}

Changed(got, d) == IF got.ok THEN {d} ELSE {}

\* A value set in a register that does not exist creates it.
OrNew(got, num, x) ==
  {IF got.ok THEN [got.data EXCEPT !.value = x]
   ELSE [id |-> num, comment |-> <<"Empty">>, value |-> x]}

(***************************************************************************)
(* PR: the register written is the one named in the data.                  *)
(***************************************************************************)
getPr(got, junk) == Answer(got, got.data, junk)
setPr(d) == {d}
delPr(st, num) == deleteReg(st, "PR", num)
getPosePr(got, junk) == Answer(got, got.data.value.pose, junk)
setPosePr(got, p) == Changed(got, [got.data EXCEPT !.value.pose = p])
\* Fault: the other coordinates.
getPoseForJointPr(got, junk) == Answer(got, got.data.value.pose, junk)

getJointPr(got, junk) == Answer(got, got.data.value.joint, junk)
setJointPr(got, j) == Changed(got, [got.data EXCEPT !.value.joint = j])
getTypePr(got, junk) == Answer(got, got.data.value.type, junk)
setTypePr(got, ty) == Changed(got, [got.data EXCEPT !.value.type = ty])
getIdPr(got, junk) == Answer(got, got.data.id, junk)
setIdPr(got, id) == Changed(got, [got.data EXCEPT !.id = id])
getCommentPr(got, junk) == Answer(got, got.data.comment, junk)
setCommentPr(got, c) == Changed(got, [got.data EXCEPT !.comment = c])

(***************************************************************************)
(* SR, R and MR: the register written is the one asked for.                *)
(***************************************************************************)
getSr(got, junk) == Answer(got, got.data, junk)
setSr(d, num) == {[d EXCEPT !.id = num]}
delSr(st, num) == deleteReg(st, "SR", num)
getValueSr(got, junk) == Answer(got, got.data.value, junk)
setValueSr(got, num, s) == OrNew(got, num, s)
getIdSr(got, junk) == Answer(got, got.data.id, junk)
setIdSr(got, num, id) == Changed(got, [[got.data EXCEPT !.id = id] EXCEPT !.id = num])
getCommentSr(got, junk) == Answer(got, got.data.comment, junk)
setCommentSr(got, c) == Changed(got, [got.data EXCEPT !.comment = c])

getR(got, junk) == Answer(got, got.data, junk)
setR(d, num) == {[d EXCEPT !.id = num]}
delR(st, num) == deleteReg(st, "R", num)
getValueR(got, junk) == Answer(got, got.data.value, junk)
setValueR(got, num, x) == OrNew(got, num, x)
getIdR(got, junk) == Answer(got, got.data.id, junk)
\* Fault: the new id decides where the register goes.
setIdRMoves(got, num, id) == Changed(got, [got.data EXCEPT !.id = id])

setIdR(got, num, id) == Changed(got, [[got.data EXCEPT !.id = id] EXCEPT !.id = num])
getCommentR(got, junk) == Answer(got, got.data.comment, junk)
setCommentR(got, c) == Changed(got, [got.data EXCEPT !.comment = c])

getMr(got, junk) == Answer(got, got.data, junk)
setMr(d, num) == {[d EXCEPT !.id = num]}
delMr(st, num) == deleteReg(st, "MR", num)
getValueMr(got, junk) == Answer(got, got.data.value, junk)
setValueMr(got, num, x) == OrNew(got, num, x)
getIdMr(got, junk) == Answer(got, got.data.id, junk)
setIdMr(got, num, id) == Changed(got, [[got.data EXCEPT !.id = id] EXCEPT !.id = num])
getCommentMr(got, junk) == Answer(got, got.data.comment, junk)
\* Fault: the register is not read first.
setCommentMrAlone(got, c) ==
  Changed(got, [id |-> got.data.id, comment |-> c, value |-> Created("MR")])

setCommentMr(got, c) == Changed(got, [got.data EXCEPT !.comment = c])

(***************************************************************************)
(* HR: as PR, with one set of coordinates.                                 *)
(***************************************************************************)
getHr(got, junk) == Answer(got, got.data, junk)
setHr(d) == {d}
delHr(st, num) == deleteReg(st, "HR", num)
getJointHr(got, junk) == Answer(got, got.data.value, junk)
setJointHr(got, j) == Changed(got, [got.data EXCEPT !.value = j])
getIdHr(got, junk) == Answer(got, got.data.id, junk)
setIdHr(got, id) == Changed(got, [got.data EXCEPT !.id = id])
getCommentHr(got, junk) == Answer(got, got.data.comment, junk)
setCommentHr(got, c) == Changed(got, [got.data EXCEPT !.comment = c])

=============================================================================
