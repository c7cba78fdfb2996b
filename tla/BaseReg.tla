------------------------------- MODULE BaseReg -------------------------------
(***************************************************************************)
(* What the five register classes share (base_reg.cpp) and where they      *)
(* differ (pr_reg, sr_reg, r_reg, mr_reg, hr_reg .cpp).  A class keeps an  *)
(* entry (valid, comment) and a value for each id; id 0 is never used.     *)
(* The mark is_changed is left out: no command asks for the changes.       *)
(* MAX_REG_VALUE is the largest magnitude the numeric classes take; the    *)
(* extended axes, posture, turns and group of a position, which no         *)
(* statement or command reaches one by one, are left out.                  *)
(***************************************************************************)
EXTENDS EvalValue

CONSTANTS Ids,              \* the register ids, 1 .. MAX_xx_REG_ID in the code
          MAX_REG_VALUE

ASSUME IdsAssumption == Ids \subseteq Nat \ {0}

ASSUME MaxAssumption == MAX_REG_VALUE \in Nat

Kinds == {"PR", "SR", "R", "MR", "HR"}

(***************************************************************************)
(* Entries.                                                                *)
(***************************************************************************)
\* Fault: an id out of range is taken for a free one.
AddInputUnbounded(list, id) == id \in Ids => ~list[id].is_valid

isAddInputValid(list, id) == id \in Ids /\ ~list[id].is_valid

isDeleteInputValid(list, id) == id \in Ids /\ list[id].is_valid

packAddRegData(comment) == [is_valid |-> TRUE, comment |-> comment]

packDeleteRegData == [is_valid |-> FALSE, comment |-> <<"Not used">>]

\* setReg fills in a comment that is empty, addReg does not.
packSetRegData(comment) == packAddRegData(IF comment = <<>> THEN <<"EMPTY">> ELSE comment)

(***************************************************************************)
(* The classes: the values a class rejects, the value of a register of a   *)
(* new file, and the one a deleted register keeps.                         *)
(***************************************************************************)
Beyond(x) == x \notin -MAX_REG_VALUE .. MAX_REG_VALUE

AnyBeyond(p) == \E a \in Axes : Beyond(p[a])

\* Fault: a position of an unknown type passes.
PrOutOfPosLimitOrType(v) ==
  \/ v.type = POS_TYPE_CARTESIAN /\ AnyBeyond(v.pose)
  \/ v.type = POS_TYPE_JOINT /\ AnyBeyond(v.joint)

\* Only the coordinates of the position's own type are looked at.
PrOutOfPosLimit(v) ==
  CASE v.type = POS_TYPE_CARTESIAN -> AnyBeyond(v.pose)
    [] v.type = POS_TYPE_JOINT -> AnyBeyond(v.joint)
    [] OTHER -> TRUE

HrOutOfPosLimit(v) == AnyBeyond(v)

PrReg == [created |-> ZeroPosition, cleared |-> ZeroPosition]
HrReg == [created |-> Zero, cleared |-> Zero]
RReg == [created |-> 0, cleared |-> 0]
MrReg == [created |-> 0, cleared |-> 0]
SrReg == [created |-> <<"empty">>]

OutOfLimit(k, v) ==
  CASE k = "PR" -> PrOutOfPosLimit(v)
    [] k = "HR" -> HrOutOfPosLimit(v)
    [] k \in {"R", "MR"} -> Beyond(v)
    [] k = "SR" -> FALSE

Created(k) ==
  CASE k = "PR" -> PrReg.created [] k = "HR" -> HrReg.created [] k = "R" -> RReg.created
    [] k = "MR" -> MrReg.created [] k = "SR" -> SrReg.created

\* Memory before the file is read: a string is empty then.
Fresh(k) == IF k = "SR" THEN <<>> ELSE Created(k)

\* SrReg::deleteReg calls empty(), which asks and does not clear.
Cleared(k, old) ==
  CASE k = "PR" -> PrReg.cleared [] k = "HR" -> HrReg.cleared [] k = "R" -> RReg.cleared
    [] k = "MR" -> MrReg.cleared [] k = "SR" -> old

=============================================================================
