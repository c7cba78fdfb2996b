---------------------------- MODULE RegisterAccess ----------------------------
(***************************************************************************)
(* Programs and the operator at the registers.  A program assigns          *)
(* expressions of one or two operands to registers (find_var, arith,       *)
(* assign_var); the command loop reads, modifies and deletes registers on  *)
(* request.  Whoever changes one member reads the whole register and       *)
(* writes it back, in two steps, without a lock: another call may come in  *)
(* between.  One write of a class is atomic here; RegStore takes it apart. *)
(***************************************************************************)
EXTENDS RegistersManager, FiniteSets

CONSTANTS
  Programs,
  Statements,      \* what programs execute
  Requests,        \* what the operator asks for
  Contents,        \* the registers a run may start with
  Junk,            \* what uninitialised memory may hold
  Here,            \* the robot's position: pose and joint
  MaxCalls         \* bound: the calls of each actor

(***************************************************************************)
(* What statements, requests and registers are made of.                    *)
(***************************************************************************)
\* What an expression names: any member, the unknown ones too.
IsTarget(t) == t \in [kind : Kinds, id : Int, member : STRING, axis : Axes]

\* The members that requests name.
Stored(k) ==
  CASE k = "PR" -> {"", "pose", "joint", "type", "id", "comment"}
    [] k = "HR" -> {"", "joint", "id", "comment"}
    [] OTHER -> {"", "value", "id", "comment"}

Positions == [Axes -> Int]

Values(k) ==
  CASE k = "PR" -> [type : Int, pose : Positions, joint : Positions]
    [] k = "HR" -> Positions
    [] k = "SR" -> Seq(STRING)
    [] OTHER -> Int

Payloads(t) ==
  CASE t.member = "" -> [id : Int, comment : Seq(STRING), value : Values(t.kind)]
    [] t.member \in {"pose", "joint"} -> Positions
    [] t.member \in {"id", "type"} -> Int
    [] t.member = "comment" -> Seq(STRING)
    [] t.member = "value" -> Values(t.kind)

Plain ==
  [type : {Float, {"STRING"}}, f : Int, str : Seq(STRING), pose : {Zero}, joint : {Zero},
   reg : {NoData}]

IsOperand(o) ==
  \/ o.is = "value" /\ o.v \in Plain
  \/ o.is = "register" /\ IsTarget(o.at)
  \/ o.is \in {"cur_jpos", "cur_pos"}

\* The payload x of a request has one field, named for what it holds.
Payload(x) == x[CHOOSE f \in DOMAIN x : TRUE]

ASSUME ActorsAssumption == "command" \notin Programs

ASSUME StatementsAssumption ==
  \A s \in Statements :
    /\ IsTarget(s.to) /\ IsOperand(s.left) /\ IsOperand(s.right)
    /\ s.op \in {"", "unary", "+", "-", "*", "/", "%", "^"}
    /\ s.rest \in Positions

ASSUME RequestsAssumption ==
  \A r \in Requests :
    /\ IsTarget(r.to)
    /\ r.cmd = "MOD_REG" => r.to.member \in Stored(r.to.kind) /\ Payload(r.x) \in Payloads(r.to)

ASSUME ContentsAssumption ==
  \A s \in Contents :
    /\ s = [k \in Kinds |-> s[k]]
    /\ \A k \in Kinds :
         s[k] \in [Ids -> [is_valid : BOOLEAN, comment : Seq(STRING), value : Values(k)]]
    /\ \A i \in Ids : s["PR"][i].value.type \in {POS_TYPE_CARTESIAN, POS_TYPE_JOINT}

ASSUME MaxCallsAssumption == MaxCalls \in [Programs \cup {"command"} -> Nat]

ASSUME HereAssumption == Here \in [pose : Positions, joint : Positions]

VARIABLES
  st,              \* the registers: kind -> id -> entry and value
  call,            \* what each actor is doing
  calls            \* bound: calls left

vars == <<st, call, calls>>

Actors == Programs \cup {"command"}

Idle == [pc |-> "idle"]

NoAnswer(t) == [ok |-> FALSE, data |-> [id |-> t.id, comment |-> <<>>, value |-> Created(t.kind)]]

Init ==
  /\ st \in Contents
  /\ call = [x \in Actors |-> Idle]
  /\ calls = MaxCalls

(***************************************************************************)
(* Programs.                                                               *)
(***************************************************************************)
find_var(o, junk) ==
  CASE o.is = "value" -> o.v
    [] o.is = "register" -> get_register(st, Narrowed(o.at), junk)
    [] o.is = "cur_jpos" ->
         setPrRegDataWithJointValue(setJointValue(None, Here.joint), Here.joint, junk)
    [] o.is = "cur_pos" ->
         setPrRegDataWithPoseEulerValue(setPoseValue(None, Here.pose), Here.pose, junk)

\* A statement [to, left, op, right, rest]; op is "" when there is one operand.  The
\* left operand is read now, and the sign of it is reversed by unary minus.  The index
\* as it was named is kept for the properties.
BeginStatement(p, s) ==
  /\ call[p] = Idle
  /\ calls[p] > 0
  /\ \E junk \in Junk :
       LET v == find_var(s.left, junk) IN
       call' = [call EXCEPT ![p] =
         [pc |-> IF s.op \in {"", "unary"} THEN "read" ELSE "right", by |-> "assign",
          to |-> Narrowed(s.to), named |-> s.to.id, op |-> s.op, second |-> s.right, rest |-> s.rest, left |-> v, right |-> None,
          acc |-> IF s.op = "unary" THEN calcUnary(v) ELSE v,
          got |-> NoAnswer(Narrowed(s.to)), overtaken |-> FALSE]]
  /\ calls' = [calls EXCEPT ![p] = @ - 1]
  /\ UNCHANGED st

\* Quotients without a rest: elsewhere the code computes a fraction, which integers
\* do not show, or divides by zero.
Exact(o, v, h) ==
  o \in {"/", "%"} =>
    \A x \in {v.f, v.reg.value}, y \in {getFloatValue(h), Operand(h)} :
      y # 0 /\ (o = "/" => x = y * Quotient(x, y))

Numbers(v, h) == IsNumber(v) /\ IsNumber(h)

ReadRight(p) ==
  LET c == call[p] IN
  /\ c.pc = "right"
  /\ \E junk \in Junk :
       LET h == find_var(c.second, junk) IN
       /\ Numbers(c.left, h) => Exact(c.op, c.left, h)
       /\ call' = [call EXCEPT ![p] = [c EXCEPT !.pc = "read", !.right = h,
                                                !.acc = arith(c.op, c.left, h)]]
  /\ UNCHANGED <<st, calls>>

(***************************************************************************)
(* The command loop.  A request is [cmd, to, x] with a payload x.          *)
(***************************************************************************)
ModReg(r) ==
  /\ r.cmd = "MOD_REG"
  /\ call' = [call EXCEPT !["command"] =
       [pc |-> "read", by |-> "modify", to |-> Narrowed(r.to), named |-> r.to.id, x |-> r.x,
        got |-> NoAnswer(Narrowed(r.to)), overtaken |-> FALSE]]
  /\ UNCHANGED st

\* What is sent back: the command loop waits for nobody, the answer is gone.
ReadReg(r) ==
  LET t == Narrowed(r.to) IN
  /\ r.cmd = "READ_REG"
  /\ \E junk \in Junk :
       call' = [call EXCEPT !["command"] =
         [pc |-> "reply", to |-> t,
          reply |-> forgesight_read_reg(t, getReg(st, t.kind, t.id), junk)]]
  /\ UNCHANGED st

\* Whose register changes after it was read has been overtaken.
Overtaken(c, changed) ==
  IF c.pc = "write" /\ <<c.to.kind, c.to.id>> \in changed
  THEN [c EXCEPT !.overtaken = TRUE] ELSE c

ChangedBy(new) ==
  {w \in Kinds \X Ids : new[w[1]][w[2]] # st[w[1]][w[2]]}

DelReg(r) ==
  LET new == forgesight_del_reg(st, Narrowed(r.to)) IN
  /\ r.cmd = "DEL_REG"
  /\ st' = new
  /\ call' = [x \in Actors |-> Overtaken(call[x], ChangedBy(new))]

Request(r) ==
  /\ call["command"].pc \in {"idle", "reply"}
  /\ calls["command"] > 0
  /\ ModReg(r) \/ ReadReg(r) \/ DelReg(r)
  /\ calls' = [calls EXCEPT !["command"] = @ - 1]

(***************************************************************************)
(* Both: the register is read, and what follows from it is written.        *)
(***************************************************************************)
ReadTarget(x) ==
  /\ call[x].pc = "read"
  /\ call' = [call EXCEPT ![x].pc = "write",
                          ![x].got = getReg(st, call[x].to.kind, call[x].to.id)]
  /\ UNCHANGED <<st, calls>>

Passed(c, junk) ==
  IF c.by = "assign" THEN set_register(c.to, c.acc, c.rest, c.got, junk)
  ELSE forgesight_mod_reg(c.to, Payload(c.x), c.got)

WriteTarget(x) ==
  LET c == call[x] IN
  /\ c.pc = "write"
  /\ \E junk \in Junk :
       LET d == Passed(c, junk)
           new == IF d = {} THEN st ELSE Upsert(st, c.to.kind, CHOOSE e \in d : TRUE)
       IN  /\ st' = new
           /\ call' = [y \in Actors |-> IF y = x THEN Idle
                                        ELSE Overtaken(call[y], ChangedBy(new))]
  /\ UNCHANGED calls

Next ==
  \/ \E p \in Programs : (\E s \in Statements : BeginStatement(p, s)) \/ ReadRight(p)
  \/ \E r \in Requests : Request(r)
  \/ \E x \in Actors : ReadTarget(x) \/ WriteTarget(x)

Spec == Init /\ [][Next]_vars

-----------------------------------------------------------------------------
TypeOK ==
  /\ DOMAIN st = Kinds
  /\ \A k \in Kinds : /\ DOMAIN st[k] = Ids
                      /\ \A id \in Ids : st[k][id].is_valid \in BOOLEAN
  /\ \A id \in Ids : /\ st["PR"][id].value.type \in {POS_TYPE_CARTESIAN, POS_TYPE_JOINT}
                     /\ {st["R"][id].value, st["MR"][id].value} \subseteq Int
  /\ \A x \in Actors : call[x].pc \in {"idle", "right", "read", "write", "reply"}
  /\ \A x \in Actors : calls[x] \in 0 .. MaxCalls[x]

\* Steps that write on behalf of x.
Writes(x) == call[x].pc = "write" /\ call'[x].pc = "idle"

\* PR and HR registers go where their own id says, assigned as a whole, renumbered or
\* modified by the operator.
Renumbers(c) == c.to.kind \in {"PR", "HR"} /\ c.to.member \in {"", "id"}

\* A write changes one register at most, of the kind it names: unless it renumbers, the
\* one it names or, when the index does not fit into 16 bits, the one whose number those
\* bits are.
OnlyNamed ==
  \A x \in Actors :
    Writes(x) =>
      \A w \in ChangedBy(st') :
        /\ w[1] = call[x].to.kind
        /\ ~Renumbers(call[x]) => w[2] = call[x].named % Uint16
        /\ \A other \in ChangedBy(st') : other = w

OnlyNamedRegister == [][OnlyNamed]_vars

\* The value of a register with the coordinates that a member names blanked out.
Blank(t, v) ==
  CASE t.member \in {"pose", "x"} /\ t.kind = "PR" ->
         [v EXCEPT !.pose = [a \in Axes |-> IF t.member = "pose" \/ a = t.axis THEN 0 ELSE @[a]]]
    [] t.member \in {"joint", "j"} /\ t.kind = "PR" ->
         [v EXCEPT !.joint = [a \in Axes |-> IF t.member = "joint" \/ a = t.axis THEN 0 ELSE @[a]]]
    [] t.member = "pj" ->
         IF v.type = POS_TYPE_CARTESIAN THEN [v EXCEPT !.pose[t.axis] = 0]
         ELSE [v EXCEPT !.joint[t.axis] = 0]
    [] t.member = "type" -> [v EXCEPT !.type = 0]
    [] t.member \in {"j", "hj"} /\ t.kind = "HR" -> [v EXCEPT ![t.axis] = 0]
    [] t.member = "joint" /\ t.kind = "HR" -> Zero
    [] OTHER -> v

ValueKept(c, new) ==
  \/ c.to.member \in {"", "value"}
  \/ Blank(c.to, new.value) = Blank(c.to, st[c.to.kind][c.to.id].value)

\* What a value is when it was read whole from a register of a kind.
OwnType(k) ==
  CASE k = "R" -> RFloat [] k = "MR" -> MrFloat [] k = "SR" -> SrString [] OTHER -> {}

\* setReg gives a register without a comment one.
CommentKept(c, new) ==
  LET old == st[c.to.kind][c.to.id].comment IN
  \/ c.to.member = "comment"
  \/ c.to.member = "" /\ (c.by = "modify" \/ c.acc.type = OwnType(c.to.kind))
  \/ new.comment = IF old = <<>> THEN <<"EMPTY">> ELSE old

\* Changing one member of a register that is in use keeps the others, unless another
\* call changed the register since it was read: then that change is lost.
Kept ==
  \A x \in Actors :
    LET c == call[x] IN
    /\ Writes(x) /\ ~Renumbers(c) /\ ~c.overtaken
    /\ c.to.id \in Ids /\ st[c.to.kind][c.to.id].is_valid
    => LET new == st'[c.to.kind][c.to.id] IN
       new # st[c.to.kind][c.to.id] =>
         new.is_valid /\ ValueKept(c, new) /\ CommentKept(c, new)

OthersKept == [][Kept]_vars

\* A register that was deleted, or never made, comes into being by being assigned or
\* given a value, not by a change of one of its members; only a call that read it
\* before it was deleted brings it back.
Creates(c) == c.to.member \in {"", "value"}

Revived ==
  \A k \in Kinds, id \in Ids :
    ~st[k][id].is_valid /\ st'[k][id].is_valid =>
      \E x \in Actors : Writes(x) /\ (Creates(call[x]) \/ Renumbers(call[x]) \/ call[x].overtaken)

NoRevival == [][Revived]_vars

\* Members that set_register and get_register understand in the same way: the exceptions
\* are the joint coordinates behind pj, .value of a string, id, and what is read of
\* another class for HR.
Symmetric(t) ==
  /\ t.member # "id"
  /\ t.kind = "SR" => t.member # "value"
  /\ t.kind \in {"PR", "HR"} => t.member # ""
  /\ t.kind = "HR" => t.member # "comment"
  /\ t.member = "pj" => st'[t.kind][t.id].value.type = POS_TYPE_CARTESIAN

\* What reading yields once v has been assigned: to a whole string or number register
\* and to a member.
WholeReading(t, v, w) ==
  CASE t.kind = "SR" -> w.str = IF IsNumber(v) THEN Printed(v.f) ELSE getStringValue(v)
    [] t.kind # "SR" /\ v.type = SrString -> w.f = AsFloat(atof(v.str))
    [] t.kind # "SR" /\ v.type = OwnType(t.kind) -> w.reg.value = v.reg.value
    [] OTHER -> w.f = getFloatValue(v)

SameReading(t, v, rest, w) ==
  CASE t.member = "" -> WholeReading(t, v, w)
    [] t.member \in {"x", "j", "pj", "hj", "type", "value"} -> w.f = getFloatValue(v)
    [] t.member = "comment" -> w.str = getStringValue(v) \/ getStringValue(v) = <<>>
    [] t.member = "pose" -> w.pose = IF v.type = Float THEN Listed(v, rest) ELSE v.pose
    [] t.member = "joint" -> w.joint = IF v.type = Float THEN Listed(v, rest) ELSE v.joint
    [] OTHER -> FALSE

\* A member that was assigned reads back as what was assigned, if the register changed
\* at all: the value may be refused, or its type may not fit.
ReadBack ==
  \A x \in Programs :
    LET c == call[x] IN
    /\ Writes(x) /\ c.to.id \in Ids /\ Symmetric(c.to)
    /\ st'[c.to.kind][c.to.id] # st[c.to.kind][c.to.id]
    => SameReading(c.to, c.acc, c.rest, get_register(st', c.to, 0))

ReadsBack == [][ReadBack]_vars

\* The number that is about to be assigned is one that a float holds, however it was
\* computed: no later rounding changes it.
FloatsAssigned ==
  \A p \in Programs :
    call[p].pc \in {"read", "write"} =>
      LET x == getFloatValue(call[p].acc) IN AsFloat(x) = x

\* Within the exact range, the register that a value carries and the number or string
\* beside it stay the same through arithmetic: an R assigned to an R takes the one, an
\* R assigned to an MR or an SR the other.
Small(v) == {v.f, v.reg.value} \subseteq -FloatLimit .. FloatLimit

CopiesAgree ==
  \A p \in Programs :
    call[p].pc \in {"read", "write"} =>
      LET v == call[p].acc IN
      /\ v.type \in {RFloat, MrFloat} /\ Small(call[p].left) /\ Small(call[p].right)
           /\ v.reg.value \in -FloatLimit .. FloatLimit => v.f = v.reg.value
      /\ v.type = SrString => v.str = v.reg.value
      /\ v.type = PrJoint => v.joint = v.reg.value.joint

=============================================================================
