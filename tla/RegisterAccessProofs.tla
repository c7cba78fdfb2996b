------------------------- MODULE RegisterAccessProofs -------------------------
(***************************************************************************)
(* For every set of statements, requests, registers and actors: a call     *)
(* changes the register it names and of that the member it names, unless   *)
(* another call has changed the register since it was read; what a program *)
(* assigns reads back; a value carries the same number beside and inside   *)
(* the register it was read from; and registers hold values of their kind. *)
(***************************************************************************)
EXTENDS RegisterAccess, TLAPS

-----------------------------------------------------------------------------
(***************************************************************************)
(* The shapes of what registers and values hold.                           *)
(***************************************************************************)
IsVector(p) == p = [a \in Axes |-> p[a]]

IsPosition(v) ==
  /\ v = [type |-> v.type, pose |-> v.pose, joint |-> v.joint]
  /\ IsVector(v.pose) /\ IsVector(v.joint)

IsValueOf(k, x) == (k = "PR" => IsPosition(x)) /\ (k = "HR" => IsVector(x))

IsData(d) == d = [id |-> d.id, comment |-> d.comment, value |-> d.value]

IsRegister(k, d) == IsData(d) /\ IsValueOf(k, d.value)

IsEntry(k, e) ==
  /\ e = [is_valid |-> e.is_valid, comment |-> e.comment, value |-> e.value]
  /\ e.is_valid \in BOOLEAN
  /\ IsValueOf(k, e.value)

IsStore(s) ==
  /\ s = [k \in Kinds |-> s[k]]
  /\ \A k \in Kinds : s[k] = [i \in Ids |-> s[k][i]]
  /\ \A k \in Kinds, i \in Ids : IsEntry(k, s[k][i])

IsEval(v) ==
  /\ v = [type |-> v.type, f |-> v.f, str |-> v.str, pose |-> v.pose, joint |-> v.joint,
          reg |-> v.reg]
  /\ IsVector(v.pose) /\ IsVector(v.joint) /\ IsData(v.reg)
  /\ "PR" \in v.type => IsPosition(v.reg.value)
  /\ "HR" \in v.type => IsVector(v.reg.value)

\* A value just read: the number or the string beside a register is the register's.
Copied(v) ==
  /\ v.type \in {RFloat, MrFloat} => v.f = AsFloat(v.reg.value)
  /\ v.type = SrString => v.str = v.reg.value
  /\ v.type = PrJoint => v.joint = v.reg.value.joint

\* CopiesAgree of a value v formed from a and b.
Agree(v, a, b) ==
  /\ v.type \in {RFloat, MrFloat} /\ Small(a) /\ Small(b)
       /\ v.reg.value \in -FloatLimit .. FloatLimit => v.f = v.reg.value
  /\ v.type = SrString => v.str = v.reg.value
  /\ v.type = PrJoint => v.joint = v.reg.value.joint

-----------------------------------------------------------------------------
(***************************************************************************)
(* The invariant.                                                          *)
(***************************************************************************)
IsAnswer(t, got) == got.ok \in BOOLEAN /\ got.data.id = t.id /\ IsRegister(t.kind, got.data)

IsAssign(c) ==
  /\ c.by = "assign"
  /\ c = [pc |-> c.pc, by |-> c.by, to |-> c.to, named |-> c.named, op |-> c.op,
          second |-> c.second, rest |-> c.rest, left |-> c.left, right |-> c.right, acc |-> c.acc, got |-> c.got,
          overtaken |-> c.overtaken]
  /\ IsTarget(c.to) /\ IsVector(c.rest) /\ IsOperand(c.second)
  /\ c.to.id = c.named % Uint16
  /\ IsEval(c.left) /\ Copied(c.left) /\ IsEval(c.acc)
  /\ \/ c.pc = "right" /\ c.op \in {"+", "-", "*", "/", "%", "^"}
     \/ c.pc \in {"read", "write"} /\ Agree(c.acc, c.left, c.right)

IsModify(c) ==
  /\ c.by = "modify"
  /\ c = [pc |-> c.pc, by |-> c.by, to |-> c.to, named |-> c.named, x |-> c.x, got |-> c.got,
          overtaken |-> c.overtaken]
  /\ IsTarget(c.to) /\ c.to.member \in Stored(c.to.kind) /\ Payload(c.x) \in Payloads(c.to)
  /\ c.to.id = c.named % Uint16
  /\ c.pc \in {"read", "write"}

IsCall(x, c) ==
  \/ c = Idle
  \/ x = "command" /\ c.pc = "reply"
  \/ x = "command" /\ IsModify(c)
  \/ x \in Programs /\ IsAssign(c)

\* What was read is still what is there, unless the call has been overtaken.
IsCurrent(s, c) ==
  c.pc = "write" =>
    /\ IsAnswer(c.to, c.got)
    /\ c.overtaken \/ c.got = getReg(s, c.to.kind, c.to.id)

CallInv ==
  /\ call = [x \in Actors |-> call[x]]
  /\ \A x \in Actors : IsCall(x, call[x]) /\ IsCurrent(st, call[x])

AInv == IsStore(st) /\ CallInv

-----------------------------------------------------------------------------
\* A target that was narrowed is a target, with the lower bits of its index.
LEMMA NarrowedIs ==
  ASSUME NEW t, IsTarget(t)
  PROVE  /\ IsTarget(Narrowed(t))
         /\ Narrowed(t).kind = t.kind /\ Narrowed(t).member = t.member
         /\ Narrowed(t).axis = t.axis /\ Narrowed(t).id = t.id % Uint16
<1> DEFINE n == t.id % Uint16
           w == [t EXCEPT !.id = n]
<1>1. t \in [kind : Kinds, id : Int, member : STRING, axis : Axes]
  BY DEF IsTarget
<1>2. t = [kind |-> t.kind, id |-> t.id, member |-> t.member, axis |-> t.axis]
  BY <1>1
<1>3. n \in Int
  BY <1>1, Uint16Assumption
<1>4. Narrowed(t) = w
  BY DEF Narrowed, uint16_t
<1> HIDE DEF n
<1>5. w = [t EXCEPT !.id = n]
  OBVIOUS
<1> HIDE DEF w
<1>6. w = [kind |-> t.kind, id |-> n, member |-> t.member, axis |-> t.axis]
  BY ONLY <1>2, <1>5
<1>7. IsTarget(w)
  BY <1>1, <1>3, <1>6 DEF IsTarget
<1> QED
  BY <1>4, <1>6, <1>7 DEF n

-----------------------------------------------------------------------------
(***************************************************************************)
(* Values.                                                                 *)
(***************************************************************************)
\* The powers of two that Spacing chooses from.
Spacings == {1, 2, 4, 8, 16, 32, 64, 128, 256, 512, 1024}

LEMMA SpacingsAre == {2 ^ k : k \in 0 .. 10} = Spacings
<1>1. 0 .. 10 = {0, 1, 2, 3, 4, 5, 6, 7, 8, 9, 10}
  OBVIOUS
<1>2. /\ 2 ^ 0 = 1 /\ 2 ^ 1 = 2 /\ 2 ^ 2 = 4 /\ 2 ^ 3 = 8 /\ 2 ^ 4 = 16 /\ 2 ^ 5 = 32
      /\ 2 ^ 6 = 64 /\ 2 ^ 7 = 128 /\ 2 ^ 8 = 256 /\ 2 ^ 9 = 512 /\ 2 ^ 10 = 1024
  OBVIOUS
<1> QED
  BY <1>1, <1>2 DEF Spacings

\* The spacing p of numbers is that of x.
Spaces(x, p) ==
  /\ x \in -FloatLimit * p .. FloatLimit * p
  /\ p > 1 => x \notin -FloatLimit * (p \div 2) .. FloatLimit * (p \div 2)

\* Every number in the range modelled has a spacing, the one Spacing chooses.
LEMMA SpacingIs ==
  ASSUME NEW x \in -FloatLimit * 1024 .. FloatLimit * 1024
  PROVE  Spacing(x) \in Spacings /\ Spaces(x, Spacing(x))
<1> DEFINE L == FloatLimit
<1>0. L \in Nat /\ L >= 1 /\ x \in Int
  BY FloatLimitAssumption
<1>1. \E p \in Spacings : Spaces(x, p)
  <2> DEFINE a == IF x < 0 THEN -x ELSE x
  <2>0. a \in Nat /\ a <= L * 1024 /\ \A q \in Int : x \in -L * q .. L * q <=> a <= L * q
    BY <1>0
  <2>1. ASSUME NEW p \in Spacings, a <= L * p, p > 1 => a > L * (p \div 2)
        PROVE  Spaces(x, p)
    <3>1. p \in Int /\ p \div 2 \in Int
      BY DEF Spacings
    <3>2. x \in -L * p .. L * p
      BY <2>0, <2>1, <3>1
    <3>3. p > 1 => x \notin -L * (p \div 2) .. L * (p \div 2)
      <4> SUFFICES ASSUME p > 1, x \in -L * (p \div 2) .. L * (p \div 2) PROVE FALSE
        OBVIOUS
      <4> DEFINE h == p \div 2
      <4>1. h \in Int /\ x \in -L * h .. L * h /\ a > L * h
        BY <2>1, <3>1
      <4> HIDE DEF h
      <4>2. a <= L * h
        BY <2>0, <4>1
      <4>3. L * h \in Int
        BY <1>0, <4>1
      <4> QED
        BY <2>0, <4>1, <4>2, <4>3
    <3> QED
      BY <3>2, <3>3 DEF Spaces
  <2> HIDE DEF a, L
  <2>2. \E p \in Spacings : a <= L * p /\ (p > 1 => a > L * (p \div 2))
    <3>1. /\ 2 \div 2 = 1 /\ 4 \div 2 = 2 /\ 8 \div 2 = 4 /\ 16 \div 2 = 8 /\ 32 \div 2 = 16
          /\ 64 \div 2 = 32 /\ 128 \div 2 = 64 /\ 256 \div 2 = 128 /\ 512 \div 2 = 256
          /\ 1024 \div 2 = 512
      OBVIOUS
    <3>2. CASE a <= L * 1
      BY <3>2 DEF Spacings
    <3>3. CASE a > L * 1 /\ a <= L * 2
      BY <3>1, <3>3 DEF Spacings
    <3>4. CASE a > L * 2 /\ a <= L * 4
      BY <3>1, <3>4 DEF Spacings
    <3>5. CASE a > L * 4 /\ a <= L * 8
      BY <3>1, <3>5 DEF Spacings
    <3>6. CASE a > L * 8 /\ a <= L * 16
      BY <3>1, <3>6 DEF Spacings
    <3>7. CASE a > L * 16 /\ a <= L * 32
      BY <3>1, <3>7 DEF Spacings
    <3>8. CASE a > L * 32 /\ a <= L * 64
      BY <3>1, <3>8 DEF Spacings
    <3>9. CASE a > L * 64 /\ a <= L * 128
      BY <3>1, <3>9 DEF Spacings
    <3>10. CASE a > L * 128 /\ a <= L * 256
      BY <3>1, <3>10 DEF Spacings
    <3>11. CASE a > L * 256 /\ a <= L * 512
      BY <3>1, <3>11 DEF Spacings
    <3>12. CASE a > L * 512 /\ a <= L * 1024
      BY <3>1, <3>12 DEF Spacings
    <3> QED
      BY <1>0, <2>0, <3>2, <3>3, <3>4, <3>5, <3>6, <3>7, <3>8, <3>9, <3>10, <3>11, <3>12
  <2> QED
    BY <2>1, <2>2
<1>2. Spacing(x) = CHOOSE p \in Spacings : Spaces(x, p)
  BY SpacingsAre DEF Spacing, Spaces
<1> QED
  BY <1>1, <1>2

\* Half of a spacing is at least any smaller one.
LEMMA SpacingsDouble ==
  ASSUME NEW p \in Spacings, NEW q \in Spacings
  PROVE  /\ q > p => q > 1 /\ q \div 2 >= p
         /\ q <= p => \E r \in Spacings : p = q * r
         /\ p \in Nat /\ p >= 1 /\ q \div 2 \in Nat
BY DEF Spacings

\* Numbers are as far apart as they are at the next larger power of two, or nearer.
LEMMA SmallerSpacing ==
  ASSUME NEW p \in Spacings, NEW y \in -FloatLimit * p .. FloatLimit * p
  PROVE  \E q, r \in Spacings : Spacing(y) = q /\ p = q * r
<1> DEFINE L == FloatLimit
           q == Spacing(y)
<1>0. L \in Nat /\ L >= 1 /\ y \in Int
  BY FloatLimitAssumption, SpacingsDouble
<1>1. y \in -L * 1024 .. L * 1024
  BY <1>0 DEF Spacings
<1>2. q \in Spacings /\ Spaces(y, q)
  BY <1>1, SpacingIs
<1> HIDE DEF q
<1>3. ~(q > p)
  <2> SUFFICES ASSUME q > p PROVE FALSE
    OBVIOUS
  <2>1. q > 1 /\ q \div 2 >= p /\ q \div 2 \in Nat /\ p \in Nat
    BY <1>2, SpacingsDouble
  <2>2. y \notin -L * (q \div 2) .. L * (q \div 2)
    BY <1>2, <2>1 DEF Spaces
  <2>3. \A h \in Nat : h >= p => L * h >= L * p /\ -L * h <= -L * p
    BY <1>0, <2>1
  <2> QED
    BY <1>0, <2>1, <2>2, <2>3
<1>4. q <= p
  BY <1>2, <1>3, SpacingsDouble
<1> QED
  BY <1>2, <1>4, SpacingsDouble DEF q

\* Multiples of a spacing leave no rest.
LEMMA NoRest ==
  ASSUME NEW q \in Spacings, NEW z \in Int
  PROVE  (q * z) % q = 0 /\ (q * z) \div q = z
BY DEF Spacings

\* Dividing leaves less than the divisor.
LEMMA Division ==
  ASSUME NEW q \in Nat \ {0}, NEW z \in Int,
         NEW n \in Int, n = z \div q, NEW e \in Int, e = z % q
  PROVE  e \in Nat /\ e < q /\ z = q * n + e
OBVIOUS

\* Rounding to a multiple of s stays within the L multiples on either side.
LEMMA RoundingStays ==
  ASSUME NEW s \in Spacings, NEW L \in Nat, NEW n \in Int, NEW e \in Nat, e < s,
         s * n + e >= -L * s, s * n + e <= L * s,
         NEW u \in BOOLEAN, u => e > 0
  PROVE  n + (IF u THEN 1 ELSE 0) \in -L .. L
<1>1. n >= -L /\ n <= L /\ (n = L => e = 0)
  BY DEF Spacings
<1> QED
  BY <1>1

\* What was rounded once is a float: rounding it again changes nothing.
THEOREM RoundedOnce ==
  ASSUME NEW x \in -FloatLimit * 1024 .. FloatLimit * 1024
  PROVE  AsFloat(AsFloat(x)) = AsFloat(x)
<1> DEFINE L == FloatLimit
           p == Spacing(x)
           up == 2 * (x % p) > p \/ (2 * (x % p) = p /\ (x \div p) % 2 = 1)
           m == x \div p + IF up THEN 1 ELSE 0
           y == p * m
<1>0. L \in Nat /\ L >= 1 /\ x \in Int
  BY FloatLimitAssumption
<1>1. p \in Spacings /\ Spaces(x, p)
  BY SpacingIs
<1>2. AsFloat(x) = y
  BY DEF AsFloat
<1>3. m \in Int /\ m >= -L /\ m <= L
  <2>1. p \in Nat /\ p >= 1 /\ x >= -L * p /\ x <= L * p
    BY <1>0, <1>1, SpacingsDouble DEF Spaces
  <2> HIDE DEF p
  <2> DEFINE n == x \div p
             e == x % p
  <2>2. n \in Int /\ e \in Nat /\ e < p /\ x = p * n + e
    <3>1. n \in Int /\ n = x \div p /\ e \in Int /\ e = x % p
      BY <1>0, <2>1
    <3> HIDE DEF n, e
    <3> QED
      BY <1>0, <2>1, <3>1, Division
  <2>3. up \in BOOLEAN /\ (up => e > 0)
    <3>1. up => 2 * e > p \/ 2 * e = p
      OBVIOUS
    <3>2. up \in BOOLEAN
      OBVIOUS
    <3> HIDE DEF n, e, up
    <3>3. e = 0 => ~(2 * e > p) /\ 2 * e # p
      BY <2>1
    <3>4. e = 0 \/ e > 0
      BY <2>2
    <3> QED
      BY <3>1, <3>2, <3>3, <3>4
  <2>4. m = n + IF up THEN 1 ELSE 0
    OBVIOUS
  <2> HIDE DEF p, m, up, n, e, L
  <2>5. n + (IF up THEN 1 ELSE 0) \in -L .. L
    BY <1>0, <1>1, <2>1, <2>2, <2>3, RoundingStays
  <2> QED
    BY <1>0, <2>4, <2>5
<1> HIDE DEF m, up
<1>4. y \in -L * p .. L * p
  BY <1>0, <1>1, <1>3 DEF Spacings
<1> HIDE DEF p
<1>5. PICK q \in Spacings, r \in Spacings : Spacing(y) = q /\ p = q * r
  BY <1>1, <1>4, SmallerSpacing
<1>6. r * m \in Int /\ y = q * (r * m)
  BY <1>3, <1>5 DEF Spacings
<1>7. y % q = 0 /\ y \div q = r * m
  BY <1>6, NoRest
<1> DEFINE z == r * m
<1>8. z \in Int /\ y = q * z /\ y % q = 0 /\ y \div q = z /\ Spacing(y) = q
  BY <1>5, <1>6, <1>7
<1> HIDE DEF z, y
<1>9. AsFloat(y) = y
  <2>1. ~(2 * 0 > q \/ (2 * 0 = q /\ z % 2 = 1))
    BY DEF Spacings
  <2> QED
    BY <1>8, <2>1 DEF AsFloat, Spacings
<1> QED
  BY <1>2, <1>9

\* A float shows a small number as it is.
LEMMA SmallIsExact ==
  ASSUME NEW x \in -FloatLimit .. FloatLimit
  PROVE  AsFloat(x) = x
<1>1. x \in -FloatLimit * 1024 .. FloatLimit * 1024
  BY FloatLimitAssumption
<1>2. Spacing(x) \in Spacings /\ Spaces(x, Spacing(x))
  BY <1>1, SpacingIs
<1>3. \A p \in Spacings : Spaces(x, p) => p = 1
  <2> SUFFICES ASSUME NEW p \in Spacings, Spaces(x, p), p # 1 PROVE FALSE
    OBVIOUS
  <2>1. p \div 2 \in Nat /\ p \div 2 >= 1 /\ p > 1
    BY DEF Spacings
  <2>2. p \div 2 \in Nat =>
          -FloatLimit * (p \div 2) <= -FloatLimit /\ FloatLimit * (p \div 2) >= FloatLimit
    BY FloatLimitAssumption DEF Spacings
  <2> QED
    BY <2>1, <2>2, FloatLimitAssumption DEF Spaces
<1>4. Spacing(x) = 1
  BY <1>2, <1>3
<1> QED
  BY <1>4, FloatLimitAssumption DEF AsFloat

\* What the setters make of nothing.
LEMMA FloatChanged ==
  ASSUME NEW t, NEW y, NEW w, w = [None EXCEPT !.type = @ \cup {t}, !.f = y]
  PROVE  w = [type |-> {t}, f |-> y, str |-> <<>>, pose |-> Zero, joint |-> Zero,
              reg |-> NoData]
BY DEF None, resetNoneValue

\* A string set.
LEMMA StringChanged ==
  ASSUME NEW t, NEW y, NEW w, w = [None EXCEPT !.type = @ \cup {t}, !.str = y]
  PROVE  w = [type |-> {t}, f |-> -1, str |-> y, pose |-> Zero, joint |-> Zero,
              reg |-> NoData]
BY DEF None, resetNoneValue

\* A pose set.
LEMMA PoseChanged ==
  ASSUME NEW t, NEW y, NEW w, w = [None EXCEPT !.type = @ \cup {t}, !.pose = y]
  PROVE  w = [type |-> {t}, f |-> -1, str |-> <<>>, pose |-> y, joint |-> Zero,
              reg |-> NoData]
BY DEF None, resetNoneValue

\* A joint set.
LEMMA JointChanged ==
  ASSUME NEW t, NEW y, NEW w, w = [None EXCEPT !.type = @ \cup {t}, !.joint = y]
  PROVE  w = [type |-> {t}, f |-> -1, str |-> <<>>, pose |-> Zero, joint |-> y,
              reg |-> NoData]
BY DEF None, resetNoneValue

\* A register's data set.
LEMMA RegChanged ==
  ASSUME NEW t, NEW y, NEW w, w = [None EXCEPT !.type = @ \cup {t}, !.reg = y]
  PROVE  w = [type |-> {t}, f |-> -1, str |-> <<>>, pose |-> Zero, joint |-> Zero,
              reg |-> y]
BY DEF None, resetNoneValue

\* What a register is cleared to has the shape of a position.
LEMMA ZeroIsVector == IsVector(Zero) /\ IsPosition(ZeroPosition) /\ IsData(NoData)
BY DEF IsVector, IsPosition, IsData, Zero, ZeroPosition, NoData

\* What setFloatValue, setStringValue, setPoseValue and setJointValue give.
LEMMA ValueSet ==
  ASSUME NEW x
  PROVE  /\ setFloatValue(None, x) =
              [type |-> Float, f |-> AsFloat(x), str |-> <<>>, pose |-> Zero, joint |-> Zero,
               reg |-> NoData]
         /\ setStringValue(None, x) =
              [type |-> {"STRING"}, f |-> -1, str |-> x, pose |-> Zero, joint |-> Zero,
               reg |-> NoData]
         /\ setPoseValue(None, x) =
              [type |-> {"POSE"}, f |-> -1, str |-> <<>>, pose |-> x, joint |-> Zero,
               reg |-> NoData]
         /\ setJointValue(None, x) =
              [type |-> {"JOINT"}, f |-> -1, str |-> <<>>, pose |-> Zero, joint |-> x,
               reg |-> NoData]
<1>1. setFloatValue(None, x) =
        [type |-> Float, f |-> AsFloat(x), str |-> <<>>, pose |-> Zero, joint |-> Zero,
         reg |-> NoData]
  BY FloatChanged DEF setFloatValue, Float
<1>2. setStringValue(None, x) =
        [type |-> {"STRING"}, f |-> -1, str |-> x, pose |-> Zero, joint |-> Zero,
         reg |-> NoData]
  BY StringChanged DEF setStringValue
<1>3. setPoseValue(None, x) =
        [type |-> {"POSE"}, f |-> -1, str |-> <<>>, pose |-> x, joint |-> Zero,
         reg |-> NoData]
  BY PoseChanged DEF setPoseValue
<1>4. setJointValue(None, x) =
        [type |-> {"JOINT"}, f |-> -1, str |-> <<>>, pose |-> Zero, joint |-> x,
         reg |-> NoData]
  BY JointChanged DEF setJointValue
<1> QED
  BY <1>1, <1>2, <1>3, <1>4

\* A value with its fields known.
LEMMA EvalIs ==
  ASSUME NEW v, NEW ty, NEW x, NEW s, NEW p, NEW j, NEW d,
         v = [type |-> ty, f |-> x, str |-> s, pose |-> p, joint |-> j, reg |-> d],
         IsVector(p), IsVector(j), IsData(d),
         "PR" \in ty => IsPosition(d.value), "HR" \in ty => IsVector(d.value)
  PROVE  /\ IsEval(v) /\ v.type = ty /\ v.f = x /\ v.str = s /\ v.pose = p /\ v.joint = j
         /\ v.reg = d
BY DEF IsEval

\* A value set from nothing is well formed.
LEMMA ValueIsRead ==
  ASSUME NEW x
  PROVE  /\ IsEval(None) /\ Copied(None)
         /\ IsEval(setFloatValue(None, x)) /\ Copied(setFloatValue(None, x))
         /\ IsEval(setStringValue(None, x)) /\ Copied(setStringValue(None, x))
         /\ IsVector(x) =>
              /\ IsEval(setPoseValue(None, x)) /\ Copied(setPoseValue(None, x))
              /\ IsEval(setJointValue(None, x)) /\ Copied(setJointValue(None, x))
<1> USE ZeroIsVector DEF Copied, Float, RFloat, MrFloat, SrString, PrJoint
<1>1. IsEval(None) /\ Copied(None)
  BY EvalIs DEF None, resetNoneValue
<1>2. IsEval(setFloatValue(None, x)) /\ Copied(setFloatValue(None, x))
  <2> DEFINE v == setFloatValue(None, x)
  <2>1. IsEval(v) /\ v.type = Float
    BY ValueSet, EvalIs
  <2> QED
    BY <2>1
<1>3. IsEval(setStringValue(None, x)) /\ Copied(setStringValue(None, x))
  <2> DEFINE v == setStringValue(None, x)
  <2>1. IsEval(v) /\ v.type = {"STRING"}
    BY ValueSet, EvalIs
  <2> QED
    BY <2>1
<1>4. ASSUME IsVector(x)
      PROVE  /\ IsEval(setPoseValue(None, x)) /\ Copied(setPoseValue(None, x))
             /\ IsEval(setJointValue(None, x)) /\ Copied(setJointValue(None, x))
  <2> DEFINE v == setPoseValue(None, x)
             w == setJointValue(None, x)
  <2>1. IsEval(v) /\ v.type = {"POSE"}
    BY <1>4, ValueSet, EvalIs
  <2>2. IsEval(w) /\ w.type = {"JOINT"}
    BY <1>4, ValueSet, EvalIs
  <2> QED
    BY <2>1, <2>2
<1> QED
  BY <1>1, <1>2, <1>3, <1>4

\* A value set from a register is well formed and carries what the register holds.
LEMMA RegisterIsRead ==
  ASSUME NEW d, IsData(d)
  PROVE  /\ IsPosition(d.value) =>
              IsEval(setPrRegDataValue(None, d)) /\ Copied(setPrRegDataValue(None, d))
         /\ IsVector(d.value) =>
              IsEval(setHrRegDataValue(None, d)) /\ Copied(setHrRegDataValue(None, d))
         /\ IsEval(setSrRegDataValue(None, d)) /\ Copied(setSrRegDataValue(None, d))
         /\ IsEval(setRRegDataValue(None, d)) /\ Copied(setRRegDataValue(None, d))
         /\ IsEval(setMrRegDataValue(None, d)) /\ Copied(setMrRegDataValue(None, d))
         /\ setSrRegDataValue(None, d).str = d.value
         /\ setRRegDataValue(None, d).f = AsFloat(d.value)
         /\ setRRegDataValue(None, d).reg = d
         /\ setMrRegDataValue(None, d).f = AsFloat(d.value)
         /\ setMrRegDataValue(None, d).reg = d
<1> USE ZeroIsVector
<1>1. ASSUME IsPosition(d.value)
      PROVE  IsEval(setPrRegDataValue(None, d)) /\ Copied(setPrRegDataValue(None, d))
  <2> DEFINE v == setPrRegDataValue(None, d)
  <2>0. v = [type |-> {"PR"}, f |-> -1, str |-> <<>>, pose |-> Zero, joint |-> Zero,
             reg |-> d]
    BY RegChanged DEF setPrRegDataValue
  <2>1. IsEval(v) /\ v.type = {"PR"}
    BY <1>1, <2>0, EvalIs
  <2> QED
    BY <2>1 DEF Copied, RFloat, MrFloat, SrString, PrJoint
<1>2. ASSUME IsVector(d.value)
      PROVE  IsEval(setHrRegDataValue(None, d)) /\ Copied(setHrRegDataValue(None, d))
  <2> DEFINE v == setHrRegDataValue(None, d)
  <2>0. v = [type |-> {"HR"}, f |-> -1, str |-> <<>>, pose |-> Zero, joint |-> Zero,
             reg |-> d]
    BY RegChanged DEF setHrRegDataValue
  <2>1. IsEval(v) /\ v.type = {"HR"}
    BY <1>2, <2>0, EvalIs
  <2> QED
    BY <2>1 DEF Copied, RFloat, MrFloat, SrString, PrJoint
<1>3. /\ IsEval(setSrRegDataValue(None, d)) /\ Copied(setSrRegDataValue(None, d))
      /\ setSrRegDataValue(None, d).str = d.value
  <2> DEFINE u == setStringValue(None, d.value)
             v == setSrRegDataValue(None, d)
  <2>1. IsEval(u) /\ u.type = {"STRING"} /\ u.str = d.value
    BY ValueSet, EvalIs
  <2>2. v = [u EXCEPT !.type = @ \cup {"SR"}, !.reg = d]
    BY DEF setSrRegDataValue
  <2> HIDE DEF u, v
  <2>3. v = [type |-> u.type \cup {"SR"}, f |-> u.f, str |-> u.str, pose |-> u.pose,
             joint |-> u.joint, reg |-> d]
    BY <2>1, <2>2 DEF IsEval
  <2>4. IsVector(u.pose) /\ IsVector(u.joint)
    BY <2>1 DEF IsEval
  <2>5. IsEval(v) /\ v.type = {"STRING", "SR"} /\ v.str = d.value /\ v.reg = d
    BY <2>1, <2>3, <2>4, EvalIs
  <2> QED
    BY <2>5 DEF Copied, RFloat, MrFloat, SrString, PrJoint, v
<1>4. /\ IsEval(setRRegDataValue(None, d)) /\ Copied(setRRegDataValue(None, d))
      /\ setRRegDataValue(None, d).f = AsFloat(d.value)
      /\ setRRegDataValue(None, d).reg = d
  <2> DEFINE u == setFloatValue(None, d.value)
             v == setRRegDataValue(None, d)
  <2>1. IsEval(u) /\ u.type = {"FLOAT"} /\ u.f = AsFloat(d.value)
    BY ValueSet, EvalIs DEF Float
  <2>2. v = [u EXCEPT !.type = @ \cup {"R"}, !.reg = d]
    BY DEF setRRegDataValue
  <2> HIDE DEF u, v
  <2>3. v = [type |-> u.type \cup {"R"}, f |-> u.f, str |-> u.str, pose |-> u.pose,
             joint |-> u.joint, reg |-> d]
    BY <2>1, <2>2 DEF IsEval
  <2>4. IsVector(u.pose) /\ IsVector(u.joint)
    BY <2>1 DEF IsEval
  <2>5. IsEval(v) /\ v.type = {"FLOAT", "R"} /\ v.f = AsFloat(d.value) /\ v.reg = d
    BY <2>1, <2>3, <2>4, EvalIs
  <2> QED
    BY <2>5 DEF Copied, RFloat, MrFloat, SrString, PrJoint, v
<1>5. /\ IsEval(setMrRegDataValue(None, d)) /\ Copied(setMrRegDataValue(None, d))
      /\ setMrRegDataValue(None, d).f = AsFloat(d.value)
      /\ setMrRegDataValue(None, d).reg = d
  <2> DEFINE u == setFloatValue(None, d.value)
             v == setMrRegDataValue(None, d)
  <2>1. IsEval(u) /\ u.type = {"FLOAT"} /\ u.f = AsFloat(d.value)
    BY ValueSet, EvalIs DEF Float
  <2>2. v = [u EXCEPT !.type = @ \cup {"MR"}, !.reg = d]
    BY DEF setMrRegDataValue
  <2> HIDE DEF u, v
  <2>3. v = [type |-> u.type \cup {"MR"}, f |-> u.f, str |-> u.str, pose |-> u.pose,
             joint |-> u.joint, reg |-> d]
    BY <2>1, <2>2 DEF IsEval
  <2>4. IsVector(u.pose) /\ IsVector(u.joint)
    BY <2>1 DEF IsEval
  <2>5. IsEval(v) /\ v.type = {"FLOAT", "MR"} /\ v.f = AsFloat(d.value) /\ v.reg = d
    BY <2>1, <2>3, <2>4, EvalIs
  <2> QED
    BY <2>5 DEF Copied, RFloat, MrFloat, SrString, PrJoint, v
<1> QED
  BY <1>1, <1>2, <1>3, <1>4, <1>5

-----------------------------------------------------------------------------
(***************************************************************************)
(* Reading registers.                                                      *)
(***************************************************************************)
LEMMA CreatedIs ==
  ASSUME NEW k \in Kinds
  PROVE  IsValueOf(k, Created(k)) /\ \A y : IsValueOf(k, y) => IsValueOf(k, Cleared(k, y))
BY ZeroIsVector DEF Kinds, IsValueOf, Created, Cleared, PrReg, HrReg, RReg, MrReg, SrReg

\* getReg answers with the register's content; an invalid register is refused.
LEMMA AnswerIs ==
  ASSUME NEW s, IsStore(s), NEW k \in Kinds, NEW id
  PROVE  /\ getReg(s, k, id).ok <=> id \in Ids /\ s[k][id].is_valid
         /\ getReg(s, k, id).ok \in BOOLEAN
         /\ getReg(s, k, id).data.id = id
         /\ IsRegister(k, getReg(s, k, id).data)
         /\ getReg(s, k, id).ok =>
              /\ getReg(s, k, id).data.comment = s[k][id].comment
              /\ getReg(s, k, id).data.value = s[k][id].value
<1>1. CASE id \in Ids /\ s[k][id].is_valid
  BY <1>1 DEF getReg, IsStore, IsEntry, IsRegister, IsData
<1>2. CASE ~(id \in Ids /\ s[k][id].is_valid)
  BY <1>2, CreatedIs DEF getReg, IsRegister, IsData
<1> QED
  BY <1>1, <1>2

\* What was never assigned is still of the right shape.
LEMMA JunkIs ==
  ASSUME NEW junk, NEW k \in Kinds
  PROVE  IsVector(JunkPosition(junk)) /\ IsRegister(k, JunkData(k, junk))
<1>1. IsVector(JunkPosition(junk))
  BY DEF IsVector, JunkPosition
<1> DEFINE d == JunkData(k, junk)
<1>2. IsData(d)
  BY DEF IsData, JunkData
<1>3. k = "PR" => d.value = [type |-> junk, pose |-> JunkPosition(junk),
                             joint |-> JunkPosition(junk)]
  BY DEF JunkData
<1>4. k = "HR" => d.value = JunkPosition(junk)
  BY DEF JunkData
<1> QED
  BY <1>1, <1>2, <1>3, <1>4 DEF IsRegister, IsValueOf, IsPosition

\* Reading a PR register, whole or by any member, gives a well formed value.
LEMMA ReadPrIs ==
  ASSUME NEW t, NEW got, NEW junk, IsRegister("PR", got.data)
  PROVE  IsEval(ReadPr(t, got, junk)) /\ Copied(ReadPr(t, got, junk))
<1> DEFINE d == getPr(got, JunkData("PR", junk))
<1>1. IsVector(JunkPosition(junk)) /\ IsRegister("PR", JunkData("PR", junk))
  BY JunkIs DEF Kinds
<1>2. IsRegister("PR", d)
  BY <1>1 DEF getPr, Answer
<1>3. IsData(d) /\ IsPosition(d.value)
  BY <1>2 DEF IsRegister, IsValueOf
<1>4. /\ IsVector(getPosePr(got, JunkPosition(junk)))
      /\ IsVector(getJointPr(got, JunkPosition(junk)))
  BY <1>1 DEF getPosePr, getJointPr, Answer, IsRegister, IsValueOf, IsPosition
<1>5. /\ IsEval(ReadPrPose(t, got, junk)) /\ Copied(ReadPrPose(t, got, junk))
      /\ IsEval(ReadPrJoint(t, got, junk)) /\ Copied(ReadPrJoint(t, got, junk))
  BY <1>4, ValueIsRead DEF ReadPrPose, ReadPrJoint
<1>6. IsEval(ReadPrEither(t, got, junk)) /\ Copied(ReadPrEither(t, got, junk))
  BY ValueIsRead DEF ReadPrEither
<1> HIDE DEF d
<1>7. IsEval(setPrRegDataValue(None, d)) /\ Copied(setPrRegDataValue(None, d))
  BY <1>3, RegisterIsRead
<1> QED
  BY <1>5, <1>6, <1>7, ValueIsRead DEF ReadPr, d

\* So does reading a string register.
LEMMA ReadSrIs ==
  ASSUME NEW t, NEW got, NEW junk, IsRegister("SR", got.data)
  PROVE  IsEval(ReadSr(t, got, junk)) /\ Copied(ReadSr(t, got, junk))
<1> DEFINE d == getSr(got, JunkData("SR", junk))
<1>1. IsData(d)
  BY JunkIs DEF getSr, Answer, Kinds, IsRegister
<1>2. IsEval(setSrRegDataValue(None, d)) /\ Copied(setSrRegDataValue(None, d))
  BY <1>1, RegisterIsRead
<1> QED
  BY <1>2, ValueIsRead DEF ReadSr

\* So does reading an R register.
LEMMA ReadRIs ==
  ASSUME NEW t, NEW got, NEW junk, IsRegister("R", got.data)
  PROVE  IsEval(ReadR(t, got, junk)) /\ Copied(ReadR(t, got, junk))
<1> DEFINE d == getR(got, JunkData("R", junk))
<1>1. IsData(d)
  BY JunkIs DEF getR, Answer, Kinds, IsRegister
<1>2. IsEval(setRRegDataValue(None, d)) /\ Copied(setRRegDataValue(None, d))
  BY <1>1, RegisterIsRead
<1> QED
  BY <1>2, ValueIsRead DEF ReadR

\* So does reading an MR register.
LEMMA ReadMrIs ==
  ASSUME NEW t, NEW got, NEW junk, IsRegister("MR", got.data)
  PROVE  IsEval(ReadMr(t, got, junk)) /\ Copied(ReadMr(t, got, junk))
<1> DEFINE d == getMr(got, JunkData("MR", junk))
<1>1. IsData(d)
  BY JunkIs DEF getMr, Answer, Kinds, IsRegister
<1>2. IsEval(setMrRegDataValue(None, d)) /\ Copied(setMrRegDataValue(None, d))
  BY <1>1, RegisterIsRead
<1> QED
  BY <1>2, ValueIsRead DEF ReadMr

\* So does reading an HR register.
LEMMA ReadHrIs ==
  ASSUME NEW t, NEW got, NEW pr, NEW junk, IsRegister("HR", got.data)
  PROVE  IsEval(ReadHr(t, got, pr, junk)) /\ Copied(ReadHr(t, got, pr, junk))
<1> DEFINE d == getHr(got, JunkData("HR", junk))
<1>1. IsVector(JunkPosition(junk)) /\ IsRegister("HR", JunkData("HR", junk))
  BY JunkIs DEF Kinds
<1>2. IsRegister("HR", d)
  BY <1>1 DEF getHr, Answer
<1>3. IsData(d) /\ IsVector(d.value)
  BY <1>2 DEF IsRegister, IsValueOf
<1>4. IsVector(getJointHr(got, JunkPosition(junk)))
  BY <1>1 DEF getJointHr, Answer, IsRegister, IsValueOf
<1> HIDE DEF d
<1>5. IsEval(setHrRegDataValue(None, d)) /\ Copied(setHrRegDataValue(None, d))
  BY <1>3, RegisterIsRead
<1> QED
  BY <1>4, <1>5, ValueIsRead DEF ReadHr, d

\* What an operand yields.
LEMMA OperandIs ==
  ASSUME IsStore(st), NEW o, IsOperand(o), NEW junk
  PROVE  IsEval(find_var(o, junk)) /\ Copied(find_var(o, junk))
<1>1. CASE o.is = "value" /\ o.v \in Plain
  <2> DEFINE v == o.v
  <2>1. /\ v = [type |-> v.type, f |-> v.f, str |-> v.str, pose |-> Zero, joint |-> Zero,
                reg |-> NoData]
        /\ v.type \in {Float, {"STRING"}}
    BY <1>1 DEF Plain
  <2>2. find_var(o, junk) = v
    BY <1>1 DEF find_var
  <2> HIDE DEF v
  <2>3. "PR" \notin v.type /\ "HR" \notin v.type
    BY <2>1 DEF Float
  <2>4. IsEval(v)
    BY <2>1, <2>3, ZeroIsVector, EvalIs
  <2>5. Copied(v)
    BY <2>1 DEF Copied, Float, RFloat, MrFloat, SrString, PrJoint
  <2> QED
    BY <2>2, <2>4, <2>5
<1>2. CASE o.is = "register" /\ IsTarget(o.at)
  <2> DEFINE t == Narrowed(o.at)
             got == getReg(st, t.kind, t.id)
  <2>1. t.kind \in Kinds
    BY <1>2, NarrowedIs DEF IsTarget
  <2>2. IsRegister(t.kind, got.data)
    BY <2>1, AnswerIs
  <2>3. find_var(o, junk) = get_register(st, t, junk)
    BY <1>2 DEF find_var
  <2> HIDE DEF t, got
  <2>4. IsEval(get_register(st, t, junk)) /\ Copied(get_register(st, t, junk))
    BY <2>1, <2>2, ReadPrIs, ReadSrIs, ReadRIs, ReadMrIs, ReadHrIs DEF get_register, Kinds, got
  <2> QED
    BY <2>3, <2>4
<1>3. CASE o.is \in {"cur_jpos", "cur_pos"}
  <2> DEFINE jt == setJointValue(None, Here.joint)
             ps == setPoseValue(None, Here.pose)
             dj == [id |-> junk, comment |-> <<"junk">>,
                    value |-> [type |-> POS_TYPE_JOINT, pose |-> Zero, joint |-> Here.joint]]
             dp == [id |-> junk, comment |-> <<"junk">>,
                    value |-> [type |-> POS_TYPE_CARTESIAN, pose |-> Here.pose, joint |-> Zero]]
             vj == setPrRegDataWithJointValue(jt, Here.joint, junk)
             vp == setPrRegDataWithPoseEulerValue(ps, Here.pose, junk)
  <2>1. IsVector(Here.joint) /\ IsVector(Here.pose)
    BY HereAssumption DEF Positions, IsVector
  <2>2. /\ IsData(dj) /\ IsPosition(dj.value) /\ dj.value.joint = Here.joint
        /\ IsData(dp) /\ IsPosition(dp.value)
    BY <2>1, ZeroIsVector DEF IsData, IsPosition
  <2>3. /\ IsEval(jt) /\ jt.type = {"JOINT"} /\ jt.joint = Here.joint
        /\ IsEval(ps) /\ ps.type = {"POSE"}
    BY <2>1, ZeroIsVector, ValueSet, EvalIs
  <2>4. vj = [jt EXCEPT !.type = @ \cup {"PR"}, !.reg = dj]
    BY DEF setPrRegDataWithJointValue
  <2>14. vp = [ps EXCEPT !.type = @ \cup {"PR"}, !.reg = dp]
    BY DEF setPrRegDataWithPoseEulerValue
  <2>5. o.is = "cur_jpos" => find_var(o, junk) = vj
    BY DEF find_var
  <2>6. o.is = "cur_pos" => find_var(o, junk) = vp
    BY DEF find_var
  <2>7. vj = [type |-> jt.type \cup {"PR"}, f |-> jt.f, str |-> jt.str, pose |-> jt.pose,
              joint |-> jt.joint, reg |-> dj]
    BY <2>3, <2>4 DEF IsEval
  <2>8. vp = [type |-> ps.type \cup {"PR"}, f |-> ps.f, str |-> ps.str, pose |-> ps.pose,
              joint |-> ps.joint, reg |-> dp]
    BY <2>3, <2>14 DEF IsEval
  <2> HIDE DEF jt, ps, dj, dp, vj, vp
  <2>9. /\ IsVector(jt.pose) /\ IsVector(jt.joint) /\ IsVector(ps.pose) /\ IsVector(ps.joint)
        /\ "HR" \notin jt.type \cup {"PR"} /\ "HR" \notin ps.type \cup {"PR"}
    BY <2>3 DEF IsEval
  <2>10. /\ IsEval(vj) /\ vj.type = {"JOINT", "PR"} /\ vj.joint = Here.joint /\ vj.reg = dj
    BY <2>2, <2>3, <2>7, <2>9, EvalIs
  <2>11. /\ IsEval(vp) /\ vp.type = {"POSE", "PR"}
    BY <2>2, <2>3, <2>8, <2>9, EvalIs
  <2>12. Copied(vj)
    BY <2>2, <2>10 DEF Copied, RFloat, MrFloat, SrString, PrJoint
  <2>13. Copied(vp)
    BY <2>11 DEF Copied, RFloat, MrFloat, SrString, PrJoint
  <2> QED
    BY <1>3, <2>5, <2>6, <2>10, <2>11, <2>12, <2>13
<1> QED
  BY <1>1, <1>2, <1>3 DEF IsOperand


-----------------------------------------------------------------------------
(***************************************************************************)
(* Arithmetic.                                                             *)
(***************************************************************************)
WithNumber(v, y) == [v EXCEPT !.f = y]
WithString(v, s) == [v EXCEPT !.str = s, !.reg.value = s]
WithJoint(v, p, q) == [v EXCEPT !.joint = p, !.reg.value.joint = q]
WithPose(v) == [v EXCEPT !.reg.value.pose = v.pose]

\* Replacing the number keeps a value well formed.
LEMMA NumberChanged ==
  ASSUME NEW v, IsEval(v), NEW y, NEW w, w = WithNumber(v, y)
  PROVE  IsEval(w) /\ w.type = v.type
<1>1. w = [type |-> v.type, f |-> y, str |-> v.str, pose |-> v.pose, joint |-> v.joint,
           reg |-> v.reg]
  BY DEF IsEval, WithNumber
<1> QED
  BY <1>1, EvalIs DEF IsEval

\* A register beside a number or a string, both replaced.
LEMMA NumberOfRegister ==
  ASSUME NEW v, IsEval(v), v.type \in {RFloat, MrFloat}, NEW x, NEW y, NEW w, w = Both(v, x, y)
  PROVE  IsEval(w) /\ w.type = v.type /\ w.f = AsFloat(y) /\ w.reg.value = x
<1> DEFINE d == [v.reg EXCEPT !.value = x]
           z == AsFloat(y)
<1>1. IsData(d) /\ d.value = x
  BY DEF IsEval, IsData
<1>2. w = [v EXCEPT !.reg = d, !.f = z]
  BY DEF Both
<1> HIDE DEF d, z
<1>3. w = [type |-> v.type, f |-> z, str |-> v.str, pose |-> v.pose, joint |-> v.joint,
           reg |-> d]
  BY <1>2 DEF IsEval
<1>4. "PR" \notin v.type /\ "HR" \notin v.type
  BY DEF RFloat, MrFloat
<1>5. IsVector(v.pose) /\ IsVector(v.joint)
  BY DEF IsEval
<1>6. IsEval(w) /\ w.type = v.type /\ w.f = z /\ w.reg = d
  BY <1>1, <1>3, <1>4, <1>5, EvalIs
<1> QED
  BY <1>1, <1>6 DEF z

\* A string register's string and its copy, both replaced.
LEMMA StringOfRegister ==
  ASSUME NEW v, IsEval(v), v.type = SrString, NEW s, NEW w,
         w = WithString(v, s)
  PROVE  IsEval(w) /\ w.type = SrString /\ w.str = w.reg.value
<1> DEFINE d == [v.reg EXCEPT !.value = s]
<1>1. IsData(d) /\ d.value = s
  BY DEF IsEval, IsData
<1>2. w = [v EXCEPT !.str = s, !.reg = d]
  BY DEF WithString
<1> HIDE DEF d
<1>3. w = [type |-> v.type, f |-> v.f, str |-> s, pose |-> v.pose, joint |-> v.joint,
           reg |-> d]
  BY <1>2 DEF IsEval
<1>4. "PR" \notin v.type /\ "HR" \notin v.type
  BY DEF SrString
<1>5. IsVector(v.pose) /\ IsVector(v.joint)
  BY DEF IsEval
<1>6. /\ w.type = v.type /\ w.str = s /\ w.pose = v.pose /\ w.joint = v.joint /\ w.reg = d
      /\ w.f = v.f
  BY <1>3
<1>7. IsEval(w)
  BY <1>1, <1>3, <1>4, <1>5, <1>6 DEF IsEval
<1> QED
  BY <1>1, <1>6, <1>7

\* A position beside a PR register.
LEMMA JointOfRegister ==
  ASSUME NEW v, IsEval(v), v.type = PrJoint, NEW p, NEW q, IsVector(p), IsVector(q), NEW w,
         w = WithJoint(v, p, q)
  PROVE  IsEval(w) /\ w.type = PrJoint /\ w.joint = p /\ w.reg.value.joint = q
<1> DEFINE e == [v.reg.value EXCEPT !.joint = q]
           d == [v.reg EXCEPT !.value = e]
<1>0. IsPosition(v.reg.value) /\ IsData(v.reg)
  BY DEF IsEval, PrJoint
<1>1. IsPosition(e) /\ e.joint = q
  BY <1>0 DEF IsPosition
<1> HIDE DEF e
<1>2. IsData(d) /\ d.value = e
  BY <1>0 DEF IsData
<1>3. w = [v EXCEPT !.joint = p, !.reg = d]
  BY DEF e, WithJoint
<1> HIDE DEF d
<1>4. w = [type |-> v.type, f |-> v.f, str |-> v.str, pose |-> v.pose, joint |-> p, reg |-> d]
  BY <1>3 DEF IsEval
<1>5. "HR" \notin v.type
  BY DEF PrJoint
<1>6. IsVector(v.pose)
  BY DEF IsEval
<1>7. /\ w.type = v.type /\ w.str = v.str /\ w.pose = v.pose /\ w.joint = p /\ w.reg = d
      /\ w.f = v.f
  BY <1>4
<1>8. IsEval(w)
  BY <1>1, <1>2, <1>4, <1>5, <1>6, <1>7 DEF IsEval
<1> QED
  BY <1>1, <1>2, <1>7, <1>8

\* A pose beside a PR register, replaced.
LEMMA PoseOfRegister ==
  ASSUME NEW v, IsEval(v), v.type = PrPose, NEW w, w = WithPose(v)
  PROVE  IsEval(w) /\ w.type = PrPose
<1> DEFINE e == [v.reg.value EXCEPT !.pose = v.pose]
           d == [v.reg EXCEPT !.value = e]
<1>0. IsPosition(v.reg.value) /\ IsData(v.reg) /\ IsVector(v.pose) /\ IsVector(v.joint)
  BY DEF IsEval, PrPose
<1>1. IsPosition(e)
  BY <1>0 DEF IsPosition
<1> HIDE DEF e
<1>2. IsData(d) /\ d.value = e
  BY <1>0 DEF IsData
<1>3. w = [v EXCEPT !.reg = d]
  BY DEF e, WithPose
<1> HIDE DEF d
<1>4. w = [type |-> v.type, f |-> v.f, str |-> v.str, pose |-> v.pose, joint |-> v.joint,
           reg |-> d]
  BY <1>3 DEF IsEval
<1>5. "HR" \notin v.type
  BY DEF PrPose
<1>6. /\ w.type = v.type /\ w.str = v.str /\ w.pose = v.pose /\ w.joint = v.joint
      /\ w.reg = d /\ w.f = v.f
  BY <1>4
<1>7. IsEval(w)
  BY <1>0, <1>1, <1>2, <1>4, <1>5, <1>6 DEF IsEval
<1> QED
  BY <1>6, <1>7

\* Within the exact range a number just read is the register's.
LEMMA SmallIsCopied ==
  ASSUME NEW v, Copied(v), v.type \in {RFloat, MrFloat}, Small(v)
  PROVE  v.f = v.reg.value
BY SmallIsExact DEF Copied, Small

\* What was just read agrees with its register.
LEMMA ReadAgrees ==
  ASSUME NEW v, Copied(v), NEW h
  PROVE  Agree(v, v, h)
BY SmallIsCopied DEF Agree, Copied

\* The same is computed of the number and of the register's.
LEMMA NumbersAgree ==
  ASSUME NEW v, IsEval(v), v.type \in {RFloat, MrFloat}, NEW h, NEW x, NEW y,
         Small(v) => x = y
  PROVE  IsEval(Both(v, x, y)) /\ Agree(Both(v, x, y), v, h)
<1> DEFINE w == Both(v, x, y)
<1>1. IsEval(w) /\ w.type = v.type /\ w.f = AsFloat(y) /\ w.reg.value = x
  BY NumberOfRegister
<1>2. w.type # SrString /\ w.type # PrJoint
  BY <1>1 DEF RFloat, MrFloat, SrString, PrJoint
<1> HIDE DEF w
<1>3. Agree(w, v, h)
  BY <1>1, <1>2, SmallIsExact DEF Agree
<1> QED
  BY <1>1, <1>3 DEF w

\* A plain number carries no register.
LEMMA PlainAgrees ==
  ASSUME NEW v, IsEval(v), v.type = Float, NEW h, NEW y
  PROVE  IsEval(WithNumber(v, y)) /\ Agree(WithNumber(v, y), v, h)
<1> DEFINE w == WithNumber(v, y)
<1>1. IsEval(w) /\ w.type = Float
  BY NumberChanged
<1> HIDE DEF w
<1>2. Agree(w, v, h)
  BY <1>1 DEF Agree, Float, RFloat, MrFloat, SrString, PrJoint
<1> QED
  BY <1>1, <1>2 DEF w

\* A string and its register are replaced by the same string.
LEMMA StringsAgree ==
  ASSUME NEW v, IsEval(v), v.type = SrString, NEW h, NEW s
  PROVE  IsEval(WithString(v, s)) /\ Agree(WithString(v, s), v, h)
<1> DEFINE w == WithString(v, s)
<1>1. IsEval(w) /\ w.type = SrString /\ w.str = w.reg.value
  BY StringOfRegister
<1> HIDE DEF w
<1>2. Agree(w, v, h)
  BY <1>1 DEF Agree, RFloat, MrFloat, SrString, PrJoint
<1> QED
  BY <1>1, <1>2 DEF w

\* What is added to a joint is added to the register's joint as well.
LEMMA PositionsAgree ==
  ASSUME NEW v, IsEval(v), Copied(v), NEW h, NEW sign
  PROVE  IsEval(CalcPosition(v, h, sign)) /\ Agree(CalcPosition(v, h, sign), v, h)
<1> DEFINE w == CalcPosition(v, h, sign)
           p == AddAxes(v.joint, h.joint, sign)
           q == AddAxes(v.reg.value.joint, h.joint, sign)
<1>1. CASE v.type = PrJoint /\ h.type \in {{"JOINT"}, PrJoint}
  <2>0. v.type # PrPose
    BY <1>1 DEF PrPose, PrJoint
  <2>1. w = WithJoint(v, p, q)
    BY <1>1, <2>0 DEF CalcPosition, WithJoint
  <2>2. IsVector(p) /\ IsVector(q)
    BY DEF IsVector, AddAxes
  <2>3. p = q
    BY <1>1 DEF Copied
  <2> HIDE DEF w, p, q
  <2>4. IsEval(w) /\ w.type = PrJoint /\ w.joint = p /\ w.reg.value.joint = q
    BY <1>1, <2>1, <2>2, JointOfRegister
  <2>5. Agree(w, v, h)
    BY <2>3, <2>4 DEF Agree, RFloat, MrFloat, SrString, PrJoint
  <2> QED
    BY <2>4, <2>5 DEF w
<1>2. CASE v.type = PrPose /\ h.type \in {{"POSE"}, PrPose}
  <2>1. v.type # PrJoint
    BY <1>2 DEF PrPose, PrJoint
  <2>2. w = WithPose(v)
    BY <1>2, <2>1 DEF CalcPosition, WithPose
  <2> HIDE DEF w
  <2>3. IsEval(w) /\ w.type = PrPose
    BY <1>2, <2>2, PoseOfRegister
  <2>4. Agree(w, v, h)
    BY <2>3 DEF Agree, RFloat, MrFloat, SrString, PrJoint, PrPose
  <2> QED
    BY <2>3, <2>4 DEF w
<1>3. CASE /\ ~(v.type = PrJoint /\ h.type \in {{"JOINT"}, PrJoint})
           /\ ~(v.type = PrPose /\ h.type \in {{"POSE"}, PrPose})
  <2>1. w = v
    BY <1>3 DEF CalcPosition
  <2> QED
    BY <2>1, ReadAgrees
<1> QED
  BY <1>1, <1>2, <1>3

\* What an operator does depends on what its left operand is.
LEMMA ArithIs ==
  ASSUME NEW v, IsEval(v), Copied(v), NEW h, NEW o \in {"+", "-", "*", "/", "%", "^"}
  PROVE  IsEval(arith(o, v, h)) /\ Agree(arith(o, v, h), v, h)
<1>1. CASE v.type = Float
  <2>0. v.type \notin {RFloat, MrFloat, SrString}
    BY <1>1 DEF Float, RFloat, MrFloat, SrString
  <2>1. \E y : arith(o, v, h) = WithNumber(v, y)
    <3>1. CASE o = "+"
      <4>1. arith(o, v, h) = [v EXCEPT !.f = AsFloat(@ + getFloatValue(h))]
        BY <1>1, <2>0, <3>1 DEF arith, calcAdd
      <4> DEFINE y == AsFloat(v.f + getFloatValue(h))
      <4>2. arith(o, v, h) = WithNumber(v, y)
        BY <4>1 DEF WithNumber
      <4> QED
        BY <4>2
    <3>2. CASE o = "-"
      <4>1. arith(o, v, h) = [v EXCEPT !.f = AsFloat(@ - getFloatValue(h))]
        BY <1>1, <2>0, <3>2 DEF arith, calcSubtract
      <4> DEFINE y == AsFloat(v.f - getFloatValue(h))
      <4>2. arith(o, v, h) = WithNumber(v, y)
        BY <4>1 DEF WithNumber
      <4> QED
        BY <4>2
    <3>3. CASE o = "*"
      <4>1. arith(o, v, h) = [v EXCEPT !.f = AsFloat(@ * getFloatValue(h))]
        BY <1>1, <2>0, <3>3 DEF arith, calcMultiply
      <4> DEFINE y == AsFloat(v.f * getFloatValue(h))
      <4>2. arith(o, v, h) = WithNumber(v, y)
        BY <4>1 DEF WithNumber
      <4> QED
        BY <4>2
    <3>4. CASE o = "/"
      <4>1. arith(o, v, h) = [v EXCEPT !.f = Quotient(@, getFloatValue(h))]
        BY <1>1, <2>0, <3>4 DEF arith, calcDivide
      <4> DEFINE y == Quotient(v.f, getFloatValue(h))
      <4>2. arith(o, v, h) = WithNumber(v, y)
        BY <4>1 DEF WithNumber
      <4> QED
        BY <4>2
    <3>5. CASE o = "%"
      <4>1. arith(o, v, h) = [v EXCEPT !.f = AsFloat(@ - Quotient(@, -1) * getFloatValue(h))]
        BY <1>1, <2>0, <3>5 DEF arith, calcMod
      <4> DEFINE y == AsFloat(v.f - Quotient(v.f, -1) * getFloatValue(h))
      <4>2. arith(o, v, h) = WithNumber(v, y)
        BY <4>1 DEF WithNumber
      <4> QED
        BY <4>2
    <3>6. CASE o = "^"
      <4>1. arith(o, v, h) = [v EXCEPT !.f = AsFloat(Power(@, getFloatValue(h)))]
        BY <1>1, <2>0, <3>6 DEF arith, calcPower
      <4> DEFINE y == AsFloat(Power(v.f, getFloatValue(h)))
      <4>2. arith(o, v, h) = WithNumber(v, y)
        BY <4>1 DEF WithNumber
      <4> QED
        BY <4>2
    <3> QED
      BY <3>1, <3>2, <3>3, <3>4, <3>5, <3>6
  <2> QED
    BY <1>1, <2>1, PlainAgrees
<1>2. CASE v.type \in {RFloat, MrFloat}
  <2>1. v.type # Float /\ v.type # SrString /\ v.type # PrJoint /\ v.type # PrPose
    BY <1>2 DEF Float, RFloat, MrFloat, SrString, PrJoint, PrPose
  <2>2. Small(v) => v.f = v.reg.value
    BY <1>2, SmallIsCopied
  <2>3. CalcPosition(v, h, 1) = v /\ CalcPosition(v, h, -1) = v
    BY <2>1 DEF CalcPosition
  <2>4. \/ arith(o, v, h) = v
        \/ \E x, y : (Small(v) => x = y) /\ arith(o, v, h) = Both(v, x, y)
    <3>1. CASE o = "+"
      BY <1>2, <2>1, <2>2, <2>3, <3>1 DEF arith, calcAdd
    <3>2. CASE o = "-"
      BY <1>2, <2>1, <2>2, <2>3, <3>2 DEF arith, calcSubtract
    <3>3. CASE o = "*"
      BY <1>2, <2>1, <2>2, <3>3 DEF arith, calcMultiply
    <3>4. CASE o = "/"
      BY <1>2, <2>1, <2>2, <3>4 DEF arith, calcDivide
    <3>5. CASE o = "%"
      BY <1>2, <2>1, <2>2, <3>5 DEF arith, calcMod
    <3>6. CASE o = "^"
      BY <1>2, <2>1, <2>2, <3>6 DEF arith, calcPower
    <3> QED
      BY <3>1, <3>2, <3>3, <3>4, <3>5, <3>6
  <2> QED
    BY <1>2, <2>4, NumbersAgree, ReadAgrees
<1>3. CASE v.type = SrString
  <2>1. v.type \notin {Float, RFloat, MrFloat, PrJoint, PrPose}
    BY <1>3 DEF Float, RFloat, MrFloat, SrString, PrJoint, PrPose
  <2>2. CalcPosition(v, h, 1) = v /\ CalcPosition(v, h, -1) = v
    BY <2>1 DEF CalcPosition
  <2>3. \/ arith(o, v, h) = v
        \/ \E s : arith(o, v, h) = WithString(v, s)
    <3>1. CASE o = "+"
      <4>1. CASE h.type \in {{"STRING"}, SrString}
        <5> DEFINE s == v.str \o h.str
        <5>1. v.str = v.reg.value
          BY <1>3 DEF Copied
        <5>2. arith(o, v, h) = [v EXCEPT !.str = @ \o h.str, !.reg.value = @ \o h.str]
          BY <1>3, <2>1, <3>1, <4>1 DEF arith, calcAdd
        <5>3. arith(o, v, h) = WithString(v, s)
          BY <5>1, <5>2 DEF WithString
        <5> QED
          BY <5>3
      <4> QED
        BY <2>1, <2>2, <3>1, <4>1 DEF arith, calcAdd
    <3>2. CASE o = "-"
      BY <1>3, <2>1, <2>2, <3>2 DEF arith, calcSubtract, WithString
    <3>3. CASE o = "*"
      BY <1>3, <2>1, <3>3 DEF arith, calcMultiply, WithString
    <3>4. CASE o \in {"/", "%", "^"}
      BY <2>1, <3>4 DEF arith, calcDivide, calcMod, calcPower
    <3> QED
      BY <3>1, <3>2, <3>3, <3>4
  <2> QED
    BY <1>3, <2>3, StringsAgree, ReadAgrees
<1>4. CASE v.type \notin {Float, RFloat, MrFloat, SrString}
  <2>1. arith(o, v, h) \in {v, CalcPosition(v, h, 1), CalcPosition(v, h, -1)}
    BY <1>4 DEF arith, calcAdd, calcSubtract, calcMultiply, calcDivide, calcMod, calcPower
  <2> QED
    BY <2>1, PositionsAgree, ReadAgrees
<1> QED
  BY <1>1, <1>2, <1>3, <1>4

\* The same for the sign in front of an operand.
LEMMA UnaryIs ==
  ASSUME NEW v, IsEval(v), Copied(v), NEW h
  PROVE  IsEval(calcUnary(v)) /\ Agree(calcUnary(v), v, h)
<1>1. CASE v.type = Float
  <2>0. v.type \notin {RFloat, MrFloat}
    BY <1>1 DEF Float, RFloat, MrFloat
  <2>1. calcUnary(v) = [v EXCEPT !.f = -@]
    BY <1>1, <2>0 DEF calcUnary
  <2>2. calcUnary(v) = WithNumber(v, -v.f)
    BY <2>1 DEF WithNumber
  <2> QED
    BY <1>1, <2>2, PlainAgrees
<1>2. CASE v.type \in {RFloat, MrFloat}
  <2>1. v.type # Float
    BY <1>2 DEF Float, RFloat, MrFloat
  <2>2. \E x : calcUnary(v) = Both(v, x, x)
    BY <1>2, <2>1 DEF calcUnary
  <2> QED
    BY <1>2, <2>2, NumbersAgree
<1>3. CASE v.type \notin {Float, RFloat, MrFloat}
  BY <1>3, ReadAgrees DEF calcUnary
<1> QED
  BY <1>1, <1>2, <1>3

-----------------------------------------------------------------------------
(***************************************************************************)
(* Writing registers.                                                      *)
(***************************************************************************)
Entry(d, filled) ==
  [is_valid |-> TRUE, value |-> d.value,
   comment |-> IF filled /\ d.comment = <<>> THEN <<"EMPTY">> ELSE d.comment]

WithEntry(s, k, id, e) == [s EXCEPT ![k][id] = e]

\* One entry of the store replaced, all others are as before.
LEMMA EntryReplaced ==
  ASSUME NEW s, IsStore(s), NEW k \in Kinds, NEW id \in Ids, NEW e, IsEntry(k, e), NEW new,
         new = WithEntry(s, k, id, e)
  PROVE  /\ IsStore(new)
         /\ new[k][id] = e
         /\ \A kk \in Kinds, i \in Ids : new[kk][i] # s[kk][i] => kk = k /\ i = id
<1> DEFINE l == [s[k] EXCEPT ![id] = e]
<1>1. l = [i \in Ids |-> IF i = id THEN e ELSE s[k][i]]
  BY DEF IsStore
<1>2. new = [s EXCEPT ![k] = l]
  BY DEF WithEntry
<1> HIDE DEF l
<1>3. new = [kk \in Kinds |-> IF kk = k THEN l ELSE s[kk]]
  BY <1>2 DEF IsStore
<1>4. new[k][id] = e /\ \A kk \in Kinds, i \in Ids : new[kk][i] # s[kk][i] => kk = k /\ i = id
  BY <1>1, <1>3
<1>5. new = [kk \in Kinds |-> new[kk]]
  BY <1>3
<1>6. ASSUME NEW kk \in Kinds
      PROVE  new[kk] = [i \in Ids |-> new[kk][i]]
  <2>1. CASE kk = k
    BY <1>1, <1>3, <2>1
  <2>2. CASE kk # k
    BY <1>3, <2>2 DEF IsStore
  <2> QED
    BY <2>1, <2>2
<1>7. ASSUME NEW kk \in Kinds, NEW i \in Ids
      PROVE  IsEntry(kk, new[kk][i])
  BY <1>4 DEF IsStore
<1> QED
  BY <1>4, <1>5, <1>6, <1>7 DEF IsStore

\* A register is written at its own id and within the limits of its class, or not at all;
\* what is set has a comment.
LEMMA UpsertIs ==
  ASSUME NEW s, IsStore(s), NEW k \in Kinds, NEW d, IsRegister(k, d), NEW new,
         new = Upsert(s, k, d)
  PROVE  /\ IsStore(new)
         /\ \A kk \in Kinds, i \in Ids : new[kk][i] # s[kk][i] =>
              /\ kk = k /\ i = d.id /\ new[kk][i] = Entry(d, s[kk][i].is_valid)
              /\ ~OutOfLimit(k, d.value)
         /\ d.id \notin Ids => new = s
<1>1. CASE SetAdmitted(s, k, d)
  <2> DEFINE e == Entry(d, TRUE)
  <2>1. d.id \in Ids /\ s[k][d.id].is_valid
    BY <1>1 DEF SetAdmitted, isDeleteInputValid
  <2>2. IsEntry(k, e)
    BY DEF IsEntry, Entry, IsRegister
  <2>3. Holding(packSetRegData(d.comment), d.value) = e
    BY DEF Holding, packSetRegData, packAddRegData, Entry
  <2>4. new = WithEntry(s, k, d.id, e)
    BY <1>1, <2>3 DEF Upsert, setReg, WithEntry
  <2> HIDE DEF e
  <2>5. /\ IsStore(new)
        /\ new[k][d.id] = e
        /\ \A kk \in Kinds, i \in Ids : new[kk][i] # s[kk][i] => kk = k /\ i = d.id
    BY <2>1, <2>2, <2>4, EntryReplaced
  <2>6. e = Entry(d, s[k][d.id].is_valid)
    BY <2>1 DEF e, Entry
  <2>7. ~OutOfLimit(k, d.value)
    BY <1>1 DEF SetAdmitted
  <2> QED
    BY <2>1, <2>5, <2>6, <2>7
<1>2. CASE ~SetAdmitted(s, k, d) /\ isAddInputValid(s[k], d.id) /\ ~OutOfLimit(k, d.value)
  <2> DEFINE e == Entry(d, FALSE)
  <2>1. d.id \in Ids /\ ~s[k][d.id].is_valid
    BY <1>2 DEF isAddInputValid
  <2>2. IsEntry(k, e)
    BY DEF IsEntry, Entry, IsRegister
  <2>3. Holding(packAddRegData(d.comment), d.value) = e
    BY DEF Holding, packAddRegData, Entry
  <2>4. new = WithEntry(s, k, d.id, e)
    BY <1>2, <2>3 DEF Upsert, addReg, WithEntry
  <2> HIDE DEF e
  <2>5. /\ IsStore(new)
        /\ new[k][d.id] = e
        /\ \A kk \in Kinds, i \in Ids : new[kk][i] # s[kk][i] => kk = k /\ i = d.id
    BY <2>1, <2>2, <2>4, EntryReplaced
  <2>6. e = Entry(d, s[k][d.id].is_valid)
    BY <2>1 DEF e, Entry
  <2>7. ~OutOfLimit(k, d.value)
    BY <1>2 DEF SetAdmitted
  <2> QED
    BY <2>1, <2>5, <2>6, <2>7
<1>3. CASE ~SetAdmitted(s, k, d) /\ ~(isAddInputValid(s[k], d.id) /\ ~OutOfLimit(k, d.value))
  BY <1>3 DEF Upsert, addReg
<1> QED
  BY <1>1, <1>2, <1>3

\* Deleting changes the register named, and leaves it invalid.
LEMMA DeletedIs ==
  ASSUME NEW s, IsStore(s), NEW k \in Kinds, NEW id, NEW new, new = deleteReg(s, k, id)
  PROVE  /\ IsStore(new)
         /\ \A kk \in Kinds, i \in Ids :
              new[kk][i] # s[kk][i] =>
                /\ kk = k /\ i = id /\ ~new[kk][i].is_valid
                /\ new[kk][i].value = Cleared(k, s[k][i].value)
<1>1. CASE isDeleteInputValid(s[k], id)
  <2> DEFINE e == [is_valid |-> FALSE, comment |-> <<"Not used">>,
                   value |-> Cleared(k, s[k][id].value)]
  <2>1. id \in Ids
    BY <1>1 DEF isDeleteInputValid
  <2>2. IsEntry(k, e) /\ e.is_valid = FALSE /\ e.value = Cleared(k, s[k][id].value)
    BY <2>1, CreatedIs DEF IsEntry, IsStore
  <2>3. new = [s EXCEPT ![k][id] = Holding(packDeleteRegData, Cleared(k, s[k][id].value))]
    BY <1>1 DEF deleteReg
  <2>4. Holding(packDeleteRegData, Cleared(k, s[k][id].value)) = e
    BY DEF Holding, packDeleteRegData
  <2> HIDE DEF e
  <2>5. new = WithEntry(s, k, id, e)
    BY <2>3, <2>4 DEF WithEntry
  <2> QED
    BY <2>1, <2>2, <2>5, EntryReplaced
<1>2. CASE ~isDeleteInputValid(s[k], id)
  BY <1>2 DEF deleteReg
<1> QED
  BY <1>1, <1>2

\* A delete request reaches deleteReg of its own kind and id.
LEMMA DeleteRequestIs ==
  ASSUME NEW s, NEW t, IsTarget(t)
  PROVE  forgesight_del_reg(s, t) = deleteReg(s, t.kind, t.id)
BY DEF forgesight_del_reg, IsTarget, Kinds, delPr, delSr, delR, delMr, delHr

-----------------------------------------------------------------------------
(***************************************************************************)
(* What is passed on to be written.                                        *)
(***************************************************************************)
\* Registers go by the id in their data.
ById(t) == t.kind \in {"PR", "HR"} /\ t.member \in {"", "id"}

\* d follows from the answer got: it is a register of the right class, of the same id,
\* and differs only in the member named; own says that a whole register is passed on.
Fits(t, own, got, d) ==
  /\ IsRegister(t.kind, d)
  /\ ~ById(t) => d.id = t.id
  /\ t.member \notin {"", "value"} =>
       got.ok /\ (t.member = "id" \/ Blank(t, d.value) = Blank(t, got.data.value))
  /\ t.member = "id" => d.value = got.data.value
  /\ ~ById(t) /\ got.ok /\ t.member # "comment" /\ ~(t.member = "" /\ own) =>
       d.comment = got.data.comment

\* One field of the data changed.
WithComment(d, c) == [d EXCEPT !.comment = c]
WithId(d, id) == [d EXCEPT !.id = id]
WithValue(d, x) == [d EXCEPT !.value = x]

\* Setting the comment changes nothing else.
LEMMA CommentSet ==
  ASSUME NEW k, NEW d, IsRegister(k, d), NEW c
  PROVE  /\ IsRegister(k, WithComment(d, c)) /\ WithComment(d, c).id = d.id
         /\ WithComment(d, c).value = d.value
<1> DEFINE e == WithComment(d, c)
<1>1. e = [id |-> d.id, comment |-> c, value |-> d.value]
  BY DEF IsRegister, IsData, WithComment
<1> HIDE DEF e
<1>2. IsRegister(k, e) /\ e.id = d.id /\ e.value = d.value
  BY <1>1 DEF IsRegister, IsData
<1> QED
  BY <1>2 DEF e

\* Setting the id changes nothing else.
LEMMA IdSet ==
  ASSUME NEW k, NEW d, IsRegister(k, d), NEW id
  PROVE  /\ IsRegister(k, WithId(d, id)) /\ WithId(d, id).id = id
         /\ WithId(d, id).value = d.value /\ WithId(d, id).comment = d.comment
<1> DEFINE e == WithId(d, id)
<1>1. e = [id |-> id, comment |-> d.comment, value |-> d.value]
  BY DEF IsRegister, IsData, WithId
<1> HIDE DEF e
<1>2. IsRegister(k, e) /\ e.id = id /\ e.value = d.value /\ e.comment = d.comment
  BY <1>1 DEF IsRegister, IsData
<1> QED
  BY <1>2 DEF e

\* Setting the value changes nothing else.
LEMMA ValueReplaced ==
  ASSUME NEW k, NEW d, IsRegister(k, d), NEW x, IsValueOf(k, x)
  PROVE  /\ IsRegister(k, WithValue(d, x)) /\ WithValue(d, x).id = d.id
         /\ WithValue(d, x).value = x /\ WithValue(d, x).comment = d.comment
<1> DEFINE e == WithValue(d, x)
<1>1. e = [id |-> d.id, comment |-> d.comment, value |-> x]
  BY DEF IsRegister, IsData, WithValue
<1> HIDE DEF e
<1>2. IsRegister(k, e) /\ e.id = d.id /\ e.value = x /\ e.comment = d.comment
  BY <1>1 DEF IsRegister, IsData
<1> QED
  BY <1>2 DEF e

\* One field of a position changed.
LEMMA PoseSet ==
  ASSUME NEW v, IsPosition(v), NEW p, IsVector(p), NEW w, w = [v EXCEPT !.pose = p]
  PROVE  w = [type |-> v.type, pose |-> p, joint |-> v.joint] /\ IsPosition(w)
<1>1. w = [type |-> v.type, pose |-> p, joint |-> v.joint]
  BY DEF IsPosition
<1> QED
  BY <1>1 DEF IsPosition

\* The joint of a position changed.
LEMMA JointSet ==
  ASSUME NEW v, IsPosition(v), NEW p, IsVector(p), NEW w, w = [v EXCEPT !.joint = p]
  PROVE  w = [type |-> v.type, pose |-> v.pose, joint |-> p] /\ IsPosition(w)
<1>1. w = [type |-> v.type, pose |-> v.pose, joint |-> p]
  BY DEF IsPosition
<1> QED
  BY <1>1 DEF IsPosition

\* The type of a position changed.
LEMMA TypeSet ==
  ASSUME NEW v, IsPosition(v), NEW ty, NEW w, w = [v EXCEPT !.type = ty]
  PROVE  w = [type |-> ty, pose |-> v.pose, joint |-> v.joint] /\ IsPosition(w)
<1>1. w = [type |-> ty, pose |-> v.pose, joint |-> v.joint]
  BY DEF IsPosition
<1> QED
  BY <1>1 DEF IsPosition

\* Blanked out, what was written is as what was there.
LEMMA PoseBlank ==
  ASSUME NEW t, t.kind = "PR", t.member \in {"pose", "x"}, t.axis \in Axes,
         NEW v, IsPosition(v), NEW w, NEW p, w = [v EXCEPT !.pose = p], IsVector(p),
         t.member = "x" => \A a \in Axes : a # t.axis => p[a] = v.pose[a]
  PROVE  Blank(t, w) = Blank(t, v)
<1> DEFINE B(u) == [a \in Axes |-> IF t.member = "pose" \/ a = t.axis THEN 0 ELSE u.pose[a]]
<1>1. w = [type |-> v.type, pose |-> p, joint |-> v.joint] /\ IsPosition(w)
  BY PoseSet
<1>2. B(w) = B(v)
  BY <1>1
<1>3. IsVector(B(v)) /\ IsVector(B(w))
  BY DEF IsVector
<1>4. Blank(t, v) = [v EXCEPT !.pose = B(v)]
  BY DEF Blank
<1>5. Blank(t, w) = [w EXCEPT !.pose = B(w)]
  BY DEF Blank
<1> HIDE DEF B
<1>6. Blank(t, v) = [type |-> v.type, pose |-> B(v), joint |-> v.joint]
  BY <1>3, <1>4, PoseSet
<1>7. Blank(t, w) = [type |-> w.type, pose |-> B(w), joint |-> w.joint]
  BY <1>1, <1>3, <1>5, PoseSet
<1> QED
  BY <1>1, <1>2, <1>6, <1>7

\* The same when the joint or one axis of it was written.
LEMMA JointBlank ==
  ASSUME NEW t, t.kind = "PR", t.member \in {"joint", "j"}, t.axis \in Axes,
         NEW v, IsPosition(v), NEW w, NEW p, w = [v EXCEPT !.joint = p], IsVector(p),
         t.member = "j" => \A a \in Axes : a # t.axis => p[a] = v.joint[a]
  PROVE  Blank(t, w) = Blank(t, v)
<1> DEFINE B(u) == [a \in Axes |-> IF t.member = "joint" \/ a = t.axis THEN 0 ELSE u.joint[a]]
<1>1. w = [type |-> v.type, pose |-> v.pose, joint |-> p] /\ IsPosition(w)
  BY JointSet
<1>2. B(w) = B(v)
  BY <1>1
<1>3. IsVector(B(v)) /\ IsVector(B(w))
  BY DEF IsVector
<1>4. Blank(t, v) = [v EXCEPT !.joint = B(v)]
  BY DEF Blank
<1>5. Blank(t, w) = [w EXCEPT !.joint = B(w)]
  BY DEF Blank
<1> HIDE DEF B
<1>6. Blank(t, v) = [type |-> v.type, pose |-> v.pose, joint |-> B(v)]
  BY <1>3, <1>4, JointSet
<1>7. Blank(t, w) = [type |-> w.type, pose |-> w.pose, joint |-> B(w)]
  BY <1>1, <1>3, <1>5, JointSet
<1> QED
  BY <1>1, <1>2, <1>6, <1>7

\* pj: the coordinate of the position's own type.
LEMMA EitherBlank ==
  ASSUME NEW t, t.kind = "PR", t.member = "pj", t.axis \in Axes,
         NEW v, IsPosition(v), NEW w, NEW p, IsVector(p),
         \/ /\ v.type = POS_TYPE_CARTESIAN
            /\ w = [v EXCEPT !.pose = p]
            /\ \A a \in Axes : a # t.axis => p[a] = v.pose[a]
         \/ /\ v.type = POS_TYPE_JOINT
            /\ w = [v EXCEPT !.joint = p]
            /\ \A a \in Axes : a # t.axis => p[a] = v.joint[a]
  PROVE  Blank(t, w) = Blank(t, v)
<1>1. CASE /\ v.type = POS_TYPE_CARTESIAN
           /\ w = [v EXCEPT !.pose = p]
           /\ \A a \in Axes : a # t.axis => p[a] = v.pose[a]
  <2> DEFINE x == [v.pose EXCEPT ![t.axis] = 0]
             y == [w.pose EXCEPT ![t.axis] = 0]
  <2>1. w = [type |-> v.type, pose |-> p, joint |-> v.joint] /\ IsPosition(w)
    BY <1>1, PoseSet
  <2>2. IsVector(v.pose) /\ IsVector(w.pose)
    BY <2>1 DEF IsPosition
  <2>3. x = [b \in Axes |-> IF b = t.axis THEN 0 ELSE v.pose[b]] /\ IsVector(x)
    BY <2>2 DEF IsVector
  <2>4. y = [b \in Axes |-> IF b = t.axis THEN 0 ELSE w.pose[b]] /\ IsVector(y)
    BY <2>2 DEF IsVector
  <2>5. x = y
    BY <1>1, <2>1, <2>3, <2>4
  <2>6. Blank(t, v) = [v EXCEPT !.pose = x]
    BY <1>1 DEF Blank
  <2>7. Blank(t, w) = [w EXCEPT !.pose = y]
    BY <1>1, <2>1 DEF Blank
  <2> HIDE DEF x, y
  <2>8. Blank(t, v) = [type |-> v.type, pose |-> x, joint |-> v.joint]
    BY <2>3, <2>6, PoseSet
  <2>9. Blank(t, w) = [type |-> w.type, pose |-> y, joint |-> w.joint]
    BY <2>1, <2>4, <2>7, PoseSet
  <2> QED
    BY <2>1, <2>5, <2>8, <2>9
<1>2. CASE /\ v.type = POS_TYPE_JOINT
           /\ w = [v EXCEPT !.joint = p]
           /\ \A a \in Axes : a # t.axis => p[a] = v.joint[a]
  <2> DEFINE x == [v.joint EXCEPT ![t.axis] = 0]
             y == [w.joint EXCEPT ![t.axis] = 0]
  <2>1. w = [type |-> v.type, pose |-> v.pose, joint |-> p] /\ IsPosition(w)
    BY <1>2, JointSet
  <2>2. IsVector(v.joint) /\ IsVector(w.joint)
    BY <2>1 DEF IsPosition
  <2>3. x = [b \in Axes |-> IF b = t.axis THEN 0 ELSE v.joint[b]] /\ IsVector(x)
    BY <2>2 DEF IsVector
  <2>4. y = [b \in Axes |-> IF b = t.axis THEN 0 ELSE w.joint[b]] /\ IsVector(y)
    BY <2>2 DEF IsVector
  <2>5. x = y
    BY <1>2, <2>1, <2>3, <2>4
  <2>6. v.type # POS_TYPE_CARTESIAN /\ w.type # POS_TYPE_CARTESIAN
    BY <1>2, <2>1 DEF POS_TYPE_JOINT, POS_TYPE_CARTESIAN
  <2>7. Blank(t, v) = [v EXCEPT !.joint = x]
    BY <2>6 DEF Blank
  <2>8. Blank(t, w) = [w EXCEPT !.joint = y]
    BY <2>6 DEF Blank
  <2> HIDE DEF x, y
  <2>9. Blank(t, v) = [type |-> v.type, pose |-> v.pose, joint |-> x]
    BY <2>3, <2>7, JointSet
  <2>10. Blank(t, w) = [type |-> w.type, pose |-> w.pose, joint |-> y]
    BY <2>1, <2>4, <2>8, JointSet
  <2> QED
    BY <2>1, <2>5, <2>9, <2>10
<1> QED
  BY <1>1, <1>2

\* The same when the type was written.
LEMMA TypeBlank ==
  ASSUME NEW t, t.kind = "PR", t.member = "type",
         NEW v, IsPosition(v), NEW w, NEW ty, w = [v EXCEPT !.type = ty]
  PROVE  Blank(t, w) = Blank(t, v)
<1>1. w = [type |-> ty, pose |-> v.pose, joint |-> v.joint] /\ IsPosition(w)
  BY TypeSet
<1>2. Blank(t, v) = [v EXCEPT !.type = 0]
  BY DEF Blank
<1>3. Blank(t, w) = [w EXCEPT !.type = 0]
  BY DEF Blank
<1>4. Blank(t, v) = [type |-> 0, pose |-> v.pose, joint |-> v.joint]
  BY <1>2, TypeSet
<1>5. Blank(t, w) = [type |-> 0, pose |-> w.pose, joint |-> w.joint]
  BY <1>1, <1>3, TypeSet
<1> QED
  BY <1>1, <1>4, <1>5

\* The same for an HR register.
LEMMA HrBlank ==
  ASSUME NEW t, t.kind = "HR", t.member \in {"joint", "j", "hj"}, t.axis \in Axes,
         NEW v, IsVector(v), NEW w, IsVector(w),
         t.member # "joint" => \A a \in Axes : a # t.axis => w[a] = v[a]
  PROVE  Blank(t, w) = Blank(t, v)
<1>1. CASE t.member = "joint"
  BY <1>1 DEF Blank
<1>2. CASE t.member # "joint"
  <2>1. Blank(t, v) = [v EXCEPT ![t.axis] = 0]
    BY <1>2 DEF Blank
  <2>2. Blank(t, w) = [w EXCEPT ![t.axis] = 0]
    BY <1>2 DEF Blank
  <2>3. Blank(t, v) = [b \in Axes |-> IF b = t.axis THEN 0 ELSE v[b]]
    BY <2>1 DEF IsVector
  <2>4. Blank(t, w) = [b \in Axes |-> IF b = t.axis THEN 0 ELSE w[b]]
    BY <2>2 DEF IsVector
  <2> QED
    BY <1>2, <2>3, <2>4
<1> QED
  BY <1>1, <1>2

\* The ways in which a register is passed on.
LEMMA CommentFits ==
  ASSUME NEW t, t.member = "comment", NEW got, IsAnswer(t, got), NEW own, NEW c,
         NEW d \in Changed(got, [got.data EXCEPT !.comment = c])
  PROVE  Fits(t, own, got, d)
<1>1. got.ok /\ d = WithComment(got.data, c)
  BY DEF Changed, WithComment
<1>2. IsRegister(t.kind, d) /\ d.id = got.data.id /\ d.value = got.data.value
  BY <1>1, CommentSet DEF IsAnswer
<1> QED
  BY <1>1, <1>2 DEF Fits, IsAnswer

\* The id of a string, R or MR register: it goes to the register named.
LEMMA IdFits ==
  ASSUME NEW t, t.member = "id", t.kind \in {"SR", "R", "MR"}, NEW got, IsAnswer(t, got),
         NEW own, NEW id,
         NEW d \in Changed(got, [[got.data EXCEPT !.id = id] EXCEPT !.id = t.id])
  PROVE  Fits(t, own, got, d)
<1> DEFINE e == WithId(got.data, id)
<1>1. got.ok /\ d = WithId(e, t.id)
  BY DEF Changed, WithId
<1>2. IsRegister(t.kind, e) /\ e.value = got.data.value /\ e.comment = got.data.comment
  BY IdSet DEF IsAnswer
<1> HIDE DEF e
<1>3. IsRegister(t.kind, d) /\ d.id = t.id /\ d.value = e.value /\ d.comment = e.comment
  BY <1>1, <1>2, IdSet
<1> QED
  BY <1>1, <1>2, <1>3 DEF Fits

\* The id of a PR or HR register: the content goes to that id.
LEMMA MovedFits ==
  ASSUME NEW t, t.member = "id", t.kind \in {"PR", "HR"}, NEW got, IsAnswer(t, got),
         NEW own, NEW id, NEW d \in Changed(got, [got.data EXCEPT !.id = id])
  PROVE  Fits(t, own, got, d)
<1>1. got.ok /\ d = WithId(got.data, id)
  BY DEF Changed, WithId
<1>2. IsRegister(t.kind, d) /\ d.value = got.data.value
  BY <1>1, IdSet DEF IsAnswer
<1> QED
  BY <1>1, <1>2 DEF Fits, ById

\* A whole PR or HR register.
LEMMA WholeFits ==
  ASSUME NEW t, t.member = "", t.kind \in {"PR", "HR"}, NEW got, NEW own, NEW d,
         IsRegister(t.kind, d)
  PROVE  Fits(t, own, got, d)
BY DEF Fits, ById

\* A whole string, R or MR register gets the id named.
LEMMA NumberedFits ==
  ASSUME NEW t, t.member = "", t.kind \in {"SR", "R", "MR"}, NEW got, NEW x, IsData(x),
         NEW d, d = WithId(x, t.id)
  PROVE  Fits(t, TRUE, got, d)
<1> DEFINE k == t.kind
           i == t.id
<1>1. IsRegister(k, x)
  BY DEF IsRegister, IsValueOf
<1>2. d = WithId(x, i)
  OBVIOUS
<1> HIDE DEF k, i
<1>3. IsRegister(k, d) /\ d.id = i
  BY ONLY <1>1, <1>2, IdSet
<1> QED
  BY <1>3 DEF Fits, k, i

Valued(got, id, d) == \E x : d \in OrNew(got, id, x)

\* The value of a string, R or MR register.
LEMMA ValueFits ==
  ASSUME NEW t, t.member = "" \/ t.member = "value",
         t.kind = "SR" \/ t.kind = "R" \/ t.kind = "MR",
         NEW got, IsAnswer(t, got), NEW own, NEW d, Valued(got, t.id, d)
  PROVE  Fits(t, own, got, d)
<1> PICK x : d \in OrNew(got, t.id, x)
  BY DEF Valued
<1>1. IsValueOf(t.kind, x)
  BY DEF IsValueOf
<1>2. CASE got.ok
  <2> DEFINE k == t.kind
             e == got.data
  <2>1. d = WithValue(e, x)
    BY <1>2 DEF OrNew, WithValue
  <2>2. IsRegister(k, e) /\ IsValueOf(k, x)
    BY <1>1 DEF IsAnswer
  <2> HIDE DEF k, e
  <2>3. IsRegister(k, d) /\ d.id = e.id /\ d.comment = e.comment
    BY ONLY <2>1, <2>2, ValueReplaced
  <2> QED
    BY <2>3 DEF Fits, IsAnswer, k, e
<1>3. CASE ~got.ok
  <2>1. d = [id |-> t.id, comment |-> <<"Empty">>, value |-> x]
    BY <1>3 DEF OrNew
  <2> QED
    BY <1>1, <1>3, <2>1 DEF Fits, IsRegister, IsData
<1> QED
  BY <1>2, <1>3

\* A member of a PR or HR register, the rest as it was read.
LEMMA MemberFits ==
  ASSUME NEW t, t.member \notin {"", "value", "id"}, NEW got, IsAnswer(t, got), got.ok,
         NEW w, IsValueOf(t.kind, w), Blank(t, w) = Blank(t, got.data.value), NEW own, NEW d,
         d = WithValue(got.data, w)
  PROVE  Fits(t, own, got, d)
<1> DEFINE k == t.kind
           e == got.data
<1>1. IsRegister(k, e) /\ IsValueOf(k, w) /\ d = WithValue(e, w)
  BY DEF IsAnswer
<1> HIDE DEF k, e
<1>2. IsRegister(k, d) /\ d.id = e.id /\ d.value = w /\ d.comment = e.comment
  BY ONLY <1>1, ValueReplaced
<1> QED
  BY <1>2 DEF Fits, IsAnswer, k, e

\* The pose of a PR register.
LEMMA PoseFits ==
  ASSUME NEW t, t.member = "pose", t.kind = "PR", t.axis \in Axes, NEW got, IsAnswer(t, got),
         NEW own, NEW p, IsVector(p), NEW d \in setPosePr(got, p)
  PROVE  Fits(t, own, got, d)
<1> DEFINE v == got.data.value
           w == [v EXCEPT !.pose = p]
<1>1. IsPosition(v)
  BY DEF IsAnswer, IsRegister, IsValueOf
<1>2. got.ok /\ d = WithValue(got.data, w)
  BY DEF setPosePr, Changed, WithValue
<1>3. IsPosition(w)
  BY <1>1, PoseSet
<1>4. Blank(t, w) = Blank(t, v)
  BY <1>1, PoseBlank
<1> HIDE DEF v, w
<1>5. IsValueOf(t.kind, w)
  BY <1>3 DEF IsValueOf
<1> QED
  BY <1>2, <1>4, <1>5, MemberFits DEF v

\* The joint of a PR register.
LEMMA JointFits ==
  ASSUME NEW t, t.member = "joint", t.kind = "PR", t.axis \in Axes, NEW got,
         IsAnswer(t, got), NEW own, NEW p, IsVector(p), NEW d \in setJointPr(got, p)
  PROVE  Fits(t, own, got, d)
<1> DEFINE v == got.data.value
           w == [v EXCEPT !.joint = p]
<1>1. IsPosition(v)
  BY DEF IsAnswer, IsRegister, IsValueOf
<1>2. got.ok /\ d = WithValue(got.data, w)
  BY DEF setJointPr, Changed, WithValue
<1>3. IsPosition(w)
  BY <1>1, JointSet
<1>4. Blank(t, w) = Blank(t, v)
  BY <1>1, JointBlank
<1> HIDE DEF v, w
<1>5. IsValueOf(t.kind, w)
  BY <1>3 DEF IsValueOf
<1> QED
  BY <1>2, <1>4, <1>5, MemberFits DEF v

\* The type of a PR register.
LEMMA TypeFits ==
  ASSUME NEW t, t.member = "type", t.kind = "PR", NEW got, IsAnswer(t, got), NEW own, NEW ty,
         NEW d \in setTypePr(got, ty)
  PROVE  Fits(t, own, got, d)
<1> DEFINE v == got.data.value
           w == [v EXCEPT !.type = ty]
<1>1. IsPosition(v)
  BY DEF IsAnswer, IsRegister, IsValueOf
<1>2. got.ok /\ d = WithValue(got.data, w)
  BY DEF setTypePr, Changed, WithValue
<1>3. IsPosition(w)
  BY <1>1, TypeSet
<1>4. Blank(t, w) = Blank(t, v)
  BY <1>1, TypeBlank
<1> HIDE DEF v, w
<1>5. IsValueOf(t.kind, w)
  BY <1>3 DEF IsValueOf
<1> QED
  BY <1>2, <1>4, <1>5, MemberFits DEF v

\* An axis of a PR register's pose.
LEMMA XFits ==
  ASSUME NEW t, t.member \in {"x", "pj"}, t.kind = "PR", t.axis \in Axes, NEW got,
         IsAnswer(t, got), NEW own, NEW val, NEW d \in WritePrX(t, val, got)
  PROVE  Fits(t, own, got, d)
<1> DEFINE v == got.data.value
           p == [v.pose EXCEPT ![t.axis] = getFloatValue(val)]
           w == [v EXCEPT !.pose = p]
<1>1. IsPosition(v) /\ IsVector(v.pose)
  BY DEF IsAnswer, IsRegister, IsValueOf, IsPosition
<1>2. /\ got.ok /\ v.type = POS_TYPE_CARTESIAN
      /\ d = [got.data EXCEPT !.value.pose[t.axis] = getFloatValue(val)]
  BY DEF WritePrX, IfType, setPr
<1>3. d = WithValue(got.data, w)
  BY <1>2 DEF WithValue
<1>4. p = [b \in Axes |-> IF b = t.axis THEN getFloatValue(val) ELSE v.pose[b]]
  BY <1>1 DEF IsVector
<1> HIDE DEF p
<1>5. IsVector(p) /\ \A a \in Axes : a # t.axis => p[a] = v.pose[a]
  BY <1>4 DEF IsVector
<1>6. IsPosition(w)
  BY <1>1, <1>5, PoseSet
<1>7. Blank(t, w) = Blank(t, v)
  <2>1. CASE t.member = "x"
    BY <1>1, <1>5, <2>1, PoseBlank
  <2>2. CASE t.member = "pj"
    BY <1>1, <1>2, <1>5, <2>2, EitherBlank
  <2> QED
    BY <2>1, <2>2
<1> HIDE DEF v, w
<1>8. IsValueOf(t.kind, w)
  BY <1>6 DEF IsValueOf
<1> QED
  BY <1>2, <1>3, <1>7, <1>8, MemberFits DEF v

\* An axis of a PR register's joint.
LEMMA JFits ==
  ASSUME NEW t, t.member \in {"j", "pj"}, t.kind = "PR", t.axis \in Axes, NEW got,
         IsAnswer(t, got), NEW own, NEW val, NEW d \in WritePrJ(t, val, got)
  PROVE  Fits(t, own, got, d)
<1> DEFINE v == got.data.value
           p == [v.joint EXCEPT ![t.axis] = getFloatValue(val)]
           w == [v EXCEPT !.joint = p]
<1>1. IsPosition(v) /\ IsVector(v.joint)
  BY DEF IsAnswer, IsRegister, IsValueOf, IsPosition
<1>2. /\ got.ok /\ v.type = POS_TYPE_JOINT
      /\ d = [got.data EXCEPT !.value.joint[t.axis] = getFloatValue(val)]
  BY DEF WritePrJ, IfType, setPr
<1>3. d = WithValue(got.data, w)
  BY <1>2 DEF WithValue
<1>4. p = [b \in Axes |-> IF b = t.axis THEN getFloatValue(val) ELSE v.joint[b]]
  BY <1>1 DEF IsVector
<1> HIDE DEF p
<1>5. IsVector(p) /\ \A a \in Axes : a # t.axis => p[a] = v.joint[a]
  BY <1>4 DEF IsVector
<1>6. IsPosition(w)
  BY <1>1, <1>5, JointSet
<1>7. Blank(t, w) = Blank(t, v)
  <2>1. CASE t.member = "j"
    BY <1>1, <1>5, <2>1, JointBlank
  <2>2. CASE t.member = "pj"
    BY <1>1, <1>2, <1>5, <2>2, EitherBlank
  <2> QED
    BY <2>1, <2>2
<1> HIDE DEF v, w
<1>8. IsValueOf(t.kind, w)
  BY <1>6 DEF IsValueOf
<1> QED
  BY <1>2, <1>3, <1>7, <1>8, MemberFits DEF v

\* The joint of an HR register.
LEMMA HrJointFits ==
  ASSUME NEW t, t.member = "joint", t.kind = "HR", t.axis \in Axes, NEW got,
         IsAnswer(t, got), NEW own, NEW p, IsVector(p), NEW d \in setJointHr(got, p)
  PROVE  Fits(t, own, got, d)
<1>1. IsVector(got.data.value)
  BY DEF IsAnswer, IsRegister, IsValueOf
<1>2. got.ok /\ d = WithValue(got.data, p)
  BY DEF setJointHr, Changed, WithValue
<1>3. Blank(t, p) = Blank(t, got.data.value)
  BY <1>1, HrBlank
<1>4. IsValueOf(t.kind, p)
  BY DEF IsValueOf
<1> QED
  BY <1>2, <1>3, <1>4, MemberFits

\* An axis of an HR register.
LEMMA HrJFits ==
  ASSUME NEW t, t.member \in {"j", "hj"}, t.kind = "HR", t.axis \in Axes, NEW got,
         IsAnswer(t, got), NEW own, NEW val, NEW d \in WriteHrJ(t, val, got)
  PROVE  Fits(t, own, got, d)
<1> DEFINE v == got.data.value
           p == [v EXCEPT ![t.axis] = getFloatValue(val)]
<1>1. IsVector(v)
  BY DEF IsAnswer, IsRegister, IsValueOf
<1>2. got.ok /\ d = [got.data EXCEPT !.value[t.axis] = getFloatValue(val)]
  BY DEF WriteHrJ, setHr
<1>3. d = WithValue(got.data, p)
  BY <1>2 DEF WithValue
<1>4. p = [b \in Axes |-> IF b = t.axis THEN getFloatValue(val) ELSE v[b]]
  BY <1>1 DEF IsVector
<1> HIDE DEF p
<1>5. IsVector(p) /\ \A a \in Axes : a # t.axis => p[a] = v[a]
  BY <1>4 DEF IsVector
<1>6. Blank(t, p) = Blank(t, v)
  BY <1>1, <1>5, HrBlank
<1>7. IsValueOf(t.kind, p)
  BY <1>5 DEF IsValueOf
<1> HIDE DEF v
<1> QED
  BY <1>2, <1>3, <1>6, <1>7, MemberFits DEF v

\* A register named is of one of the five kinds, its axis one of the axes.
LEMMA TargetIs ==
  ASSUME NEW t, IsTarget(t)
  PROVE  /\ t.kind \in Kinds /\ t.axis \in Axes
         /\ t.kind \in {"PR", "SR", "R", "MR", "HR"}
BY DEF IsTarget, Kinds

\* A list of numbers fills a position from the first axis.
LEMMA ListedIs ==
  ASSUME NEW v, NEW rest, IsVector(rest)
  PROVE  IsVector(Listed(v, rest))
<1> DEFINE p == Listed(v, rest)
<1>1. p = [a \in Axes |-> IF a = 1 THEN getFloatValue(v) ELSE rest[a]]
  BY AxesAssumption DEF Listed, IsVector
<1> QED
  BY <1>1 DEF IsVector

\* What an assignment passes on fits the PR register it names.
LEMMA PrPassedOn ==
  ASSUME NEW t, IsTarget(t), t.kind = "PR", NEW v, IsEval(v), NEW rest, IsVector(rest), NEW got,
         IsAnswer(t, got), NEW own, NEW d \in WritePr(t, v, rest, got)
  PROVE  Fits(t, own, got, d)
<1>0. t.axis \in Axes /\ IsVector(Listed(v, rest)) /\ IsVector(v.pose) /\ IsVector(v.joint)
  BY TargetIs, ListedIs DEF IsEval
<1>1. CASE t.member = ""
  <2>1. d = getPrRegDataValue(v)
    BY <1>1 DEF WritePr, setPr
  <2>2. CASE "PR" \in v.type
    BY <2>1, <2>2, <1>1, WholeFits DEF getPrRegDataValue, IsEval, IsRegister, IsValueOf
  <2>3. CASE "PR" \notin v.type
    <3>1. d = [NoData EXCEPT !.value = ZeroPosition]
      BY <2>1, <2>3 DEF getPrRegDataValue
    <3>2. d = [id |-> 0, comment |-> <<>>, value |-> ZeroPosition]
      BY <3>1 DEF NoData
    <3>3. IsRegister("PR", d)
      BY <3>2, ZeroIsVector DEF IsRegister, IsData, IsValueOf
    <3> QED
      BY <1>1, <3>3, WholeFits
  <2> QED
    BY <2>2, <2>3
<1>2. CASE t.member = "pose"
  <2>1. d \in setPosePr(got, Listed(v, rest)) \/ d \in setPosePr(got, v.pose)
    BY <1>2 DEF WritePr, WritePrPose, Float
  <2> QED
    BY <1>0, <1>2, <2>1, PoseFits
<1>3. CASE t.member = "x"
  BY <1>0, <1>3, XFits DEF WritePr
<1>4. CASE t.member = "joint"
  <2>1. d \in setJointPr(got, Listed(v, rest)) \/ d \in setJointPr(got, v.joint)
    BY <1>4 DEF WritePr, WritePrJoint, Float
  <2> QED
    BY <1>0, <1>4, <2>1, JointFits
<1>5. CASE t.member = "j"
  BY <1>0, <1>5, JFits DEF WritePr
<1>6. CASE t.member = "pj"
  BY <1>0, <1>6, XFits, JFits DEF WritePr, WritePrEither
<1>7. CASE t.member = "type"
  BY <1>7, TypeFits DEF WritePr
<1>8. CASE t.member = "id"
  BY <1>8, MovedFits DEF WritePr, setIdPr
<1>9. CASE t.member = "comment"
  BY <1>9, CommentFits DEF WritePr, setCommentPr
<1>10. CASE t.member \notin {"", "pose", "x", "joint", "j", "pj", "type", "id", "comment"}
  BY <1>10 DEF WritePr
<1> QED
  BY <1>1, <1>2, <1>3, <1>4, <1>5, <1>6, <1>7, <1>8, <1>9, <1>10

\* The same for an HR register.
LEMMA HrPassedOn ==
  ASSUME NEW t, IsTarget(t), t.kind = "HR", NEW v, IsEval(v), NEW rest, IsVector(rest), NEW got,
         IsAnswer(t, got), NEW own, NEW junk, NEW d \in WriteHr(t, v, rest, got, junk)
  PROVE  Fits(t, own, got, d)
<1>0. t.axis \in Axes /\ IsVector(Listed(v, rest)) /\ IsVector(v.joint)
  BY TargetIs, ListedIs DEF IsEval
<1>1. CASE t.member = ""
  <2>1. d = IF "HR" \in v.type THEN v.reg ELSE JunkData("HR", junk)
    BY <1>1 DEF WriteHr, setHr
  <2>2. IsRegister("HR", JunkData("HR", junk))
    BY JunkIs DEF Kinds
  <2>3. "HR" \in v.type => IsRegister("HR", v.reg)
    BY DEF IsEval, IsRegister, IsValueOf
  <2> QED
    BY <1>1, <2>1, <2>2, <2>3, WholeFits
<1>2. CASE t.member = "joint"
  <2>1. d \in setJointHr(got, Listed(v, rest)) \/ d \in setJointHr(got, v.joint)
    BY <1>2 DEF WriteHr, WriteHrJoint, Float
  <2> QED
    BY <1>0, <1>2, <2>1, HrJointFits
<1>3. CASE t.member \in {"j", "hj"}
  BY <1>0, <1>3, HrJFits DEF WriteHr
<1>4. CASE t.member = "id"
  BY <1>4, MovedFits DEF WriteHr, setIdHr
<1>5. CASE t.member = "comment"
  BY <1>5, CommentFits DEF WriteHr, setCommentHr
<1>6. CASE t.member \notin {"", "joint", "j", "hj", "id", "comment"}
  BY <1>6 DEF WriteHr
<1> QED
  BY <1>1, <1>2, <1>3, <1>4, <1>5, <1>6

\* The same for a string register.
LEMMA SrPassedOn ==
  ASSUME NEW t, IsTarget(t), t.kind = "SR", NEW v, IsEval(v), NEW got, IsAnswer(t, got),
         NEW d \in WriteSr(t, v, got)
  PROVE  Fits(t, v.type = SrString, got, d)
<1>1. CASE t.member = "" /\ v.type = SrString
  <2>1. d = WithId(v.reg, t.id)
    BY <1>1 DEF WriteSr, setSr, WithId, SrString, RFloat, MrFloat
  <2>2. IsData(v.reg)
    BY DEF IsEval
  <2>3. Fits(t, TRUE, got, d)
    BY <1>1, <2>1, <2>2, NumberedFits
  <2> QED
    BY <1>1, <2>3
<1>2. CASE t.member = "" /\ v.type # SrString
  <2>1. Valued(got, t.id, d)
    BY <1>2 DEF WriteSr, setValueSr, Valued, RFloat, MrFloat
  <2> QED
    BY <1>2, <2>1, ValueFits
<1>3. CASE t.member = "value"
  <2>1. Valued(got, t.id, d)
    BY <1>3 DEF WriteSr, setValueSr, Valued
  <2> QED
    BY <1>3, <2>1, ValueFits
<1>4. CASE t.member = "id"
  BY <1>4, IdFits DEF WriteSr, setIdSr
<1>5. CASE t.member = "comment"
  BY <1>5, CommentFits DEF WriteSr, setCommentSr
<1>6. CASE t.member \notin {"", "value", "id", "comment"}
  BY <1>6 DEF WriteSr
<1> QED
  BY <1>1, <1>2, <1>3, <1>4, <1>5, <1>6

\* The same for an R register.
LEMMA RPassedOn ==
  ASSUME NEW t, IsTarget(t), t.kind = "R", NEW v, IsEval(v), NEW got, IsAnswer(t, got),
         NEW d \in WriteR(t, v, got)
  PROVE  Fits(t, v.type = RFloat, got, d)
<1>1. CASE t.member = "" /\ v.type = RFloat
  <2>0. v.type \notin {Float, MrFloat, SrString}
    BY <1>1 DEF Float, RFloat, MrFloat, SrString
  <2>1. d = WithId(v.reg, t.id)
    BY <1>1, <2>0 DEF WriteR, setR, WithId
  <2>2. IsData(v.reg)
    BY DEF IsEval
  <2>3. Fits(t, TRUE, got, d)
    BY <1>1, <2>1, <2>2, NumberedFits
  <2> QED
    BY <1>1, <2>3
<1>2. CASE t.member = "" /\ v.type # RFloat
  <2>1. Valued(got, t.id, d)
    BY <1>2 DEF WriteR, setValueR, Valued
  <2> QED
    BY <1>2, <2>1, ValueFits
<1>3. CASE t.member = "value"
  <2>1. Valued(got, t.id, d)
    BY <1>3 DEF WriteR, setValueR, Valued
  <2> QED
    BY <1>3, <2>1, ValueFits
<1>4. CASE t.member = "id"
  BY <1>4, IdFits DEF WriteR, setIdR
<1>5. CASE t.member = "comment"
  BY <1>5, CommentFits DEF WriteR, setCommentR
<1>6. CASE t.member \notin {"", "value", "id", "comment"}
  BY <1>6 DEF WriteR
<1> QED
  BY <1>1, <1>2, <1>3, <1>4, <1>5, <1>6

\* The same for an MR register.
LEMMA MrPassedOn ==
  ASSUME NEW t, IsTarget(t), t.kind = "MR", NEW v, IsEval(v), NEW got, IsAnswer(t, got),
         NEW d \in WriteMr(t, v, got)
  PROVE  Fits(t, v.type = MrFloat, got, d)
<1>1. CASE t.member = "" /\ v.type = MrFloat
  <2>0. v.type \notin {Float, RFloat, SrString}
    BY <1>1 DEF Float, RFloat, MrFloat, SrString
  <2>1. d = WithId(v.reg, t.id)
    BY <1>1, <2>0 DEF WriteMr, setMr, WithId
  <2>2. IsData(v.reg)
    BY DEF IsEval
  <2>3. Fits(t, TRUE, got, d)
    BY <1>1, <2>1, <2>2, NumberedFits
  <2> QED
    BY <1>1, <2>3
<1>2. CASE t.member = "" /\ v.type # MrFloat
  <2>1. Valued(got, t.id, d)
    BY <1>2 DEF WriteMr, setValueMr, Valued
  <2> QED
    BY <1>2, <2>1, ValueFits
<1>3. CASE t.member = "value"
  <2>1. Valued(got, t.id, d)
    BY <1>3 DEF WriteMr, setValueMr, Valued
  <2> QED
    BY <1>3, <2>1, ValueFits
<1>4. CASE t.member = "id"
  BY <1>4, IdFits DEF WriteMr, setIdMr
<1>5. CASE t.member = "comment"
  BY <1>5, CommentFits DEF WriteMr, setCommentMr
<1>6. CASE t.member \notin {"", "value", "id", "comment"}
  BY <1>6 DEF WriteMr
<1> QED
  BY <1>1, <1>2, <1>3, <1>4, <1>5, <1>6

\* What an assignment passes on.
LEMMA AssignedFits ==
  ASSUME NEW t, IsTarget(t), NEW v, IsEval(v), NEW rest, IsVector(rest), NEW got,
         IsAnswer(t, got), NEW junk, NEW d \in set_register(t, v, rest, got, junk)
  PROVE  Fits(t, v.type = OwnType(t.kind), got, d)
<1>1. CASE t.kind = "PR"
  BY <1>1, PrPassedOn DEF set_register
<1>2. CASE t.kind = "SR"
  BY <1>2, SrPassedOn DEF set_register, OwnType
<1>3. CASE t.kind = "R"
  BY <1>3, RPassedOn DEF set_register, OwnType
<1>4. CASE t.kind = "MR"
  BY <1>4, MrPassedOn DEF set_register, OwnType
<1>5. CASE t.kind = "HR"
  BY <1>5, HrPassedOn DEF set_register
<1> QED
  BY TargetIs, <1>1, <1>2, <1>3, <1>4, <1>5

\* What a request passes on.
LEMMA PayloadIs ==
  ASSUME NEW t, IsTarget(t), t.member \in Stored(t.kind), NEW x \in Payloads(t)
  PROVE  /\ t.member = "" => IsRegister(t.kind, x)
         /\ t.member \in {"pose", "joint"} => IsVector(x)
<1>1. CASE t.member = ""
  <2>1. x \in [id : Int, comment : Seq(STRING), value : Values(t.kind)]
    BY <1>1 DEF Payloads
  <2>2. IsData(x) /\ x.value \in Values(t.kind)
    BY <2>1 DEF IsData
  <2>3. IsValueOf(t.kind, x.value)
    BY <2>2 DEF IsValueOf, Values, IsPosition, IsVector, Positions
  <2> QED
    BY <1>1, <2>2, <2>3 DEF IsRegister
<1>2. CASE t.member \in {"pose", "joint"}
  BY <1>2 DEF Payloads, Positions, IsVector
<1>3. CASE t.member \notin {"", "pose", "joint"}
  BY <1>3
<1> QED
  BY <1>1, <1>2, <1>3

\* What a modify request passes on fits the register it names.
LEMMA ModifiedFits ==
  ASSUME NEW t, IsTarget(t), t.member \in Stored(t.kind), NEW x \in Payloads(t), NEW got,
         IsAnswer(t, got), NEW d \in forgesight_mod_reg(t, x, got)
  PROVE  Fits(t, TRUE, got, d)
<1>0. t.axis \in Axes
  BY TargetIs
<1>1. CASE t.kind = "PR"
  <2> USE <1>1
  <2>0. d \in ModPr(t, x, got)
    BY DEF forgesight_mod_reg
  <2>1. CASE t.member = ""
    BY <2>0, <2>1, PayloadIs, WholeFits DEF ModPr, setPr
  <2>2. CASE t.member = "pose"
    BY <1>0, <2>0, <2>2, PayloadIs, PoseFits DEF ModPr
  <2>3. CASE t.member = "joint"
    BY <1>0, <2>0, <2>3, PayloadIs, JointFits DEF ModPr
  <2>4. CASE t.member = "type"
    BY <2>0, <2>4, TypeFits DEF ModPr
  <2>5. CASE t.member = "id"
    BY <2>0, <2>5, MovedFits DEF ModPr, setIdPr
  <2>6. CASE t.member = "comment"
    BY <2>0, <2>6, CommentFits DEF ModPr, setCommentPr
  <2> QED
    BY <2>1, <2>2, <2>3, <2>4, <2>5, <2>6 DEF Stored
<1>2. CASE t.kind = "HR"
  <2> USE <1>2
  <2>0. d \in ModHr(t, x, got)
    BY DEF forgesight_mod_reg
  <2>1. CASE t.member = ""
    BY <2>0, <2>1, PayloadIs, WholeFits DEF ModHr, setHr
  <2>2. CASE t.member = "joint"
    BY <1>0, <2>0, <2>2, PayloadIs, HrJointFits DEF ModHr
  <2>3. CASE t.member = "id"
    BY <2>0, <2>3, MovedFits DEF ModHr, setIdHr
  <2>4. CASE t.member = "comment"
    BY <2>0, <2>4, CommentFits DEF ModHr, setCommentHr
  <2> QED
    BY <2>1, <2>2, <2>3, <2>4 DEF Stored
<1>3. CASE t.kind \in {"SR", "R", "MR"}
  <2>1. CASE t.member = ""
    <3>1. IsData(x)
      BY <2>1, PayloadIs DEF IsRegister
    <3>2. d = WithId(x, t.id)
      BY <1>3, <2>1 DEF forgesight_mod_reg, ModSr, ModR, ModMr, setSr, setR, setMr, WithId
    <3> QED
      BY <1>3, <2>1, <3>1, <3>2, NumberedFits
  <2>2. CASE t.member = "value"
    <3>1. Valued(got, t.id, d)
      BY <1>3, <2>2 DEF forgesight_mod_reg, ModSr, ModR, ModMr, setValueSr, setValueR,
         setValueMr, Valued
    <3> QED
      BY <1>3, <2>2, <3>1, ValueFits
  <2>3. CASE t.member = "id"
    <3>1. d \in Changed(got, [[got.data EXCEPT !.id = x] EXCEPT !.id = t.id])
      BY <1>3, <2>3 DEF forgesight_mod_reg, ModSr, ModR, ModMr, setIdSr, setIdR, setIdMr
    <3> QED
      BY <1>3, <2>3, <3>1, IdFits
  <2>4. CASE t.member = "comment"
    <3>1. d \in Changed(got, [got.data EXCEPT !.comment = x])
      BY <1>3, <2>4 DEF forgesight_mod_reg, ModSr, ModR, ModMr, setCommentSr, setCommentR,
         setCommentMr
    <3> QED
      BY <2>4, <3>1, CommentFits
  <2> QED
    BY <1>3, <2>1, <2>2, <2>3, <2>4 DEF Stored
<1> QED
  BY TargetIs, <1>1, <1>2, <1>3

-----------------------------------------------------------------------------
(***************************************************************************)
(* The invariant holds.                                                    *)
(***************************************************************************)
LEMMA IdleIs == Idle.pc = "idle"
BY DEF Idle

\* At the start nobody is in a call and every register is well formed.
LEMMA StartsWell == Init => AInv
<1> SUFFICES ASSUME Init PROVE AInv
  OBVIOUS
<1>1. IsStore(st)
  <2>1. st = [k \in Kinds |-> st[k]]
    BY ContentsAssumption DEF Init
  <2>2. ASSUME NEW k \in Kinds
        PROVE  /\ st[k] = [i \in Ids |-> st[k][i]]
               /\ \A i \in Ids : IsEntry(k, st[k][i])
    <3>1. st[k] \in [Ids -> [is_valid : BOOLEAN, comment : Seq(STRING), value : Values(k)]]
      BY ContentsAssumption DEF Init
    <3>2. st[k] = [i \in Ids |-> st[k][i]]
      BY <3>1
    <3>3. ASSUME NEW i \in Ids
          PROVE  IsEntry(k, st[k][i])
      <4> DEFINE e == st[k][i]
      <4>1. e \in [is_valid : BOOLEAN, comment : Seq(STRING), value : Values(k)]
        BY <3>1
      <4> HIDE DEF e
      <4>2. /\ e = [is_valid |-> e.is_valid, comment |-> e.comment, value |-> e.value]
            /\ e.is_valid \in BOOLEAN /\ e.value \in Values(k)
        BY <4>1
      <4>3. IsValueOf(k, e.value)
        BY <4>2 DEF IsValueOf, Values, IsPosition, IsVector, Positions
      <4> QED
        BY <4>2, <4>3 DEF IsEntry, e
    <3> QED
      BY <3>2, <3>3
  <2> QED
    BY <2>1, <2>2 DEF IsStore
<1>2. call = [x \in Actors |-> Idle]
  BY DEF Init
<1>3. \A x \in Actors : IsCall(x, call[x]) /\ IsCurrent(st, call[x])
  BY <1>2, IdleIs DEF IsCall, IsCurrent
<1> QED
  BY <1>1, <1>2, <1>3 DEF AInv, CallInv

\* A call of one actor replaced, the registers left alone.
LEMMA CallReplaced ==
  ASSUME AInv, NEW x \in Actors, NEW c, IsCall(x, c), IsCurrent(st, c), UNCHANGED st,
         call' = [call EXCEPT ![x] = c]
  PROVE  AInv'
<1>1. call' = [y \in Actors |-> IF y = x THEN c ELSE call[y]]
  BY DEF AInv, CallInv
<1>2. \A y \in Actors : IsCall(y, call'[y]) /\ IsCurrent(st, call'[y])
  BY <1>1 DEF AInv, CallInv
<1>3. CallInv'
  BY <1>1, <1>2 DEF CallInv
<1>4. IsStore(st)'
  BY DEF AInv
<1> QED
  BY <1>3, <1>4 DEF AInv

\* A program is an actor, and not the command loop.
LEMMA ProgramsAreActors ==
  ASSUME NEW p \in Programs
  PROVE  p \in Actors /\ p # "command"
BY ActorsAssumption DEF Actors

\* Taking up an assignment keeps the invariant.
LEMMA BeginKeeps ==
  ASSUME AInv, NEW p \in Programs, NEW s \in Statements, BeginStatement(p, s)
  PROVE  AInv'
<1>1. PICK junk \in Junk :
        LET v == find_var(s.left, junk) IN
        call' = [call EXCEPT ![p] =
          [pc |-> IF s.op \in {"", "unary"} THEN "read" ELSE "right", by |-> "assign",
           to |-> Narrowed(s.to), named |-> s.to.id, op |-> s.op, second |-> s.right, rest |-> s.rest, left |-> v, right |-> None,
           acc |-> IF s.op = "unary" THEN calcUnary(v) ELSE v,
           got |-> NoAnswer(Narrowed(s.to)), overtaken |-> FALSE]]
  BY DEF BeginStatement
<1> DEFINE v == find_var(s.left, junk)
           pc == IF s.op \in {"", "unary"} THEN "read" ELSE "right"
           acc == IF s.op = "unary" THEN calcUnary(v) ELSE v
           t == Narrowed(s.to)
           c == [pc |-> pc, by |-> "assign", to |-> t, named |-> s.to.id,
                 op |-> s.op, second |-> s.right, rest |-> s.rest, left |-> v, right |-> None,
                 acc |-> acc, got |-> NoAnswer(t), overtaken |-> FALSE]
<1>2. call' = [call EXCEPT ![p] = c]
  BY <1>1
<1>3. /\ IsTarget(s.to) /\ IsOperand(s.left) /\ IsOperand(s.right)
      /\ s.op \in {"", "unary", "+", "-", "*", "/", "%", "^"}
      /\ IsVector(s.rest)
  BY StatementsAssumption DEF Positions, IsVector
<1>4. IsEval(v) /\ Copied(v)
  BY <1>3, OperandIs DEF AInv
<1>5. IsEval(acc) /\ Agree(acc, v, None)
  <2> HIDE DEF v
  <2> QED
    BY <1>4, UnaryIs, ReadAgrees
<1>6. (pc = "right" /\ s.op \in {"+", "-", "*", "/", "%", "^"}) \/ pc = "read"
  BY <1>3
<1>11. IsTarget(t) /\ t.id = s.to.id % Uint16
  BY <1>3, NarrowedIs
<1> HIDE DEF v, pc, acc, t
<1>7. IsAssign(c)
  BY <1>3, <1>4, <1>5, <1>6, <1>11 DEF IsAssign
<1>8. c.pc = pc
  OBVIOUS
<1> HIDE DEF c
<1>9. IsCall(p, c) /\ IsCurrent(st, c)
  BY <1>6, <1>7, <1>8 DEF IsCall, IsCurrent
<1>10. UNCHANGED st
  BY DEF BeginStatement
<1> QED
  BY <1>2, <1>9, <1>10, ProgramsAreActors, CallReplaced

\* What a program is in the middle of is an assignment.
LEMMA CallOfProgram ==
  ASSUME AInv, NEW p \in Programs, call[p].pc # "idle"
  PROVE  IsAssign(call[p])
BY ProgramsAreActors, IdleIs DEF AInv, CallInv, IsCall

\* Reading the second operand and applying the operator keeps the invariant.
LEMMA ReadRightKeeps ==
  ASSUME AInv, NEW p \in Programs, ReadRight(p)
  PROVE  AInv'
<1> DEFINE c == call[p]
<1>1. PICK junk \in Junk :
        LET h == find_var(c.second, junk) IN
        call' = [call EXCEPT ![p] = [c EXCEPT !.pc = "read", !.right = h,
                                              !.acc = arith(c.op, c.left, h)]]
  BY DEF ReadRight
<1> DEFINE h == find_var(c.second, junk)
           acc == arith(c.op, c.left, h)
           e == [c EXCEPT !.pc = "read", !.right = h, !.acc = acc]
<1>2. call' = [call EXCEPT ![p] = e]
  BY <1>1
<1>3. c.pc = "right" /\ UNCHANGED st
  BY DEF ReadRight
<1>4. IsAssign(c)
  BY <1>3, CallOfProgram
<1> HIDE DEF c, h
<1>5. IsEval(acc) /\ Agree(acc, c.left, h)
  BY <1>3, <1>4, ArithIs DEF IsAssign
<1> HIDE DEF acc
<1>11. c = [pc |-> c.pc, by |-> c.by, to |-> c.to, named |-> c.named, op |-> c.op, second |-> c.second,
             rest |-> c.rest, left |-> c.left, right |-> c.right, acc |-> c.acc, got |-> c.got,
             overtaken |-> c.overtaken]
  BY <1>4 DEF IsAssign
<1>12. e = [c EXCEPT !.pc = "read", !.right = h, !.acc = acc]
  BY DEF e
<1> HIDE DEF e
<1>6. e = [pc |-> "read", by |-> c.by, to |-> c.to, named |-> c.named, op |-> c.op, second |-> c.second,
           rest |-> c.rest, left |-> c.left, right |-> h, acc |-> acc, got |-> c.got,
           overtaken |-> c.overtaken]
  BY ONLY <1>11, <1>12
<1>7. IsAssign(e) /\ e.pc = "read"
  BY <1>4, <1>5, <1>6 DEF IsAssign
<1>8. IsCall(p, e) /\ IsCurrent(st, e)
  BY <1>7 DEF IsCall, IsCurrent
<1> QED
  BY <1>2, <1>3, <1>8, ProgramsAreActors, CallReplaced

\* Taking up a modify request keeps the invariant.
LEMMA ModRegKeeps ==
  ASSUME AInv, NEW r \in Requests, ModReg(r)
  PROVE  AInv'
<1> DEFINE t == Narrowed(r.to)
           c == [pc |-> "read", by |-> "modify", to |-> t, named |-> r.to.id, x |-> r.x,
                 got |-> NoAnswer(t), overtaken |-> FALSE]
<1>1. call' = [call EXCEPT !["command"] = c] /\ UNCHANGED st
  BY DEF ModReg
<1>5. /\ IsTarget(t) /\ t.id = r.to.id % Uint16
      /\ t.member \in Stored(t.kind) /\ Payload(r.x) \in Payloads(t)
  <2>1. /\ IsTarget(r.to) /\ r.to.member \in Stored(r.to.kind)
        /\ Payload(r.x) \in Payloads(r.to)
    BY RequestsAssumption DEF ModReg
  <2>2. /\ IsTarget(t) /\ t.id = r.to.id % Uint16
        /\ t.kind = r.to.kind /\ t.member = r.to.member
    BY <2>1, NarrowedIs
  <2> HIDE DEF t
  <2>3. Payloads(t) = Payloads(r.to)
    BY <2>2 DEF Payloads
  <2> QED
    BY <2>1, <2>2, <2>3
<1> HIDE DEF t
<1>2. IsModify(c)
  BY <1>5 DEF IsModify
<1>3. c.pc = "read"
  OBVIOUS
<1> HIDE DEF c
<1>4. IsCall("command", c) /\ IsCurrent(st, c)
  BY <1>2, <1>3 DEF IsCall, IsCurrent
<1> QED
  BY <1>1, <1>4, CallReplaced DEF Actors

\* Answering a read request keeps the invariant.
LEMMA ReadRegKeeps ==
  ASSUME AInv, NEW r \in Requests, ReadReg(r)
  PROVE  AInv'
<1>1. PICK junk \in Junk :
        call' = [call EXCEPT !["command"] =
          [pc |-> "reply", to |-> Narrowed(r.to),
           reply |-> forgesight_read_reg(Narrowed(r.to),
                       getReg(st, Narrowed(r.to).kind, Narrowed(r.to).id), junk)]]
  BY DEF ReadReg
<1> DEFINE t == Narrowed(r.to)
           c == [pc |-> "reply", to |-> t,
                 reply |-> forgesight_read_reg(t, getReg(st, t.kind, t.id), junk)]
<1>2. call' = [call EXCEPT !["command"] = c] /\ UNCHANGED st
  BY <1>1 DEF ReadReg
<1>3. c.pc = "reply"
  OBVIOUS
<1> HIDE DEF c
<1>4. IsCall("command", c) /\ IsCurrent(st, c)
  BY <1>3 DEF IsCall, IsCurrent
<1> QED
  BY <1>2, <1>4, CallReplaced DEF Actors

\* A call that has been overtaken is the same call.
LEMMA OvertakenIs ==
  ASSUME NEW x, NEW c, IsCall(x, c), NEW changed
  PROVE  /\ IsCall(x, Overtaken(c, changed))
         /\ Overtaken(c, changed).pc = c.pc
         /\ c.pc = "write" =>
              /\ Overtaken(c, changed).to = c.to
              /\ Overtaken(c, changed).got = c.got
              /\ <<c.to.kind, c.to.id>> \in changed => Overtaken(c, changed).overtaken
              /\ <<c.to.kind, c.to.id>> \notin changed => Overtaken(c, changed) = c
<1> DEFINE w == [c EXCEPT !.overtaken = TRUE]
<1>1. CASE c.pc = "write" /\ <<c.to.kind, c.to.id>> \in changed
  <2>1. Overtaken(c, changed) = w
    BY <1>1 DEF Overtaken
  <2>2. CASE IsModify(c)
    <3>0. c = [pc |-> c.pc, by |-> c.by, to |-> c.to, named |-> c.named, x |-> c.x, got |-> c.got,
                overtaken |-> c.overtaken]
      BY <2>2 DEF IsModify
    <3>00. w = [c EXCEPT !.overtaken = TRUE]
      BY DEF w
    <3> HIDE DEF w
    <3>1. w = [pc |-> c.pc, by |-> c.by, to |-> c.to, named |-> c.named, x |-> c.x, got |-> c.got,
               overtaken |-> TRUE]
      BY ONLY <3>0, <3>00
    <3>2. IsModify(w) /\ w.pc = c.pc /\ w.to = c.to /\ w.got = c.got /\ w.overtaken
      BY <2>2, <3>1 DEF IsModify
    <3>3. x = "command" => IsCall(x, w)
      BY <3>2 DEF IsCall
    <3>4. x = "command" \/ IsAssign(c)
      BY <1>1, IdleIs DEF IsCall
    <3>5. ~IsAssign(c)
      <4>1. c.by = "modify"
        BY <2>2 DEF IsModify
      <4>2. IsAssign(c) => c.by = "assign"
        BY DEF IsAssign
      <4> QED
        BY <4>1, <4>2
    <3> QED
      BY <1>1, <2>1, <3>2, <3>3, <3>4, <3>5
  <2>3. CASE x \in Programs /\ IsAssign(c)
    <3>0. c = [pc |-> c.pc, by |-> c.by, to |-> c.to, named |-> c.named, op |-> c.op, second |-> c.second,
                rest |-> c.rest, left |-> c.left, right |-> c.right, acc |-> c.acc, got |-> c.got,
                overtaken |-> c.overtaken]
      BY <2>3 DEF IsAssign
    <3>00. w = [c EXCEPT !.overtaken = TRUE]
      BY DEF w
    <3> HIDE DEF w
    <3>1. w = [pc |-> c.pc, by |-> c.by, to |-> c.to, named |-> c.named, op |-> c.op, second |-> c.second,
               rest |-> c.rest, left |-> c.left, right |-> c.right, acc |-> c.acc,
               got |-> c.got, overtaken |-> TRUE]
      BY ONLY <3>0, <3>00
    <3>2. IsAssign(w) /\ w.pc = c.pc /\ w.to = c.to /\ w.got = c.got /\ w.overtaken
      BY <2>3, <3>1 DEF IsAssign
    <3> QED
      BY <1>1, <2>1, <2>3, <3>2 DEF IsCall
  <2> QED
    BY <1>1, <2>2, <2>3, IdleIs DEF IsCall
<1>2. CASE ~(c.pc = "write" /\ <<c.to.kind, c.to.id>> \in changed)
  BY <1>2 DEF Overtaken
<1> QED
  BY <1>1, <1>2

\* A call about to write names a register, and holds the answer unless overtaken.
LEMMA CallIs ==
  ASSUME AInv, NEW x \in Actors, call[x].pc = "write"
  PROVE  /\ IsTarget(call[x].to) /\ IsAnswer(call[x].to, call[x].got)
         /\ call[x].overtaken \/ call[x].got = getReg(st, call[x].to.kind, call[x].to.id)
         /\ IsModify(call[x]) \/ IsAssign(call[x])
         /\ call[x].to.id = call[x].named % Uint16
<1>1. IsCall(x, call[x]) /\ IsCurrent(st, call[x])
  BY DEF AInv, CallInv
<1>2. IsModify(call[x]) \/ IsAssign(call[x])
  BY <1>1, IdleIs DEF IsCall
<1> QED
  BY <1>1, <1>2 DEF IsCurrent, IsModify, IsAssign

\* What others change overtakes a call.
LEMMA OthersOvertake ==
  ASSUME AInv, NEW new, NEW y \in Actors
  PROVE  LET c == Overtaken(call[y], ChangedBy(new)) IN IsCall(y, c) /\ IsCurrent(new, c)
<1> DEFINE b == call[y]
           changed == ChangedBy(new)
           c == Overtaken(b, changed)
<1>1. IsCall(y, b) /\ IsCurrent(st, b)
  BY DEF AInv, CallInv
<1> HIDE DEF b, changed
<1>2. IsCall(y, c) /\ c.pc = b.pc
  BY <1>1, OvertakenIs
<1>3. ASSUME c.pc = "write"
      PROVE  IsAnswer(c.to, c.got) /\ (c.overtaken \/ c.got = getReg(new, c.to.kind, c.to.id))
  <2>1. IsTarget(b.to) /\ IsAnswer(b.to, b.got)
    BY <1>2, <1>3, CallIs DEF b
  <2>2. c.to = b.to /\ c.got = b.got
    BY <1>1, <1>2, <1>3, OvertakenIs
  <2>3. CASE <<b.to.kind, b.to.id>> \in changed
    BY <1>1, <1>2, <1>3, <2>1, <2>2, <2>3, OvertakenIs
  <2>4. CASE <<b.to.kind, b.to.id>> \notin changed
    <3>1. c = b
      BY <1>1, <1>2, <1>3, <2>4, OvertakenIs
    <3>2. b.to.kind \in Kinds
      BY <2>1, TargetIs
    <3>3. b.to.id \in Ids => new[b.to.kind][b.to.id] = st[b.to.kind][b.to.id]
      BY <2>4, <3>2 DEF ChangedBy, changed
    <3>4. getReg(new, b.to.kind, b.to.id) = getReg(st, b.to.kind, b.to.id)
      BY <3>3 DEF getReg
    <3> QED
      BY <1>1, <1>2, <1>3, <2>1, <3>1, <3>4 DEF IsCurrent
  <2> QED
    BY <2>3, <2>4
<1> HIDE DEF c
<1>4. IsCurrent(new, c)
  BY <1>3 DEF IsCurrent
<1> QED
  BY <1>2, <1>4 DEF c, b, changed

\* A delete request keeps the invariant: calls holding the register are overtaken.
LEMMA DelRegKeeps ==
  ASSUME AInv, NEW r \in Requests, DelReg(r)
  PROVE  AInv'
<1> DEFINE t == Narrowed(r.to)
           new == forgesight_del_reg(st, t)
<1>1. st' = new /\ call' = [x \in Actors |-> Overtaken(call[x], ChangedBy(new))]
  BY DEF DelReg
<1>2. IsStore(new)
  <2>1. IsTarget(t) /\ IsStore(st)
    BY RequestsAssumption, NarrowedIs DEF AInv
  <2> HIDE DEF t
  <2>2. new = deleteReg(st, t.kind, t.id)
    BY <2>1, DeleteRequestIs
  <2> QED
    BY <2>1, <2>2, DeletedIs, TargetIs
<1> HIDE DEF new
<1>3. \A x \in Actors : IsCall(x, call'[x]) /\ IsCurrent(new, call'[x])
  BY <1>1, OthersOvertake
<1>4. CallInv'
  BY <1>1, <1>3 DEF CallInv
<1> QED
  BY <1>1, <1>2, <1>4 DEF AInv

\* Reading the register named keeps the invariant.
LEMMA ReadTargetKeeps ==
  ASSUME AInv, NEW x \in Actors, ReadTarget(x)
  PROVE  AInv'
<1> DEFINE c == call[x]
           got == getReg(st, c.to.kind, c.to.id)
           e == [c EXCEPT !.pc = "write", !.got = got]
<1>1. c.pc = "read" /\ UNCHANGED st
  BY DEF ReadTarget
<1>2. x \in DOMAIN call
  BY DEF AInv, CallInv
<1>3. call' = [call EXCEPT ![x] = e]
  BY DEF ReadTarget
<1>4. (x = "command" /\ IsModify(c)) \/ (x \in Programs /\ IsAssign(c))
  BY <1>1, IdleIs DEF AInv, CallInv, IsCall
<1>5. IsTarget(c.to)
  BY <1>4 DEF IsModify, IsAssign
<1>6. IsAnswer(c.to, got)
  BY <1>5, TargetIs, AnswerIs DEF AInv, IsAnswer
<1> HIDE DEF c, got
<1>7. IsCall(x, e) /\ e.pc = "write" /\ e.to = c.to /\ e.got = got
  <2>1. CASE x = "command" /\ IsModify(c)
    <3>0. c = [pc |-> c.pc, by |-> c.by, to |-> c.to, named |-> c.named, x |-> c.x, got |-> c.got,
                overtaken |-> c.overtaken]
      BY <2>1 DEF IsModify
    <3>00. e = [c EXCEPT !.pc = "write", !.got = got]
      BY DEF e
    <3> HIDE DEF e
    <3>1. e = [pc |-> "write", by |-> c.by, to |-> c.to, named |-> c.named, x |-> c.x, got |-> got,
               overtaken |-> c.overtaken]
      BY ONLY <3>0, <3>00
    <3>2. IsModify(e) /\ e.pc = "write" /\ e.to = c.to /\ e.got = got
      BY <2>1, <3>1 DEF IsModify
    <3> QED
      BY <2>1, <3>2 DEF IsCall
  <2>2. CASE x \in Programs /\ IsAssign(c)
    <3>0. c = [pc |-> c.pc, by |-> c.by, to |-> c.to, named |-> c.named, op |-> c.op, second |-> c.second,
                rest |-> c.rest, left |-> c.left, right |-> c.right, acc |-> c.acc, got |-> c.got,
                overtaken |-> c.overtaken]
      BY <2>2 DEF IsAssign
    <3>00. e = [c EXCEPT !.pc = "write", !.got = got]
      BY DEF e
    <3> HIDE DEF e
    <3>1. e = [pc |-> "write", by |-> c.by, to |-> c.to, named |-> c.named, op |-> c.op, second |-> c.second,
               rest |-> c.rest, left |-> c.left, right |-> c.right, acc |-> c.acc, got |-> got,
               overtaken |-> c.overtaken]
      BY ONLY <3>0, <3>00
    <3>2. IsAssign(e) /\ e.pc = "write" /\ e.to = c.to /\ e.got = got
      BY <1>1, <2>2, <3>1 DEF IsAssign
    <3> QED
      BY <2>2, <3>2 DEF IsCall
  <2> QED
    BY <1>4, <2>1, <2>2
<1> HIDE DEF e
<1>8. IsCurrent(st, e)
  BY <1>6, <1>7 DEF IsCurrent, got
<1> QED
  BY <1>1, <1>3, <1>7, <1>8, CallReplaced

\* What the call of x passes on.
Own(c) == c.by = "modify" \/ c.acc.type = OwnType(c.to.kind)

\* Whatever a call passes on fits what it read.
LEMMA PassedFits ==
  ASSUME AInv, NEW x \in Actors, call[x].pc = "write", NEW junk,
         NEW d \in Passed(call[x], junk)
  PROVE  Fits(call[x].to, Own(call[x]), call[x].got, d)
<1> DEFINE c == call[x]
<1>1. IsTarget(c.to) /\ IsAnswer(c.to, c.got) /\ (IsModify(c) \/ IsAssign(c))
  BY CallIs
<1> HIDE DEF c
<1>2. CASE IsModify(c)
  <2>1. c.by = "modify"
    BY <1>2 DEF IsModify
  <2>2. d \in forgesight_mod_reg(c.to, Payload(c.x), c.got)
    BY <2>1 DEF Passed, c
  <2>3. Fits(c.to, TRUE, c.got, d)
    BY <1>1, <1>2, <2>2, ModifiedFits DEF IsModify
  <2>4. Fits(c.to, Own(c), c.got, d)
    BY <2>1, <2>3 DEF Fits, Own
  <2> QED
    BY <2>4 DEF c
<1>3. CASE IsAssign(c)
  <2>1. c.by = "assign"
    BY <1>3 DEF IsAssign
  <2>2. d \in set_register(c.to, c.acc, c.rest, c.got, junk)
    BY <2>1 DEF Passed, c
  <2>3. Fits(c.to, c.acc.type = OwnType(c.to.kind), c.got, d)
    BY <1>1, <1>3, <2>2, AssignedFits DEF IsAssign
  <2>4. Fits(c.to, Own(c), c.got, d)
    BY <2>1, <2>3 DEF Fits, Own
  <2> QED
    BY <2>4 DEF c
<1> QED
  BY <1>1, <1>2, <1>3

\* What a write does to the registers.
LEMMA WriteIs ==
  ASSUME AInv, NEW x \in Actors, WriteTarget(x)
  PROVE  /\ call[x].pc = "write"
         /\ \/ st' = st
            \/ \E d : /\ Fits(call[x].to, Own(call[x]), call[x].got, d)
                      /\ \E junk : d \in Passed(call[x], junk)
                      /\ st' = Upsert(st, call[x].to.kind, d)
         /\ call' = [y \in Actors |-> IF y = x THEN Idle ELSE Overtaken(call[y], ChangedBy(st'))]
<1> DEFINE c == call[x]
<1>1. PICK junk \in Junk :
        LET d == Passed(c, junk)
            new == IF d = {} THEN st ELSE Upsert(st, c.to.kind, CHOOSE e \in d : TRUE)
        IN  /\ st' = new
            /\ call' = [y \in Actors |-> IF y = x THEN Idle
                                         ELSE Overtaken(call[y], ChangedBy(new))]
  BY DEF WriteTarget
<1>2. c.pc = "write"
  BY DEF WriteTarget
<1> DEFINE ds == Passed(c, junk)
           d == CHOOSE e \in ds : TRUE
           new == IF ds = {} THEN st ELSE Upsert(st, c.to.kind, d)
<1>3. /\ st' = new
      /\ call' = [y \in Actors |-> IF y = x THEN Idle ELSE Overtaken(call[y], ChangedBy(new))]
  BY <1>1
<1>4. CASE ds = {}
  BY <1>2, <1>3, <1>4
<1>5. CASE ds # {}
  <2>1. d \in ds
    BY <1>5
  <2> HIDE DEF d
  <2>2. Fits(c.to, Own(c), c.got, d)
    BY <1>2, <2>1, PassedFits
  <2>3. st' = Upsert(st, c.to.kind, d)
    BY <1>3, <1>5
  <2>4. call' = [y \in Actors |-> IF y = x THEN Idle ELSE Overtaken(call[y], ChangedBy(st'))]
    BY <1>3
  <2>5. d \in Passed(c, junk)
    BY <2>1
  <2> QED
    BY <1>2, <2>2, <2>3, <2>4, <2>5
<1> QED
  BY <1>4, <1>5

\* Writing keeps the invariant: other calls holding the register are overtaken.
LEMMA WriteTargetKeeps ==
  ASSUME AInv, NEW x \in Actors, WriteTarget(x)
  PROVE  AInv'
<1>1. IsStore(st')
  <2>1. call[x].to.kind \in Kinds
    BY WriteIs, CallIs, TargetIs
  <2>2. IsStore(st)
    BY DEF AInv
  <2>3. CASE st' = st
    BY <2>2, <2>3
  <2>4. ASSUME NEW d, Fits(call[x].to, Own(call[x]), call[x].got, d),
               st' = Upsert(st, call[x].to.kind, d)
        PROVE  IsStore(st')
    <3>1. IsRegister(call[x].to.kind, d)
      BY <2>4 DEF Fits
    <3> QED
      BY <2>1, <2>2, <2>4, <3>1, UpsertIs
  <2> QED
    BY <2>3, <2>4, WriteIs
<1>2. ASSUME NEW y \in Actors
      PROVE  IsCall(y, call'[y]) /\ IsCurrent(st', call'[y])
  <2>1. CASE y = x
    BY <2>1, WriteIs, IdleIs DEF IsCall, IsCurrent
  <2>2. CASE y # x
    BY <2>2, WriteIs, OthersOvertake
  <2> QED
    BY <2>1, <2>2
<1>3. call' = [y \in Actors |-> call'[y]]
  BY WriteIs
<1>4. CallInv'
  BY <1>2, <1>3 DEF CallInv
<1> QED
  BY <1>1, <1>4 DEF AInv

\* Every step keeps the invariant.
LEMMA StepKeeps == AInv /\ [Next]_vars => AInv'
<1> SUFFICES ASSUME AInv, [Next]_vars PROVE AInv'
  OBVIOUS
<1>1. ASSUME NEW p \in Programs, NEW s \in Statements, BeginStatement(p, s) PROVE AInv'
  BY <1>1, BeginKeeps
<1>2. ASSUME NEW p \in Programs, ReadRight(p) PROVE AInv'
  BY <1>2, ReadRightKeeps
<1>3. ASSUME NEW r \in Requests, Request(r) PROVE AInv'
  BY <1>3, ModRegKeeps, ReadRegKeeps, DelRegKeeps DEF Request
<1>4. ASSUME NEW x \in Actors, ReadTarget(x) PROVE AInv'
  BY <1>4, ReadTargetKeeps
<1>5. ASSUME NEW x \in Actors, WriteTarget(x) PROVE AInv'
  BY <1>5, WriteTargetKeeps
<1>6. CASE UNCHANGED vars
  BY <1>6 DEF vars, AInv, CallInv
<1> QED
  BY <1>1, <1>2, <1>3, <1>4, <1>5, <1>6 DEF Next

\* In every reachable state the registers and the values in the programs' hands have
\* the shape of their kind, a value carries the same number beside and inside the register
\* it was read from, and a call about to write holds what the register named holds, unless
\* another call has changed it since.
THEOREM AccessInvariant == Spec => []AInv
<1>1. Init => AInv
  BY StartsWell
<1>2. AInv /\ [Next]_vars => AInv'
  BY StepKeeps
<1> QED
  BY <1>1, <1>2, PTL DEF Spec

-----------------------------------------------------------------------------
(***************************************************************************)
(* What the invariant says of the actors.                                  *)
(***************************************************************************)
\* A number, string or joint position that a statement is about to assign is the same
\* beside the register and in it.
THEOREM NumbersOfRegisters == Spec => []CopiesAgree
<1>1. AInv => CopiesAgree
  <2> SUFFICES ASSUME AInv, NEW p \in Programs, call[p].pc \in {"read", "write"}
               PROVE  LET v == call[p].acc IN
                      /\ /\ v.type \in {RFloat, MrFloat}
                         /\ Small(call[p].left) /\ Small(call[p].right)
                         /\ v.reg.value \in -FloatLimit .. FloatLimit
                         => v.f = v.reg.value
                      /\ v.type = SrString => v.str = v.reg.value
                      /\ v.type = PrJoint => v.joint = v.reg.value.joint
    BY DEF CopiesAgree
  <2>1. IsAssign(call[p])
    BY CallOfProgram
  <2>2. Agree(call[p].acc, call[p].left, call[p].right)
    BY <2>1 DEF IsAssign
  <2> QED
    BY <2>2 DEF Agree
<1> QED
  BY <1>1, AccessInvariant, PTL

\* Only the step that writes for x is a write of x.
LEMMA WriterWrites ==
  ASSUME AInv, [Next]_vars, NEW x \in Actors, Writes(x)
  PROVE  WriteTarget(x)
<1>0. call[x].pc = "write" /\ call'[x].pc = "idle" /\ call = [y \in Actors |-> call[y]]
  BY DEF Writes, AInv, CallInv
<1>7. ASSUME NEW changed
      PROVE  Overtaken(call[x], changed).pc = "write"
  <2> DEFINE c == call[x]
  <2>1. IsCall(x, c) /\ c.pc = "write"
    BY <1>0 DEF AInv, CallInv
  <2> HIDE DEF c
  <2>2. Overtaken(c, changed).pc = "write"
    BY <2>1, OvertakenIs
  <2> QED
    BY <2>2 DEF c
<1>1. ASSUME NEW p \in Programs, NEW s \in Statements, BeginStatement(p, s)
      PROVE  FALSE
  <2>1. call[p] = Idle /\ \E c : call' = [call EXCEPT ![p] = c]
    BY <1>1 DEF BeginStatement
  <2>2. x # p
    BY <1>0, <2>1, IdleIs
  <2> QED
    BY <1>0, <2>1, <2>2
<1>2. ASSUME NEW p \in Programs, ReadRight(p)
      PROVE  FALSE
  <2>1. call[p].pc = "right" /\ \E c : call' = [call EXCEPT ![p] = c]
    BY <1>2 DEF ReadRight
  <2> QED
    BY <1>0, <2>1
<1>3. ASSUME NEW r \in Requests, Request(r)
      PROVE  FALSE
  <2>1. x # "command"
    BY <1>0, <1>3 DEF Request
  <2>2. CASE ModReg(r) \/ ReadReg(r)
    <3>1. \E c : call' = [call EXCEPT !["command"] = c]
      BY <2>2 DEF ModReg, ReadReg
    <3> QED
      BY <1>0, <2>1, <3>1
  <2>3. CASE DelReg(r)
    <3>1. \E changed : call'[x] = Overtaken(call[x], changed)
      BY <2>3 DEF DelReg
    <3> QED
      BY <1>0, <1>7, <3>1
  <2> QED
    BY <1>3, <2>2, <2>3 DEF Request
<1>4. ASSUME NEW y \in Actors, ReadTarget(y)
      PROVE  FALSE
  BY <1>0, <1>4 DEF ReadTarget
<1>5. ASSUME NEW y \in Actors, WriteTarget(y), y # x
      PROVE  FALSE
  <2>1. call'[x] = Overtaken(call[x], ChangedBy(st'))
    BY <1>5, WriteIs
  <2> QED
    BY <1>0, <1>7, <2>1
<1>6. CASE UNCHANGED vars
  BY <1>0, <1>6 DEF vars
<1> QED
  BY <1>1, <1>2, <1>3, <1>4, <1>5, <1>6 DEF Next

\* What a write changes: one register, at the id in the data, which is within the limits.
LEMMA WriteChanges ==
  ASSUME AInv, NEW x \in Actors, WriteTarget(x), NEW k \in Kinds, NEW i \in Ids,
         st'[k][i] # st[k][i]
  PROVE  \E d : /\ Fits(call[x].to, Own(call[x]), call[x].got, d)
                /\ \E junk : d \in Passed(call[x], junk)
                /\ k = call[x].to.kind /\ i = d.id
                /\ st'[k][i] = Entry(d, st[k][i].is_valid)
                /\ ~OutOfLimit(k, d.value)
<1>1. PICK d : /\ Fits(call[x].to, Own(call[x]), call[x].got, d)
               /\ \E junk : d \in Passed(call[x], junk)
               /\ st' = Upsert(st, call[x].to.kind, d)
  BY WriteIs
<1>2. call[x].to.kind \in Kinds
  BY WriteIs, CallIs, TargetIs
<1>3. IsStore(st) /\ IsRegister(call[x].to.kind, d)
  BY <1>1 DEF AInv, Fits
<1> DEFINE kind == call[x].to.kind
           new == Upsert(st, kind, d)
<1>4. new[k][i] # st[k][i]
  BY <1>1
<1> HIDE DEF kind
<1>5. /\ k = kind /\ i = d.id /\ new[k][i] = Entry(d, st[k][i].is_valid)
      /\ ~OutOfLimit(kind, d.value)
  BY <1>2, <1>3, <1>4, UpsertIs DEF kind
<1> QED
  BY <1>1, <1>5 DEF kind

\* A write changes one register at most, of the kind it names: the one whose number are
\* the lower 16 bits of the index that was named, for every member, known or not, unless
\* the number comes with what is written (a whole PR or HR register, a member id of one).
THEOREM WritesWhereNamed == Spec => OnlyNamedRegister
<1>1. AInv /\ [Next]_vars => OnlyNamed
  <2> SUFFICES ASSUME AInv, [Next]_vars, NEW x \in Actors, Writes(x)
               PROVE  \A w \in ChangedBy(st') :
                        /\ w[1] = call[x].to.kind
                        /\ ~Renumbers(call[x]) => w[2] = call[x].named % Uint16
                        /\ \A other \in ChangedBy(st') : other = w
    BY DEF OnlyNamed
  <2> DEFINE c == call[x]
             k == c.to.kind
  <2>1. WriteTarget(x)
    BY WriterWrites
  <2>2. CASE st' = st
    BY <2>2 DEF ChangedBy
  <2>3. ASSUME NEW d, Fits(c.to, Own(c), c.got, d), st' = Upsert(st, k, d)
        PROVE  \A w \in ChangedBy(st') : w = <<k, d.id>>
    <3>1. k \in Kinds /\ IsStore(st) /\ IsRegister(k, d)
      BY <2>1, <2>3, WriteIs, CallIs, TargetIs DEF AInv, Fits
    <3> HIDE DEF k
    <3>2. ASSUME NEW m \in Kinds, NEW i \in Ids, st'[m][i] # st[m][i]
          PROVE  m = k /\ i = d.id
      BY <2>3, <3>1, <3>2, UpsertIs
    <3> QED
      BY <3>2 DEF ChangedBy
  <2>4. ASSUME NEW d, Fits(c.to, Own(c), c.got, d), ~Renumbers(c)
        PROVE  d.id = c.named % Uint16
    <3>1. d.id = c.to.id
      BY <2>4 DEF Fits, ById, Renumbers
    <3>2. c.to.id = c.named % Uint16
      BY <2>1, WriteIs, CallIs
    <3> QED
      BY <3>1, <3>2
  <2>5. st' = st \/ \E d : Fits(c.to, Own(c), c.got, d) /\ st' = Upsert(st, k, d)
    BY <2>1, WriteIs
  <2>6. CASE \E d : Fits(c.to, Own(c), c.got, d) /\ st' = Upsert(st, k, d)
    <3>1. PICK d : Fits(c.to, Own(c), c.got, d) /\ st' = Upsert(st, k, d)
      BY <2>6
    <3>2. \A w \in ChangedBy(st') : w = <<k, d.id>>
      BY <2>3, <3>1
    <3>3. ~Renumbers(c) => d.id = c.named % Uint16
      BY <2>4, <3>1
    <3> QED
      BY <3>2, <3>3
  <2> QED
    BY <2>2, <2>5, <2>6
<1> QED
  BY <1>1, AccessInvariant, PTL DEF Spec, OnlyNamedRegister

\* A write of one member leaves the other members of the register as they were, unless
\* another call has changed the register since it was read.
THEOREM MembersKept == Spec => OthersKept
<1>1. AInv /\ [Next]_vars => Kept
  <2> SUFFICES ASSUME AInv, [Next]_vars, NEW x \in Actors, Writes(x), ~Renumbers(call[x]),
                      ~call[x].overtaken, call[x].to.id \in Ids,
                      st[call[x].to.kind][call[x].to.id].is_valid,
                      st'[call[x].to.kind][call[x].to.id] # st[call[x].to.kind][call[x].to.id]
               PROVE  LET new == st'[call[x].to.kind][call[x].to.id] IN
                      new.is_valid /\ ValueKept(call[x], new) /\ CommentKept(call[x], new)
    BY DEF Kept
  <2> DEFINE c == call[x]
             t == c.to
             old == st[t.kind][t.id]
             new == st'[t.kind][t.id]
             data == c.got.data
  <2>1. WriteTarget(x)
    BY WriterWrites
  <2>2. c.pc = "write" /\ IsTarget(t) /\ c.got = getReg(st, t.kind, t.id)
    BY <2>1, WriteIs, CallIs
  <2>3. t.kind \in Kinds
    BY <2>2, TargetIs
  <2>4. \A k \in Kinds, i \in Ids :
          st'[k][i] # st[k][i] =>
            \E d : Fits(t, Own(c), c.got, d) /\ st'[k][i] = Entry(d, st[k][i].is_valid)
    BY <2>1, WriteChanges
  <2>5. PICK d : Fits(t, Own(c), c.got, d) /\ new = Entry(d, old.is_valid)
    BY <2>3, <2>4
  <2>11. IsStore(st) /\ t.id \in Ids /\ old.is_valid
    BY DEF AInv
  <2>6. c.got.ok /\ data.comment = old.comment /\ data.value = old.value
    <3> HIDE DEF t
    <3> QED
      BY <2>2, <2>3, <2>11, AnswerIs
  <2>7. /\ new.is_valid /\ new.value = d.value
        /\ new.comment = IF d.comment = <<>> THEN <<"EMPTY">> ELSE d.comment
    BY <2>5 DEF Entry
  <2>8. ~ById(t)
    BY DEF Renumbers, ById
  <2> HIDE DEF c, new
  <2>9. ValueKept(c, new)
    BY <2>5, <2>6, <2>7 DEF Fits, ValueKept
  <2>10. CommentKept(c, new)
    BY <2>5, <2>6, <2>7, <2>8 DEF Fits, CommentKept, Own
  <2> QED
    BY <2>7, <2>9, <2>10 DEF c, new
<1> QED
  BY <1>1, AccessInvariant, PTL DEF Spec, OthersKept

\* A deleted register is valid again only by a call that creates, renumbers or was
\* overtaken: a member written cannot bring it back.
THEOREM NothingRevived == Spec => NoRevival
<1>1. AInv /\ [Next]_vars => Revived
  <2> SUFFICES ASSUME AInv, [Next]_vars, NEW k \in Kinds, NEW id \in Ids,
                      ~st[k][id].is_valid, st'[k][id].is_valid
               PROVE  \E x \in Actors : /\ Writes(x)
                                        /\ \/ Creates(call[x]) \/ Renumbers(call[x])
                                           \/ call[x].overtaken
    BY DEF Revived
  <2>1. CASE \E x \in Actors : WriteTarget(x)
    <3>1. PICK x \in Actors : WriteTarget(x)
      BY <2>1
    <3>2. Writes(x)
      BY <3>1, WriteIs, IdleIs DEF Writes
    <3>3. PICK d : /\ Fits(call[x].to, Own(call[x]), call[x].got, d)
                   /\ k = call[x].to.kind /\ id = d.id
      BY <3>1, WriteChanges
    <3>4. ASSUME ~Creates(call[x]), ~Renumbers(call[x]), ~call[x].overtaken
          PROVE  FALSE
      <4>1. call[x].got.ok /\ d.id = call[x].to.id
        BY <3>3, <3>4 DEF Fits, ById, Creates, Renumbers
      <4>2. call[x].got = getReg(st, k, id)
        BY <3>1, <3>2, <3>3, <3>4, <4>1, CallIs DEF Writes
      <4> QED
        BY <4>1, <4>2, AnswerIs DEF AInv
    <3> QED
      BY <3>2, <3>4
  <2>2. CASE \E r \in Requests : DelReg(r)
    <3>1. PICK r \in Requests : DelReg(r)
      BY <2>2
    <3> DEFINE t == Narrowed(r.to)
    <3>2. IsTarget(t) /\ st' = forgesight_del_reg(st, t)
      BY <3>1, RequestsAssumption, NarrowedIs DEF DelReg
    <3> HIDE DEF t
    <3>3. st' = deleteReg(st, t.kind, t.id) /\ t.kind \in Kinds
      BY <3>2, DeleteRequestIs, TargetIs
    <3> QED
      BY <3>3, DeletedIs DEF AInv
  <2>3. CASE UNCHANGED st
    BY <2>3
  <2> QED
    BY <2>1, <2>2, <2>3 DEF Next, BeginStatement, ReadRight, Request, ModReg, ReadReg,
       ReadTarget, vars
<1> QED
  BY <1>1, AccessInvariant, PTL DEF Spec, NoRevival

-----------------------------------------------------------------------------
(***************************************************************************)
(* What is read after a write.                                             *)
(***************************************************************************)
\* The data that a string or number register was assigned in: its value.
ValueHeld(t, v) ==
  IF t.kind = "SR" THEN (IF IsNumber(v) THEN Printed(v.f) ELSE getStringValue(v))
  ELSE IF v.type = SrString THEN atof(v.str)
  ELSE IF v.type = OwnType(t.kind) THEN v.reg.value ELSE getFloatValue(v)

\* The data that a member was assigned in: what the member then holds.
Holds(t, v, rest, d) ==
  CASE t.member = "" -> d.value = ValueHeld(t, v)
    [] t.member = "pose" -> d.value.pose = IF v.type = Float THEN Listed(v, rest) ELSE v.pose
    [] t.member = "joint" ->
         IF t.kind = "PR" THEN d.value.joint = IF v.type = Float THEN Listed(v, rest) ELSE v.joint
         ELSE d.value = IF v.type = Float THEN Listed(v, rest) ELSE v.joint
    [] t.member = "x" -> d.value.pose[t.axis] = getFloatValue(v)
    [] t.member = "j" /\ t.kind = "PR" -> d.value.joint[t.axis] = getFloatValue(v)
    [] t.member = "pj" ->
         d.value.type = POS_TYPE_CARTESIAN => d.value.pose[t.axis] = getFloatValue(v)
    [] t.member = "hj" \/ (t.member = "j" /\ t.kind = "HR") ->
         d.value[t.axis] = getFloatValue(v)
    [] t.member = "type" -> d.value.type = getFloatValue(v)
    [] t.member = "value" -> d.value = getFloatValue(v)
    [] t.member = "comment" -> d.comment = getStringValue(v)
    [] OTHER -> FALSE

\* A coordinate of a pose is written where it is read.
LEMMA XHolds ==
  ASSUME NEW t, t.axis \in Axes, NEW got, IsRegister("PR", got.data), NEW v,
         NEW d \in WritePrX(t, v, got)
  PROVE  d.value.pose[t.axis] = getFloatValue(v)
<1> DEFINE b == got.data
           u == b.value
           p == [u.pose EXCEPT ![t.axis] = getFloatValue(v)]
           w == [u EXCEPT !.pose = p]
<1>1. IsPosition(u) /\ IsVector(u.pose)
  BY DEF IsRegister, IsValueOf, IsPosition
<1>2. d = [b EXCEPT !.value.pose[t.axis] = getFloatValue(v)]
  BY DEF WritePrX, IfType, setPr
<1>3. d = WithValue(b, w)
  BY <1>2 DEF WithValue
<1>4. p = [a \in Axes |-> IF a = t.axis THEN getFloatValue(v) ELSE u.pose[a]]
  BY <1>1 DEF IsVector
<1> HIDE DEF p
<1>5. IsVector(p) /\ p[t.axis] = getFloatValue(v)
  BY <1>4 DEF IsVector
<1>6. w.pose = p /\ IsPosition(w)
  BY <1>1, <1>5, PoseSet
<1>7. IsRegister("PR", b) /\ IsValueOf("PR", w)
  BY <1>6 DEF IsValueOf
<1> HIDE DEF w, b
<1>8. d.value = w
  BY <1>3, <1>7, ValueReplaced
<1> QED
  BY <1>5, <1>6, <1>8

\* A coordinate of a joint position is written where it is read.
LEMMA JHolds ==
  ASSUME NEW t, t.axis \in Axes, NEW got, IsRegister("PR", got.data), NEW v,
         NEW d \in WritePrJ(t, v, got)
  PROVE  d.value.joint[t.axis] = getFloatValue(v) /\ d.value.type = POS_TYPE_JOINT
<1> DEFINE b == got.data
           u == b.value
           p == [u.joint EXCEPT ![t.axis] = getFloatValue(v)]
           w == [u EXCEPT !.joint = p]
<1>1. IsPosition(u) /\ IsVector(u.joint)
  BY DEF IsRegister, IsValueOf, IsPosition
<1>2. d = [b EXCEPT !.value.joint[t.axis] = getFloatValue(v)] /\ u.type = POS_TYPE_JOINT
  BY DEF WritePrJ, IfType, setPr
<1>3. d = WithValue(b, w)
  BY <1>2 DEF WithValue
<1>4. p = [a \in Axes |-> IF a = t.axis THEN getFloatValue(v) ELSE u.joint[a]]
  BY <1>1 DEF IsVector
<1> HIDE DEF p
<1>5. IsVector(p) /\ p[t.axis] = getFloatValue(v)
  BY <1>4 DEF IsVector
<1>6. w.joint = p /\ w.type = u.type /\ IsPosition(w)
  BY <1>1, <1>5, JointSet
<1>7. IsRegister("PR", b) /\ IsValueOf("PR", w)
  BY <1>6 DEF IsValueOf
<1>9. u.type = POS_TYPE_JOINT
  BY <1>2
<1> HIDE DEF w, b, u
<1>8. d.value = w
  BY <1>3, <1>7, ValueReplaced
<1> QED
  BY <1>5, <1>6, <1>8, <1>9

\* A position is Cartesian or of joints, not both.
LEMMA TypesDiffer == POS_TYPE_JOINT # POS_TYPE_CARTESIAN
BY DEF POS_TYPE_CARTESIAN, POS_TYPE_JOINT

\* A pose, a joint position or a type of a PR register is written whole.
LEMMA WholeHolds ==
  ASSUME NEW got, IsRegister("PR", got.data), NEW p, NEW d
  PROVE  /\ IsVector(p) /\ d \in setPosePr(got, p) => d.value.pose = p
         /\ IsVector(p) /\ d \in setJointPr(got, p) => d.value.joint = p
         /\ d \in setTypePr(got, p) => d.value.type = p
<1> DEFINE b == got.data
           u == b.value
<1>1. IsPosition(u) /\ IsRegister("PR", b)
  BY DEF IsRegister, IsValueOf
<1>2. ASSUME NEW w, IsPosition(w), d = WithValue(b, w)
      PROVE  d.value = w
  <2>1. IsValueOf("PR", w)
    BY <1>2 DEF IsValueOf
  <2> HIDE DEF b
  <2> QED
    BY <1>1, <1>2, <2>1, ValueReplaced
<1>3. ASSUME IsVector(p), d \in setPosePr(got, p)
      PROVE  d.value.pose = p
  <2> DEFINE w == [u EXCEPT !.pose = p]
  <2>1. d = WithValue(b, w)
    BY <1>3 DEF setPosePr, Changed, WithValue
  <2>2. w.pose = p /\ IsPosition(w)
    BY <1>1, <1>3, PoseSet
  <2> HIDE DEF w, b
  <2>3. d.value = w
    BY <1>2, <2>1, <2>2
  <2> QED
    BY <2>2, <2>3
<1>4. ASSUME IsVector(p), d \in setJointPr(got, p)
      PROVE  d.value.joint = p
  <2> DEFINE w == [u EXCEPT !.joint = p]
  <2>1. d = WithValue(b, w)
    BY <1>4 DEF setJointPr, Changed, WithValue
  <2>2. w.joint = p /\ IsPosition(w)
    BY <1>1, <1>4, JointSet
  <2> HIDE DEF w, b
  <2>3. d.value = w
    BY <1>2, <2>1, <2>2
  <2> QED
    BY <2>2, <2>3
<1>5. ASSUME d \in setTypePr(got, p)
      PROVE  d.value.type = p
  <2> DEFINE w == [u EXCEPT !.type = p]
  <2>1. d = WithValue(b, w)
    BY <1>5 DEF setTypePr, Changed, WithValue
  <2>2. w.type = p /\ IsPosition(w)
    BY <1>1, TypeSet
  <2> HIDE DEF w, b
  <2>3. d.value = w
    BY <1>2, <2>1, <2>2
  <2> QED
    BY <2>2, <2>3
<1> QED
  BY <1>3, <1>4, <1>5

\* Whatever a member of a PR register is assigned is in the data passed on.
LEMMA PrHolds ==
  ASSUME NEW t, IsTarget(t), t.kind = "PR", t.member \notin {"", "id"}, NEW v, IsEval(v),
         NEW rest, IsVector(rest), NEW got, IsAnswer(t, got), NEW d \in WritePr(t, v, rest, got)
  PROVE  /\ t.member \in {"pose", "x", "joint", "j", "pj", "type", "comment"}
         /\ Holds(t, v, rest, d)
<1>0. /\ t.axis \in Axes /\ IsVector(Listed(v, rest)) /\ IsVector(v.pose) /\ IsVector(v.joint)
      /\ IsRegister("PR", got.data)
  BY TargetIs, ListedIs DEF IsEval, IsAnswer
<1>2. CASE t.member = "pose"
  <2> DEFINE p == IF v.type = Float THEN Listed(v, rest) ELSE v.pose
  <2>1. d \in setPosePr(got, p)
    <3>1. d \in WritePrPose(t, v, rest, got)
      BY <1>2 DEF WritePr
    <3> QED
      BY <3>1 DEF WritePrPose, Float
  <2>2. IsVector(p)
    BY <1>0
  <2> HIDE DEF p
  <2>3. d.value.pose = p
    BY <1>0, <2>1, <2>2, WholeHolds
  <2> QED
    BY <1>2, <2>3 DEF Holds, p
<1>3. CASE t.member = "joint"
  <2> DEFINE p == IF v.type = Float THEN Listed(v, rest) ELSE v.joint
  <2>1. d \in setJointPr(got, p)
    <3>1. d \in WritePrJoint(t, v, rest, got)
      BY <1>3 DEF WritePr
    <3> QED
      BY <3>1 DEF WritePrJoint, Float
  <2>2. IsVector(p)
    BY <1>0
  <2> HIDE DEF p
  <2>3. d.value.joint = p
    BY <1>0, <2>1, <2>2, WholeHolds
  <2> QED
    BY <1>3, <2>3 DEF Holds, p
<1>4. CASE t.member = "x"
  <2>1. d.value.pose[t.axis] = getFloatValue(v)
    BY <1>0, <1>4, XHolds DEF WritePr
  <2> QED
    BY <1>4, <2>1 DEF Holds
<1>5. CASE t.member = "j"
  <2>1. d.value.joint[t.axis] = getFloatValue(v)
    BY <1>0, <1>5, JHolds DEF WritePr
  <2> QED
    BY <1>5, <2>1 DEF Holds
<1>6. CASE t.member = "pj"
  <2>1. d \in WritePrX(t, v, got) \/ d \in WritePrJ(t, v, got)
    BY <1>6 DEF WritePr, WritePrEither
  <2>2. d.value.type = POS_TYPE_CARTESIAN => d.value.pose[t.axis] = getFloatValue(v)
    <3>1. CASE d \in WritePrX(t, v, got)
      BY <1>0, <3>1, XHolds
    <3>2. CASE d \in WritePrJ(t, v, got)
      <4>1. d.value.type = POS_TYPE_JOINT
        BY <1>0, <3>2, JHolds
      <4> QED
        BY <4>1, TypesDiffer
    <3> QED
      BY <2>1, <3>1, <3>2
  <2> QED
    BY <1>6, <2>2 DEF Holds
<1>7. CASE t.member = "type"
  <2>1. d \in setTypePr(got, getFloatValue(v))
    BY <1>7 DEF WritePr
  <2>2. d.value.type = getFloatValue(v)
    BY <1>0, <2>1, WholeHolds
  <2> QED
    BY <1>7, <2>2 DEF Holds
<1>8. CASE t.member = "comment"
  <2>1. d = WithComment(got.data, getStringValue(v))
    BY <1>8 DEF WritePr, setCommentPr, Changed, WithComment
  <2>2. d.comment = getStringValue(v)
    BY <1>0, <2>1 DEF WithComment, IsRegister, IsData
  <2> QED
    BY <1>8, <2>2 DEF Holds
<1>9. CASE t.member \notin {"pose", "x", "joint", "j", "pj", "type", "comment"}
  BY <1>9 DEF WritePr
<1> QED
  BY <1>2, <1>3, <1>4, <1>5, <1>6, <1>7, <1>8, <1>9

\* A comment changed is in the data.
LEMMA CommentHolds ==
  ASSUME NEW k, NEW b, IsRegister(k, b), NEW c
  PROVE  WithComment(b, c).comment = c
BY DEF WithComment, IsRegister, IsData

\* The same for an HR register.
LEMMA HrHolds ==
  ASSUME NEW t, IsTarget(t), t.kind = "HR", t.member \notin {"", "id"}, NEW v, IsEval(v),
         NEW rest, IsVector(rest), NEW got, IsAnswer(t, got), NEW junk,
         NEW d \in WriteHr(t, v, rest, got, junk)
  PROVE  t.member \in {"joint", "j", "hj", "comment"} /\ Holds(t, v, rest, d)
<1>0. /\ t.axis \in Axes /\ IsVector(Listed(v, rest)) /\ IsVector(v.joint)
      /\ IsRegister("HR", got.data)
  BY TargetIs, ListedIs DEF IsEval, IsAnswer
<1>1. ASSUME NEW w, IsVector(w), d = WithValue(got.data, w)
      PROVE  d.value = w
  <2> DEFINE b == got.data
  <2>1. IsValueOf("HR", w) /\ IsRegister("HR", b) /\ d = WithValue(b, w)
    BY <1>0, <1>1 DEF IsValueOf
  <2> HIDE DEF b
  <2> QED
    BY ONLY <2>1, ValueReplaced
<1>2. CASE t.member = "joint"
  <2> DEFINE p == IF v.type = Float THEN Listed(v, rest) ELSE v.joint
  <2>1. d \in setJointHr(got, p)
    <3>1. d \in WriteHrJoint(t, v, rest, got)
      BY <1>2 DEF WriteHr
    <3> QED
      BY <3>1 DEF WriteHrJoint, Float
  <2>2. IsVector(p) /\ d = WithValue(got.data, p)
    BY <1>0, <2>1 DEF setJointHr, Changed, WithValue
  <2> HIDE DEF p
  <2>3. d.value = p
    BY <1>1, <2>2
  <2> QED
    BY <1>2, <2>3 DEF Holds, p
<1>3. CASE t.member \in {"j", "hj"}
  <2> DEFINE u == got.data.value
             p == [u EXCEPT ![t.axis] = getFloatValue(v)]
  <2>1. IsVector(u)
    BY <1>0 DEF IsRegister, IsValueOf
  <2>2. d \in WriteHrJ(t, v, got)
    BY <1>3 DEF WriteHr
  <2>3. d = WithValue(got.data, p)
    BY <2>2 DEF WriteHrJ, setHr, WithValue
  <2>4. p = [a \in Axes |-> IF a = t.axis THEN getFloatValue(v) ELSE u[a]]
    BY <2>1 DEF IsVector
  <2> HIDE DEF p
  <2>5. IsVector(p) /\ p[t.axis] = getFloatValue(v)
    BY <1>0, <2>4 DEF IsVector
  <2>6. d.value = p
    BY <1>1, <2>3, <2>5
  <2> QED
    BY <1>3, <2>5, <2>6 DEF Holds
<1>4. CASE t.member = "comment"
  <2>1. d = WithComment(got.data, getStringValue(v))
    BY <1>4 DEF WriteHr, setCommentHr, Changed, WithComment
  <2>2. d.comment = getStringValue(v)
    BY <1>0, <2>1, CommentHolds
  <2> QED
    BY <1>4, <2>2 DEF Holds
<1>5. CASE t.member \notin {"joint", "j", "hj", "comment"}
  BY <1>5 DEF WriteHr
<1> QED
  BY <1>2, <1>3, <1>4, <1>5

\* A value set in a register, or in a new one, is in the data.
LEMMA SetHolds ==
  ASSUME NEW k, NEW got, IsRegister(k, got.data), NEW id, NEW x, IsValueOf(k, x),
         NEW d \in OrNew(got, id, x)
  PROVE  d.value = x
<1> DEFINE b == got.data
<1>1. CASE got.ok
  <2>1. d = WithValue(b, x) /\ IsRegister(k, b)
    BY <1>1 DEF OrNew, WithValue
  <2> HIDE DEF b
  <2> QED
    BY <2>1, ValueReplaced
<1>2. CASE ~got.ok
  BY <1>2 DEF OrNew
<1> QED
  BY <1>1, <1>2

\* A whole register keeps its value when it gets the id named.
LEMMA NumberedHolds ==
  ASSUME NEW x, IsData(x), NEW id
  PROVE  WithId(x, id).value = x.value
BY DEF WithId, IsData

\* The same for a string register.
LEMMA SrHolds ==
  ASSUME NEW t, IsTarget(t), t.kind = "SR", t.member \notin {"value", "id"}, NEW v, IsEval(v),
         v.type = SrString => v.str = v.reg.value,
         NEW rest, NEW got, IsAnswer(t, got), NEW d \in WriteSr(t, v, got)
  PROVE  t.member \in {"", "comment"} /\ Holds(t, v, rest, d)
<1>0. IsRegister("SR", got.data) /\ \A x : IsValueOf("SR", x)
  BY DEF IsAnswer, IsValueOf
<1>1. CASE t.member = ""
  <2>1. CASE v.type = {"STRING"}
    <3>1. d \in OrNew(got, t.id, getStringValue(v))
      BY <1>1, <2>1 DEF WriteSr, setValueSr, SrString, RFloat, MrFloat
    <3>2. d.value = getStringValue(v)
      BY <1>0, <3>1, SetHolds
    <3>3. ~IsNumber(v)
      BY <2>1 DEF IsNumber, Float, RFloat, MrFloat
    <3> QED
      BY <1>1, <3>2, <3>3 DEF Holds, ValueHeld
  <2>2. CASE v.type = SrString
    <3>1. d = WithId(v.reg, t.id)
      BY <1>1, <2>2 DEF WriteSr, setSr, WithId, SrString, RFloat, MrFloat
    <3>2. IsData(v.reg)
      BY DEF IsEval
    <3>3. d.value = v.str
      BY <2>2, <3>1, <3>2, NumberedHolds
    <3>4. ~IsNumber(v) /\ getStringValue(v) = v.str
      BY <2>2 DEF IsNumber, Float, RFloat, MrFloat, SrString, getStringValue
    <3> QED
      BY <1>1, <3>3, <3>4 DEF Holds, ValueHeld
  <2>3. CASE v.type \in {RFloat, MrFloat}
    <3>1. d \in OrNew(got, t.id, Printed(v.f))
      BY <1>1, <2>3 DEF WriteSr, setValueSr, SrString, RFloat, MrFloat
    <3>2. d.value = Printed(v.f)
      BY <1>0, <3>1, SetHolds
    <3>3. IsNumber(v)
      BY <2>3 DEF IsNumber
    <3> QED
      BY <1>1, <3>2, <3>3 DEF Holds, ValueHeld
  <2>4. CASE v.type \notin {{"STRING"}, SrString, RFloat, MrFloat}
    BY <1>1, <2>4 DEF WriteSr
  <2> QED
    BY <2>1, <2>2, <2>3, <2>4
<1>2. CASE t.member = "comment"
  <2>1. d = WithComment(got.data, getStringValue(v))
    BY <1>2 DEF WriteSr, setCommentSr, Changed, WithComment
  <2>2. d.comment = getStringValue(v)
    BY <1>0, <2>1, CommentHolds
  <2> QED
    BY <1>2, <2>2 DEF Holds
<1>3. CASE t.member \notin {"", "comment"}
  BY <1>3 DEF WriteSr
<1> QED
  BY <1>1, <1>2, <1>3

\* The same for an R register.
LEMMA RHolds ==
  ASSUME NEW t, IsTarget(t), t.kind = "R", t.member # "id", NEW v, IsEval(v),
         NEW rest, NEW got, IsAnswer(t, got), NEW d \in WriteR(t, v, got)
  PROVE  t.member \in {"", "value", "comment"} /\ Holds(t, v, rest, d)
<1>0. IsRegister("R", got.data) /\ \A x : IsValueOf("R", x)
  BY DEF IsAnswer, IsValueOf
<1>1. CASE t.member = ""
  <2>1. CASE v.type \in {Float, MrFloat}
    <3>0. v.type # SrString /\ v.type # RFloat
      BY <2>1 DEF Float, RFloat, MrFloat, SrString
    <3>1. d \in OrNew(got, t.id, getFloatValue(v))
      BY <1>1, <2>1, <3>0 DEF WriteR, setValueR
    <3>2. d.value = getFloatValue(v)
      BY <1>0, <3>1, SetHolds
    <3> QED
      BY <1>1, <3>0, <3>2 DEF Holds, ValueHeld, OwnType
  <2>2. CASE v.type = RFloat
    <3>0. v.type # SrString /\ v.type \notin {Float, MrFloat}
      BY <2>2 DEF Float, RFloat, MrFloat, SrString
    <3>1. d = WithId(v.reg, t.id)
      BY <1>1, <2>2, <3>0 DEF WriteR, setR, WithId
    <3>2. IsData(v.reg)
      BY DEF IsEval
    <3>3. d.value = v.reg.value
      BY <3>1, <3>2, NumberedHolds
    <3> QED
      BY <1>1, <2>2, <3>0, <3>3 DEF Holds, ValueHeld, OwnType
  <2>3. CASE v.type = SrString
    <3>0. v.type \notin {Float, RFloat, MrFloat} /\ getStringValue(v) = v.str
      BY <2>3 DEF Float, RFloat, MrFloat, SrString, getStringValue
    <3>1. d \in OrNew(got, t.id, atof(v.str))
      BY <1>1, <2>3, <3>0 DEF WriteR, setValueR
    <3>2. d.value = atof(v.str)
      BY <1>0, <3>1, SetHolds
    <3> QED
      BY <1>1, <2>3, <3>2 DEF Holds, ValueHeld
  <2>4. CASE v.type \notin {Float, RFloat, MrFloat, SrString}
    BY <1>1, <2>4 DEF WriteR
  <2> QED
    BY <2>1, <2>2, <2>3, <2>4
<1>2. CASE t.member = "value"
  <2>1. d \in OrNew(got, t.id, getFloatValue(v))
    BY <1>2 DEF WriteR, setValueR
  <2>2. d.value = getFloatValue(v)
    BY <1>0, <2>1, SetHolds
  <2> QED
    BY <1>2, <2>2 DEF Holds
<1>3. CASE t.member = "comment"
  <2>1. d = WithComment(got.data, getStringValue(v))
    BY <1>3 DEF WriteR, setCommentR, Changed, WithComment
  <2>2. d.comment = getStringValue(v)
    BY <1>0, <2>1, CommentHolds
  <2> QED
    BY <1>3, <2>2 DEF Holds
<1>4. CASE t.member \notin {"", "value", "comment"}
  BY <1>4 DEF WriteR
<1> QED
  BY <1>1, <1>2, <1>3, <1>4

\* The same for an MR register.
LEMMA MrHolds ==
  ASSUME NEW t, IsTarget(t), t.kind = "MR", t.member # "id", NEW v, IsEval(v),
         NEW rest, NEW got, IsAnswer(t, got), NEW d \in WriteMr(t, v, got)
  PROVE  t.member \in {"", "value", "comment"} /\ Holds(t, v, rest, d)
<1>0. IsRegister("MR", got.data) /\ \A x : IsValueOf("MR", x)
  BY DEF IsAnswer, IsValueOf
<1>1. CASE t.member = ""
  <2>1. CASE v.type \in {Float, RFloat}
    <3>0. v.type # SrString /\ v.type # MrFloat
      BY <2>1 DEF Float, RFloat, MrFloat, SrString
    <3>1. d \in OrNew(got, t.id, getFloatValue(v))
      BY <1>1, <2>1, <3>0 DEF WriteMr, setValueMr
    <3>2. d.value = getFloatValue(v)
      BY <1>0, <3>1, SetHolds
    <3> QED
      BY <1>1, <3>0, <3>2 DEF Holds, ValueHeld, OwnType
  <2>2. CASE v.type = MrFloat
    <3>0. v.type # SrString /\ v.type \notin {Float, RFloat}
      BY <2>2 DEF Float, RFloat, MrFloat, SrString
    <3>1. d = WithId(v.reg, t.id)
      BY <1>1, <2>2, <3>0 DEF WriteMr, setMr, WithId
    <3>2. IsData(v.reg)
      BY DEF IsEval
    <3>3. d.value = v.reg.value
      BY <3>1, <3>2, NumberedHolds
    <3> QED
      BY <1>1, <2>2, <3>0, <3>3 DEF Holds, ValueHeld, OwnType
  <2>3. CASE v.type = SrString
    <3>0. v.type \notin {Float, RFloat, MrFloat} /\ getStringValue(v) = v.str
      BY <2>3 DEF Float, RFloat, MrFloat, SrString, getStringValue
    <3>1. d \in OrNew(got, t.id, atof(v.str))
      BY <1>1, <2>3, <3>0 DEF WriteMr, setValueMr
    <3>2. d.value = atof(v.str)
      BY <1>0, <3>1, SetHolds
    <3> QED
      BY <1>1, <2>3, <3>2 DEF Holds, ValueHeld
  <2>4. CASE v.type \notin {Float, RFloat, MrFloat, SrString}
    BY <1>1, <2>4 DEF WriteMr
  <2> QED
    BY <2>1, <2>2, <2>3, <2>4
<1>2. CASE t.member = "value"
  <2>1. d \in OrNew(got, t.id, getFloatValue(v))
    BY <1>2 DEF WriteMr, setValueMr
  <2>2. d.value = getFloatValue(v)
    BY <1>0, <2>1, SetHolds
  <2> QED
    BY <1>2, <2>2 DEF Holds
<1>3. CASE t.member = "comment"
  <2>1. d = WithComment(got.data, getStringValue(v))
    BY <1>3 DEF WriteMr, setCommentMr, Changed, WithComment
  <2>2. d.comment = getStringValue(v)
    BY <1>0, <2>1, CommentHolds
  <2> QED
    BY <1>3, <2>2 DEF Holds
<1>4. CASE t.member \notin {"", "value", "comment"}
  BY <1>4 DEF WriteMr
<1> QED
  BY <1>1, <1>2, <1>3, <1>4

\* The register answers with the data that was written, an empty comment filled in.
Shown(got, d) ==
  /\ got.ok = TRUE
  /\ got.data.value = d.value
  /\ got.data.comment = d.comment \/ d.comment = <<>>

\* What is read of a PR register is what the data holds.
LEMMA PrShows ==
  ASSUME NEW t, t.kind = "PR", t.member \in {"pose", "x", "joint", "j", "pj", "type", "comment"},
         NEW v, NEW rest, NEW d, Holds(t, v, rest, d), NEW got, Shown(got, d),
         t.member = "pj" => d.value.type = POS_TYPE_CARTESIAN,
         AsFloat(getFloatValue(v)) = getFloatValue(v)
  PROVE  SameReading(t, v, rest, ReadPr(t, got, 0))
<1> DEFINE w == ReadPr(t, got, 0)
<1>1. CASE t.member = "pose"
  <2>1. w.pose = d.value.pose
    BY <1>1, ValueSet DEF ReadPr, ReadPrPose, getPosePr, Answer, Shown
  <2>2. d.value.pose = IF v.type = Float THEN Listed(v, rest) ELSE v.pose
    BY <1>1 DEF Holds
  <2> QED
    BY <1>1, <2>1, <2>2 DEF SameReading
<1>2. CASE t.member = "joint"
  <2>1. w.joint = d.value.joint
    BY <1>2, ValueSet DEF ReadPr, ReadPrJoint, getJointPr, Answer, Shown
  <2>2. d.value.joint = IF v.type = Float THEN Listed(v, rest) ELSE v.joint
    BY <1>2 DEF Holds
  <2> QED
    BY <1>2, <2>1, <2>2 DEF SameReading
<1>3. CASE t.member = "x"
  <2>1. w.f = AsFloat(d.value.pose[t.axis])
    BY <1>3, ValueSet DEF ReadPr, ReadPrPose, getPosePr, Answer, Shown
  <2>2. d.value.pose[t.axis] = getFloatValue(v)
    BY <1>3 DEF Holds
  <2> QED
    BY <1>3, <2>1, <2>2 DEF SameReading
<1>4. CASE t.member = "j"
  <2>1. w.f = AsFloat(d.value.joint[t.axis])
    BY <1>4, ValueSet DEF ReadPr, ReadPrJoint, getJointPr, Answer, Shown
  <2>2. d.value.joint[t.axis] = getFloatValue(v)
    BY <1>4 DEF Holds
  <2> QED
    BY <1>4, <2>1, <2>2 DEF SameReading
<1>5. CASE t.member = "pj"
  <2>1. w.f = AsFloat(d.value.pose[t.axis])
    BY <1>5, ValueSet DEF ReadPr, ReadPrEither, getPr, Answer, Shown
  <2>2. d.value.pose[t.axis] = getFloatValue(v)
    BY <1>5 DEF Holds
  <2> QED
    BY <1>5, <2>1, <2>2 DEF SameReading
<1>6. CASE t.member = "type"
  <2>1. w.f = AsFloat(d.value.type)
    BY <1>6, ValueSet DEF ReadPr, getTypePr, Answer, Shown
  <2>2. d.value.type = getFloatValue(v)
    BY <1>6 DEF Holds
  <2> QED
    BY <1>6, <2>1, <2>2 DEF SameReading
<1>7. CASE t.member = "comment"
  <2>1. w.str = got.data.comment
    BY <1>7, ValueSet DEF ReadPr, getCommentPr, Answer, Shown
  <2>2. d.comment = getStringValue(v)
    BY <1>7 DEF Holds
  <2> QED
    BY <1>7, <2>1, <2>2 DEF SameReading, Shown
<1> QED
  BY <1>1, <1>2, <1>3, <1>4, <1>5, <1>6, <1>7

\* So does what is read of an HR register.
LEMMA HrShows ==
  ASSUME NEW t, t.kind = "HR", t.member \in {"joint", "j", "hj"}, NEW v, NEW rest, NEW d,
         Holds(t, v, rest, d), NEW got, Shown(got, d), NEW pr,
         AsFloat(getFloatValue(v)) = getFloatValue(v)
  PROVE  SameReading(t, v, rest, ReadHr(t, got, pr, 0))
<1> DEFINE w == ReadHr(t, got, pr, 0)
<1>1. CASE t.member = "joint"
  <2>1. w.joint = d.value
    BY <1>1, ValueSet DEF ReadHr, getJointHr, Answer, Shown
  <2>2. d.value = IF v.type = Float THEN Listed(v, rest) ELSE v.joint
    BY <1>1 DEF Holds
  <2> QED
    BY <1>1, <2>1, <2>2 DEF SameReading
<1>2. CASE t.member \in {"j", "hj"}
  <2>1. w.f = AsFloat(d.value[t.axis])
    <3>1. CASE t.member = "j"
      BY <3>1, ValueSet DEF ReadHr, getJointHr, Answer, Shown
    <3>2. CASE t.member = "hj"
      BY <3>2, ValueSet DEF ReadHr, getHr, Answer, Shown
    <3> QED
      BY <1>2, <3>1, <3>2
  <2>2. d.value[t.axis] = getFloatValue(v)
    BY <1>2 DEF Holds
  <2> QED
    BY <1>2, <2>1, <2>2 DEF SameReading
<1> QED
  BY <1>1, <1>2

\* So does what is read of a string register.
LEMMA SrShows ==
  ASSUME NEW t, t.kind = "SR", t.member \in {"", "comment"}, NEW v, NEW rest, NEW d,
         Holds(t, v, rest, d), NEW got, Shown(got, d), IsData(got.data)
  PROVE  SameReading(t, v, rest, ReadSr(t, got, 0))
<1>1. CASE t.member = ""
  <2> DEFINE w == ReadSr(t, got, 0)
  <2>1. w = setSrRegDataValue(None, got.data)
    BY <1>1 DEF ReadSr, getSr, Answer, Shown
  <2>2. w.str = d.value
    BY <2>1, RegisterIsRead DEF Shown
  <2>3. d.value = ValueHeld(t, v)
    BY <1>1 DEF Holds
  <2> HIDE DEF w
  <2>4. WholeReading(t, v, w)
    BY <2>2, <2>3 DEF ValueHeld, WholeReading
  <2>5. SameReading(t, v, rest, w)
    BY <1>1, <2>4 DEF SameReading
  <2> QED
    BY <2>5 DEF w
<1>2. CASE t.member = "comment"
  <2>1. ReadSr(t, got, 0).str = got.data.comment
    BY <1>2, ValueSet DEF ReadSr, getCommentSr, Answer, Shown
  <2>2. d.comment = getStringValue(v)
    BY <1>2 DEF Holds
  <2> QED
    BY <1>2, <2>1, <2>2 DEF SameReading, Shown
<1> QED
  BY <1>1, <1>2

\* So does what is read of an R register.
LEMMA RShows ==
  ASSUME NEW t, t.kind = "R", t.member \in {"", "value", "comment"}, NEW v, NEW rest, NEW d,
         Holds(t, v, rest, d), NEW got, Shown(got, d), IsData(got.data),
         AsFloat(getFloatValue(v)) = getFloatValue(v)
  PROVE  SameReading(t, v, rest, ReadR(t, got, 0))
<1>1. CASE t.member = ""
  <2> DEFINE w == ReadR(t, got, 0)
  <2>1. w = setRRegDataValue(None, got.data)
    BY <1>1 DEF ReadR, getR, Answer, Shown
  <2>2. w.f = AsFloat(d.value) /\ w.reg.value = d.value
    BY <2>1, RegisterIsRead DEF Shown
  <2>3. d.value = ValueHeld(t, v)
    BY <1>1 DEF Holds
  <2> HIDE DEF w
  <2>4. WholeReading(t, v, w)
    BY <2>2, <2>3 DEF ValueHeld, WholeReading, OwnType, SrString, RFloat, MrFloat
  <2>5. SameReading(t, v, rest, w)
    BY <1>1, <2>4 DEF SameReading
  <2> QED
    BY <2>5 DEF w
<1>2. CASE t.member = "value"
  <2>1. ReadR(t, got, 0).f = AsFloat(d.value)
    BY <1>2, ValueSet DEF ReadR, getValueR, Answer, Shown
  <2>2. d.value = getFloatValue(v)
    BY <1>2 DEF Holds
  <2> QED
    BY <1>2, <2>1, <2>2 DEF SameReading
<1>3. CASE t.member = "comment"
  <2>1. ReadR(t, got, 0).str = got.data.comment
    BY <1>3, ValueSet DEF ReadR, getCommentR, Answer, Shown
  <2>2. d.comment = getStringValue(v)
    BY <1>3 DEF Holds
  <2> QED
    BY <1>3, <2>1, <2>2 DEF SameReading, Shown
<1> QED
  BY <1>1, <1>2, <1>3

\* So does what is read of an MR register.
LEMMA MrShows ==
  ASSUME NEW t, t.kind = "MR", t.member \in {"", "value", "comment"}, NEW v, NEW rest, NEW d,
         Holds(t, v, rest, d), NEW got, Shown(got, d), IsData(got.data),
         AsFloat(getFloatValue(v)) = getFloatValue(v)
  PROVE  SameReading(t, v, rest, ReadMr(t, got, 0))
<1>1. CASE t.member = ""
  <2> DEFINE w == ReadMr(t, got, 0)
  <2>1. w = setMrRegDataValue(None, got.data)
    BY <1>1 DEF ReadMr, getMr, Answer, Shown
  <2>2. w.f = AsFloat(d.value) /\ w.reg.value = d.value
    BY <2>1, RegisterIsRead DEF Shown
  <2>3. d.value = ValueHeld(t, v)
    BY <1>1 DEF Holds
  <2> HIDE DEF w
  <2>4. WholeReading(t, v, w)
    BY <2>2, <2>3 DEF ValueHeld, WholeReading, OwnType, SrString, RFloat, MrFloat
  <2>5. SameReading(t, v, rest, w)
    BY <1>1, <2>4 DEF SameReading
  <2> QED
    BY <2>5 DEF w
<1>2. CASE t.member = "value"
  <2>1. ReadMr(t, got, 0).f = AsFloat(d.value)
    BY <1>2, ValueSet DEF ReadMr, getValueMr, Answer, Shown
  <2>2. d.value = getFloatValue(v)
    BY <1>2 DEF Holds
  <2> QED
    BY <1>2, <2>1, <2>2 DEF SameReading
<1>3. CASE t.member = "comment"
  <2>1. ReadMr(t, got, 0).str = got.data.comment
    BY <1>3, ValueSet DEF ReadMr, getCommentMr, Answer, Shown
  <2>2. d.comment = getStringValue(v)
    BY <1>3 DEF Holds
  <2> QED
    BY <1>3, <2>1, <2>2 DEF SameReading, Shown
<1> QED
  BY <1>1, <1>2, <1>3

\* An entry written is valid and holds the data, an empty comment filled in.
LEMMA EntryHolds ==
  ASSUME NEW d, NEW filled, NEW e, e = Entry(d, filled)
  PROVE  /\ e.is_valid = TRUE /\ e.value = d.value
         /\ e.comment = d.comment \/ d.comment = <<>>
BY DEF Entry

\* Members written and read in the same way, as Symmetric has it.
Twofold(t) ==
  /\ t.member # "id"
  /\ t.kind = "SR" => t.member # "value"
  /\ t.kind \in {"PR", "HR"} => t.member # ""
  /\ t.kind = "HR" => t.member # "comment"

\* A value fit to be assigned: what it copies of a string is that string, and its number
\* is a float.
Assignable(v) ==
  /\ IsEval(v)
  /\ v.type = SrString => v.str = v.reg.value
  /\ AsFloat(getFloatValue(v)) = getFloatValue(v)

\* What is read of a register that an assignment has been written to is what was assigned.
LEMMA WrittenShows ==
  ASSUME NEW t, IsTarget(t), Twofold(t), NEW v, Assignable(v), NEW rest, IsVector(rest),
         NEW got, IsAnswer(t, got), NEW junk, NEW d \in set_register(t, v, rest, got, junk),
         NEW s, IsStore(s), t.id \in Ids, NEW filled, s[t.kind][t.id] = Entry(d, filled),
         t.member = "pj" => s[t.kind][t.id].value.type = POS_TYPE_CARTESIAN
  PROVE  SameReading(t, v, rest, get_register(s, t, 0))
<1> DEFINE k == t.kind
           i == t.id
           after == getReg(s, k, i)
<1>1. k \in Kinds /\ k \in {"PR", "SR", "R", "MR", "HR"} /\ s[k][i] = Entry(d, filled)
  BY TargetIs
<1>0. /\ IsEval(v)
      /\ v.type = SrString => v.str = v.reg.value
      /\ AsFloat(getFloatValue(v)) = getFloatValue(v)
      /\ t.member # "id"
      /\ t.kind = "SR" => t.member # "value"
      /\ t.kind \in {"PR", "HR"} => t.member # ""
      /\ t.kind = "HR" => t.member # "comment"
  BY DEF Assignable, Twofold
<1>2. /\ s[k][i].is_valid = TRUE /\ s[k][i].value = d.value
      /\ s[k][i].comment = d.comment \/ d.comment = <<>>
  <2> HIDE DEF k, i
  <2> QED
    BY <1>1, EntryHolds
<1>3. IsData(after.data) /\ Shown(after, d)
  <2>1. i \in Ids
    OBVIOUS
  <2>2. after = getReg(s, k, i)
    OBVIOUS
  <2> HIDE DEF k, i, after
  <2>3. after.ok = TRUE
    BY <1>2, <2>1, <2>2 DEF getReg
  <2>4. after.data.comment = s[k][i].comment /\ after.data.value = s[k][i].value
    BY <1>1, <2>2, <2>3, AnswerIs
  <2>5. IsRegister(k, after.data)
    BY <1>1, <2>2, AnswerIs
  <2> QED
    BY <1>2, <2>3, <2>4, <2>5 DEF Shown, IsRegister
<1>4. t.member = "pj" => d.value.type = POS_TYPE_CARTESIAN
  BY <1>2
<1> HIDE DEF after
<1>5. CASE t.kind = "PR"
  <2>1. d \in WritePr(t, v, rest, got)
    BY <1>5 DEF set_register
  <2>2. /\ t.member \in {"pose", "x", "joint", "j", "pj", "type", "comment"}
        /\ Holds(t, v, rest, d)
    BY <1>0, <1>5, <2>1, PrHolds
  <2>3. get_register(s, t, 0) = ReadPr(t, after, 0)
    BY <1>5 DEF get_register, after
  <2> QED
    BY <1>0, <1>3, <1>4, <1>5, <2>2, <2>3, PrShows
<1>6. CASE t.kind = "SR"
  <2>1. d \in WriteSr(t, v, got)
    BY <1>6 DEF set_register
  <2>2. t.member \in {"", "comment"} /\ Holds(t, v, rest, d)
    BY <1>0, <1>6, <2>1, SrHolds
  <2>3. get_register(s, t, 0) = ReadSr(t, after, 0)
    BY <1>6 DEF get_register, after
  <2> QED
    BY <1>0, <1>3, <1>6, <2>2, <2>3, SrShows
<1>7. CASE t.kind = "R"
  <2>1. d \in WriteR(t, v, got)
    BY <1>7 DEF set_register
  <2>2. t.member \in {"", "value", "comment"} /\ Holds(t, v, rest, d)
    BY <1>0, <1>7, <2>1, RHolds
  <2>3. get_register(s, t, 0) = ReadR(t, after, 0)
    BY <1>7 DEF get_register, after
  <2> QED
    BY <1>0, <1>3, <1>7, <2>2, <2>3, RShows
<1>8. CASE t.kind = "MR"
  <2>1. d \in WriteMr(t, v, got)
    BY <1>8 DEF set_register
  <2>2. t.member \in {"", "value", "comment"} /\ Holds(t, v, rest, d)
    BY <1>0, <1>8, <2>1, MrHolds
  <2>3. get_register(s, t, 0) = ReadMr(t, after, 0)
    BY <1>8 DEF get_register, after
  <2> QED
    BY <1>0, <1>3, <1>8, <2>2, <2>3, MrShows
<1>9. CASE t.kind = "HR"
  <2>1. d \in WriteHr(t, v, rest, got, junk)
    BY <1>9 DEF set_register
  <2>2. t.member \in {"joint", "j", "hj"} /\ Holds(t, v, rest, d)
    BY <1>0, <1>9, <2>1, HrHolds
  <2>3. get_register(s, t, 0) = ReadHr(t, after, getReg(s, "PR", t.id), 0)
    BY <1>9 DEF get_register, after
  <2> QED
    BY <1>0, <1>3, <1>9, <2>2, <2>3, HrShows
<1> QED
  BY <1>1, <1>5, <1>6, <1>7, <1>8, <1>9

\* What a program assigns to a member, or to a whole string or number register, is what it
\* reads there afterwards, if the register changed at all: of every class, for every
\* member that is written and read in the same way, as long as the numbers assigned are
\* numbers a float holds.
THEOREM AssignedReadsBack == Spec /\ []FloatsAssigned => ReadsBack
<1>1. AInv /\ AInv' /\ FloatsAssigned /\ [Next]_vars => ReadBack
  <2> SUFFICES ASSUME AInv, AInv', FloatsAssigned, [Next]_vars, NEW x \in Programs, Writes(x),
                      Symmetric(call[x].to),
                      st'[call[x].to.kind][call[x].to.id] # st[call[x].to.kind][call[x].to.id]
               PROVE  SameReading(call[x].to, call[x].acc, call[x].rest,
                                  get_register(st', call[x].to, 0))
    BY DEF ReadBack
  <2> DEFINE c == call[x]
             t == c.to
  <2>0. x \in Actors /\ call[x].pc = "write"
    BY ProgramsAreActors DEF Writes
  <2>1. WriteTarget(x)
    BY <2>0, WriterWrites
  <2>2. IsTarget(t) /\ IsAnswer(t, c.got) /\ t.kind \in Kinds
    BY <2>0, CallIs, TargetIs
  <2>3. IsAssign(c)
    BY <2>0, CallOfProgram
  <2>4. /\ c.by = "assign" /\ IsEval(c.acc) /\ IsVector(c.rest)
        /\ c.acc.type = SrString => c.acc.str = c.acc.reg.value
    BY <2>0, <2>3 DEF IsAssign, Agree
  <2>5. AsFloat(getFloatValue(c.acc)) = getFloatValue(c.acc)
    BY <2>0 DEF FloatsAssigned
  <2>6. ~ById(t)
    BY DEF Symmetric, ById
  <2>7. t.id \in Ids
    <3>1. PICK d : Fits(t, Own(c), c.got, d) /\ st' = Upsert(st, t.kind, d)
      BY <2>0, <2>1, WriteIs
    <3>2. d.id = t.id /\ IsRegister(t.kind, d) /\ IsStore(st)
      BY <2>6, <3>1 DEF Fits, AInv
    <3>3. \A s : s = Upsert(st, t.kind, d) /\ d.id \notin Ids => s = st
      BY <2>2, <3>2, UpsertIs
    <3> QED
      BY <3>1, <3>2, <3>3
  <2>8. PICK d : /\ \E junk : d \in Passed(c, junk)
                 /\ st'[t.kind][t.id] = Entry(d, st[t.kind][t.id].is_valid)
    BY <2>0, <2>1, <2>2, <2>7, WriteChanges
  <2>9. PICK junk : d \in set_register(t, c.acc, c.rest, c.got, junk)
    BY <2>4, <2>8 DEF Passed
  <2>10. IsStore(st')
    BY DEF AInv
  <2>11. /\ Twofold(t) /\ Assignable(c.acc)
         /\ t.member = "pj" => st'[t.kind][t.id].value.type = POS_TYPE_CARTESIAN
    BY <2>4, <2>5 DEF Symmetric, Twofold, Assignable
  <2> HIDE DEF c, t
  <2>12. SameReading(t, c.acc, c.rest, get_register(st', t, 0))
    <3> DEFINE s == st'
               filled == st[t.kind][t.id].is_valid
    <3>1. IsStore(s) /\ s[t.kind][t.id] = Entry(d, filled)
      BY <2>8, <2>10
    <3>2. t.member = "pj" => s[t.kind][t.id].value.type = POS_TYPE_CARTESIAN
      BY <2>11
    <3> HIDE DEF s, filled
    <3>3. SameReading(t, c.acc, c.rest, get_register(s, t, 0))
      BY <2>2, <2>4, <2>7, <2>9, <2>11, <3>1, <3>2, WrittenShows
    <3> QED
      BY <3>3 DEF s
  <2> QED
    BY <2>12 DEF c, t
<1> QED
  BY <1>1, AccessInvariant, PTL DEF Spec, ReadsBack

-----------------------------------------------------------------------------
(***************************************************************************)
(* What the registers hold.                                                *)
(***************************************************************************)
\* The value of a register that was admitted: a position is Cartesian or of joints, a
\* number is one.
IsAdmitted(k, x) ==
  /\ k = "PR" => x.type \in {POS_TYPE_CARTESIAN, POS_TYPE_JOINT}
  /\ k \in {"R", "MR"} => x \in Int

Admitted(s) == \A k \in Kinds, i \in Ids : IsAdmitted(k, s[k][i].value)

Counted == calls \in [Actors -> Int] /\ \A x \in Actors : calls[x] \in 0 .. MaxCalls[x]

\* Within the limits of its class a value is an admitted one.
LEMMA LimitAdmits ==
  ASSUME NEW k \in Kinds, NEW x, ~OutOfLimit(k, x)
  PROVE  IsAdmitted(k, x)
<1>1. CASE k = "PR"
  <2>1. ~PrOutOfPosLimit(x)
    BY <1>1 DEF OutOfLimit
  <2>2. x.type = POS_TYPE_CARTESIAN \/ x.type = POS_TYPE_JOINT
    BY <2>1 DEF PrOutOfPosLimit
  <2> QED
    BY <1>1, <2>2 DEF IsAdmitted
<1>2. CASE k \in {"R", "MR"}
  <2>1. x \in -MAX_REG_VALUE .. MAX_REG_VALUE
    BY <1>2 DEF OutOfLimit, Beyond
  <2>2. x \in Int
    BY <2>1, MaxAssumption
  <2> QED
    BY <1>2, <2>2 DEF IsAdmitted
<1>3. CASE k \in {"SR", "HR"}
  BY <1>3 DEF IsAdmitted
<1> QED
  BY <1>1, <1>2, <1>3 DEF Kinds

\* So is what a deleted register is cleared to.
LEMMA ClearedAdmits ==
  ASSUME NEW k \in Kinds, NEW old
  PROVE  IsAdmitted(k, Cleared(k, old))
<1>1. CASE k = "PR"
  <2>1. Cleared(k, old) = ZeroPosition
    BY <1>1 DEF Cleared, PrReg
  <2>2. ZeroPosition.type = POS_TYPE_CARTESIAN
    BY DEF ZeroPosition
  <2> QED
    BY <1>1, <2>1, <2>2 DEF IsAdmitted
<1>2. CASE k \in {"R", "MR"}
  BY <1>2 DEF Cleared, RReg, MrReg, IsAdmitted
<1>3. CASE k \in {"SR", "HR"}
  BY <1>3 DEF IsAdmitted
<1> QED
  BY <1>1, <1>2, <1>3 DEF Kinds

\* The registers of a run start admitted, and as many calls are left as there are.
LEMMA StartsAdmitted == Init => Admitted(st) /\ Counted
<1> SUFFICES ASSUME Init PROVE Admitted(st) /\ Counted
  OBVIOUS
<1>1. ASSUME NEW k \in Kinds, NEW i \in Ids
      PROVE  IsAdmitted(k, st[k][i].value)
  <2>1. /\ st[k] \in [Ids -> [is_valid : BOOLEAN, comment : Seq(STRING), value : Values(k)]]
        /\ st["PR"][i].value.type \in {POS_TYPE_CARTESIAN, POS_TYPE_JOINT}
    BY ContentsAssumption DEF Init
  <2>2. st[k][i].value \in Values(k)
    BY <2>1
  <2>3. k \in {"R", "MR"} => Values(k) = Int
    BY DEF Values
  <2> QED
    BY <2>1, <2>2, <2>3 DEF IsAdmitted
<1>2. Counted
  BY MaxCallsAssumption DEF Init, Counted, Actors
<1> QED
  BY <1>1, <1>2 DEF Admitted

\* Every step writes admitted values only.
LEMMA StepAdmits == AInv /\ Admitted(st) /\ [Next]_vars => Admitted(st')
<1> SUFFICES ASSUME AInv, Admitted(st), [Next]_vars, NEW k \in Kinds, NEW i \in Ids,
                    st'[k][i] # st[k][i]
             PROVE  IsAdmitted(k, st'[k][i].value)
  BY DEF Admitted
<1>1. ASSUME NEW x \in Actors, WriteTarget(x)
      PROVE  IsAdmitted(k, st'[k][i].value)
  <2>1. PICK d : st'[k][i] = Entry(d, st[k][i].is_valid) /\ ~OutOfLimit(k, d.value)
    BY <1>1, WriteChanges
  <2>2. \A e : e = Entry(d, st[k][i].is_valid) => e.value = d.value
    BY EntryHolds
  <2> QED
    BY <2>1, <2>2, LimitAdmits
<1>2. ASSUME NEW r \in Requests, DelReg(r)
      PROVE  IsAdmitted(k, st'[k][i].value)
  <2> DEFINE t == Narrowed(r.to)
  <2>3. IsTarget(t) /\ st' = forgesight_del_reg(st, t)
    BY <1>2, RequestsAssumption, NarrowedIs DEF DelReg
  <2> HIDE DEF t
  <2>1. st' = deleteReg(st, t.kind, t.id) /\ t.kind \in Kinds /\ IsStore(st)
    BY <2>3, DeleteRequestIs, TargetIs DEF AInv
  <2>2. st'[k][i].value = Cleared(k, st[k][i].value)
    BY <2>1, DeletedIs
  <2> QED
    BY <2>2, ClearedAdmits
<1>3. CASE UNCHANGED st
  BY <1>3
<1> QED
  BY <1>1, <1>2, <1>3 DEF Next, BeginStatement, ReadRight, Request, ModReg, ReadReg,
     ReadTarget, vars

\* Every call counts once, and none is made when none is left.
LEMMA StepCounts == Counted /\ [Next]_vars => Counted'
<1> SUFFICES ASSUME Counted, [Next]_vars PROVE Counted'
  OBVIOUS
<1>1. ASSUME NEW x \in Actors, calls[x] > 0, calls' = [calls EXCEPT ![x] = @ - 1]
      PROVE  Counted'
  <2>1. calls' \in [Actors -> Int]
    BY <1>1 DEF Counted
  <2>2. ASSUME NEW y \in Actors
        PROVE  calls'[y] \in 0 .. MaxCalls[y]
    <3>1. calls[y] \in 0 .. MaxCalls[y] /\ calls[y] \in Int /\ MaxCalls[y] \in Nat
      BY MaxCallsAssumption DEF Counted, Actors
    <3>2. CASE y = x
      BY <1>1, <3>1, <3>2 DEF Counted
    <3>3. CASE y # x
      BY <1>1, <3>1, <3>3 DEF Counted
    <3> QED
      BY <3>2, <3>3
  <2> QED
    BY <2>1, <2>2 DEF Counted
<1>2. CASE UNCHANGED calls
  BY <1>2 DEF Counted
<1> QED
  BY <1>1, <1>2 DEF Next, BeginStatement, ReadRight, Request, ReadTarget, WriteTarget, vars,
     Actors

\* In every reachable state a position register holds a Cartesian or a joint position, an
\* R or MR register a number, whatever was passed to it, and every actor is somewhere in
\* its call.
THEOREM AccessTypeCorrect == Spec => []TypeOK
<1>1. Init => AInv /\ Admitted(st) /\ Counted
  BY StartsWell, StartsAdmitted
<1>2. AInv /\ Admitted(st) /\ Counted /\ [Next]_vars => AInv' /\ Admitted(st') /\ Counted'
  BY StepKeeps, StepAdmits, StepCounts
<1>3. AInv /\ Admitted(st) /\ Counted => TypeOK
  <2> SUFFICES ASSUME AInv, Admitted(st), Counted PROVE TypeOK
    OBVIOUS
  <2>1. /\ DOMAIN st = Kinds
        /\ \A k \in Kinds : /\ DOMAIN st[k] = Ids
                            /\ \A id \in Ids : st[k][id].is_valid \in BOOLEAN
    BY DEF AInv, IsStore, IsEntry
  <2>2. ASSUME NEW id \in Ids
        PROVE  /\ st["PR"][id].value.type \in {POS_TYPE_CARTESIAN, POS_TYPE_JOINT}
               /\ st["R"][id].value \in Int /\ st["MR"][id].value \in Int
    BY DEF Admitted, IsAdmitted, Kinds
  <2>3. ASSUME NEW x \in Actors
        PROVE  call[x].pc \in {"idle", "right", "read", "write", "reply"}
    <3>1. IsCall(x, call[x])
      BY DEF AInv, CallInv
    <3> QED
      BY <3>1, IdleIs DEF IsCall, IsModify, IsAssign
  <2> QED
    BY <2>1, <2>2, <2>3 DEF TypeOK, Counted
<1> QED
  <2> DEFINE I == AInv /\ Admitted(st) /\ Counted
  <2>1. Init => I
    BY <1>1
  <2>2. I /\ [Next]_vars => I'
    BY <1>2
  <2>3. I => TypeOK
    BY <1>3
  <2> HIDE DEF I
  <2> QED
    BY <2>1, <2>2, <2>3, PTL DEF Spec
=============================================================================
