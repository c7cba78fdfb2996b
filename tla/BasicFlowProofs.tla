--------------------------- MODULE BasicFlowProofs ---------------------------
(***************************************************************************)
(* Whatever words stand on the lines of a program, and whatever the limits:*)
(* the stacks of BasicFlow stay what their users take them for.            *)
(***************************************************************************)
EXTENDS BasicFlow, SequenceTheorems, TLAPS

W == INSTANCE WellFoundedInduction

\* The size saved first is 0, and every saved size has a place to return to.
LocalsInv ==
  /\ func_call_stack = <<>> => local_vars = 0
  /\ func_call_stack # <<>> => func_call_stack[1] = 0
  /\ gosub_tos = 0 => func_call_stack = <<>>
  /\ gosub_tos > 0 => Len(func_call_stack) < gosub_tos

IInv == TypeOK /\ FramesSound /\ ReturnsFind /\ LocalsInv

-----------------------------------------------------------------------------
(* Least and greatest lines. *)

LEMMA Least ==
  ASSUME NEW S \in SUBSET Nat, S # {}
  PROVE  \E m \in S : \A y \in S : m <= y
<1> DEFINE Less == {ss \in Nat \X Nat : ss[1] < ss[2]}
<1>1. W!IsWellFoundedOn(Less, Nat)
  BY W!NatLessThanWellFounded DEF W!OpToRel
<1>2. PICK m \in S : \A y \in S : ~(<<y, m>> \in Less)
  <2> HIDE DEF Less
  <2> QED BY <1>1, W!WFMin
<1>3. ASSUME NEW y \in S PROVE m <= y
  <2>1. m \in Nat /\ y \in Nat
    OBVIOUS
  <2>2. ~(y < m)
    BY <1>2, <2>1
  <2> QED BY <2>1, <2>2
<1> QED BY <1>3

LEMMA MinIn ==
  ASSUME NEW S \in SUBSET Nat, S # {}
  PROVE  Min(S) \in S
BY Least DEF Min

LEMMA MaxIn ==
  ASSUME NEW n \in Nat, NEW S \in SUBSET (1 .. n), S # {}
  PROVE  Max(S) \in S
<1> DEFINE T == {n - x : x \in S}
<1>1. T \in SUBSET Nat /\ T # {}
  <2>1. \A x \in S : n - x \in Nat
    OBVIOUS
  <2> QED BY <2>1
<1>2. \E t \in T : \A y \in T : t <= y
  <2> HIDE DEF T
  <2> QED BY <1>1, Least
<1>3. PICK m \in S : \A y \in S : n - m <= n - y
  BY <1>2
<1>4. \A y \in S : m >= y
  BY <1>3
<1> QED BY <1>4 DEF Max

-----------------------------------------------------------------------------
(* What happens to selcyclstack. *)

StackOK ==
  /\ selcyclstack \in Seq(Frame) /\ Len(selcyclstack) <= SELECT_AND_CYCLE_NEST
  /\ FramesSound

LEMMA KeptOK ==
  ASSUME StackOK, p_buf' = p_buf, selcyclstack' = selcyclstack
  PROVE  StackOK'
BY DEF StackOK, FramesSound

\* Frames taken off the top.
LEMMA PrefixOK ==
  ASSUME StackOK, p_buf' = p_buf, NEW n \in 0 .. Len(selcyclstack),
         selcyclstack' = SubSeq(selcyclstack, 1, n)
  PROVE  StackOK'
<1>1. /\ selcyclstack' \in Seq(Frame) /\ Len(selcyclstack') = n
      /\ \A i \in 1 .. n : selcyclstack'[i] = selcyclstack[i]
  <2>1. \A i \in 1 .. n : selcyclstack[i] \in Frame
    BY DEF StackOK
  <2> QED BY <2>1, SubSeqProperties DEF StackOK
<1> QED BY <1>1, NestAssumption DEF StackOK, FramesSound

\* A frame put on top of what remains of them.
LEMMA AppendOK ==
  ASSUME StackOK, p_buf' = p_buf, NEW n \in 0 .. Len(selcyclstack), NEW f \in Frame,
         n < SELECT_AND_CYCLE_NEST, f.line \in DOMAIN p_buf,
         Op(p_buf, f.line) = f.kind \/ (f.kind = "IF" /\ Op(p_buf, f.line) = "ELSEIF"),
         selcyclstack' = Append(SubSeq(selcyclstack, 1, n), f)
  PROVE  StackOK'
<1> DEFINE s == SubSeq(selcyclstack, 1, n)
<1>1. /\ s \in Seq(Frame) /\ Len(s) = n
      /\ \A i \in 1 .. n : s[i] = selcyclstack[i]
  <2>1. \A i \in 1 .. n : selcyclstack[i] \in Frame
    BY DEF StackOK
  <2> QED BY <2>1, SubSeqProperties DEF StackOK
<1>2. /\ selcyclstack' \in Seq(Frame) /\ Len(selcyclstack') = n + 1
      /\ \A i \in 1 .. n : selcyclstack'[i] = selcyclstack[i]
      /\ selcyclstack'[n + 1] = f
  <2> HIDE DEF s
  <2> QED BY <1>1, AppendProperties DEF s
<1> QED BY <1>2, NestAssumption DEF StackOK, FramesSound

-----------------------------------------------------------------------------
(* The program text. *)

\* A word that is read stands on a line of the program.
LEMMA ReadLine ==
  ASSUME IInv, NEW op \in Ops, Reads(op), op # "FINISHED"
  PROVE  /\ prog \in DOMAIN p_buf /\ prog \in Nat \ {0}
         /\ p_buf[prog] \in Line /\ p_buf[prog].op = op
         /\ p_buf[prog].to \in Nat
         /\ fate = "run" /\ err = 0
<1>1. prog \in DOMAIN p_buf
  BY DEF Reads, Op
<1>2. p_buf \in Seq(Line)
  BY DEF IInv, TypeOK, Program
<1>3. p_buf[prog] \in Line
  BY <1>1, <1>2
<1> QED BY <1>1, <1>3 DEF Reads, Op, Line, IInv, TypeOK

\* A frame names a line of the program.
LEMMA FrameLine ==
  ASSUME IInv, NEW i \in DOMAIN selcyclstack
  PROVE  /\ selcyclstack[i] \in Frame
         /\ selcyclstack[i].line \in DOMAIN p_buf
         /\ selcyclstack[i].line \in Nat \ {0}
         /\ p_buf[selcyclstack[i].line] \in Line
<1>1. selcyclstack[i] \in Frame
  BY DEF IInv, TypeOK
<1>2. selcyclstack[i].line \in DOMAIN p_buf
  BY DEF IInv, FramesSound
<1>3. p_buf \in Seq(Line)
  BY DEF IInv, TypeOK, Program
<1> QED BY <1>1, <1>2, <1>3

\* Searching forwards leads to a line.
LEMMA Forwards ==
  ASSUME p_buf \in Program, NEW l \in Nat, NEW words, NEW kind
  PROVE  /\ Outside(p_buf, words, kind, l) \in SUBSET (Nat \ {0})
         /\ Behind(p_buf, words, l) \in SUBSET (Nat \ {0})
BY DEF Outside, Behind, Program

LEMMA EntryLine ==
  ASSUME NEW t \in Nat \ {0}
  PROVE  Entry(p_buf, t) \in Nat \ {0}
BY DEF Entry

-----------------------------------------------------------------------------
(* Steps that leave the other stacks alone. *)

LEMMA FlowInit ==
  ASSUME Init
  PROVE  IInv
<1>1. p_buf \in Program
  BY TextAssumption DEF Init
<1>2. prog \in Nat \ {0} /\ RestOf(1) \in Place
  BY EntryLine DEF Init, RestOf, Place
<1>3. selcyclstack \in Seq(Frame) /\ Len(selcyclstack) = 0 /\ selcyclstack = <<>>
  BY DEF Init
<1>4. running \in Seq({"SUB", "CALL", "GOSUB"}) /\ Len(running) = 1
  BY DEF Init
<1>5. TypeOK
  BY <1>1, <1>2, <1>3, <1>4, NestAssumption DEF Init, TypeOK, Fates
<1>6. FramesSound
  BY <1>3 DEF FramesSound
<1>7. ReturnsFind
  BY <1>4, NestAssumption DEF Init, ReturnsFind
<1>8. LocalsInv
  BY NestAssumption DEF Init, LocalsInv
<1> QED BY <1>5, <1>6, <1>7, <1>8 DEF IInv

LEMMA Quiet ==
  ASSUME IInv, fate = "run", err = 0,
         UNCHANGED <<p_buf, stacks, running>>,
         prog' \in Nat \ {0}, err' \in 0 .. 19, fate' \in Fates,
         vars' \in [Vars -> Int], StackOK'
  PROVE  IInv'
<1>1. TypeOK'
  BY DEF IInv, TypeOK, StackOK, stacks
<1>2. FramesSound'
  BY DEF StackOK
<1>3. ReturnsFind'
  BY DEF IInv, ReturnsFind, stacks
<1>4. LocalsInv'
  BY DEF IInv, LocalsInv, stacks
<1> QED BY <1>1, <1>2, <1>3, <1>4 DEF IInv

\* An error, a scan that never ends.
LEMMA StopsOK ==
  ASSUME IInv, fate = "run", err = 0,
         \/ \E n \in 0 .. 19 : Error(n)
         \/ \E how \in Fates : Lost(how)
  PROVE  IInv'
<1>1. StackOK /\ UNCHANGED <<p_buf, prog, selcyclstack, stacks, vars, running>>
  BY DEF IInv, TypeOK, StackOK, Error, Lost
<1>2. StackOK'
  BY <1>1, KeptOK
<1>3. err' \in 0 .. 19 /\ fate' \in Fates
  BY DEF Error, Lost, Fates
<1> QED BY <1>1, <1>2, <1>3, Quiet DEF IInv, TypeOK

\* A jump that changes at most the frames.
LEMMA GotoOK ==
  ASSUME IInv, fate = "run", err = 0, NEW l \in Nat \ {0}, Goto(l), fate' \in Fates, StackOK'
  PROVE  IInv'
<1>1. err' \in 0 .. 19
  BY DEF Goto
<1> QED BY <1>1, Quiet DEF Goto, IInv, TypeOK

\* The same, without touching the frames.
LEMMA JumpOK ==
  ASSUME IInv, fate = "run", err = 0, NEW l \in Nat \ {0}, Goto(l),
         UNCHANGED <<selcyclstack, fate>>
  PROVE  IInv'
<1>1. StackOK
  BY DEF IInv, TypeOK, StackOK
<1>2. StackOK'
  BY <1>1, KeptOK DEF Goto
<1> QED BY <1>2, GotoOK DEF Fates

\* The frame of the block that the word read opens.
LEMMA PushOK ==
  ASSUME IInv, NEW kind \in Openers, NEW op \in Ops, Reads(op),
         op = kind \/ (kind = "IF" /\ op = "ELSEIF"), p_buf' = p_buf, Push(kind)
  PROVE  StackOK' /\ fate' \in Fates
<1>1. StackOK
  BY DEF IInv, TypeOK, StackOK
<1>2. fate = "run" /\ prog \in DOMAIN p_buf /\ prog \in Nat /\ Op(p_buf, prog) = op
  <2>1. op # "FINISHED"
    BY DEF Ops, Openers, Close
  <2> QED BY <2>1, ReadLine DEF Reads
<1>3. CASE Len(selcyclstack) < SELECT_AND_CYCLE_NEST
  <2> DEFINE f == [kind |-> kind, line |-> prog]
  <2>1. selcyclstack \in Seq(Frame) /\ SubSeq(selcyclstack, 1, Len(selcyclstack)) = selcyclstack
    BY <1>1, SubSeqFull DEF StackOK
  <2>2. f \in Frame
    BY <1>2 DEF Frame
  <2>3. selcyclstack' = Append(SubSeq(selcyclstack, 1, Len(selcyclstack)), f) /\ fate' = fate
    BY <1>3, <2>1 DEF Push
  <2>4. Len(selcyclstack) \in 0 .. Len(selcyclstack)
    BY <2>1
  <2>5. StackOK'
    BY <1>1, <1>2, <1>3, <2>2, <2>3, <2>4, AppendOK
  <2> QED BY <1>2, <2>3, <2>5 DEF Fates
<1>4. CASE ~(Len(selcyclstack) < SELECT_AND_CYCLE_NEST)
  BY <1>1, <1>4, KeptOK DEF Push, Fates
<1> QED BY <1>3, <1>4

\* The frames without the top one.
LEMMA RestOK ==
  ASSUME IInv, p_buf' = p_buf, selcyclstack' = Rest
  PROVE  StackOK'
<1>1. StackOK
  BY DEF IInv, TypeOK, StackOK
<1>2. CASE selcyclstack = <<>>
  BY <1>1, <1>2, KeptOK DEF Rest
<1>3. CASE selcyclstack # <<>>
  <2>1. Len(selcyclstack) - 1 \in 0 .. Len(selcyclstack)
    BY <1>3 DEF IInv, TypeOK
  <2> QED BY <1>1, <1>3, <2>1, PrefixOK DEF Rest, Front
<1> QED BY <1>2, <1>3

\* The frame BREAK and CONTINUE find.
LEMMA CycleOK ==
  ASSUME IInv
  PROVE  /\ CycleIndex \in 0 .. Len(selcyclstack)
         /\ CycleIndex = 0 => Cycle = NoFrame
         /\ CycleIndex # 0 => CycleIndex \in DOMAIN selcyclstack
                              /\ Cycle = selcyclstack[CycleIndex]
<1> DEFINE S == {i \in DOMAIN selcyclstack : selcyclstack[i].kind # "IF"}
<1>1. Len(selcyclstack) \in Nat /\ DOMAIN selcyclstack = 1 .. Len(selcyclstack)
  BY DEF IInv, TypeOK
<1>2. S # {} => Max(S) \in S
  BY <1>1, MaxIn
<1>3. CycleIndex = IF S = {} THEN 0 ELSE Max(S)
  BY DEF CycleIndex
<1>4. CycleIndex \in 0 .. Len(selcyclstack)
  <2> HIDE DEF S
  <2>1. S \subseteq 1 .. Len(selcyclstack)
    BY <1>1 DEF S
  <2> QED BY <1>1, <1>2, <1>3, <2>1
<1> QED BY <1>1, <1>4 DEF Cycle

\* The frames below it, and with it put back.
LEMMA OuterOK ==
  ASSUME IInv, p_buf' = p_buf,
         selcyclstack' = Outer \/ selcyclstack' = Append(Outer, Cycle),
         CycleIndex # 0
  PROVE  StackOK'
<1>1. StackOK
  BY DEF IInv, TypeOK, StackOK
<1>2. CycleIndex - 1 \in 0 .. Len(selcyclstack) /\ CycleIndex \in 1 .. Len(selcyclstack)
  BY CycleOK DEF IInv, TypeOK
<1>3. CASE selcyclstack' = Outer
  BY <1>1, <1>2, <1>3, PrefixOK DEF Outer
<1>4. CASE selcyclstack' = Append(Outer, Cycle)
  <2>1. Cycle = selcyclstack[CycleIndex] /\ CycleIndex \in DOMAIN selcyclstack
    BY CycleOK
  <2>2. Cycle \in Frame /\ Cycle.line \in DOMAIN p_buf
        /\ (Op(p_buf, Cycle.line) = Cycle.kind
              \/ (Cycle.kind = "IF" /\ Op(p_buf, Cycle.line) = "ELSEIF"))
    BY <2>1, FrameLine DEF IInv, FramesSound
  <2>3. CycleIndex - 1 < SELECT_AND_CYCLE_NEST
    BY <1>2, NestAssumption DEF IInv, TypeOK
  <2> QED BY <1>1, <1>2, <1>4, <2>2, <2>3, AppendOK DEF Outer
<1> QED BY <1>3, <1>4

\* The frame on top, unless there is none.
LEMMA PoppedLine ==
  ASSUME IInv, Popped.kind # "none"
  PROVE  /\ Popped.line \in DOMAIN p_buf /\ Popped.line \in Nat \ {0}
         /\ p_buf[Popped.line] \in Line
<1>1. selcyclstack # <<>> /\ Popped = selcyclstack[Len(selcyclstack)]
  BY DEF Popped, NoFrame, Last
<1>2. Len(selcyclstack) \in DOMAIN selcyclstack
  BY <1>1 DEF IInv, TypeOK
<1> QED BY <1>1, <1>2, FrameLine

-----------------------------------------------------------------------------
(* The statements that stay in their activation. *)

LEMMA SkipOK ==
  ASSUME IInv, fate = "run", err = 0, NEW lines \in SUBSET (Nat \ {0}), NEW rest,
         Skip(lines, rest), (p_buf' = p_buf /\ selcyclstack' = rest) => StackOK'
  PROVE  IInv'
<1>1. CASE lines = {}
  <2>1. Lost("hung")
    BY <1>1 DEF Skip
  <2> QED BY <2>1, StopsOK DEF Fates
<1>2. CASE lines # {}
  <2>1. Min(lines) \in Nat \ {0}
    <3>1. Min(lines) \in lines
      BY <1>2, MinIn
    <3> QED BY <3>1
  <2>2. Goto(Min(lines) + 1) /\ selcyclstack' = rest /\ UNCHANGED fate
    BY <1>2 DEF Skip
  <2>3. StackOK' /\ fate' \in Fates
    BY <2>2 DEF Goto, Fates
  <2>4. Min(lines) + 1 \in Nat \ {0}
    BY <2>1
  <2> HIDE DEF Skip
  <2> QED BY <2>2, <2>3, <2>4, GotoOK
<1> QED BY <1>1, <1>2

LEMMA ConditionOK ==
  ASSUME IInv, NEW op \in {"IF", "ELSEIF"}, Reads(op), ExecCondition
  PROVE  IInv'
<1>1. /\ prog \in Nat \ {0} /\ fate = "run" /\ err = 0 /\ p_buf \in Program
      /\ op \in Ops /\ "IF" \in Openers
  <2>1. op \in Ops /\ "IF" \in Openers
    BY DEF Ops, Openers, Close
  <2> QED BY <2>1, ReadLine DEF IInv, TypeOK
<1>2. CASE NextLine /\ Push("IF")
  <2>1. StackOK' /\ fate' \in Fates
    BY <1>1, <1>2, PushOK DEF NextLine, Goto
  <2> QED BY <1>1, <1>2, <2>1, GotoOK DEF NextLine
<1>3. CASE Lost("hung")
  BY <1>1, <1>3, StopsOK DEF Fates
<1>4. ASSUME NEW m, m = Min(BranchEnds), BranchEnds # {},
             \/ Goto(m + 1) /\ Push("IF")
             \/ Goto(m) /\ UNCHANGED <<selcyclstack, fate>>
             \/ Goto(m + 1) /\ UNCHANGED <<selcyclstack, fate>>
      PROVE  IInv'
  <2>1. m \in Nat \ {0}
    <3>1. BranchEnds \in SUBSET (Nat \ {0})
      BY <1>1, Forwards DEF BranchEnds
    <3> QED BY <1>4, <3>1, MinIn
  <2>2. CASE Goto(m + 1) /\ Push("IF")
    <3>1. StackOK' /\ fate' \in Fates
      BY <1>1, <2>2, PushOK DEF Goto
    <3> QED BY <1>1, <2>1, <2>2, <3>1, GotoOK
  <2>3. CASE UNCHANGED <<selcyclstack, fate>> /\ (Goto(m) \/ Goto(m + 1))
    BY <1>1, <2>1, <2>3, JumpOK
  <2> QED BY <1>4, <2>2, <2>3
<1> QED BY <1>2, <1>3, <1>4 DEF ExecCondition

LEMMA LeaveOK ==
  ASSUME IInv, fate = "run", err = 0, NEW kind, NEW l \in Nat \ {0}, Leave(kind, l)
  PROVE  IInv'
<1>1. CASE Error(4)
  BY <1>1, StopsOK
<1>2. CASE Goto(l) /\ selcyclstack' = Rest /\ UNCHANGED fate
  <2>1. StackOK' /\ fate' \in Fates
    BY <1>2, RestOK DEF Goto, Fates
  <2> QED BY <1>2, <2>1, GotoOK
<1> QED BY <1>1, <1>2 DEF Leave

LEMMA ElseOK ==
  ASSUME IInv, ExecElse \/ ExecEndif \/ ExecEndSelect
  PROVE  IInv'
<1>1. prog \in Nat \ {0} /\ fate = "run" /\ err = 0 /\ p_buf \in Program
  <2>1. \E op \in {"ELSE", "ENDIF", "ENDSELECT"} : Reads(op)
    BY DEF ExecElse, ExecEndif, ExecEndSelect
  <2>2. {"ELSE", "ENDIF", "ENDSELECT"} \subseteq Ops
    BY DEF Ops, Openers, Close
  <2> QED BY <2>1, <2>2, ReadLine DEF IInv, TypeOK
<1>2. CASE Lost("hung") \/ Error(1)
  BY <1>1, <1>2, StopsOK DEF Fates
<1>3. CASE BranchEnds # {} /\ Leave("IF", Min(BranchEnds) + 1)
  <2>1. BranchEnds \in SUBSET (Nat \ {0})
    BY <1>1, Forwards DEF BranchEnds
  <2>2. Min(BranchEnds) + 1 \in Nat \ {0}
    <3>1. Min(BranchEnds) \in BranchEnds
      BY <1>3, <2>1, MinIn
    <3>2. Min(BranchEnds) \in Nat
      BY <2>1, <3>1
    <3> QED BY <3>2
  <2> QED BY <1>1, <1>3, <2>2, LeaveOK
<1>4. CASE Leave("IF", prog + 1) \/ Leave("SELECT", prog + 1)
  BY <1>1, <1>4, LeaveOK
<1> QED BY <1>2, <1>3, <1>4 DEF ExecElse, ExecEndif, ExecEndSelect

LEMMA ForOK ==
  ASSUME IInv, NEW kind \in {"FOR", "LOOP"}, ExecFor(kind)
  PROVE  IInv'
<1>1. Reads(kind) /\ kind \in Ops /\ kind \in Openers
  BY DEF ExecFor, Ops, Openers, Close
<1>2. prog \in Nat \ {0} /\ p_buf[prog] \in Line /\ fate = "run" /\ err = 0
  BY <1>1, ReadLine
<1>3. UNCHANGED <<p_buf, err, stacks, running>> /\ prog' = prog + 1 /\ Push(kind)
      /\ vars' = [vars EXCEPT ![p_buf[prog].var] = p_buf[prog].first]
  BY DEF ExecFor
<1>4. vars' \in [Vars -> Int]
  BY <1>2, <1>3 DEF IInv, TypeOK, Line
<1>5. StackOK' /\ fate' \in Fates
  BY <1>1, <1>3, PushOK
<1> QED BY <1>2, <1>3, <1>4, <1>5, Quiet

LEMMA NextOK ==
  ASSUME IInv, NEW kind \in {"FOR", "LOOP"}, ExecNext(kind)
  PROVE  IInv'
<1>1. Reads(Close[kind]) /\ Close[kind] \in Ops
  BY DEF ExecNext, Ops, Openers, Close
<1>2. prog \in Nat \ {0} /\ fate = "run" /\ err = 0
  <2>1. Close[kind] # "FINISHED"
    BY DEF Close
  <2> QED BY <1>1, <2>1, ReadLine
<1>3. CASE Popped.kind # kind
  BY <1>2, <1>3, StopsOK DEF ExecNext
<1>4. CASE Popped.kind = kind
  <2> DEFINE head == p_buf[Popped.line]
             value == vars[head.var] + 1
  <2>1. head \in Line /\ Popped.line \in Nat \ {0}
    BY <1>4, PoppedLine
  <2>2. /\ vars' = [vars EXCEPT ![head.var] = value]
        /\ \/ prog' = prog + 1 /\ selcyclstack' = Rest
           \/ prog' = Popped.line + 1 /\ UNCHANGED selcyclstack
        /\ UNCHANGED <<p_buf, err, stacks, running, fate>>
    BY <1>4 DEF ExecNext
  <2>3. vars' \in [Vars -> Int]
    BY <2>1, <2>2 DEF IInv, TypeOK, Line
  <2>4. StackOK'
    <3>1. StackOK
      BY DEF IInv, TypeOK, StackOK
    <3> QED BY <2>2, <3>1, RestOK, KeptOK
  <2>5. prog' \in Nat \ {0} /\ err' \in 0 .. 19 /\ fate' \in Fates
    BY <1>2, <2>1, <2>2 DEF Fates
  <2> QED BY <1>2, <2>2, <2>3, <2>4, <2>5, Quiet
<1> QED BY <1>3, <1>4

LEMMA WhileOK ==
  ASSUME IInv, ExecWhile \/ ExecWend
  PROVE  IInv'
<1>1. /\ prog \in Nat \ {0} /\ fate = "run" /\ err = 0 /\ p_buf \in Program
      /\ "WHILE" \in Openers /\ "WHILE" \in Ops
  <2>1. {"WHILE", "WEND"} \subseteq Ops /\ "WHILE" \in Openers
    BY DEF Ops, Openers, Close
  <2>2. Reads("WHILE") \/ Reads("WEND")
    BY DEF ExecWhile, ExecWend
  <2> QED BY <2>1, <2>2, ReadLine DEF IInv, TypeOK
<1>2. StackOK
  BY DEF IInv, TypeOK, StackOK
<1>3. CASE ExecWhile
  <2>1. CASE NextLine /\ Push("WHILE")
    <3>1. StackOK' /\ fate' \in Fates
      BY <1>1, <1>3, <2>1, PushOK DEF NextLine, Goto, ExecWhile
    <3> QED BY <1>1, <2>1, <3>1, GotoOK DEF NextLine
  <2>2. CASE Skip(Outside(p_buf, {"WEND"}, "WHILE", prog), selcyclstack)
    <3>1. Outside(p_buf, {"WEND"}, "WHILE", prog) \in SUBSET (Nat \ {0})
      BY <1>1, Forwards
    <3>2. (p_buf' = p_buf /\ selcyclstack' = selcyclstack) => StackOK'
      BY <1>2, KeptOK
    <3> QED BY <1>1, <2>2, <3>1, <3>2, SkipOK
  <2> QED BY <1>3, <2>1, <2>2 DEF ExecWhile
<1>4. CASE ExecWend
  <2>1. CASE Error(4)
    BY <1>1, <2>1, StopsOK
  <2>2. CASE /\ Popped.kind = "WHILE"
             /\ Goto(Popped.line + 1) /\ UNCHANGED <<selcyclstack, fate>>
    BY <1>1, <2>2, PoppedLine, JumpOK
  <2>3. CASE /\ Popped.kind = "WHILE"
             /\ Skip(Outside(p_buf, {"WEND"}, "WHILE", Popped.line), Rest)
    <3>1. Outside(p_buf, {"WEND"}, "WHILE", Popped.line) \in SUBSET (Nat \ {0})
      BY <1>1, <2>3, PoppedLine, Forwards
    <3>2. (p_buf' = p_buf /\ selcyclstack' = Rest) => StackOK'
      BY RestOK
    <3> QED BY <1>1, <2>3, <3>1, <3>2, SkipOK
  <2> QED BY <1>4, <2>1, <2>2, <2>3 DEF ExecWend
<1> QED BY <1>3, <1>4

LEMMA ContinueOK ==
  ASSUME IInv, ExecContinue
  PROVE  IInv'
<1>1. prog \in Nat \ {0} /\ fate = "run" /\ err = 0 /\ p_buf \in Program
  BY ReadLine DEF IInv, TypeOK, ExecContinue, Ops
<1> DEFINE again == Goto(Cycle.line + 1) /\ selcyclstack' = Append(Outer, Cycle) /\ UNCHANGED fate
<1>2. CASE Cycle.kind = "none"
  BY <1>1, <1>2, StopsOK DEF ExecContinue
<1>3. CASE Cycle.kind # "none"
  <2>1. CycleIndex # 0 /\ Cycle.line \in Nat \ {0}
    <3>1. CycleIndex # 0
      BY <1>3, CycleOK DEF NoFrame
    <3> QED BY <3>1, CycleOK, FrameLine
  <2>2. ASSUME p_buf' = p_buf, selcyclstack' = Outer \/ selcyclstack' = Append(Outer, Cycle)
        PROVE  StackOK'
    BY <2>1, <2>2, OuterOK
  <2>3. CASE again
    <3>1. StackOK' /\ fate' \in Fates
      BY <1>1, <2>2, <2>3 DEF Goto, Fates
    <3> QED BY <1>1, <2>1, <2>3, <3>1, GotoOK
  <2>4. ASSUME NEW words, NEW l \in Nat, Skip(Behind(p_buf, words, l), Outer)
        PROVE  IInv'
    <3>1. Behind(p_buf, words, l) \in SUBSET (Nat \ {0})
      BY <1>1, Forwards
    <3> QED BY <1>1, <2>2, <2>4, <3>1, SkipOK
  <2>5. CASE NextLine /\ selcyclstack' = Outer /\ UNCHANGED fate
    <3>1. StackOK' /\ fate' \in Fates
      BY <1>1, <2>2, <2>5 DEF NextLine, Goto, Fates
    <3> QED BY <1>1, <2>5, <3>1, GotoOK DEF NextLine
  <2>6. \/ again
        \/ Skip(Behind(p_buf, {"NEXT"}, prog), Outer)
        \/ Skip(Behind(p_buf, {"WEND"}, Cycle.line), Outer)
        \/ NextLine /\ selcyclstack' = Outer /\ UNCHANGED fate
    BY <1>3, Zenon DEF ExecContinue
  <2> HIDE DEF again
  <2> QED BY <1>1, <2>1, <2>3, <2>4, <2>5, <2>6
<1> QED BY <1>2, <1>3

LEMMA BreakOK ==
  ASSUME IInv, ExecBreak
  PROVE  IInv'
<1>1. prog \in Nat \ {0} /\ fate = "run" /\ err = 0 /\ p_buf \in Program
  BY ReadLine DEF IInv, TypeOK, ExecBreak, Ops
<1>2. CASE Lost("hung") \/ Error(4)
  BY <1>1, <1>2, StopsOK DEF Fates
<1>3. ASSUME NEW words, Cycle.kind # "none", Skip(Behind(p_buf, words, prog), Outer)
      PROVE  IInv'
  <2>1. CycleIndex # 0
    BY <1>3, CycleOK DEF NoFrame
  <2>2. (p_buf' = p_buf /\ selcyclstack' = Outer) => StackOK'
    BY <2>1, OuterOK
  <2>3. Behind(p_buf, words, prog) \in SUBSET (Nat \ {0})
    BY <1>1, Forwards
  <2> QED BY <1>1, <1>3, <2>2, <2>3, SkipOK
<1>4. CASE Cycle.kind \in {"FOR", "WHILE"}
  <2>1. Skip(Behind(p_buf, {Close[Cycle.kind]}, prog), Outer)
    BY <1>4 DEF ExecBreak
  <2> QED BY <1>3, <1>4, <2>1
<1>5. CASE Cycle.kind = "SELECT"
  <2>1. \/ Error(4)
        \/ Skip(Behind(p_buf, {"END", "ENDSUB", "ENDSELECT"}, prog), Outer)
    BY <1>5 DEF ExecBreak
  <2> QED BY <1>2, <1>3, <1>5, <2>1
<1>6. CASE Cycle.kind \notin {"FOR", "WHILE", "SELECT"}
  BY <1>2, <1>6 DEF ExecBreak
<1> QED BY <1>4, <1>5, <1>6

LEMMA SelectOK ==
  ASSUME IInv, ExecSelect \/ ExecCase
  PROVE  IInv'
<1>1. /\ prog \in Nat \ {0} /\ fate = "run" /\ err = 0 /\ p_buf \in Program
      /\ "SELECT" \in Openers /\ "SELECT" \in Ops
  <2>1. {"SELECT", "CASE"} \subseteq Ops /\ "SELECT" \in Openers
    BY DEF Ops, Openers, Close
  <2>2. Reads("SELECT") \/ Reads("CASE")
    BY DEF ExecSelect, ExecCase
  <2> QED BY <2>1, <2>2, ReadLine DEF IInv, TypeOK
<1>2. CASE ExecSelect
  <2>1. StackOK' /\ fate' \in Fates
    BY <1>1, <1>2, PushOK DEF ExecSelect, NextLine, Goto
  <2> QED BY <1>1, <1>2, <2>1, GotoOK DEF ExecSelect, NextLine
<1>3. CASE Error(4) \/ Lost("hung") \/ Lost("exited")
  BY <1>1, <1>3, StopsOK DEF Fates
<1>4. CASE NextLine /\ UNCHANGED <<selcyclstack, fate>>
  BY <1>1, <1>4, JumpOK DEF NextLine
<1>5. CASE SkipCase
  <2> DEFINE last == Behind(p_buf, {"END", "ENDSUB"}, prog)
             ends == last \cup Outside(p_buf, {"CASE", "DEFAULT", "ENDSELECT"}, "SELECT", prog)
  <2>1. ends \in SUBSET (Nat \ {0})
    BY <1>1, Forwards
  <2>2. \/ Error(4) \/ Lost("hung") \/ Lost("exited")
        \/ /\ ends # {}
           /\ Goto(Min(ends) + 1) \/ Goto(Min(ends))
           /\ UNCHANGED <<selcyclstack, fate>>
    BY <1>5 DEF SkipCase
  <2>3. ends # {} => Min(ends) \in Nat \ {0}
    <3> HIDE DEF ends
    <3> QED BY <2>1, MinIn
  <2> HIDE DEF ends
  <2> QED BY <1>1, <1>3, <2>2, <2>3, JumpOK
<1> QED BY <1>2, <1>3, <1>4, <1>5 DEF ExecCase

LEMMA GotoStatementOK ==
  ASSUME IInv, ExecGoto \/ ExecPlain
  PROVE  IInv'
<1>1. /\ prog \in Nat \ {0} /\ fate = "run" /\ err = 0
      /\ p_buf[prog].to \in Nat
  <2>1. {"GOTO", "STMT", "SUB", "DEFAULT"} \subseteq Ops
    BY DEF Ops
  <2>2. \E op \in {"GOTO", "STMT", "SUB", "DEFAULT"} : Reads(op)
    BY DEF ExecGoto, ExecPlain
  <2> QED BY <2>1, <2>2, ReadLine
<1>2. CASE Error(7) \/ Lost("hung") \/ Lost("exited")
  BY <1>1, <1>2, StopsOK DEF Fates
<1>3. CASE p_buf[prog].to # 0 /\ Goto(p_buf[prog].to) /\ selcyclstack' = <<>> /\ UNCHANGED fate
  <2>1. StackOK' /\ fate' \in Fates
    BY <1>1, <1>3, NestAssumption DEF StackOK, FramesSound, Fates
  <2> QED BY <1>1, <1>3, <2>1, GotoOK
<1>4. CASE NextLine /\ UNCHANGED <<selcyclstack, fate>>
  BY <1>1, <1>4, JumpOK DEF NextLine
<1> QED BY <1>2, <1>3, <1>4 DEF ExecGoto, ExecPlain

-----------------------------------------------------------------------------
(* Calls and returns. *)

\* What both stacks look like when a subroutine is entered.
LEMMA CallOK ==
  ASSUME IInv, ExecCall \/ Gosub
  PROVE  IInv'
<1> DEFINE op == Op(p_buf, prog)
           line == p_buf[prog]
<1>1. /\ prog \in Nat \ {0} /\ fate = "run" /\ err = 0
      /\ op \in {"CALL", "GOSUB"} /\ line \in Line /\ line.to \in Nat
  <2>1. {"CALL", "GOSUB"} \subseteq Ops
    BY DEF Ops
  <2>2. Reads("CALL") \/ Reads("GOSUB")
    BY DEF ExecCall, Gosub
  <2> QED BY <2>1, <2>2, ReadLine DEF Reads
<1>2. CASE Error(7)
  BY <1>1, <1>2, StopsOK
<1>3. ASSUME NEW place \in Place, line.to # 0, Enter(place),
             \/ UNCHANGED <<func_call_stack, local_vars>>
             \/ /\ func_call_stack' = Append(func_call_stack, local_vars)
                /\ local_vars' = local_vars + line.args
      PROVE  IInv'
  <2>1. /\ gosub_tos \in Nat /\ 1 <= Len(running) /\ Len(running) <= gosub_tos
        /\ gosub_tos < SUB_NEST /\ gosub_tos' = gosub_tos + 1 /\ SUB_NEST \in Nat
    BY <1>1, <1>3, NestAssumption DEF IInv, TypeOK, ReturnsFind, Enter, GosubPush
  <2>2. /\ gosub_stack' \in [1 .. SUB_NEST - 1 -> Place] /\ err' \in {0, 12}
        /\ err' = 0 => gosub_tos' < SUB_NEST
    <3>1. gosub_stack \in [1 .. SUB_NEST - 1 -> Place]
      BY DEF IInv, TypeOK
    <3>2. CASE gosub_tos + 1 = SUB_NEST
      BY <1>3, <2>1, <3>1, <3>2 DEF Enter, GosubPush
    <3>3. CASE gosub_tos + 1 # SUB_NEST
      <4>1. gosub_stack' = [gosub_stack EXCEPT ![gosub_tos + 1] = place] /\ err' = err
        BY <1>3, <3>3 DEF Enter, GosubPush
      <4> QED BY <1>1, <1>3, <2>1, <3>1, <3>3, <4>1
    <3> QED BY <3>2, <3>3
  <2>3. running' \in Seq({"SUB", "CALL", "GOSUB"}) /\ Len(running') = Len(running) + 1
    <3>1. running \in Seq({"SUB", "CALL", "GOSUB"}) /\ running' = Append(running, op)
      BY <1>3 DEF IInv, TypeOK, Enter
    <3> HIDE DEF op
    <3> QED BY <1>1, <3>1, AppendProperties
  <2>4. /\ func_call_stack' \in Seq(Nat) /\ local_vars' \in Nat /\ LocalsInv'
    <3>1. func_call_stack \in Seq(Nat) /\ local_vars \in Nat /\ line.args \in Nat
      BY <1>1 DEF IInv, TypeOK, Line
    <3>2. CASE UNCHANGED <<func_call_stack, local_vars>>
      BY <2>1, <3>1, <3>2 DEF IInv, LocalsInv
    <3>3. CASE /\ func_call_stack' = Append(func_call_stack, local_vars)
               /\ local_vars' = local_vars + line.args
      <4>1. /\ func_call_stack' \in Seq(Nat) /\ local_vars' \in Nat
            /\ Len(func_call_stack') = Len(func_call_stack) + 1
            /\ func_call_stack # <<>> => func_call_stack'[1] = func_call_stack[1]
            /\ func_call_stack = <<>> => func_call_stack'[1] = local_vars
        BY <3>1, <3>3, AppendProperties
      <4> QED BY <2>1, <3>1, <4>1 DEF IInv, LocalsInv
    <3> QED BY <1>3, <3>2, <3>3
  <2>5. prog' \in Nat \ {0} /\ UNCHANGED <<p_buf, selcyclstack, vars, fate>>
    BY <1>1, <1>3, EntryLine DEF Enter
  <2>6. TypeOK'
    BY <1>1, <2>1, <2>2, <2>3, <2>4, <2>5 DEF IInv, TypeOK
  <2>7. FramesSound'
    BY <2>5 DEF IInv, FramesSound
  <2>8. ReturnsFind'
    BY <1>1, <2>1, <2>2, <2>3, <2>5 DEF IInv, TypeOK, ReturnsFind
  <2> QED BY <2>4, <2>6, <2>7, <2>8 DEF IInv
<1>4. RestOf(prog) \in Place /\ StartOf(prog + 1) \in Place
  BY <1>1 DEF RestOf, StartOf, Place
<1>5. CASE ExecCall
  <2>1. CASE line.to = 0
    BY <1>2, <1>5, <2>1 DEF ExecCall
  <2>2. CASE line.to # 0
    BY <1>3, <1>4, <1>5, <2>2 DEF ExecCall
  <2> QED BY <2>1, <2>2
<1>6. CASE Gosub
  BY <1>2, <1>3, <1>4, <1>6 DEF Gosub
<1> QED BY <1>5, <1>6

\* An activation ends.
LEMMA LeaveActivationOK ==
  ASSUME IInv, fate = "run", LeaveActivation
  PROVE  /\ running' \in Seq({"SUB", "CALL", "GOSUB"}) /\ Len(running') = Len(running) - 1
         /\ fate' \in Fates
         /\ fate' = "run" => Len(running) # 1
<1>1. running \in Seq({"SUB", "CALL", "GOSUB"}) /\ 1 <= Len(running)
  BY DEF IInv, TypeOK, ReturnsFind
<1>2. \A i \in 1 .. Len(running) - 1 : running[i] \in {"SUB", "CALL", "GOSUB"}
  BY <1>1
<1>3. running' = SubSeq(running, 1, Len(running) - 1)
  BY DEF LeaveActivation, Front
<1>4. Len(running) \in Nat
  BY <1>1
<1>5. running' \in Seq({"SUB", "CALL", "GOSUB"}) /\ Len(running') = Len(running) - 1
  <2> DEFINE n == Len(running) - 1
             words == {"SUB", "CALL", "GOSUB"}
  <2>1. n \in Int /\ n >= 0 /\ 1 \in Int /\ \A i \in 1 .. n : running[i] \in words
    BY <1>1, <1>2, <1>4
  <2>2. SubSeq(running, 1, n) \in Seq(words) /\ Len(SubSeq(running, 1, n)) = n
    <3> HIDE DEF n, words
    <3>1. /\ SubSeq(running, 1, n) \in Seq(words)
          /\ Len(SubSeq(running, 1, n)) = IF 1 <= n THEN n - 1 + 1 ELSE 0
      BY <2>1, SubSeqProperties
    <3> QED BY <2>1, <3>1
  <2> QED BY <1>3, <2>2
<1> QED BY <1>5 DEF LeaveActivation, Fates

LEMMA GreturnOK ==
  ASSUME IInv, Greturn
  PROVE  IInv'
<1>1. fate = "run" /\ err = 0
  BY DEF Greturn, Reads
<1>2. /\ running' \in Seq({"SUB", "CALL", "GOSUB"}) /\ Len(running') = Len(running) - 1
      /\ fate' \in Fates
      /\ fate' = "run" => Len(running) # 1
  BY <1>1, LeaveActivationOK DEF Greturn
<1>3. /\ gosub_tos \in Nat /\ 1 <= gosub_tos /\ gosub_tos < SUB_NEST /\ SUB_NEST \in Nat
      /\ 1 <= Len(running) /\ Len(running) <= gosub_tos /\ Len(running) \in Nat
  BY <1>1, NestAssumption DEF IInv, TypeOK, ReturnsFind
<1>4. gosub_stack[gosub_tos] \in Place
  BY <1>3 DEF IInv, TypeOK
<1>5. prog' \in Nat \ {0} /\ gosub_tos' = gosub_tos - 1 /\ err' = err
  <2>1. /\ gosub_tos' = gosub_tos - 1 /\ err' = err
        /\ prog' \in {gosub_stack[gosub_tos].line + 1, gosub_stack[gosub_tos].line}
    BY <1>3 DEF Greturn
  <2> QED BY <1>4, <2>1 DEF Place
<1>6. UNCHANGED <<p_buf, selcyclstack, gosub_stack, vars>>
  BY DEF Greturn
<1>7. func_call_stack' \in Seq(Nat) /\ local_vars' \in Nat /\ LocalsInv'
  <2>1. func_call_stack \in Seq(Nat) /\ local_vars \in Nat
    BY DEF IInv, TypeOK
  <2>2. CASE func_call_stack = <<>>
    BY <1>3, <1>5, <2>1, <2>2 DEF Greturn, IInv, LocalsInv
  <2>3. CASE func_call_stack # <<>>
    <3> DEFINE n == Len(func_call_stack)
    <3>1. n \in Nat /\ n >= 1 /\ n < gosub_tos /\ func_call_stack[1] = 0
      BY <1>3, <2>1, <2>3 DEF IInv, LocalsInv
    <3>2. func_call_stack' = SubSeq(func_call_stack, 1, n - 1) /\ local_vars' = func_call_stack[n]
      BY <2>3 DEF Greturn, Front, Last
    <3>3. \A j \in 1 .. n - 1 : func_call_stack[j] \in Nat
      BY <2>1
    <3>4. /\ func_call_stack' \in Seq(Nat) /\ Len(func_call_stack') = n - 1
          /\ n > 1 => func_call_stack'[1] = func_call_stack[1]
      <4> HIDE DEF n
      <4> QED BY <3>1, <3>2, <3>3, SubSeqProperties
    <3>5. local_vars' \in Nat
      BY <2>1, <3>1, <3>2
    <3>6. n = 1 => local_vars' = 0
      BY <3>1, <3>2
    <3>7. func_call_stack' = <<>> => n = 1
      BY <3>1, <3>4
    <3>8. func_call_stack' # <<>> => n > 1
      BY <3>1, <3>4, EmptySeq
    <3> HIDE DEF n
    <3> QED BY <1>3, <1>5, <3>1, <3>4, <3>5, <3>6, <3>7, <3>8 DEF LocalsInv
  <2> QED BY <2>2, <2>3
<1>8. TypeOK'
  BY <1>1, <1>2, <1>3, <1>5, <1>6, <1>7 DEF IInv, TypeOK
<1>9. FramesSound'
  BY <1>6 DEF IInv, FramesSound
<1>10. ReturnsFind'
  BY <1>1, <1>2, <1>3, <1>5 DEF ReturnsFind
<1> QED BY <1>7, <1>8, <1>9, <1>10 DEF IInv

LEMMA EndOK ==
  ASSUME IInv, ExecEnd
  PROVE  IInv'
<1>1. fate = "run" /\ err = 0 /\ prog \in Nat \ {0}
  BY DEF ExecEnd, Reads, IInv, TypeOK
<1>2. /\ running' \in Seq({"SUB", "CALL", "GOSUB"}) /\ Len(running') = Len(running) - 1
      /\ fate' \in Fates
      /\ fate' = "run" => Len(running) # 1
  BY <1>1, LeaveActivationOK DEF ExecEnd
<1>3. prog' = prog + 1 /\ UNCHANGED <<p_buf, err, selcyclstack, stacks, vars>>
  BY DEF ExecEnd
<1>4. TypeOK'
  BY <1>1, <1>2, <1>3 DEF IInv, TypeOK, stacks
<1>5. ReturnsFind'
  BY <1>1, <1>2, <1>3 DEF IInv, TypeOK, ReturnsFind, stacks
<1>6. FramesSound' /\ LocalsInv'
  BY <1>3 DEF IInv, FramesSound, LocalsInv, stacks
<1> QED BY <1>4, <1>5, <1>6 DEF IInv

LEMMA UnwindOK ==
  ASSUME IInv, Unwind
  PROVE  IInv'
<1>1. UNCHANGED <<p_buf, prog, err, selcyclstack, stacks, vars>> /\ running' = <<>> /\ fate' = "over"
  BY DEF Unwind
<1>2. TypeOK'
  BY <1>1 DEF IInv, TypeOK, stacks, Fates
<1>3. ReturnsFind' /\ FramesSound' /\ LocalsInv'
  BY <1>1 DEF IInv, ReturnsFind, FramesSound, LocalsInv, stacks
<1> QED BY <1>2, <1>3 DEF IInv

-----------------------------------------------------------------------------
LEMMA FlowStep ==
  ASSUME IInv, [Next]_state
  PROVE  IInv'
<1>1. CASE Exec
  <2>1. CASE ExecIf
    BY <2>1, ConditionOK DEF ExecIf
  <2>2. CASE ExecElseif
    BY <2>2, ConditionOK DEF ExecElseif
  <2>3. CASE ExecFor("FOR") \/ ExecFor("LOOP")
    BY <2>3, ForOK
  <2>4. CASE ExecNext("FOR") \/ ExecNext("LOOP")
    BY <2>4, NextOK
  <2> QED BY <1>1, <2>1, <2>2, <2>3, <2>4, ElseOK, WhileOK, ContinueOK, BreakOK, SelectOK,
             GotoStatementOK, CallOK, GreturnOK, EndOK DEF Exec
<1>2. CASE Unwind
  BY <1>2, UnwindOK
<1>3. CASE UNCHANGED state
  BY <1>3 DEF state, stacks, IInv, TypeOK, FramesSound, ReturnsFind, LocalsInv
<1> QED BY <1>1, <1>2, <1>3 DEF Next, Stopped

\* The inductive invariant: it holds in the beginning, and every statement keeps it,
\* in every program and for all limits.
THEOREM FlowInvariance == Spec => []IInv
<1>1. Init => IInv
  BY FlowInit
<1>2. IInv /\ [Next]_state => IInv'
  BY FlowStep
<1> QED BY <1>1, <1>2, PTL DEF Spec

\* Every variable keeps its type: the places and frames are lines, selcyclstack and
\* gosub_stack never hold more than their arrays do, and no other error is reported.
THEOREM FlowTypeCorrect == Spec => []TypeOK
BY FlowInvariance, PTL DEF IInv

\* NEXT, WEND, ENDLOOP and CONTINUE trust the line a frame names: it is always a
\* line that opens a block of the frame's kind.
THEOREM FramesAreSound == Spec => []FramesSound
BY FlowInvariance, PTL DEF IInv

\* RETURN always finds a place, and gosub_stack is never written behind its end,
\* in the face of ENDs that leave places behind.
THEOREM ReturnsAreFound == Spec => []ReturnsFind
BY FlowInvariance, PTL DEF IInv

\* The local variables of all calls are gone when all calls are back, though
\* RETURN also pops what a GOSUB did not push.
THEOREM LocalsAreReturned == Spec => []LocalsReturned
<1>1. IInv => LocalsReturned
  <2> SUFFICES ASSUME IInv, gosub_tos <= 1 PROVE local_vars = 0
    BY DEF LocalsReturned
  <2>1. gosub_tos \in Nat /\ func_call_stack \in Seq(Nat)
    BY DEF IInv, TypeOK
  <2>2. func_call_stack = <<>>
    <3>1. CASE gosub_tos = 0
      BY <3>1 DEF IInv, LocalsInv
    <3>2. CASE gosub_tos > 0
      <4>1. Len(func_call_stack) = 0
        BY <2>1, <3>2, LenProperties DEF IInv, LocalsInv
      <4> QED BY <2>1, <4>1, EmptySeq
    <3> QED BY <2>1, <3>1, <3>2
  <2> QED BY <2>2 DEF IInv, LocalsInv
<1> QED BY <1>1, FlowInvariance, PTL

-----------------------------------------------------------------------------
(* Coming back into a loop. *)

\* The line a frame on the stack names has the word of the frame's kind on it, or it is
\* the ELSEIF of an IF.
LEMMA FrameWord ==
  ASSUME IInv, NEW i \in DOMAIN selcyclstack, selcyclstack[i].kind # "IF"
  PROVE  Op(p_buf, selcyclstack[i].line) = selcyclstack[i].kind
BY DEF IInv, FramesSound

\* So has the line the top frame names, unless the stack is empty.
LEMMA PoppedWord ==
  ASSUME IInv, Popped.kind \in {"FOR", "LOOP", "WHILE"}
  PROVE  Op(p_buf, Popped.line) = Popped.kind
<1>1. selcyclstack # <<>> /\ Popped = selcyclstack[Len(selcyclstack)]
  BY DEF Popped, NoFrame, Last
<1>2. Len(selcyclstack) \in DOMAIN selcyclstack
  BY <1>1 DEF IInv, TypeOK
<1> QED BY <1>1, <1>2, FrameWord

\* A search stops behind a word that it was looking for.
LEMMA SkipBehind ==
  ASSUME IInv, fate = "run", NEW l \in Nat, NEW words, NEW lines, NEW rest,
         lines \subseteq Behind(p_buf, words, l), Skip(lines, rest), fate' = "run"
  PROVE  prog' > l + 1 /\ prog' \in Nat /\ Op(p_buf, prog' - 1) \in words
<1>1. lines # {}
  BY DEF Skip, Lost
<1>2. Len(p_buf) \in Nat
  BY DEF IInv, TypeOK, Program
<1>3. lines \in SUBSET Nat /\ \A m \in lines : m > l /\ Op(p_buf, m) \in words
  BY <1>2 DEF Behind
<1>4. Min(lines) \in lines
  BY <1>1, <1>3, MinIn
<1>5. prog' = Min(lines) + 1
  BY <1>1 DEF Skip, Goto
<1>6. Min(lines) \in Nat /\ Min(lines) > l /\ Op(p_buf, Min(lines)) \in words
  BY <1>3, <1>4
<1> HIDE DEF Min
<1> QED BY <1>5, <1>6

\* NEXT and ENDLOOP.
LEMMA NextRepeats ==
  ASSUME IInv, NEW kind \in {"FOR", "LOOP"}, ExecNext(kind), prog' <= prog, fate' = "run",
         err' = 0
  PROVE  Op(p_buf, prog' - 1) = kind /\ Close[kind] = Op(p_buf, prog)
<1>1. Reads(Close[kind])
  BY DEF ExecNext
<1>2. prog \in Nat
  BY DEF IInv, TypeOK
<1>3. Popped.kind = kind
  BY DEF ExecNext, Error
<1>4. prog' = prog + 1 \/ prog' = Popped.line + 1
  BY <1>3 DEF ExecNext
<1>5. Popped.line \in Nat /\ Op(p_buf, Popped.line) = kind
  BY <1>3, PoppedLine, PoppedWord
<1>6. prog' - 1 = Popped.line
  BY <1>2, <1>4, <1>5
<1> QED BY <1>1, <1>5, <1>6 DEF Reads

\* WEND.
LEMMA WendRepeats ==
  ASSUME IInv, ExecWend, fate' = "run", err' = 0
  PROVE  Op(p_buf, prog' - 1) \in {"WHILE", "WEND"} /\ Op(p_buf, prog) = "WEND"
<1>1. Op(p_buf, prog) = "WEND" /\ fate = "run"
  BY DEF ExecWend, Reads
<1>2. Popped.kind = "WHILE"
  BY DEF ExecWend, Error
<1>3. Popped.line \in Nat /\ Op(p_buf, Popped.line) = "WHILE"
  BY <1>2, PoppedLine, PoppedWord
<1>4. CASE Goto(Popped.line + 1)
  <2>1. prog' - 1 = Popped.line
    BY <1>3, <1>4 DEF Goto
  <2> QED BY <1>1, <1>3, <2>1
<1>5. CASE Skip(Outside(p_buf, {"WEND"}, "WHILE", Popped.line), Rest)
  <2>1. Outside(p_buf, {"WEND"}, "WHILE", Popped.line) \subseteq Behind(p_buf, {"WEND"}, Popped.line)
    BY DEF Outside, Behind
  <2> QED BY <1>1, <1>3, <1>5, <2>1, SkipBehind
<1> QED BY <1>2, <1>4, <1>5 DEF ExecWend

\* CONTINUE.
LEMMA ContinueRepeats ==
  ASSUME IInv, ExecContinue, prog' <= prog, fate' = "run", err' = 0
  PROVE  Op(p_buf, prog' - 1) \in {"FOR", "WHILE", "WEND"} /\ Op(p_buf, prog) = "CONTINUE"
<1>1. Op(p_buf, prog) = "CONTINUE" /\ fate = "run" /\ prog \in Nat
  BY DEF ExecContinue, Reads, IInv, TypeOK
<1> DEFINE again == Goto(Cycle.line + 1) /\ selcyclstack' = Append(Outer, Cycle) /\ UNCHANGED fate
<1>2. \/ Cycle.kind \in {"FOR", "WHILE"} /\ again
      \/ Skip(Behind(p_buf, {"NEXT"}, prog), Outer)
      \/ Cycle.kind = "WHILE" /\ Skip(Behind(p_buf, {"WEND"}, Cycle.line), Outer)
      \/ Error(11)
      \/ NextLine
  BY Zenon DEF ExecContinue
<1>3. ASSUME Cycle.kind \in {"FOR", "WHILE"}
      PROVE  Cycle.line \in Nat /\ Op(p_buf, Cycle.line) = Cycle.kind
  <2>1. CycleIndex # 0
    BY <1>3, CycleOK DEF NoFrame
  <2> QED BY <1>3, <2>1, CycleOK, FrameLine, FrameWord
<1>4. CASE Cycle.kind \in {"FOR", "WHILE"} /\ again
  <2>1. prog' - 1 = Cycle.line
    BY <1>3, <1>4 DEF Goto
  <2> QED BY <1>1, <1>3, <1>4, <2>1
<1>5. CASE Skip(Behind(p_buf, {"NEXT"}, prog), Outer)
  <2>1. prog' > prog + 1 /\ prog' \in Nat
    BY <1>1, <1>5, SkipBehind
  <2> QED BY <1>1, <2>1
<1>6. CASE Cycle.kind = "WHILE" /\ Skip(Behind(p_buf, {"WEND"}, Cycle.line), Outer)
  BY <1>1, <1>3, <1>6, SkipBehind
<1>7. CASE Error(11)
  BY <1>7 DEF Error
<1>8. CASE NextLine
  BY <1>1, <1>8 DEF NextLine, Goto
<1> QED BY <1>2, <1>4, <1>5, <1>6, <1>7, <1>8

\* In every program, whatever was left on the stack: what goes back repeats a loop that
\* its word ends, or that CONTINUE may continue, or leaves a WHILE.
THEOREM LoopsRepeat == Spec => RepeatsOwnKind
<1>1. IInv /\ [Next]_state => [Repeats]_state
  <2> SUFFICES ASSUME IInv, Next, prog' <= prog, fate' = "run", err' = 0,
                      Op(p_buf, prog) \in {"NEXT", "WEND", "ENDLOOP", "CONTINUE"}
               PROVE  Repeats \/ UNCHANGED state
    BY DEF Repeats
  <2>1. CASE ExecNext("FOR") \/ ExecNext("LOOP")
    BY <2>1, NextRepeats DEF Repeats
  <2>2. CASE ExecWend
    BY <2>2, WendRepeats DEF Repeats, Close
  <2>3. CASE ExecContinue
    BY <2>3, ContinueRepeats DEF Repeats, Close
  <2>4. CASE Unwind \/ Stopped
    BY <2>4 DEF Unwind, Stopped
  <2> QED
    BY <2>1, <2>2, <2>3, <2>4 DEF Next, Exec, ExecIf, ExecElseif, ExecElse, ExecEndif, ExecFor,
       ExecWhile, ExecBreak, ExecSelect, ExecCase, ExecEndSelect, ExecGoto, ExecCall, Gosub,
       Greturn, ExecEnd, ExecPlain, Reads
<1> QED BY <1>1, FlowInvariance, PTL DEF Spec, RepeatsOwnKind
=============================================================================
