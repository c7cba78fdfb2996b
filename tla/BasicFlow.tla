------------------------------ MODULE BasicFlow -----------------------------
(***************************************************************************)
(* How call_interpreter of basint.cpp runs the flow statements of a BASIC  *)
(* program: by scanning its words forwards and with three stacks, of the   *)
(* blocks entered (selcyclstack), of the places to return to (gosub_stack) *)
(* and of the sizes of local_var_stack (func_call_stack).  A step is one   *)
(* pass of the loop of call_interpreter.  Conditions come out either way;  *)
(* the steering of the command loop is in InterpreterControl.              *)
(***************************************************************************)
EXTENDS BasicProgram, SequencesExt

CONSTANTS
  Programs,                \* the programs to run
  SELECT_AND_CYCLE_NEST,   \* size of selcyclstack
  SUB_NEST                 \* size of gosub_stack

ASSUME NestAssumption == SELECT_AND_CYCLE_NEST \in Nat \ {0} /\ SUB_NEST \in Nat \ {0, 1}
ASSUME TextAssumption == Programs \subseteq Program

VARIABLES
  p_buf,            \* the program
  prog,             \* the line of the next word to read that matters
  err,              \* the last error reported; 0: not in ERROR_MODE
  selcyclstack,     \* blocks entered: the kind and the line that entered them
  gosub_stack,
  gosub_tos,
  func_call_stack,
  local_vars,       \* size of local_var_stack
  vars,             \* the loop variables in global_vars
  running,          \* activations of call_interpreter: the words that began them
  fate              \* run, over, or how the thread was lost

stacks == <<gosub_stack, gosub_tos, func_call_stack, local_vars>>

state == <<p_buf, prog, err, selcyclstack, stacks, vars, running, fate>>

\* hung: a scan that never ends.  exited: the process called exit.
\* overrun: a write behind the end of selcyclstack.
Fates == {"run", "over", "hung", "exited", "overrun"}

\* A place to return to: the rest of a line, or the beginning of one.
RestOf(l) == [line |-> l, rest |-> TRUE]
StartOf(l) == [line |-> l, rest |-> FALSE]

\* call_interpreter(1) pushes a place to return to for main as well.
Init ==
  /\ p_buf \in Programs
  /\ prog = Entry(p_buf, 1) /\ err = 0 /\ selcyclstack = <<>>
  /\ gosub_stack = [i \in 1 .. SUB_NEST - 1 |-> RestOf(1)] /\ gosub_tos = 1
  /\ func_call_stack = <<>> /\ local_vars = 0
  /\ vars = [v \in Vars |-> 0] /\ running = <<"SUB">> /\ fate = "run"

(***************************************************************************)
(* The select and cycle stack.  A pop below its bottom reports error 11    *)
(* and answers a frame of no kind.                                         *)
(***************************************************************************)
NoFrame == [kind |-> "none", line |-> 0]

\* The frame a pop answers, and what it leaves.
Popped == IF selcyclstack = <<>> THEN NoFrame ELSE Last(selcyclstack)
Rest == IF selcyclstack = <<>> THEN <<>> ELSE Front(selcyclstack)

\* BREAK and CONTINUE pop until the frame is not of an IF.
CycleIndex == LET S == {i \in DOMAIN selcyclstack : selcyclstack[i].kind # "IF"}
              IN  IF S = {} THEN 0 ELSE Max(S)
Cycle == IF CycleIndex = 0 THEN NoFrame ELSE selcyclstack[CycleIndex]
Outer == SubSeq(selcyclstack, 1, CycleIndex - 1)

\* Faults for the mutation runs: no limit; the line behind the head is remembered.
PushUnlimited(kind) ==
  selcyclstack' = Append(selcyclstack, [kind |-> kind, line |-> prog]) /\ UNCHANGED fate

PushNextLine(kind) ==
  /\ selcyclstack' = Append(selcyclstack, [kind |-> kind, line |-> prog + 1])
  /\ UNCHANGED fate

\* The check for error 10 comes after the last slot is used up: it does not fire.
Push(kind) ==
  IF Len(selcyclstack) < SELECT_AND_CYCLE_NEST
  THEN /\ selcyclstack' = Append(selcyclstack, [kind |-> kind, line |-> prog])
       /\ UNCHANGED fate
  ELSE fate' = "overrun" /\ UNCHANGED selcyclstack

(***************************************************************************)
(* Where a statement goes.                                                 *)
(***************************************************************************)
Reads(op) == fate = "run" /\ err = 0 /\ Op(p_buf, prog) = op

Goto(l) == prog' = l /\ UNCHANGED <<p_buf, err, stacks, vars, running>>

NextLine == Goto(prog + 1)   \* find_eol

\* serror; where the program pointer is left does not matter any more.
Error(n) == err' = n /\ UNCHANGED <<p_buf, prog, selcyclstack, stacks, vars, running, fate>>

Lost(how) == fate' = how /\ UNCHANGED <<p_buf, prog, err, selcyclstack, stacks, vars, running>>

\* The words that end the search of a false IF or ELSEIF.
BranchEnds == Outside(p_buf, {"ELSE", "ELSEIF", "ENDIF"}, "IF", prog)

\* exec_if and exec_elseif: the code is the same.
ExecCondition ==
  \/ NextLine /\ Push("IF")
  \/ BranchEnds = {} /\ Lost("hung")
  \/ /\ BranchEnds # {}
     /\ LET m == Min(BranchEnds) IN
        \/ Op(p_buf, m) = "ELSE" /\ Goto(m + 1) /\ Push("IF")
        \/ Op(p_buf, m) = "ELSEIF" /\ Goto(m) /\ UNCHANGED <<selcyclstack, fate>>
        \/ Op(p_buf, m) = "ENDIF" /\ Goto(m + 1) /\ UNCHANGED <<selcyclstack, fate>>

ExecIf == Reads("IF") /\ ExecCondition

ExecElseif == Reads("ELSEIF") /\ ExecCondition

\* Takes the frame off, which has to be of that kind.
Leave(kind, l) ==
  IF Popped.kind # kind THEN Error(4)
  ELSE Goto(l) /\ selcyclstack' = Rest /\ UNCHANGED fate

ExecElse ==
  /\ Reads("ELSE")
  /\ IF BranchEnds = {} THEN Lost("hung")
     ELSE IF Op(p_buf, Min(BranchEnds)) # "ENDIF" THEN Error(1)
     ELSE Leave("IF", Min(BranchEnds) + 1)

ExecEndif == Reads("ENDIF") /\ Leave("IF", prog + 1)

ExecEndSelect == Reads("ENDSELECT") /\ Leave("SELECT", prog + 1)

\* exec_for and exec_loop.  The first value is compared with itself: the loop
\* is entered whatever its target is.
ExecFor(kind) ==
  /\ Reads(kind)
  /\ vars' = [vars EXCEPT ![p_buf[prog].var] = p_buf[prog].first]
  /\ prog' = prog + 1 /\ Push(kind)
  /\ UNCHANGED <<p_buf, err, stacks, running>>

\* Faults: the counter stands still; the frame stays when the loop ends; the frame's
\* kind is not looked at.
ExecNextFrozen(kind) ==
  Reads(Close[kind]) /\ Goto(Popped.line + 1) /\ UNCHANGED <<selcyclstack, fate>>

ExecNextLeaves(kind) ==
  /\ Reads(Close[kind])
  /\ LET head == p_buf[Popped.line] IN
     /\ vars' = [vars EXCEPT ![head.var] = @ + 1]
     /\ prog' = IF vars'[head.var] > head.last THEN prog + 1 ELSE Popped.line + 1
  /\ UNCHANGED <<p_buf, err, selcyclstack, stacks, running, fate>>

ExecNextAnyKind(kind) ==
  /\ Reads(Close[kind])
  /\ IF Popped.kind = "none" THEN Error(4)
     ELSE Goto(Popped.line + 1) /\ UNCHANGED <<selcyclstack, fate>>

\* exec_next and exec_endloop.
ExecNext(kind) ==
  /\ Reads(Close[kind])
  /\ IF Popped.kind # kind THEN Error(4)
     ELSE LET head == p_buf[Popped.line]
              value == vars[head.var] + 1
          IN  /\ vars' = [vars EXCEPT ![head.var] = value]
              /\ IF value > head.last
                 THEN prog' = prog + 1 /\ selcyclstack' = Rest
                 ELSE prog' = Popped.line + 1 /\ UNCHANGED selcyclstack
              /\ UNCHANGED <<p_buf, err, stacks, running, fate>>

\* Fault: onto the closing word instead of behind it.
SkipOnto(lines, rest) ==
  /\ lines # {} /\ Goto(Min(lines)) /\ selcyclstack' = rest /\ UNCHANGED fate

\* Behind the first of these lines, or a scan that never ends.
Skip(lines, rest) ==
  IF lines = {} THEN Lost("hung")
  ELSE Goto(Min(lines) + 1) /\ selcyclstack' = rest /\ UNCHANGED fate

ExecWhile ==
  /\ Reads("WHILE")
  /\ \/ NextLine /\ Push("WHILE")
     \/ Skip(Outside(p_buf, {"WEND"}, "WHILE", prog), selcyclstack)

\* The condition is read again, and a false one skips from there.
ExecWend ==
  /\ Reads("WEND")
  /\ IF Popped.kind # "WHILE" THEN Error(4)
     ELSE \/ Goto(Popped.line + 1) /\ UNCHANGED <<selcyclstack, fate>>
          \/ Skip(Outside(p_buf, {"WEND"}, "WHILE", Popped.line), Rest)

\* The counter of a FOR is not incremented; a LOOP or SELECT is only popped.
ExecContinue ==
  /\ Reads("CONTINUE")
  /\ LET again == Goto(Cycle.line + 1) /\ selcyclstack' = Append(Outer, Cycle)
                    /\ UNCHANGED fate
     IN
     CASE Cycle.kind = "FOR" ->
            IF vars[p_buf[Cycle.line].var] > p_buf[Cycle.line].last
            THEN Skip(Behind(p_buf, {"NEXT"}, prog), Outer) ELSE again
       [] Cycle.kind = "WHILE" ->
            again \/ Skip(Behind(p_buf, {"WEND"}, Cycle.line), Outer)
       [] Cycle.kind = "none" -> Error(11)
       [] OTHER -> NextLine /\ selcyclstack' = Outer /\ UNCHANGED fate

\* The first closing word of the kind is taken, whose ever it is.
ExecBreak ==
  /\ Reads("BREAK")
  /\ LET ends == Behind(p_buf, {"END", "ENDSUB", "ENDSELECT"}, prog) IN
     CASE Cycle.kind \in {"FOR", "WHILE"} ->
            Skip(Behind(p_buf, {Close[Cycle.kind]}, prog), Outer)
       [] Cycle.kind = "SELECT" ->
            IF ends # {} /\ Op(p_buf, Min(ends)) # "ENDSELECT" THEN Error(4)
            ELSE Skip(ends, Outer)
       [] OTHER -> Lost("hung")

ExecSelect == Reads("SELECT") /\ NextLine /\ Push("SELECT")

\* A CASE that does not match.  END SELECT is skipped with the frame on the stack;
\* an END inside an inner SELECT makes the process exit.
SkipCase ==
  LET last == Behind(p_buf, {"END", "ENDSUB"}, prog)
      ends == last \cup Outside(p_buf, {"CASE", "DEFAULT", "ENDSELECT"}, "SELECT", prog)
      m == Min(ends)
  IN
  CASE ends = {} -> Lost("hung")
    [] m \in last /\ Level(p_buf, "SELECT", prog + 1, m) = 0 -> Error(4)
    [] m \in last /\ Level(p_buf, "SELECT", prog + 1, m) # 0 -> Lost("exited")
    [] OTHER -> /\ Goto(IF Op(p_buf, m) = "ENDSELECT" THEN m + 1 ELSE m)
                /\ UNCHANGED <<selcyclstack, fate>>

ExecCase ==
  /\ Reads("CASE")
  /\ IF Popped.kind # "SELECT" THEN Error(4)
     ELSE \/ NextLine /\ UNCHANGED <<selcyclstack, fate>>
          \/ SkipCase

(***************************************************************************)
(* GOTO.  jumpout_blocks_in_loc empties selcyclstack: it looks for the end *)
(* of each IF, WHILE and SELECT between the GOTO and its target.  A frame  *)
(* whose end is not there is pushed again and tried again from the next    *)
(* word on, behind the target, where every try forgets the nesting.        *)
(***************************************************************************)
\* The lines where the search from line l on may end.  The first word behind the
\* target belongs to an inner block when the search is in one.
EndsFrom(kind, l, target) ==
  LET near  == {m \in Outside(p_buf, {Close[kind]}, kind, l) : m < target}
      inner == l < target /\ Level(p_buf, kind, l + 1, target) > 0
      far   == {m \in Behind(p_buf, {Close[kind]}, l) :
                  IF inner THEN m > target ELSE m >= target}
  IN  (IF near # {} THEN near ELSE far)
        \cup (IF kind = "SELECT" THEN Behind(p_buf, {"END", "ENDSUB"}, l) ELSE {})

\* Where the search stands when n frames were taken off; 0: it does not end; -1: it
\* met the END of something else than a SELECT, and the process exits.
OutOf(target) ==
  LET size == Len(selcyclstack)
      found[n \in 0 .. size] ==
        IF n = 0 THEN prog
        ELSE LET l == found[n - 1]
                 kind == selcyclstack[size - n + 1].kind
                 ends == EndsFrom(kind, l, target)
             IN  IF l <= 0 \/ kind \in {"FOR", "LOOP"} THEN l
                 ELSE IF ends = {} THEN 0
                 ELSE IF Op(p_buf, Min(ends)) = Close[kind] THEN Min(ends) ELSE -1
  IN  found[size]

ExecGoto ==
  /\ Reads("GOTO")
  /\ LET target == p_buf[prog].to IN
     IF target = 0 THEN Error(7)
     ELSE IF OutOf(target) = 0 THEN Lost("hung")
     ELSE IF OutOf(target) = -1 THEN Lost("exited")
     ELSE Goto(target) /\ selcyclstack' = <<>> /\ UNCHANGED fate

(***************************************************************************)
(* Calls.  A call runs call_interpreter again, for the called lines.       *)
(***************************************************************************)
\* Fault: the last place is used up without an error.
GosubPushUnreported(place) ==
  /\ gosub_tos' = gosub_tos + 1 /\ UNCHANGED err
  /\ gosub_stack' = [gosub_stack EXCEPT ![gosub_tos + 1] = place]

\* gosub_push: the sixteenth place is counted, reported and not stored.
GosubPush(place) ==
  /\ gosub_tos' = gosub_tos + 1
  /\ IF gosub_tos + 1 = SUB_NEST
     THEN err' = 12 /\ UNCHANGED gosub_stack
     ELSE gosub_stack' = [gosub_stack EXCEPT ![gosub_tos + 1] = place] /\ UNCHANGED err

Enter(place) ==
  /\ GosubPush(place)
  /\ prog' = Entry(p_buf, p_buf[prog].to) /\ running' = Append(running, Op(p_buf, prog))
  /\ UNCHANGED <<p_buf, selcyclstack, vars, fate>>

\* Fault: the size of local_var_stack is saved with the arguments on it.
ExecCallLate ==
  /\ Reads("CALL") /\ p_buf[prog].to # 0
  /\ func_call_stack' = Append(func_call_stack, local_vars + p_buf[prog].args)
  /\ local_vars' = local_vars + p_buf[prog].args
  /\ Enter(RestOf(prog))

\* Looking for "(", get_args has read the end of the line when there is none.
ExecCall ==
  /\ Reads("CALL")
  /\ IF p_buf[prog].to = 0 THEN Error(7)
     ELSE /\ func_call_stack' = Append(func_call_stack, local_vars)
          /\ local_vars' = local_vars + p_buf[prog].args
          /\ Enter(IF p_buf[prog].parens THEN RestOf(prog) ELSE StartOf(prog + 1))

Gosub ==
  /\ Reads("GOSUB")
  /\ IF p_buf[prog].to = 0 THEN Error(7)
     ELSE Enter(RestOf(prog)) /\ UNCHANGED <<func_call_stack, local_vars>>

\* The innermost activation of call_interpreter returns.
LeaveActivation ==
  /\ running' = Front(running)
  /\ fate' = IF Len(running) = 1 THEN "over" ELSE "run"

\* RETURN and END SUB: greturn pops both stacks, whoever pushed.  exec_call goes on
\* with the next line (find_eol), gosub where it is.  Error 13 does not happen
\* (ReturnsFind).
Greturn ==
  /\ Reads("RETURN") \/ Reads("ENDSUB")
  /\ LeaveActivation
  /\ IF gosub_tos = 0 THEN err' = 13 /\ UNCHANGED <<prog, gosub_tos>>
     ELSE LET place == gosub_stack[gosub_tos] IN
          /\ prog' = IF place.rest \/ Last(running) = "CALL" THEN place.line + 1
                     ELSE place.line
          /\ gosub_tos' = gosub_tos - 1 /\ UNCHANGED err
  /\ IF func_call_stack = <<>> THEN UNCHANGED <<func_call_stack, local_vars>>
     ELSE /\ local_vars' = Last(func_call_stack)
          /\ func_call_stack' = Front(func_call_stack)
  /\ UNCHANGED <<p_buf, selcyclstack, gosub_stack, vars>>

\* END returns to the caller, which goes on behind the END.
ExecEnd ==
  /\ Reads("END")
  /\ LeaveActivation
  /\ prog' = prog + 1
  /\ UNCHANGED <<p_buf, err, selcyclstack, stacks, vars>>

\* Statements that go on with the next line, and SUB and DEFAULT, which are skipped.
ExecPlain ==
  /\ \E op \in {"STMT", "SUB", "DEFAULT"} : Reads(op)
  /\ NextLine /\ UNCHANGED <<selcyclstack, fate>>

\* FINISHED, or ERROR_MODE: every activation returns before its next statement.
Unwind ==
  /\ fate = "run" /\ (err # 0 \/ Op(p_buf, prog) = "FINISHED")
  /\ running' = <<>> /\ fate' = "over"
  /\ UNCHANGED <<p_buf, prog, err, selcyclstack, stacks, vars>>

Stopped == fate # "run" /\ UNCHANGED state

Exec ==
  \/ ExecIf \/ ExecElseif \/ ExecElse \/ ExecEndif
  \/ ExecFor("FOR") \/ ExecFor("LOOP") \/ ExecNext("FOR") \/ ExecNext("LOOP")
  \/ ExecWhile \/ ExecWend \/ ExecContinue \/ ExecBreak
  \/ ExecSelect \/ ExecCase \/ ExecEndSelect
  \/ ExecGoto \/ ExecCall \/ Gosub \/ Greturn \/ ExecEnd \/ ExecPlain

Next == Exec \/ Unwind \/ Stopped

\* Nothing blocks a program thread here: it takes its next step.
Spec == Init /\ [][Next]_state /\ WF_state(Exec \/ Unwind)

(***************************************************************************)
(* Properties.                                                             *)
(***************************************************************************)
Frame == [kind : Openers, line : Nat]

Place == [line : Nat \ {0}, rest : BOOLEAN]

TypeOK ==
  /\ p_buf \in Program /\ prog \in Nat \ {0} /\ err \in 0 .. 19
  /\ selcyclstack \in Seq(Frame) /\ Len(selcyclstack) <= SELECT_AND_CYCLE_NEST
  /\ gosub_stack \in [1 .. SUB_NEST - 1 -> Place] /\ gosub_tos \in 0 .. SUB_NEST
  /\ func_call_stack \in Seq(Nat) /\ local_vars \in Nat
  /\ vars \in [Vars -> Int] /\ running \in Seq({"SUB", "CALL", "GOSUB"}) /\ fate \in Fates

\* In every program: a frame names the line that entered a block of its kind, so
\* that NEXT, WEND, ENDLOOP and CONTINUE, which trust it, come back into a loop.
FramesSound ==
  \A i \in DOMAIN selcyclstack :
    LET f == selcyclstack[i] IN
    /\ f.line \in DOMAIN p_buf
    /\ Op(p_buf, f.line) = f.kind \/ (f.kind = "IF" /\ Op(p_buf, f.line) = "ELSEIF")

\* In every program: what goes back repeats a loop, the end of a loop one of its own
\* kind, and a CONTINUE one that counts or tests.  Only a WHILE that ends is left
\* behind the first WEND that fits its head, which may stand before the statement.
Repeats ==
  /\ Op(p_buf, prog) \in {"NEXT", "WEND", "ENDLOOP", "CONTINUE"}
  /\ prog' <= prog /\ fate' = "run" /\ err' = 0
  => LET word == Op(p_buf, prog)
         kind == Op(p_buf, prog' - 1)
     IN  \/ kind \in {"FOR", "WHILE", "LOOP"} /\ Close[kind] = word
         \/ kind \in {"FOR", "WHILE"} /\ word = "CONTINUE"
         \/ kind = "WEND" /\ word \in {"WEND", "CONTINUE"}

RepeatsOwnKind == [][Repeats]_state

\* In every program, with ENDs and errors anywhere: a return finds a place to go
\* to, each place belongs to a running activation or was left behind by an END,
\* and gosub_stack is not written behind its end.
ReturnsFind ==
  /\ gosub_tos <= SUB_NEST
  /\ fate = "run" => 1 <= Len(running) /\ Len(running) <= gosub_tos
  /\ fate = "run" /\ err = 0 => gosub_tos < SUB_NEST

\* In every program: when all calls are back, local_var_stack is as it was.
LocalsReturned == gosub_tos <= 1 => local_vars = 0

\* Programs whose blocks are paired and nested, and which keep clear of what takes the
\* stack and the text apart: a branch of another block, an ELSEIF behind a taken branch, a
\* SELECT without DEFAULT, a BREAK or CONTINUE that stops at an inner end or is in no
\* cycle, a return from inside a block, jumps into blocks, CALL without parentheses.
Cycles == Openers \ {"IF"}

Inner(p, kinds, l) == Max(Around(p, kinds, l))

Belongs(p, l, kind) == Around(p, Openers, l) # {} /\ Op(p, Inner(p, Openers, l)) = kind

\* The first closing word of its kind behind l is that of the cycle on line c.
EndsFirst(p, c, l) == Min(Behind(p, {Close[Op(p, c)]}, l)) = EndOf(p, c)

Tidy(p) ==
  /\ BlocksNest(p)
  /\ \A l \in DOMAIN p :
       LET op == p[l].op
           c == Inner(p, Cycles, l)
       IN
       /\ op \in {"ELSE", "ELSEIF"} => Belongs(p, l, "IF")
       /\ op \in {"CASE", "DEFAULT"} => Belongs(p, l, "SELECT")
       /\ op = "ELSEIF" => Op(p, l - 1) \in {"BREAK", "CONTINUE", "GOTO"}
       /\ op = "CASE" =>
            Op(p, Min(Outside(p, {"CASE", "DEFAULT", "ENDSELECT"}, "SELECT", l))) # "ENDSELECT"
       /\ op \in {"BREAK", "CONTINUE"} => Around(p, Cycles, l) # {}
       /\ op = "BREAK" /\ Op(p, c) # "LOOP" => EndsFirst(p, c, l)
       /\ op = "CONTINUE" => Op(p, c) \in {"FOR", "WHILE"} /\ EndsFirst(p, c, c)
       /\ op \in {"RETURN", "ENDSUB"} => Around(p, Openers, l) = {}
       /\ op \in {"GOTO", "CALL", "GOSUB"} /\ p[l].to # 0 => Around(p, Openers, p[l].to) = {}
       /\ op = "CALL" => p[l].parens

\* GOTO empties the stack of the callers as well: it stands on lines that no call
\* leads to, which some ENDSUB ends.
GotoInMain(p) ==
  (\A l \in DOMAIN p : p[l].op # "GOTO")
  \/ \E e \in DOMAIN p :
       /\ p[e].op = "ENDSUB"
       /\ \A l \in DOMAIN p :
            /\ p[l].op = "GOTO" => l < e /\ p[l].to <= e
            /\ p[l].op \in {"CALL", "GOSUB"} /\ p[l].to # 0 => p[l].to > e

\* In such programs: the stack holds the blocks around each pending call and around
\* the statement, outermost first, and no others.  An ELSEIF that the code goes to from
\* a false condition is still part of the choice its IF began.
CallLine(i) == IF gosub_stack[i].rest THEN gosub_stack[i].line ELSE gosub_stack[i].line - 1

IfOf(p, l) == Max({k \in Around(p, {"IF"}, l) : k < l})

Owner(p, l) == IF Op(p, l) = "ELSEIF" THEN IfOf(p, l) ELSE l

Heads(p, l) == {k \in Around(p, Openers, l) : k < l}

\* The blocks of the i-th pending call, or of the statement.
Entered(i) == Heads(p_buf, IF i < gosub_tos THEN CallLine(i + 1) ELSE Owner(p_buf, prog))

FramesMatch ==
  fate = "run" /\ err = 0 =>
    \E of \in [DOMAIN selcyclstack -> 1 .. gosub_tos] :
      LET block(n) == Owner(p_buf, selcyclstack[n].line) IN
      /\ \A i \in 1 .. gosub_tos :
           {block(n) : n \in {m \in DOMAIN selcyclstack : of[m] = i}} = Entered(i)
      /\ \A m, n \in DOMAIN selcyclstack :
           m < n => of[m] < of[n] \/ (of[m] = of[n] /\ block(m) < block(n))

\* A program without WHILE ends.
Terminates ==
  fate = "run" /\ (\A l \in DOMAIN p_buf : p_buf[l].op # "WHILE") ~> fate = "over"

(***************************************************************************)
(* What the design document and the comments say, and the code does not do.*)
(***************************************************************************)
\* CONTINUE in a FOR loop does what NEXT does: the variable is incremented
\* (design document, section 24).
ContinueIsNext ==
  [][Reads("CONTINUE") /\ Cycle.kind = "FOR"
       => LET v == p_buf[Cycle.line].var IN vars'[v] = vars[v] + 1]_state

\* A GOTO to a known label arrives there (comment of exec_goto).
GotoArrives ==
  [][Reads("GOTO") /\ p_buf[prog].to # 0 => fate' = "run" /\ prog' = p_buf[prog].to]_state

(***************************************************************************)
(* The refinement.                                                         *)
(***************************************************************************)
\* Programs that keep clear of what the code does in another way than structured BASIC: a
\* FOR that is not to run, a branch behind the ELSE, a missing label, the CONTINUE of a
\* counting loop, a BREAK out of a LOOP, an END in a SELECT, a text that does not end with
\* END SUB.
Straight(p) ==
  /\ p # <<>> /\ Op(p, Len(p)) = "ENDSUB"
  /\ \A l \in DOMAIN p :
       LET op == p[l].op
           c == Inner(p, Cycles, l)
       IN
       /\ op \in {"FOR", "LOOP"} => p[l].first <= p[l].last
       /\ op = "ELSE" =>
            Op(p, Min(Outside(p, {"ELSE", "ELSEIF", "ENDIF"}, "IF", l))) = "ENDIF"
       /\ op \in {"GOTO", "CALL", "GOSUB"} => p[l].to # 0
       /\ op = "CONTINUE" => Op(p, c) = "WHILE"
       /\ op = "BREAK" => Op(p, c) # "LOOP"
       /\ op = "END" => Around(p, {"SELECT"}, l) = {}

Called(p, l) == l \in DOMAIN p /\ p[l].op \in {"CALL", "GOSUB"}

Counts(p, l) == l \in DOMAIN p /\ p[l].op \in {"FOR", "LOOP"}

\* Programs in which no two running loops count with the same variable, and only main ends
\* with END: calls lead forwards, and behind every END.
Apart(p) ==
  /\ \A l \in DOMAIN p : Called(p, l) =>
       l < p[l].to /\ \A m \in DOMAIN p : p[m].op = "END" => m < p[l].to
  /\ \A k, l \in DOMAIN p :
       /\ Counts(p, k) /\ Counts(p, l) /\ k < l
       /\ l \in Block(p, k) \/ \E m \in Block(p, k) : Called(p, m) /\ p[m].to <= l
       => p[k].var # p[l].var

\* At an ELSEIF of a choice, the choice is still to make.
At == IF fate = "over" THEN 0 ELSE Owner(p_buf, prog)

\* The member of C with i members up to it.
Nth(C, i) == CHOOSE m \in C : Cardinality({j \in C : j <= m}) = i

\* The frames of loops that count, and these loops.
Counting == {m \in DOMAIN selcyclstack : selcyclstack[m].kind \in {"FOR", "LOOP"}}

LoopOf(f) == [line |-> f.line, count |-> vars[p_buf[f.line].var]]

Loops == [i \in 1 .. Cardinality(Counting) |-> LoopOf(selcyclstack[Nth(Counting, i)])]

Calls == [i \in 1 .. gosub_tos - 1 |-> CallLine(i + 1) + 1]

Structured == INSTANCE StructuredBasic WITH
  at <- At, loops <- Loops, calls <- Calls, over <- fate = "over"

\* The statements go where structured BASIC says (for programs that keep clear of what
\* Tidy, GotoInMain, Straight and Apart exclude).
ImplementsStructured == Structured!Spec
=============================================================================
