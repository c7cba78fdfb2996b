--------------------------- MODULE CallInterpreter ---------------------------
(***************************************************************************)
(* A thread that runs a program: basic_interpreter, call_interpreter and   *)
(* the statements that read or write the shared state.  One action per     *)
(* stretch between two reads or writes of what the command loop can touch. *)
(***************************************************************************)
EXTENDS ThreadControlBlock

Goto(t, p) == pc' = [pc EXCEPT ![t] = p]

(***************************************************************************)
(* call_interpreter in mode 1: the program is loaded and scanned, is_abort *)
(* and is_paused are cleared after that.  An ABORT that moves prog while   *)
(* scan_labels walks it makes it define every label twice: serror.         *)
(***************************************************************************)
LoadProgram(t) ==
  /\ pc[t] = "load"
  /\ \/ \* no such project
        /\ Goto(t, "leave")
        /\ prog_mode' = [prog_mode EXCEPT ![t] = "ERROR_MODE"]
        /\ UNCHANGED <<is_abort, is_paused>>
     \/ /\ Goto(t, "main")
        /\ is_abort' = [is_abort EXCEPT ![t] = FALSE]
        /\ is_paused' = [is_paused EXCEPT ![t] = FALSE]
        /\ \/ UNCHANGED prog_mode
           \/ /\ aborting[t] = "early"
              /\ prog_mode' = [prog_mode EXCEPT ![t] = "ERROR_MODE"]
  /\ UNCHANGED <<state, seq, handle, execute_direction, iLineNum, prog,
                 permitted, iLinenum, tok, skip, history>>

\* The label <project>::main, if there is one; then mode 0 from behind the
\* parameters of line 1.
EnterMain(t) ==
  /\ pc[t] = "main"
  /\ \/ /\ Goto(t, "leave")
        /\ prog_mode' = [prog_mode EXCEPT ![t] = "ERROR_MODE"]
        /\ UNCHANGED <<prog, iLineNum, iLinenum, skip>>
     \/ /\ Goto(t, "top")
        /\ prog' = [prog EXCEPT ![t] = [line |-> 1, pos |-> "tail"]]
        /\ iLineNum' = [iLineNum EXCEPT ![t] = 1]
        /\ iLinenum' = [iLinenum EXCEPT ![t] = 1]
        /\ skip' = [skip EXCEPT ![t] = FALSE]
        /\ UNCHANGED prog_mode
  /\ UNCHANGED <<state, seq, handle, execute_direction, is_abort, is_paused,
                 permitted, tok, history>>

(***************************************************************************)
(* The step gate at the top of the loop.                                   *)
(***************************************************************************)
MustStep(t) == prog_mode[t] = "STEP_MODE" /\ ~skip[t]

StepPause(t) ==
  /\ pc[t] = "top" /\ MustStep(t) /\ ~IsEmptyAt(prog[t])
  /\ state' = "PAUSED_R"
  /\ grant' = [grant EXCEPT ![t] = "none"]
  /\ Goto(t, "stepSet")
  /\ UNCHANGED <<seq, handle, prog_mode, execute_direction, is_abort, is_paused,
                 iLineNum, prog, permitted, iLinenum, tok, skip,
                 aborting, pausing, stepping>>

StepPauseSetLine(t) ==
  /\ pc[t] = "stepSet"
  /\ iLineNum' = [iLineNum EXCEPT ![t] = iLinenum[t]]
  /\ Goto(t, "stepWait")
  /\ UNCHANGED <<state, seq, handle, prog_mode, execute_direction, is_abort,
                 is_paused, prog, permitted, iLinenum, tok, skip, history>>

\* waitInterpreterStateleftPaused sees another state, or the abort flag
LeftPaused(t) == state # "PAUSED_R" \/ is_abort[t]

StepLeftPaused(t) ==
  /\ pc[t] = "stepWait" /\ LeftPaused(t)
  /\ iLinenum' = [iLinenum EXCEPT ![t] = iLineNum[t]]
  /\ IF iLineNum[t] = 0
     THEN \* "illegal line number": continue, to the loop's condition
          /\ Goto(t, IF tok[t] = FINISHED THEN "leave" ELSE "top")
          /\ UNCHANGED <<state, prog>>
     ELSE /\ Goto(t, "stepGo")
          /\ state' = "EXECUTE_TO_PAUSE_T"
          /\ prog' = IF iLineNum[t] > 0
                     THEN [prog EXCEPT ![t] = At(iLineNum[t])]
                     ELSE prog
  /\ UNCHANGED <<seq, handle, prog_mode, execute_direction, is_abort,
                 is_paused, iLineNum, permitted, tok, skip, history>>

\* Variant: with the PAUSED_R that is commented out, published last.
StepGoPaused(t) ==
  /\ pc[t] = "stepGo"
  /\ state' = "PAUSED_R"
  /\ Goto(t, "read")
  /\ UNCHANGED <<seq, handle, prog_mode, execute_direction, is_abort,
                 is_paused, iLineNum, prog, permitted, iLinenum, tok, skip,
                 history>>

StepGo(t) ==
  /\ pc[t] = "stepGo"
  /\ state' = "EXECUTE_R"
  /\ Goto(t, "read")
  /\ UNCHANGED <<seq, handle, prog_mode, execute_direction, is_abort,
                 is_paused, iLineNum, prog, permitted, iLinenum, tok, skip,
                 history>>

\* No stop on this line, or the end of a program that failed.
StepPass(t) ==
  /\ pc[t] = "top" /\ ~(MustStep(t) /\ ~IsEmptyAt(prog[t]))
  /\ Goto(t, IF prog_mode[t] = "ERROR_MODE" THEN "leave" ELSE "read")
  /\ UNCHANGED <<shared, iLinenum, tok, skip, history>>

(***************************************************************************)
(* get_token, the abort check and the pause poll.                          *)
(***************************************************************************)
TokenAt(p) ==
  IF p.line > LastLine THEN FINISHED
  ELSE IF p.pos = "tail" \/ Stmt[p.line] \in {"blank", "comment"} THEN 0
  ELSE p.line

BehindToken(p) ==
  IF TokenAt(p) = 0 THEN FindEol(p)
  ELSE IF p.pos = "start" /\ p.line <= LastLine THEN [p EXCEPT !.pos = "inside"]
  ELSE p

\* The abort check stands behind get_token and before the pause poll.
AfterTokenUnchecked(t) == "poll"
AfterToken(t) == IF is_abort[t] THEN "leave" ELSE "poll"

GetToken(t) ==
  /\ pc[t] = "read"
  /\ skip' = [skip EXCEPT ![t] = FALSE]
  /\ tok' = [tok EXCEPT ![t] = TokenAt(prog[t])]
  /\ prog' = [prog EXCEPT ![t] = BehindToken(prog[t])]
  /\ Goto(t, AfterToken(t))
  /\ UNCHANGED <<state, seq, handle, prog_mode, execute_direction, is_abort,
                 is_paused, iLineNum, permitted, iLinenum, history>>

\* The poll of PAUSED_R looks at the state only, never at is_abort.
PollOpenAlways(t) == TRUE
PollOpen(t) == state # "PAUSED_R"

\* isExecuteEmptyLine: what was read is no statement, the next line runs on.
\* The rest of a line counts: an IF that is false lands behind its ELSE.
ExecuteEmptyAlways(t) == TRUE
ExecuteEmpty(t) == tok[t] \notin Lines

PollPass(t) ==
  /\ pc[t] = "poll" /\ PollOpen(t)
  /\ iLinenum' = [iLinenum EXCEPT ![t] = CalcLine(prog[t])]
  /\ iLineNum' = [iLineNum EXCEPT ![t] = CalcLine(prog[t])]
  /\ skip' = [skip EXCEPT ![t] = ExecuteEmpty(t)]
  /\ stepping' = IF tok[t] \notin Lines /\ stepping[t] = "yes"
                 THEN [stepping EXCEPT ![t] = "empty"] ELSE stepping
  /\ Goto(t, IF tok[t] \in Lines THEN "exec"
             ELSE IF tok[t] = FINISHED THEN "leave" ELSE "top")
  /\ UNCHANGED <<state, seq, handle, prog_mode, execute_direction, is_abort,
                 is_paused, prog, permitted, tok, aborting, pausing, grant>>

(***************************************************************************)
(* The dispatch.  Intact says that prog still stands behind the token the  *)
(* thread read; an ABORT or a JUMP may have moved it since, and then the   *)
(* statement parses its operands somewhere else in the program: any pointer*)
(* may result, serror may have been called.                                *)
(***************************************************************************)
Intact(t) == prog[t] = [line |-> tok[t], pos |-> "inside"]

Spend(h) == IF h = "armed" THEN "spent" ELSE h

\* A statement begins.
Begin(t) ==
  /\ aborting' = [aborting EXCEPT ![t] = Spend(@)]
  /\ pausing' = Spend(pausing)
  /\ stepping' = IF prog_mode[t] = "STEP_MODE"
                 THEN [stepping EXCEPT ![t] = "yes"] ELSE stepping

Dispatch(t, kinds) == pc[t] = "exec" /\ Stmt[tok[t]] \in kinds /\ Begin(t)

\* SUB, assignments, PRINT, NOP, IF, WHILE, GOTO...
ExecPlain(t) ==
  /\ Dispatch(t, {"sub", "common", "nop", "logic"})
  /\ Intact(t)
  /\ Goto(t, "top")
  /\ IF Stmt[tok[t]] = "logic"
     THEN \E p \in Succ[tok[t]] : prog' = [prog EXCEPT ![t] = p]
     ELSE prog' = [prog EXCEPT ![t] = FindEol(prog[t])]
  /\ iLineNum' = IF Stmt[tok[t]] = "nop" /\ prog_mode[t] = "STEP_MODE" /\ iLineNum[t] <= LastLine
                 THEN [iLineNum EXCEPT ![t] = @ + 1] ELSE iLineNum
  /\ UNCHANGED <<state, seq, handle, prog_mode, execute_direction, is_abort,
                 is_paused, permitted, iLinenum, tok, skip, grant>>

\* A statement that calls serror, which sets ERROR_MODE and returns.
ExecFault(t) ==
  /\ Dispatch(t, {"fault"})
  /\ Intact(t)
  /\ prog_mode' = [prog_mode EXCEPT ![t] = "ERROR_MODE"]
  /\ prog' = [prog EXCEPT ![t].pos = "mid"]
  /\ Goto(t, "top")
  /\ UNCHANGED <<state, seq, handle, execute_direction, is_abort, is_paused,
                 iLineNum, permitted, iLinenum, tok, skip, grant>>

ExecEnd(t) ==
  /\ Dispatch(t, {"end"})
  /\ Intact(t)
  /\ Goto(t, "leave")
  /\ UNCHANGED <<shared, iLinenum, tok, skip, grant>>

\* Operands read from where an ABORT or a JUMP moved the pointer.
ExecTorn(t) ==
  /\ Dispatch(t, {"sub", "common", "nop", "logic", "fault", "end", "motion"})
  /\ ~Intact(t)
  /\ \E p \in {q \in Positions : q.pos # "inside"} : prog' = [prog EXCEPT ![t] = p]
  /\ \/ UNCHANGED prog_mode
     \/ prog_mode' = [prog_mode EXCEPT ![t] = "ERROR_MODE"]
  /\ \/ Goto(t, "top")
     \/ Stmt[tok[t]] = "end" /\ Goto(t, "leave")
     \/ Stmt[tok[t]] = "motion" /\ Goto(t, "motion")
  /\ UNCHANGED <<state, seq, handle, execute_direction, is_abort, is_paused,
                 iLineNum, permitted, iLinenum, tok, skip, grant>>

\* call_Abort publishes IDLE_R and ends the program.
ExecAbort(t) ==
  /\ Dispatch(t, {"abort"})
  /\ state' = "IDLE_R"
  /\ Goto(t, "leave")
  /\ UNCHANGED <<seq, handle, prog_mode, execute_direction, is_abort, is_paused,
                 iLineNum, prog, permitted, iLinenum, tok, skip, grant>>

(***************************************************************************)
(* call_Pause                                                              *)
(***************************************************************************)
ExecPause(t) ==
  /\ Dispatch(t, {"pause"})
  /\ state' = "PAUSED_R"
  /\ grant' = [grant EXCEPT ![t] = "none"]
  /\ Goto(t, "pauseMark")
  /\ UNCHANGED <<seq, handle, prog_mode, execute_direction, is_abort, is_paused,
                 iLineNum, prog, permitted, iLinenum, tok, skip>>

PauseMark(t) ==
  /\ pc[t] = "pauseMark"
  /\ is_paused' = [is_paused EXCEPT ![t] = TRUE]
  /\ Goto(t, "pauseWait")
  /\ UNCHANGED <<state, seq, handle, prog_mode, execute_direction, is_abort,
                 iLineNum, prog, permitted, iLinenum, tok, skip, history>>

PauseLeft(t) ==
  /\ pc[t] = "pauseWait" /\ LeftPaused(t)
  /\ is_paused' = [is_paused EXCEPT ![t] = FALSE]
  /\ prog' = [prog EXCEPT ![t] = FindEol(@)]
  /\ Goto(t, "top")
  /\ UNCHANGED <<state, seq, handle, prog_mode, execute_direction, is_abort,
                 iLineNum, permitted, iLinenum, tok, skip, history>>

(***************************************************************************)
(* call_MoveJ and its like: the operands are read to the end of the line,  *)
(* then setInstruction is called until it answers true.  An aborted thread *)
(* gets false for ever.                                                    *)
(***************************************************************************)
ExecMotion(t) ==
  /\ Dispatch(t, {"motion"})
  /\ Intact(t)
  /\ prog' = [prog EXCEPT ![t] = FindEol(@)]
  /\ Goto(t, "motion")
  /\ UNCHANGED <<state, seq, handle, prog_mode, execute_direction, is_abort,
                 is_paused, iLineNum, permitted, iLinenum, tok, skip, grant>>

SetInstruction(t) ==
  /\ pc[t] = "motion" /\ ~is_abort[t] /\ permitted
  /\ Goto(t, "motionTake")
  /\ UNCHANGED <<shared, iLinenum, tok, skip, history>>

\* The permission was read above: two threads may both take one.
TakePermission(t) ==
  /\ pc[t] = "motionTake"
  /\ permitted' = FALSE
  /\ Goto(t, "motionWrite")
  /\ UNCHANGED <<state, seq, handle, prog_mode, execute_direction, is_abort,
                 is_paused, iLineNum, prog, iLinenum, tok, skip, history>>

\* tryWrite succeeded; module InterpreterShm is about when it does.
MotionWrite(t) ==
  /\ pc[t] = "motionWrite"
  /\ Goto(t, "motionWait")
  /\ UNCHANGED <<shared, iLinenum, tok, skip, history>>

MotionDone(t) ==
  /\ pc[t] = "motionWait" /\ permitted
  /\ Goto(t, "top")
  /\ UNCHANGED <<shared, iLinenum, tok, skip, history>>

(***************************************************************************)
(* The end of basic_interpreter.                                           *)
(***************************************************************************)
PublishIdle(t) ==
  /\ pc[t] = "leave"
  /\ state' = "IDLE_R"
  /\ Goto(t, "exit")
  /\ UNCHANGED <<seq, handle, prog_mode, execute_direction, is_abort, is_paused,
                 iLineNum, prog, permitted, iLinenum, tok, skip, history>>

DropHandle(t) ==
  /\ pc[t] = "exit"
  /\ handle' = handle \ {t}
  /\ Goto(t, "gone")
  /\ UNCHANGED <<state, seq, prog_mode, execute_direction, is_abort, is_paused,
                 iLineNum, prog, permitted, iLinenum, tok, skip, history>>

ThreadStep(t) ==
  \/ LoadProgram(t) \/ EnterMain(t)
  \/ StepPause(t) \/ StepPauseSetLine(t) \/ StepLeftPaused(t) \/ StepGo(t)
  \/ StepPass(t) \/ GetToken(t) \/ PollPass(t)
  \/ ExecPlain(t) \/ ExecFault(t) \/ ExecEnd(t) \/ ExecTorn(t) \/ ExecAbort(t)
  \/ ExecPause(t) \/ PauseMark(t) \/ PauseLeft(t)
  \/ ExecMotion(t) \/ SetInstruction(t) \/ TakePermission(t)
  \/ MotionWrite(t) \/ MotionDone(t)
  \/ PublishIdle(t) \/ DropHandle(t)
=============================================================================
