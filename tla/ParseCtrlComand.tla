-------------------------- MODULE ParseCtrlComand --------------------------
(***************************************************************************)
(* parseCtrlComand: what each command does to the newest program, the one  *)
(* in slot seq.  It runs in the main thread, one command at a time, while  *)
(* the program threads run; a command that lets a thread see it half done  *)
(* is split into steps at mpc.  The mode that FORWARD, BACKWARD and PAUSE  *)
(* write just before the state is one step with it.  LOAD and the register *)
(* and I/O commands ("OTHER") leave this state alone.                      *)
(***************************************************************************)
EXTENDS ThreadControlBlock

VARIABLES
  mpc,       \* where the main thread is
  mline,     \* the local iLineNum of a command in progress
  lastCmd    \* only compared with FORWARD

mainLocal == <<mpc, mline, lastCmd>>

MainPCs == {"loop", "jump", "forward", "backward", "abortProg", "abortIdle", "wild"}

(***************************************************************************)
(* The guards most commands share.  They read is_paused and the state; the *)
(* thread may change both right after.                                     *)
(***************************************************************************)
HasBlock == seq \in Threads

Alive == HasBlock /\ seq \in handle

Steerable == Alive /\ ~is_paused[seq] /\ state # "EXECUTE_R"

\* The table prog_jmp_line is only whole once the program is loaded.
LineOf(t) == IF pc[t] \in {"none", "load"} THEN 0 .. LastLine ELSE {CalcLine(prog[t])}

Released(cmd) ==
  /\ grant' = [grant EXCEPT ![seq] = cmd]
  /\ stepping' = [stepping EXCEPT ![seq] = "no"]
  /\ pausing' = "no"
  /\ UNCHANGED aborting

Refused == UNCHANGED <<shared, local, history, mpc, mline>>

(***************************************************************************)
(* START and DEBUG: the next slot, its mode, the state, the thread.        *)
(* incCurrentThreadSeq lets the sequence reach NUM_THREAD: the block it    *)
(* then selects lies behind the array, and nothing is known after that.    *)
(***************************************************************************)
StartProgram(mode, published) ==
  /\ seq < MaxSeq
  /\ seq' = seq + 1
  /\ state' = published
  /\ pausing' = "no"
  /\ IF seq + 1 \in Threads
     THEN /\ prog_mode' = [prog_mode EXCEPT ![seq + 1] = mode]
          /\ execute_direction' = [execute_direction EXCEPT ![seq + 1] = "FORWARD"]
          /\ \/ \* pthread_create
                /\ handle' = handle \cup {seq + 1}
                /\ pc' = [pc EXCEPT ![seq + 1] = "load"]
             \/ \* it fails
                UNCHANGED <<handle, pc>>
          /\ mpc' = "loop"
     ELSE /\ mpc' = "wild"
          /\ UNCHANGED <<prog_mode, execute_direction, handle, pc>>
  /\ UNCHANGED <<is_abort, is_paused, iLineNum, prog, permitted, iLinenum, tok,
                 skip, aborting, stepping, grant, mline>>

(***************************************************************************)
(* JUMP to line n: iLineNum first, then the program pointer; the table is  *)
(* indexed from 0, so the pointer goes to the start of line n + 1.         *)
(***************************************************************************)
JumpTo(n) ==
  /\ Steerable /\ n > 0
  /\ iLineNum' = [iLineNum EXCEPT ![seq] = n]
  /\ mline' = n
  /\ mpc' = "jump"
  /\ UNCHANGED <<state, seq, handle, prog_mode, execute_direction, is_abort,
                 is_paused, prog, permitted, local, history>>

Jump ==
  \/ \E n \in JumpLines : JumpTo(n)
  \/ (~Steerable \/ \E n \in JumpLines : n <= 0) /\ Refused

JumpProg ==
  /\ mpc = "jump"
  /\ prog' = [prog EXCEPT ![seq] = At(mline + 1)]
  /\ mpc' = "loop"
  /\ UNCHANGED <<state, seq, handle, prog_mode, execute_direction, is_abort,
                 is_paused, iLineNum, permitted, local, history, mline, lastCmd>>

SwitchStep ==
  \/ /\ Alive
     /\ \E m \in StepModes :
          /\ prog_mode' = [prog_mode EXCEPT ![seq] = m]
          /\ stepping' = [stepping EXCEPT ![seq] = "no"]
     /\ UNCHANGED <<state, seq, handle, execute_direction, is_abort, is_paused,
                    iLineNum, prog, permitted, local, aborting, pausing, grant,
                    mpc, mline>>
  \/ ~Alive /\ Refused

(***************************************************************************)
(* FORWARD publishes EXECUTE_R first and sets the line afterwards.         *)
(***************************************************************************)
Forward ==
  \/ /\ Steerable
     /\ prog_mode' = [prog_mode EXCEPT ![seq] = "STEP_MODE"]
     /\ execute_direction' = [execute_direction EXCEPT ![seq] = "FORWARD"]
     /\ state' = "EXECUTE_R"
     /\ Released("FORWARD")
     /\ mpc' = "forward"
     /\ UNCHANGED <<seq, handle, is_abort, is_paused, iLineNum, prog, permitted,
                    local, mline>>
  \/ ~Steerable /\ Refused

ForwardSetLine ==
  /\ mpc = "forward"
  /\ \E l \in LineOf(seq) : iLineNum' = [iLineNum EXCEPT ![seq] = l]
  /\ mpc' = "loop"
  /\ UNCHANGED <<state, seq, handle, prog_mode, execute_direction, is_abort,
                 is_paused, prog, permitted, local, history, mline, lastCmd>>

(***************************************************************************)
(* BACKWARD right after FORWARD only moves iLineNum, to the line before the*)
(* program pointer, unless the pointer's line is control flow or an END.   *)
(* Otherwise it runs the line before iLineNum.                             *)
(***************************************************************************)
FirstLine == 2   \* PROGRAM_START_LINE_NUM

\* InstType LOGIC_TOK or END_TOK: the BASIC keywords, SUB and NOP among them.
IsLogic(l) == l \in Lines /\ Stmt[l] \in {"sub", "nop", "logic", "end"}

\* Line 0 reads prog_jmp_line[-1].
BackOneLine ==
  /\ Steerable /\ lastCmd = "FORWARD"
  /\ \E l \in LineOf(seq) :
       \/ (l = 0 \/ IsLogic(l)) /\ UNCHANGED iLineNum
       \/ ~IsLogic(l) /\ iLineNum' = [iLineNum EXCEPT ![seq] = l - 1]
  /\ UNCHANGED <<state, seq, handle, prog_mode, execute_direction, is_abort,
                 is_paused, prog, permitted, local, history, mpc, mline>>

\* Variant: without the check against the first line.
RunBackwardUnbounded ==
  /\ Steerable /\ lastCmd # "FORWARD"
  /\ prog_mode' = [prog_mode EXCEPT ![seq] = "STEP_MODE"]
  /\ execute_direction' = [execute_direction EXCEPT ![seq] = "BACKWARD"]
  /\ state' = "EXECUTE_R"
  /\ Released("BACKWARD")
  /\ mline' = iLineNum[seq]
  /\ mpc' = "backward"
  /\ UNCHANGED <<seq, handle, is_abort, is_paused, iLineNum, prog, permitted, local>>

RunBackward ==
  /\ Steerable /\ lastCmd # "FORWARD" /\ iLineNum[seq] >= FirstLine
  /\ prog_mode' = [prog_mode EXCEPT ![seq] = "STEP_MODE"]
  /\ execute_direction' = [execute_direction EXCEPT ![seq] = "BACKWARD"]
  /\ state' = "EXECUTE_R"
  /\ Released("BACKWARD")
  /\ mline' = iLineNum[seq]
  /\ mpc' = "backward"
  /\ UNCHANGED <<seq, handle, is_abort, is_paused, iLineNum, prog, permitted, local>>

Backward ==
  \/ BackOneLine
  \/ RunBackward
  \/ Steerable /\ lastCmd # "FORWARD" /\ iLineNum[seq] < FirstLine /\ Refused
  \/ ~Steerable /\ Refused

\* Variant: with the call of set_prog_from_line that is commented out.
BackwardSetProg ==
  /\ mpc = "backward"
  /\ iLineNum' = [iLineNum EXCEPT ![seq] = mline - 1]
  /\ prog' = [prog EXCEPT ![seq] = At(mline - 1)]
  /\ mpc' = "loop"
  /\ UNCHANGED <<state, seq, handle, prog_mode, execute_direction, is_abort,
                 is_paused, permitted, local, history, mline, lastCmd>>

BackwardSetLine ==
  /\ mpc = "backward"
  /\ iLineNum' = [iLineNum EXCEPT ![seq] = mline - 1]
  /\ mpc' = "loop"
  /\ UNCHANGED <<state, seq, handle, prog_mode, execute_direction, is_abort,
                 is_paused, prog, permitted, local, history, mline, lastCmd>>

(***************************************************************************)
(* CONTINUE and PAUSE.  In a manual user mode, which only the controller   *)
(* can set, PAUSE also switches to STEP_MODE.                              *)
(***************************************************************************)
Continue ==
  \/ /\ HasBlock /\ state = "PAUSED_R"
     /\ state' = "EXECUTE_R"
     /\ Released("CONTINUE")
     /\ UNCHANGED <<seq, handle, prog_mode, execute_direction, is_abort,
                    is_paused, iLineNum, prog, permitted, local, mpc, mline>>
  \/ ~(HasBlock /\ state = "PAUSED_R") /\ Refused

Pause ==
  \/ /\ HasBlock /\ state # "IDLE_R"
     /\ state' = "PAUSED_R"
     /\ pausing' = IF pausing = "no" THEN "armed" ELSE pausing
     /\ \/ UNCHANGED prog_mode
        \/ ShmAttached /\ prog_mode' = [prog_mode EXCEPT ![seq] = "STEP_MODE"]
     /\ UNCHANGED <<seq, handle, execute_direction, is_abort, is_paused,
                    iLineNum, prog, permitted, local, aborting, stepping, grant,
                    mpc, mline>>
  \/ ~(HasBlock /\ state # "IDLE_R") /\ Refused

(***************************************************************************)
(* ABORT: the flag, then the program pointer and a transient state, and    *)
(* IDLE_R a millisecond later whether or not the thread has stopped.       *)
(***************************************************************************)
Abort ==
  \/ /\ HasBlock
     /\ is_abort' = [is_abort EXCEPT ![seq] = TRUE]
     /\ aborting' = [aborting EXCEPT ![seq] =
                       IF pc[seq] \in {"none", "load"} THEN "early"
                       ELSE IF @ = "spent" THEN "spent" ELSE "armed"]
     /\ mpc' = "abortProg"
     /\ UNCHANGED <<state, seq, handle, prog_mode, execute_direction, is_paused,
                    iLineNum, prog, permitted, local, pausing, stepping, grant,
                    mline>>
  \/ ~HasBlock /\ Refused

AbortProg ==
  /\ mpc = "abortProg"
  /\ prog' = [prog EXCEPT ![seq] = ProgramStart]
  /\ state' = "PAUSE_TO_IDLE_T"
  /\ pausing' = "no"
  /\ mpc' = "abortIdle"
  /\ UNCHANGED <<seq, handle, prog_mode, execute_direction, is_abort, is_paused,
                 iLineNum, permitted, local, aborting, stepping, grant, mline,
                 lastCmd>>

AbortIdle ==
  /\ mpc = "abortIdle"
  /\ state' = "IDLE_R"
  /\ mpc' = "loop"
  /\ UNCHANGED <<seq, handle, prog_mode, execute_direction, is_abort, is_paused,
                 iLineNum, prog, permitted, local, history, mline, lastCmd>>

\* The second halves
CommandStep ==
  JumpProg \/ ForwardSetLine \/ BackwardSetLine \/ AbortProg \/ AbortIdle

Parse(c) ==
  /\ mpc = "loop"
  /\ lastCmd' = IF c = "FORWARD" THEN c ELSE "OTHER"
  /\ \/ c \in {"LOAD", "OTHER"} /\ Refused
     \/ c = "START" /\ StartProgram("FULL_MODE", "EXECUTE_R")
     \/ c = "DEBUG" /\ StartProgram("STEP_MODE", "PAUSED_R")
     \/ c = "JUMP" /\ Jump
     \/ c = "SWITCH_STEP" /\ SwitchStep
     \/ c = "FORWARD" /\ Forward
     \/ c = "BACKWARD" /\ Backward
     \/ c = "CONTINUE" /\ Continue
     \/ c = "PAUSE" /\ Pause
     \/ c = "ABORT" /\ Abort
=============================================================================
