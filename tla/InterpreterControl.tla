------------------------- MODULE InterpreterControl -------------------------
(***************************************************************************)
(* The interpreter process: the command loop of int_main.cpp, which serves *)
(* the requests of its clients one after the other, together with the      *)
(* program threads it starts and the motion controller that permits moves. *)
(***************************************************************************)
EXTENDS CallInterpreter, ParseCtrlComand

VARIABLES
  cmd,      \* intprt_ctrl.cmd
  served    \* history: cmd is a request that was already carried out

loop == <<cmd, served>>

vars == <<shared, local, history, mainLocal, loop>>

Init ==
  /\ state = "IDLE_R" /\ seq = -1 /\ handle = {} /\ permitted = FALSE
  /\ prog_mode = [t \in Threads |-> "FULL_MODE"]
  /\ execute_direction = [t \in Threads |-> "FORWARD"]
  /\ is_abort = [t \in Threads |-> FALSE]
  /\ is_paused = [t \in Threads |-> FALSE]
  /\ iLineNum = [t \in Threads |-> 0]
  /\ prog = [t \in Threads |-> ProgramStart]
  /\ pc = [t \in Threads |-> "none"]
  /\ iLinenum = [t \in Threads |-> 0]
  /\ tok = [t \in Threads |-> 0]
  /\ skip = [t \in Threads |-> FALSE]
  /\ aborting = [t \in Threads |-> "no"]
  /\ stepping = [t \in Threads |-> "no"]
  /\ grant = [t \in Threads |-> "none"]
  /\ pausing = "no"
  /\ mpc = "loop" /\ mline = 0 /\ lastCmd = "OTHER"
  /\ cmd = "START" /\ served = FALSE

\* One request of the list main popped.
ServeRequest(c) ==
  /\ Parse(c)
  /\ cmd' = c /\ served' = TRUE

\* A pass that found no request parses intprt_ctrl again, whatever it holds.
IdlePass ==
  /\ Parse(cmd)
  /\ cmd' = "LOAD" /\ served' = FALSE

FinishCommand == CommandStep /\ UNCHANGED loop

RunThread(t) == ThreadStep(t) /\ UNCHANGED <<mainLocal, loop>>

\* The controller, through shared memory the process may not be attached to.
PermitMotion ==
  /\ ShmAttached /\ ~permitted
  /\ permitted' = TRUE
  /\ UNCHANGED <<state, seq, handle, prog_mode, execute_direction, is_abort,
                 is_paused, iLineNum, prog, local, history, mainLocal, loop>>

Next ==
  \/ \E c \in Requests : ServeRequest(c)
  \/ IdlePass
  \/ FinishCommand
  \/ \E t \in Threads : RunThread(t)
  \/ PermitMotion

Spec == Init /\ [][Next]_vars

(***************************************************************************)
(* The scheduler runs every thread and the main loop; the controller       *)
(* permits moves when it is there.  Nothing makes clients send requests,   *)
(* and nothing makes the list of requests empty.                           *)
(***************************************************************************)
Fairness ==
  /\ \A t \in Threads : WF_vars(RunThread(t))
  /\ WF_vars(FinishCommand)
  /\ WF_vars(PermitMotion)

FairSpec == Spec /\ Fairness

-----------------------------------------------------------------------------
(***************************************************************************)
(* Properties                                                              *)
(***************************************************************************)
\* The type invariant: iLineNum stays between -1 (BACKWARD at the end of the
\* program) and the line behind the program, the sequence inside MaxSeq.
TypeOK ==
  /\ state \in States /\ seq \in -1 .. NUM_THREAD
  /\ handle \subseteq Threads /\ permitted \in BOOLEAN
  /\ prog_mode \in [Threads -> ProgModes]
  /\ execute_direction \in [Threads -> {"FORWARD", "BACKWARD"}]
  /\ is_abort \in [Threads -> BOOLEAN] /\ is_paused \in [Threads -> BOOLEAN]
  /\ iLineNum \in [Threads -> -1 .. LastLine + 1]
  /\ prog \in [Threads -> Positions]
  /\ pc \in [Threads -> PCs]
  /\ iLinenum \in [Threads -> -1 .. LastLine + 1]
  /\ tok \in [Threads -> 0 .. LastLine + 1]
  /\ skip \in [Threads -> BOOLEAN]
  /\ aborting \in [Threads -> {"no", "early", "armed", "spent"}]
  /\ stepping \in [Threads -> {"no", "yes", "empty"}]
  /\ grant \in [Threads -> Commands \cup {"none"}]
  /\ pausing \in {"no", "armed", "spent"}
  /\ mpc \in MainPCs /\ mline \in 0 .. LastLine + 1
  /\ lastCmd \in {"FORWARD", "OTHER"}
  /\ cmd \in Commands /\ served \in BOOLEAN

\* The thread is about to dispatch a statement.
Begins(t) == pc[t] = "exec"

\* A loaded program that is told to ABORT begins at most one more statement,
\* whatever other commands and threads do (the abort check sits before the
\* pause poll, so the statement whose token was read still runs).
AbortBoundsRun == \A t \in Threads : aborting[t] = "spent" => ~Begins(t)

\* With a single program, at most one more statement begins between a PAUSE
\* and the next command that resumes the program, as long as no command switches
\* the mode: the thread cannot run past the poll, and the states the step gate
\* publishes over PAUSED_R do not let it.  Only in a step that a FORWARD has just
\* released the PAUSE is lost, and with it the statements that run on behind empty
\* lines in the same step.
PauseBoundsRun ==
  seq = 0 /\ pausing = "spent" /\ Begins(0)
  => prog_mode[0] = "STEP_MODE" /\ stepping[0] = "empty"

\* With a single program, a statement begins in STEP_MODE only when a FORWARD,
\* BACKWARD or CONTINUE was given after the one before it, or behind an empty
\* line or the rest of a line, until the program is told to ABORT.
\* (What it begins then AbortBoundsRun bounds; an ABORT that comes while the
\* program loads is lost, yet the states it publishes open the gate.)
Steps(t) == Begins(t) /\ prog_mode[t] = "STEP_MODE"

OneStatementPerStep ==
  seq = 0 /\ aborting[0] = "no" => (Steps(0) => stepping[0] # "yes")

\* No command but ABORT moves the program pointer under a statement that is
\* about to read its operands (JUMP finds no line, see JumpLines).
OnlyAbortTearsStatement ==
  \A t \in Threads : Begins(t) /\ ~Intact(t) => aborting[t] # "no"

\* An aborted program ends, unless a later command pauses it again: the poll
\* of PAUSED_R does not look at the abort flag.
AbortEnds ==
  \A t \in Threads :
    aborting[t] \in {"armed", "spent"} ~> (pc[t] = "gone" \/ state = "PAUSED_R")

\* With a single program in STEP_MODE, without empty lines, every step comes
\* back to the gate or to the end of the program, unless a PAUSE or an ABORT
\* came: the thread neither misses a released state nor runs on.
StepReturns ==
  pc[0] = "stepGo" ~> \/ pc[0] \in {"stepWait", "gone"}
                      \/ pausing # "no" \/ aborting[0] # "no"

(***************************************************************************)
(* What the sources say and the code does not do                           *)
(***************************************************************************)
\* inter_control.cpp:987 "Do nothing after it": no request starts a second
\* program in the pass that follows it.
OneProgramPerStart == [][served /\ ~served' => seq' = seq]_vars

\* The design document, section 5: in single-step mode the interpreter interprets
\* the one line the pointer is on and then waits for the user.
StepIsOneLine ==
  seq = 0 /\ aborting[0] = "no" => (Steps(0) => stepping[0] = "no")

\* inter_control.cpp:817 "Can not FORWARD in calling Pause": a PAUSE statement
\* is not left because of a FORWARD.
PauseStatementHolds ==
  [][\A t \in Threads :
       pc[t] = "pauseWait" /\ pc'[t] = "top" => grant[t] # "FORWARD"]_vars
=============================================================================
