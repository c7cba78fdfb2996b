------------------------- MODULE ThreadControlBlock -------------------------
(***************************************************************************)
(* The memory the command loop of the interpreter (int_main.cpp,           *)
(* inter_control.cpp) shares with the threads that run BASIC programs      *)
(* (basint.cpp, innercmd.cpp): one thread_control_block per slot, the      *)
(* table of thread handles, the published InterpreterState and             *)
(* g_iCurrentThreadSeq.  None of it is protected by a lock.                *)
(*                                                                         *)
(* A program is abstracted to one statement kind per source line; a        *)
(* program pointer to a line and a place in it.                            *)
(***************************************************************************)
EXTENDS Integers, FiniteSets

CONSTANTS
  NUM_THREAD,   \* slots of g_thread_control_block
  LastLine,     \* lines of the program every thread runs
  Stmt,         \* kind of the statement on each line
  Succ,         \* where a "logic" statement (IF, WHILE, FOR...) leaves prog
  JumpLines,    \* what getLineNumFromXPathVector may answer to a JUMP
  StepModes,    \* step_mode of a SWITCH_STEP as parseCtrlComand sees it
  Requests,     \* the commands the server passes on
  MaxSeq,       \* bound: no START or DEBUG takes the sequence past it
  ShmAttached   \* readShm and writeShm reach the controller's memory

Lines == 1 .. LastLine

Kinds == {"sub", "common", "nop", "logic", "motion", "pause", "abort",
          "fault", "end", "blank", "comment"}

Commands == {"LOAD", "START", "DEBUG", "JUMP", "SWITCH_STEP", "FORWARD",
             "BACKWARD", "CONTINUE", "PAUSE", "ABORT", "OTHER"}

ProgModes == {"FULL_MODE", "STEP_MODE", "ERROR_MODE"}

States == {"IDLE_R", "EXECUTE_R", "PAUSED_R",
           "EXECUTE_TO_PAUSE_T", "PAUSE_TO_IDLE_T"}

Threads == 0 .. NUM_THREAD - 1

ASSUME ThreadsAssumption == NUM_THREAD \in Nat \ {0} /\ MaxSeq \in -1 .. NUM_THREAD
\* Line 1 is SUB main; the program is left by its END SUB.
ASSUME ProgramAssumption ==
  /\ LastLine \in Nat \ {0, 1}
  /\ Stmt \in [Lines -> Kinds]
  /\ Succ \in [Lines -> SUBSET [line : Lines, pos : {"start", "tail"}]]
  /\ \A l \in Lines : Stmt[l] = "logic" => Succ[l] # {}
ASSUME RequestsAssumption ==
  /\ Requests \subseteq Commands
  /\ JumpLines \subseteq -1 .. LastLine
  /\ StepModes \subseteq {"FULL_MODE", "STEP_MODE"}
  /\ ShmAttached \in BOOLEAN

(***************************************************************************)
(* Program pointers.  "start" is the first character of a line, "inside"   *)
(* behind the first token of a line, where the dispatch of call_interpreter*)
(* stands, "tail" before its newline, "mid" any other place in the line.   *)
(* Line LastLine + 1 is the '\0' behind the program.                       *)
(***************************************************************************)
Positions == [line : 1 .. LastLine + 1, pos : {"start", "inside", "tail", "mid"}]

At(l) == [line |-> l, pos |-> "start"]

\* p_buf
ProgramStart == At(1)

FindEol(p) == IF p.line > LastLine THEN p ELSE At(p.line + 1)

\* calc_line_from_prog: the first line the pointer is not behind, 0 at the end
CalcLine(p) == IF p.line > LastLine THEN 0 ELSE p.line

\* No character before the next newline: call_interpreter does not stop here.
IsEmptyAt(p) ==
  \/ p.line > LastLine
  \/ p.pos = "tail"
  \/ p.pos = "start" /\ Stmt[p.line] = "blank"

VARIABLES
  state,             \* g_privateInterpreterState
  seq,               \* g_iCurrentThreadSeq
  handle,            \* slots whose g_basic_interpreter_handle is not 0
  prog_mode, execute_direction, is_abort, is_paused, iLineNum,
  prog,              \* the blocks' fields
  permitted          \* ctrl_status.is_permitted

shared == <<state, seq, handle, prog_mode, execute_direction, is_abort,
            is_paused, iLineNum, prog, permitted>>

\* What a thread keeps to itself: where it is, its local iLinenum, the token
\* it last read (0: none, LastLine + 1: FINISHED) and isExecuteEmptyLine.
VARIABLES pc, iLinenum, tok, skip

local == <<pc, iLinenum, tok, skip>>

FINISHED == LastLine + 1

PCs == {"none", "load", "main", "top", "stepSet", "stepWait", "stepGo", "read",
        "poll", "exec", "motion", "motionTake", "motionWrite", "motionWait",
        "pauseMark", "pauseWait", "leave", "exit", "gone"}

(***************************************************************************)
(* History, read by the properties only.                                   *)
(*   aborting  an ABORT of the thread: "early" while it was loading,       *)
(*             "armed", and "spent" once a statement began after it        *)
(*   pausing   the same for a PAUSE that nobody resumed yet                *)
(*   stepping  "yes" once a statement began in STEP_MODE after the last    *)
(*             command that let the thread go, "empty" once an empty line, *)
(*             a comment or the rest of a line was passed behind it        *)
(*   grant     the last command that let the thread leave a pause          *)
(***************************************************************************)
VARIABLES aborting, pausing, stepping, grant

history == <<aborting, pausing, stepping, grant>>
=============================================================================
