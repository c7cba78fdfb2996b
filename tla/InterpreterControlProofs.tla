---------------------- MODULE InterpreterControlProofs ----------------------
(***************************************************************************)
(* For every number of slots, every program and every set of commands: the *)
(* variables keep their types, an aborted program begins at most one more  *)
(* statement, and only an ABORT moves the pointer under a statement.       *)
(***************************************************************************)
EXTENDS InterpreterControl, TLAPS

\* A command in progress works on a slot, with the line it read.
MainInv ==
  /\ mpc \in {"jump", "forward", "backward", "abortProg", "abortIdle"} => seq \in Threads
  /\ mpc = "jump" => mline \in 1 .. LastLine
  /\ mpc = "backward" => mline \in FirstLine .. LastLine + 1

\* The dispatch is only reached with the token of a statement.
ExecInv == \A t \in Threads : pc[t] = "exec" => tok[t] \in Lines

\* A slot that no START reached is untouched.
SlotInv == \A t \in Threads : t > seq => pc[t] = "none" /\ aborting[t] = "no"

\* Once a loaded program is told to abort, the flag stays up, and a thread that
\* has begun its last statement does not come back to the poll.
AbortInv ==
  \A t \in Threads :
    /\ aborting[t] \in {"armed", "spent"} => is_abort[t] /\ pc[t] \notin {"none", "load"}
    /\ aborting[t] = "spent" => pc[t] \notin {"main", "poll", "exec"}

IInv == TypeOK /\ MainInv /\ ExecInv /\ SlotInv /\ AbortInv

LEMMA LastLineNat == LastLine \in Nat /\ LastLine > 1
  BY ProgramAssumption

LEMMA PositionFacts ==
  ASSUME NEW p \in Positions
  PROVE  /\ CalcLine(p) \in 0 .. LastLine
         /\ FindEol(p) \in Positions
         /\ TokenAt(p) \in 0 .. LastLine + 1
         /\ BehindToken(p) \in Positions
  BY LastLineNat DEF Positions, CalcLine, FindEol, TokenAt, BehindToken, At, FINISHED

LEMMA AtFacts ==
  ASSUME NEW l \in 1 .. LastLine + 1
  PROVE  At(l) \in Positions
  BY DEF Positions, At

LEMMA InitInv == Init => IInv
  <1>0. ProgramStart \in Positions
    BY AtFacts, LastLineNat DEF ProgramStart
  <1>1. ASSUME Init PROVE TypeOK
    <2>1. seq \in -1 .. NUM_THREAD /\ mline \in 0 .. LastLine + 1
      BY <1>1, LastLineNat, ThreadsAssumption DEF Init
    <2>6. /\ state \in States /\ handle \subseteq Threads /\ permitted \in BOOLEAN
          /\ mpc \in MainPCs /\ cmd \in Commands /\ served \in BOOLEAN
      BY <1>1 DEF Init, States, MainPCs, Commands
    <2>2. /\ prog_mode \in [Threads -> ProgModes] /\ pc \in [Threads -> PCs]
          /\ prog \in [Threads -> Positions]
      BY <1>0, <1>1 DEF Init, ProgModes, PCs
    <2>3. /\ is_abort \in [Threads -> BOOLEAN] /\ is_paused \in [Threads -> BOOLEAN]
          /\ skip \in [Threads -> BOOLEAN]
      BY <1>1 DEF Init
    <2>4. /\ iLineNum \in [Threads -> -1 .. LastLine + 1]
          /\ iLinenum \in [Threads -> -1 .. LastLine + 1]
          /\ tok \in [Threads -> 0 .. LastLine + 1] /\ stepping \in [Threads -> {"no", "yes", "empty"}]
      BY <1>1, LastLineNat DEF Init
    <2>5. /\ execute_direction \in [Threads -> {"FORWARD", "BACKWARD"}]
          /\ aborting \in [Threads -> {"no", "early", "armed", "spent"}]
          /\ grant \in [Threads -> Commands \cup {"none"}]
          /\ pausing \in {"no", "armed", "spent"} /\ lastCmd \in {"FORWARD", "OTHER"}
      BY <1>1 DEF Init
    <2> QED BY <2>1, <2>2, <2>3, <2>4, <2>5, <2>6 DEF TypeOK
  <1>2. Init => MainInv /\ ExecInv /\ SlotInv /\ AbortInv
    BY DEF Init, MainInv, ExecInv, SlotInv, AbortInv
  <1> QED BY <1>1, <1>2 DEF IInv

\* What a statement's beginning does to the history.
LEMMA BeginFacts ==
  ASSUME TypeOK, NEW t \in Threads, Begin(t)
  PROVE  /\ aborting' \in [Threads -> {"no", "early", "armed", "spent"}]
         /\ stepping' \in [Threads -> {"no", "yes", "empty"}]
         /\ pausing' \in {"no", "armed", "spent"}
<1>1. aborting' \in [Threads -> {"no", "early", "armed", "spent"}]
  BY DEF Begin, Spend, TypeOK
<1>2. stepping' \in [Threads -> {"no", "yes", "empty"}]
  BY DEF Begin, TypeOK
<1>3. pausing' \in {"no", "armed", "spent"}
  BY DEF Begin, Spend, TypeOK
<1> QED BY <1>1, <1>2, <1>3

LEMMA ThreadType ==
  ASSUME TypeOK, ExecInv, NEW t \in Threads, RunThread(t)
  PROVE  TypeOK'
<1> USE DEF TypeOK, Goto, shared, local, history, mainLocal, loop, States, ProgModes, PCs
<1> USE LastLineNat
<1>0. ThreadStep(t) /\ UNCHANGED <<mainLocal, loop>>
  BY DEF RunThread
<1>1. CASE LoadProgram(t)
  <2>1. is_abort' \in [Threads -> BOOLEAN] /\ is_paused' \in [Threads -> BOOLEAN]
    BY <1>1 DEF LoadProgram
  <2>2. prog_mode' \in [Threads -> ProgModes]
    BY <1>1 DEF LoadProgram
  <2>3. pc' \in [Threads -> PCs]
    BY <1>1 DEF LoadProgram
  <2> QED BY <1>0, <1>1, <2>1, <2>2, <2>3 DEF LoadProgram
<1>2. CASE EnterMain(t)
  <2>1. prog' \in [Threads -> Positions]
    BY <1>2 DEF EnterMain, Positions
  <2>2. prog_mode' \in [Threads -> ProgModes] /\ skip' \in [Threads -> BOOLEAN]
    BY <1>2 DEF EnterMain
  <2>3. /\ iLineNum' \in [Threads -> -1 .. LastLine + 1]
        /\ iLinenum' \in [Threads -> -1 .. LastLine + 1]
    BY <1>2 DEF EnterMain
  <2>4. pc' \in [Threads -> PCs]
    BY <1>2 DEF EnterMain
  <2> QED BY <1>0, <1>2, <2>1, <2>2, <2>3, <2>4 DEF EnterMain
<1>3. CASE StepPause(t) BY <1>0, <1>3 DEF StepPause
<1>4. CASE StepPauseSetLine(t) BY <1>0, <1>4 DEF StepPauseSetLine
<1>5. CASE StepLeftPaused(t)
  <2>1. iLineNum[t] \in -1 .. LastLine + 1
    OBVIOUS
  <2>2. prog' \in [Threads -> Positions] /\ state' \in States
    <3>1. iLineNum[t] > 0 => At(iLineNum[t]) \in Positions
      BY <2>1, AtFacts
    <3> QED BY <1>5, <3>1 DEF StepLeftPaused
  <2>3. iLinenum' \in [Threads -> -1 .. LastLine + 1]
    BY <1>5, <2>1 DEF StepLeftPaused
  <2>4. pc' \in [Threads -> PCs]
    BY <1>5 DEF StepLeftPaused
  <2> QED BY <1>0, <1>5, <2>2, <2>3, <2>4 DEF StepLeftPaused
<1>6. CASE StepGo(t) BY <1>0, <1>6 DEF StepGo
<1>7. CASE StepPass(t) BY <1>0, <1>7 DEF StepPass
<1>8. CASE GetToken(t) BY <1>0, <1>8, PositionFacts DEF GetToken, AfterToken
<1>9. CASE PollPass(t)
  <2>1. CalcLine(prog[t]) \in 0 .. LastLine
    BY PositionFacts
  <2>2. /\ iLineNum' \in [Threads -> -1 .. LastLine + 1]
        /\ iLinenum' \in [Threads -> -1 .. LastLine + 1]
    BY <1>9, <2>1 DEF PollPass
  <2>3. skip' \in [Threads -> BOOLEAN]
    BY <1>9 DEF PollPass, ExecuteEmpty
  <2>4. pc' \in [Threads -> PCs] /\ stepping' \in [Threads -> {"no", "yes", "empty"}]
    BY <1>9 DEF PollPass
  <2> QED BY <1>0, <1>9, <2>2, <2>3, <2>4 DEF PollPass
<1>10. CASE ExecPlain(t)
  <2>1. tok[t] \in Lines
    BY <1>10 DEF ExecPlain, Dispatch, ExecInv
  <2>2. prog' \in [Threads -> Positions]
    <3>1. /\ Succ[tok[t]] \subseteq [line : Lines, pos : {"start", "tail"}]
          /\ FindEol(prog[t]) \in Positions
      BY <2>1, PositionFacts, ProgramAssumption
    <3>2. [line : Lines, pos : {"start", "tail"}] \subseteq Positions
      BY DEF Lines, Positions
    <3> QED BY <1>10, <3>1, <3>2 DEF ExecPlain
  <2>3. iLineNum' \in [Threads -> -1 .. LastLine + 1]
    <3>1. iLineNum[t] \in -1 .. LastLine + 1
      OBVIOUS
    <3> QED BY <1>10, <3>1 DEF ExecPlain
  <2>4. Begin(t)
    BY <1>10 DEF ExecPlain, Dispatch
  <2> QED BY <1>0, <1>10, <2>2, <2>3, <2>4, BeginFacts DEF ExecPlain
<1>11. CASE ExecFault(t)
  <2>1. prog' \in [Threads -> Positions]
    <3>1. [prog[t] EXCEPT !.pos = "mid"] \in Positions
      BY DEF Positions
    <3> QED BY <1>11, <3>1 DEF ExecFault
  <2> QED BY <1>0, <1>11, <2>1, BeginFacts DEF ExecFault, Dispatch
<1>12. CASE ExecEnd(t) BY <1>0, <1>12, BeginFacts DEF ExecEnd, Dispatch
<1>13. CASE ExecTorn(t)
  <2>1. prog' \in [Threads -> Positions] /\ prog_mode' \in [Threads -> ProgModes]
    BY <1>13 DEF ExecTorn
  <2>2. pc' \in [Threads -> PCs]
    BY <1>13 DEF ExecTorn
  <2>3. Begin(t)
    BY <1>13 DEF ExecTorn, Dispatch
  <2> QED BY <1>0, <1>13, <2>1, <2>2, <2>3, BeginFacts DEF ExecTorn
<1>14. CASE ExecAbort(t) BY <1>0, <1>14, BeginFacts DEF ExecAbort, Dispatch
<1>15. CASE ExecPause(t) BY <1>0, <1>15, BeginFacts DEF ExecPause, Dispatch
<1>16. CASE PauseMark(t) BY <1>0, <1>16 DEF PauseMark
<1>17. CASE PauseLeft(t) BY <1>0, <1>17, PositionFacts DEF PauseLeft
<1>18. CASE ExecMotion(t) BY <1>0, <1>18, BeginFacts, PositionFacts DEF ExecMotion, Dispatch
<1>19. CASE SetInstruction(t) BY <1>0, <1>19 DEF SetInstruction
<1>20. CASE TakePermission(t) BY <1>0, <1>20 DEF TakePermission
<1>21. CASE MotionWrite(t) BY <1>0, <1>21 DEF MotionWrite
<1>22. CASE MotionDone(t) BY <1>0, <1>22 DEF MotionDone
<1>23. CASE PublishIdle(t) BY <1>0, <1>23 DEF PublishIdle
<1>24. CASE DropHandle(t) BY <1>0, <1>24 DEF DropHandle
<1> QED
  BY <1>0, <1>1, <1>2, <1>3, <1>4, <1>5, <1>6, <1>7, <1>8, <1>9, <1>10, <1>11,
     <1>12, <1>13, <1>14, <1>15, <1>16, <1>17, <1>18, <1>19, <1>20, <1>21, <1>22,
     <1>23, <1>24 DEF ThreadStep

\* Every command keeps the types; the two loops differ only in what they leave
\* in cmd.
LEMMA ParseType ==
  ASSUME IInv, NEW c \in Commands, Parse(c),
         cmd' \in Commands, served' \in BOOLEAN
  PROVE  TypeOK'
<1> USE LastLineNat
    DEF IInv, TypeOK, shared, local, history, mainLocal, States, ProgModes, PCs, MainPCs
<1>0. lastCmd' \in {"FORWARD", "OTHER"} /\ mpc = "loop"
  BY DEF Parse
<1>1. CASE Refused BY <1>0, <1>1 DEF Refused
<1>2. ASSUME NEW mode \in ProgModes, NEW st \in States, StartProgram(mode, st)
      PROVE  TypeOK'
  <2>1. seq' \in -1 .. NUM_THREAD
    BY <1>2, ThreadsAssumption DEF StartProgram
  <2>2. handle' \subseteq Threads
    BY <1>2 DEF StartProgram
  <2>3. prog_mode' \in [Threads -> ProgModes] /\ pc' \in [Threads -> PCs]
    BY <1>2 DEF StartProgram
  <2>4. execute_direction' \in [Threads -> {"FORWARD", "BACKWARD"}]
    BY <1>2 DEF StartProgram
  <2> QED BY <1>0, <1>2, <2>1, <2>2, <2>3, <2>4 DEF StartProgram
<1>3. CASE Jump
  <2>1. ASSUME NEW n \in JumpLines, JumpTo(n)
        PROVE  TypeOK'
    <3>1. n \in 1 .. LastLine
      BY <2>1, RequestsAssumption DEF JumpTo
    <3>2. n \in -1 .. LastLine + 1 /\ mline' \in 0 .. LastLine + 1
      BY <2>1, <3>1 DEF JumpTo
    <3>3. iLineNum' \in [Threads -> -1 .. LastLine + 1]
      BY <2>1, <3>2 DEF JumpTo
    <3> QED BY <1>0, <2>1, <3>2, <3>3 DEF JumpTo
  <2> QED BY <1>1, <1>3, <2>1 DEF Jump
<1>4. CASE SwitchStep
  <2>1. ASSUME ~Refused
        PROVE  TypeOK'
    <3>1. prog_mode' \in [Threads -> ProgModes]
      BY <1>4, <2>1, RequestsAssumption DEF SwitchStep
    <3>2. stepping' \in [Threads -> {"no", "yes", "empty"}]
      BY <1>4, <2>1 DEF SwitchStep
    <3> QED BY <1>0, <1>4, <2>1, <3>1, <3>2 DEF SwitchStep
  <2> QED BY <1>1, <2>1
<1>5. CASE Forward
  <2>1. ASSUME ~Refused
        PROVE  TypeOK'
    <3>1. stepping' \in [Threads -> {"no", "yes", "empty"}] /\ grant' \in [Threads -> Commands \cup {"none"}]
      BY <1>5, <2>1 DEF Forward, Released, Commands
    <3> QED BY <1>0, <1>5, <2>1, <3>1 DEF Forward, Released
  <2> QED BY <1>1, <2>1
<1>6. CASE Backward
  <2>1. CASE BackOneLine
    <3>1. \A l \in LineOf(seq) : l \in 0 .. LastLine
      BY <2>1, PositionFacts DEF LineOf, BackOneLine, Steerable, Alive, HasBlock
    <3>2. iLineNum' \in [Threads -> -1 .. LastLine + 1]
      BY <2>1, <3>1 DEF BackOneLine
    <3> QED BY <1>0, <2>1, <3>2 DEF BackOneLine
  <2>2. CASE RunBackward
    <3>1. stepping' \in [Threads -> {"no", "yes", "empty"}]
      <4>1. stepping' = [stepping EXCEPT ![seq] = "no"]
        BY <2>2 DEF RunBackward, Released
      <4>2. stepping \in [Threads -> {"no", "yes", "empty"}]
        OBVIOUS
      <4>3. seq \in Threads
        BY <2>2 DEF RunBackward, Steerable, Alive, HasBlock
      <4> QED BY <4>1, <4>2, <4>3
    <3>2. grant' \in [Threads -> Commands \cup {"none"}]
      BY <2>2 DEF RunBackward, Released, Commands
    <3>3. mline' \in 0 .. LastLine + 1
      BY <2>2 DEF RunBackward, Steerable, Alive, HasBlock, FirstLine
    <3> QED BY <1>0, <2>2, <3>1, <3>2, <3>3 DEF RunBackward, Released
  <2> QED BY <1>1, <1>6, <2>1, <2>2 DEF Backward
<1>7. CASE Continue
  <2>1. ASSUME ~Refused
        PROVE  TypeOK'
    <3>1. stepping' \in [Threads -> {"no", "yes", "empty"}] /\ grant' \in [Threads -> Commands \cup {"none"}]
      BY <1>7, <2>1 DEF Continue, Released, Commands
    <3> QED BY <1>0, <1>7, <2>1, <3>1 DEF Continue, Released
  <2> QED BY <1>1, <2>1
<1>8. CASE Pause
  <2>1. ASSUME ~Refused
        PROVE  TypeOK'
    <3>1. stepping' \in [Threads -> {"no", "yes", "empty"}] /\ prog_mode' \in [Threads -> ProgModes]
      BY <1>8, <2>1 DEF Pause
    <3>2. pausing' \in {"no", "armed", "spent"}
      BY <1>8, <2>1 DEF Pause
    <3> QED BY <1>0, <1>8, <2>1, <3>1, <3>2 DEF Pause
  <2> QED BY <1>1, <2>1
<1>9. CASE Abort
  <2>1. ASSUME ~Refused
        PROVE  TypeOK'
    <3>1. aborting' \in [Threads -> {"no", "early", "armed", "spent"}]
      BY <1>9, <2>1 DEF Abort
    <3>2. is_abort' \in [Threads -> BOOLEAN]
      BY <1>9, <2>1 DEF Abort
    <3>3. /\ mpc' = "abortProg"
          /\ UNCHANGED <<state, seq, handle, prog_mode, execute_direction, is_paused,
                         iLineNum, prog, permitted, local, pausing, stepping, grant, mline>>
      BY <1>9, <2>1 DEF Abort
    <3> QED BY <1>0, <3>1, <3>2, <3>3
  <2> QED BY <1>1, <2>1
<1> QED
  BY <1>1, <1>2, <1>3, <1>4, <1>5, <1>6, <1>7, <1>8, <1>9 DEF Parse

LEMMA FinishType ==
  ASSUME IInv, FinishCommand
  PROVE  TypeOK'
<1> USE LastLineNat
    DEF IInv, TypeOK, shared, local, history, mainLocal, loop, States, MainPCs
<1>0. CommandStep /\ UNCHANGED loop
  BY DEF FinishCommand
<1>1. CASE JumpProg
  <2>1. At(mline + 1) \in Positions
    BY <1>1, AtFacts DEF JumpProg, MainInv
  <2> QED BY <1>0, <1>1, <2>1 DEF JumpProg
<1>2. CASE ForwardSetLine
  <2>1. \A l \in LineOf(seq) : l \in 0 .. LastLine
    BY <1>2, PositionFacts DEF LineOf, ForwardSetLine, MainInv
  <2>2. iLineNum' \in [Threads -> -1 .. LastLine + 1]
    <3>1. PICK l \in LineOf(seq) : iLineNum' = [iLineNum EXCEPT ![seq] = l]
      BY <1>2 DEF ForwardSetLine
    <3>2. l \in -1 .. LastLine + 1
      BY <2>1, <3>1
    <3> QED BY <3>1, <3>2
  <2> QED BY <1>0, <1>2, <2>2 DEF ForwardSetLine
<1>3. CASE BackwardSetLine
  <2>1. mline - 1 \in 1 .. LastLine
    BY <1>3 DEF BackwardSetLine, MainInv, FirstLine
  <2>2. iLineNum' \in [Threads -> -1 .. LastLine + 1]
    <3>1. mline - 1 \in -1 .. LastLine + 1
      BY <2>1
    <3> QED BY <1>3, <3>1 DEF BackwardSetLine
  <2> QED BY <1>0, <1>3, <2>2 DEF BackwardSetLine
<1>4. CASE AbortProg
  <2>1. ProgramStart \in Positions
    BY AtFacts DEF ProgramStart
  <2> QED BY <1>0, <1>4, <2>1 DEF AbortProg
<1>5. CASE AbortIdle BY <1>0, <1>5 DEF AbortIdle
<1> QED BY <1>0, <1>1, <1>2, <1>3, <1>4, <1>5 DEF CommandStep

\* A thread's step keeps the rest of the invariant.
LEMMA ThreadInv ==
  ASSUME IInv, NEW t \in Threads, RunThread(t)
  PROVE  MainInv' /\ ExecInv' /\ SlotInv' /\ AbortInv'
<1> USE DEF IInv, TypeOK, MainInv, ExecInv, SlotInv, AbortInv, Goto, shared, local, history,
            mainLocal, loop
<1>0. ThreadStep(t) /\ UNCHANGED <<mainLocal, loop>>
  BY DEF RunThread
<1>1. CASE LoadProgram(t) BY <1>0, <1>1 DEF LoadProgram
<1>2. CASE EnterMain(t) BY <1>0, <1>2 DEF EnterMain
<1>3. CASE StepPause(t) BY <1>0, <1>3 DEF StepPause
<1>4. CASE StepPauseSetLine(t) BY <1>0, <1>4 DEF StepPauseSetLine
<1>5. CASE StepLeftPaused(t) BY <1>0, <1>5 DEF StepLeftPaused
<1>6. CASE StepGo(t) BY <1>0, <1>6 DEF StepGo
<1>7. CASE StepPass(t) BY <1>0, <1>7 DEF StepPass
<1>8. CASE GetToken(t) BY <1>0, <1>8 DEF GetToken, AfterToken
<1>9. CASE PollPass(t) BY <1>0, <1>9 DEF PollPass, Lines, FINISHED
<1>10. CASE ExecPlain(t) BY <1>0, <1>10 DEF ExecPlain, Dispatch, Begin, Spend
<1>11. CASE ExecFault(t) BY <1>0, <1>11 DEF ExecFault, Dispatch, Begin, Spend
<1>12. CASE ExecEnd(t) BY <1>0, <1>12 DEF ExecEnd, Dispatch, Begin, Spend
<1>13. CASE ExecTorn(t) BY <1>0, <1>13 DEF ExecTorn, Dispatch, Begin, Spend
<1>14. CASE ExecAbort(t) BY <1>0, <1>14 DEF ExecAbort, Dispatch, Begin, Spend
<1>15. CASE ExecPause(t) BY <1>0, <1>15 DEF ExecPause, Dispatch, Begin, Spend
<1>16. CASE PauseMark(t) BY <1>0, <1>16 DEF PauseMark
<1>17. CASE PauseLeft(t) BY <1>0, <1>17 DEF PauseLeft
<1>18. CASE ExecMotion(t) BY <1>0, <1>18 DEF ExecMotion, Dispatch, Begin, Spend
<1>19. CASE SetInstruction(t) BY <1>0, <1>19 DEF SetInstruction
<1>20. CASE TakePermission(t) BY <1>0, <1>20 DEF TakePermission
<1>21. CASE MotionWrite(t) BY <1>0, <1>21 DEF MotionWrite
<1>22. CASE MotionDone(t) BY <1>0, <1>22 DEF MotionDone
<1>23. CASE PublishIdle(t) BY <1>0, <1>23 DEF PublishIdle
<1>24. CASE DropHandle(t) BY <1>0, <1>24 DEF DropHandle
<1> QED
  BY <1>0, <1>1, <1>2, <1>3, <1>4, <1>5, <1>6, <1>7, <1>8, <1>9, <1>10,
     <1>11, <1>12, <1>13, <1>14, <1>15, <1>16, <1>17, <1>18, <1>19, <1>20,
     <1>21, <1>22, <1>23, <1>24 DEF ThreadStep

LEMMA ParseInv ==
  ASSUME IInv, NEW c \in Commands, Parse(c)
  PROVE  MainInv' /\ ExecInv' /\ SlotInv' /\ AbortInv'
<1> USE DEF IInv, TypeOK, MainInv, ExecInv, SlotInv, AbortInv, shared, local, history
<1>0. mpc = "loop"
  BY DEF Parse
<1>1. CASE Refused BY <1>0, <1>1 DEF Refused
<1>2. ASSUME NEW mode, NEW st, StartProgram(mode, st)
      PROVE  MainInv' /\ ExecInv' /\ SlotInv' /\ AbortInv'
  <2>1. seq \in Int /\ seq' = seq + 1 /\ Threads \subseteq Int
    BY <1>2 DEF StartProgram, Threads
  <2>2. seq + 1 \in Threads => aborting[seq + 1] = "no" /\ pc[seq + 1] = "none"
    BY <2>1
  <2>3. \A u \in Threads : u > seq' => u > seq
    BY <2>1
  <2>4. \A u \in Threads : pc'[u] # pc[u] => u = seq + 1 /\ pc'[u] = "load"
    BY <1>2 DEF StartProgram
  <2>5. UNCHANGED <<aborting, is_abort, tok, mline>> /\ mpc' \in {"loop", "wild"}
    BY <1>2 DEF StartProgram
  <2>6. ~(seq + 1 > seq')
    BY <2>1
  <2> QED BY <2>1, <2>2, <2>3, <2>4, <2>5, <2>6
<1>3. CASE Jump
  <2>1. ASSUME NEW n \in JumpLines, JumpTo(n)
        PROVE  MainInv' /\ ExecInv' /\ SlotInv' /\ AbortInv'
    <3>1. n \in 1 .. LastLine
      BY <2>1, RequestsAssumption, LastLineNat DEF JumpTo
    <3> QED BY <1>0, <2>1, <3>1 DEF JumpTo, Steerable, Alive, HasBlock
  <2> QED BY <1>1, <1>3, <2>1 DEF Jump
<1>4. CASE SwitchStep BY <1>0, <1>1, <1>4 DEF SwitchStep
<1>5. CASE Forward
  BY <1>0, <1>1, <1>5 DEF Forward, Released, Steerable, Alive, HasBlock
<1>6. CASE Backward
  <2>1. CASE BackOneLine BY <1>0, <2>1 DEF BackOneLine
  <2>2. CASE RunBackward
    <3>1. seq \in Threads /\ mpc' = "backward" /\ mline' = iLineNum[seq]
      BY <2>2 DEF RunBackward, Steerable, Alive, HasBlock
    <3>2. mline' \in FirstLine .. LastLine + 1
      BY <2>2, <3>1, LastLineNat DEF RunBackward, FirstLine
    <3> QED BY <2>2, <3>1, <3>2 DEF RunBackward, Released
  <2> QED BY <1>1, <1>6, <2>1, <2>2 DEF Backward
<1>7. CASE Continue BY <1>0, <1>1, <1>7 DEF Continue, Released
<1>8. CASE Pause BY <1>0, <1>1, <1>8 DEF Pause
<1>9. CASE Abort
  <2>1. ASSUME ~Refused
        PROVE  MainInv' /\ ExecInv' /\ SlotInv' /\ AbortInv'
    <3>1. seq \in Threads /\ ~(seq > seq)
      BY <1>9, <2>1 DEF Abort, HasBlock, Threads
    <3> QED BY <1>9, <2>1, <3>1 DEF Abort
  <2> QED BY <1>1, <2>1
<1> QED
  BY <1>1, <1>2, <1>3, <1>4, <1>5, <1>6, <1>7, <1>8, <1>9 DEF Parse

LEMMA FinishInv ==
  ASSUME IInv, FinishCommand
  PROVE  MainInv' /\ ExecInv' /\ SlotInv' /\ AbortInv'
<1> USE DEF IInv, MainInv, ExecInv, SlotInv, AbortInv, local, history
<1>1. CASE JumpProg BY <1>1 DEF JumpProg
<1>2. CASE ForwardSetLine BY <1>2 DEF ForwardSetLine
<1>3. CASE BackwardSetLine BY <1>3 DEF BackwardSetLine
<1>4. CASE AbortProg BY <1>4 DEF AbortProg
<1>5. CASE AbortIdle BY <1>5 DEF AbortIdle
<1> QED BY <1>1, <1>2, <1>3, <1>4, <1>5 DEF FinishCommand, CommandStep

\* The invariant holds in every reachable state.
THEOREM Invariance == Spec => []IInv
<1>1. ASSUME IInv, [Next]_vars
      PROVE  IInv'
  <2>1. ASSUME NEW c \in Requests, ServeRequest(c)
        PROVE  IInv'
    <3>1. c \in Commands /\ Parse(c) /\ cmd' \in Commands /\ served' \in BOOLEAN
      BY <2>1, RequestsAssumption DEF ServeRequest
    <3> QED BY <1>1, <3>1, ParseType, ParseInv DEF IInv
  <2>2. CASE IdlePass
    <3>1. cmd \in Commands /\ Parse(cmd) /\ cmd' \in Commands /\ served' \in BOOLEAN
      BY <1>1, <2>2 DEF IdlePass, IInv, TypeOK, Commands
    <3> QED BY <1>1, <3>1, ParseType, ParseInv DEF IInv
  <2>3. CASE FinishCommand
    BY <1>1, <2>3, FinishType, FinishInv DEF IInv
  <2>4. ASSUME NEW t \in Threads, RunThread(t)
        PROVE  IInv'
    BY <1>1, <2>4, ThreadType, ThreadInv DEF IInv
  <2>5. CASE PermitMotion
    BY <1>1, <2>5 DEF PermitMotion, IInv, TypeOK, MainInv, ExecInv, SlotInv, AbortInv,
                      local, history, mainLocal, loop
  <2>6. CASE UNCHANGED vars
    BY <1>1, <2>6 DEF vars, IInv, TypeOK, MainInv, ExecInv, SlotInv, AbortInv,
                      shared, local, history, mainLocal, loop
  <2> QED BY <1>1, <2>1, <2>2, <2>3, <2>4, <2>5, <2>6 DEF Next
<1> QED BY <1>1, InitInv, PTL DEF Spec

\* The variables keep their types, for any number of slots and any program.
THEOREM TypeCorrect == Spec => []TypeOK
  BY Invariance, PTL DEF IInv

\* An aborted program begins at most one more statement, whatever the number of
\* programs, their statements and the commands that follow.
THEOREM AbortBounds == Spec => []AbortBoundsRun
<1>1. IInv => AbortBoundsRun
  BY DEF IInv, AbortInv, AbortBoundsRun, Begins
<1> QED BY <1>1, Invariance, PTL

-----------------------------------------------------------------------------
(***************************************************************************)
(* Where the program pointer stands while nobody told the program to ABORT,*)
(* when no JUMP finds its line and no statement fails: a statement that    *)
(* fails leaves the pointer in the middle of its line, and a FORWARD lets  *)
(* the program run on from there.                                          *)
(***************************************************************************)
NoJump == JumpLines \subseteq -1 .. 0

NoFault == \A l \in Lines : Stmt[l] # "fault"

Between == {"top", "stepSet", "stepWait", "stepGo", "read",
            "motion", "motionTake", "motionWrite", "motionWait"}

AtStatement == {"poll", "exec", "pauseMark", "pauseWait"}

\* Between two statements the pointer is at the start of a line or before its newline,
\* in a statement right behind the token that was read.
Placed(u) ==
  /\ pc[u] \in Between => prog[u].pos \in {"start", "tail"}
  /\ pc[u] = "poll" /\ tok[u] = 0 => prog[u].pos \in {"start", "tail"}
  /\ pc[u] \in AtStatement /\ tok[u] \in Lines => Intact(u)
  /\ pc[u] \in {"pauseMark", "pauseWait"} => tok[u] \in Lines

PlacedInv == \A u \in Threads : aborting[u] = "no" => Placed(u)

\* Only an ABORT moves the pointer of a program.
MoverInv == mpc # "jump" /\ (mpc = "abortProg" => aborting[seq] # "no")

\* A step of a thread that leaves the other threads' pointers and tokens alone.
LEMMA OthersPlaced ==
  ASSUME TypeOK, PlacedInv, NEW t \in Threads, RunThread(t)
  PROVE  \A u \in Threads \ {t} : aborting'[u] = "no" => Placed(u)'
<1>1. ThreadStep(t)
  BY DEF RunThread
<1>2. \A u \in Threads \ {t} :
        /\ pc'[u] = pc[u] /\ prog'[u] = prog[u] /\ tok'[u] = tok[u]
        /\ aborting'[u] = aborting[u]
  <2> USE DEF TypeOK, Goto, shared, history
  <2>1. CASE LoadProgram(t) BY <2>1 DEF LoadProgram
  <2>2. CASE EnterMain(t) BY <2>2 DEF EnterMain
  <2>3. CASE StepPause(t) BY <2>3 DEF StepPause
  <2>4. CASE StepPauseSetLine(t) BY <2>4 DEF StepPauseSetLine
  <2>5. CASE StepLeftPaused(t) BY <2>5 DEF StepLeftPaused
  <2>6. CASE StepGo(t) BY <2>6 DEF StepGo
  <2>7. CASE StepPass(t) BY <2>7 DEF StepPass
  <2>8. CASE GetToken(t) BY <2>8 DEF GetToken
  <2>9. CASE PollPass(t) BY <2>9 DEF PollPass
  <2>10. CASE ExecPlain(t) BY <2>10 DEF ExecPlain, Dispatch, Begin
  <2>11. CASE ExecFault(t) BY <2>11 DEF ExecFault, Dispatch, Begin
  <2>12. CASE ExecEnd(t) BY <2>12 DEF ExecEnd, Dispatch, Begin
  <2>13. CASE ExecTorn(t) BY <2>13 DEF ExecTorn, Dispatch, Begin
  <2>14. CASE ExecAbort(t) BY <2>14 DEF ExecAbort, Dispatch, Begin
  <2>15. CASE ExecPause(t) BY <2>15 DEF ExecPause, Dispatch, Begin
  <2>16. CASE PauseMark(t) BY <2>16 DEF PauseMark
  <2>17. CASE PauseLeft(t) BY <2>17 DEF PauseLeft
  <2>18. CASE ExecMotion(t) BY <2>18 DEF ExecMotion, Dispatch, Begin
  <2>19. CASE SetInstruction(t) BY <2>19 DEF SetInstruction
  <2>20. CASE TakePermission(t) BY <2>20 DEF TakePermission
  <2>21. CASE MotionWrite(t) BY <2>21 DEF MotionWrite
  <2>22. CASE MotionDone(t) BY <2>22 DEF MotionDone
  <2>23. CASE PublishIdle(t) BY <2>23 DEF PublishIdle
  <2>24. CASE DropHandle(t) BY <2>24 DEF DropHandle
  <2> QED
    BY <1>1, <2>1, <2>2, <2>3, <2>4, <2>5, <2>6, <2>7, <2>8, <2>9, <2>10, <2>11,
       <2>12, <2>13, <2>14, <2>15, <2>16, <2>17, <2>18, <2>19, <2>20, <2>21, <2>22,
       <2>23, <2>24 DEF ThreadStep
<1> QED
  BY <1>2 DEF PlacedInv, Placed, Intact

\* What get_token makes of a pointer between two statements.
LEMMA TokenPlaces ==
  ASSUME NEW p \in Positions, p.pos \in {"start", "tail"}
  PROVE  /\ TokenAt(p) = 0 => BehindToken(p).pos \in {"start", "tail"}
         /\ TokenAt(p) \in Lines => BehindToken(p) = [line |-> TokenAt(p), pos |-> "inside"]
<1>1. CASE p.line > LastLine
  BY <1>1, LastLineNat DEF TokenAt, Lines, FINISHED, Positions
<1>2. CASE p.line <= LastLine /\ TokenAt(p) = 0
  BY <1>2, LastLineNat DEF BehindToken, FindEol, At, Positions, Lines
<1>3. CASE p.line <= LastLine /\ TokenAt(p) # 0
  <2>1. p.pos = "start" /\ TokenAt(p) = p.line
    BY <1>3, LastLineNat DEF TokenAt, Positions
  <2>2. BehindToken(p) = [p EXCEPT !.pos = "inside"]
    BY <1>3, <2>1 DEF BehindToken
  <2> QED
    BY <1>3, <2>1, <2>2 DEF Positions
<1> QED
  BY <1>1, <1>2, <1>3, LastLineNat DEF Positions

\* A statement's end of line is behind its token.
LEMMA EolPlaces ==
  ASSUME NEW t \in Threads, tok[t] \in Lines, Intact(t)
  PROVE  FindEol(prog[t]).pos = "start"
BY LastLineNat DEF Intact, FindEol, Lines, At

\* The thread that makes the step.
LEMMA SelfPlaced ==
  ASSUME NoFault, IInv, PlacedInv, NEW t \in Threads, RunThread(t), aborting'[t] = "no"
  PROVE  Placed(t)'
<1> USE DEF Goto, shared, history, Between, AtStatement, Placed
<1>1. ThreadStep(t) /\ TypeOK
  BY DEF RunThread, IInv
<1>2. aborting[t] = "no"
  <2>1. aborting[t] = "no" \/ UNCHANGED aborting \/ Begin(t)
    BY <1>1 DEF ThreadStep, LoadProgram, EnterMain, StepPause, StepPauseSetLine,
         StepLeftPaused, StepGo, StepPass, GetToken, PollPass, ExecPlain, ExecFault, ExecEnd,
         ExecTorn, ExecAbort, ExecPause, PauseMark, PauseLeft, ExecMotion, SetInstruction,
         TakePermission, MotionWrite, MotionDone, PublishIdle, DropHandle, Dispatch
  <2> QED
    BY <1>1, <2>1 DEF Begin, Spend, TypeOK
<1>3. Placed(t)
  BY <1>2 DEF PlacedInv
<1>4. pc[t] = "exec" => tok[t] \in Lines /\ Intact(t)
  BY <1>3 DEF IInv, ExecInv
<1>5. 0 \notin Lines /\ FINISHED \notin Lines /\ FINISHED # 0
  BY LastLineNat DEF Lines, FINISHED
<1> USE DEF TypeOK
<1>6. CASE LoadProgram(t) BY <1>1, <1>6 DEF LoadProgram
<1>7. CASE EnterMain(t) BY <1>1, <1>7 DEF EnterMain
<1>8. CASE StepPause(t) BY <1>1, <1>3, <1>8 DEF StepPause
<1>9. CASE StepPauseSetLine(t) BY <1>1, <1>3, <1>9 DEF StepPauseSetLine
<1>10. CASE StepLeftPaused(t) BY <1>1, <1>3, <1>10 DEF StepLeftPaused, At
<1>11. CASE StepGo(t) BY <1>1, <1>3, <1>11 DEF StepGo
<1>12. CASE StepPass(t) BY <1>1, <1>3, <1>12 DEF StepPass
<1>13. CASE GetToken(t)
  <2>1. prog[t] \in Positions /\ prog[t].pos \in {"start", "tail"}
    BY <1>1, <1>3, <1>13 DEF GetToken
  <2>2. /\ pc'[t] \in {"leave", "poll"} /\ tok'[t] = TokenAt(prog[t])
        /\ prog'[t] = BehindToken(prog[t])
    BY <1>1, <1>13 DEF GetToken, AfterToken
  <2> QED
    BY <2>1, <2>2, TokenPlaces DEF Intact
<1>14. CASE PollPass(t)
  <2>1. pc[t] = "poll" /\ prog'[t] = prog[t] /\ tok'[t] = tok[t]
    BY <1>1, <1>14 DEF PollPass
  <2>2. CASE tok[t] \in Lines
    <3>1. pc'[t] = "exec"
      BY <1>1, <1>14, <2>2 DEF PollPass
    <3> QED
      BY <1>3, <2>1, <2>2, <3>1 DEF Intact
  <2>3. CASE tok[t] = FINISHED
    <3>1. pc'[t] = "leave"
      BY <1>1, <1>5, <1>14, <2>3 DEF PollPass
    <3> QED
      BY <3>1
  <2>4. CASE tok[t] = 0
    <3>1. pc'[t] = "top"
      BY <1>1, <1>5, <1>14, <2>4 DEF PollPass
    <3> QED
      BY <1>3, <2>1, <2>4, <3>1
  <2> QED
    BY <1>1, <2>2, <2>3, <2>4, LastLineNat DEF Lines, FINISHED
<1>15. CASE ExecPlain(t)
  <2>1. tok[t] \in Lines /\ Intact(t) /\ pc'[t] = "top"
    BY <1>1, <1>4, <1>15 DEF ExecPlain, Dispatch
  <2>2. prog'[t].pos \in {"start", "tail"}
    <3>1. CASE Stmt[tok[t]] = "logic"
      <4>1. PICK p \in Succ[tok[t]] : prog' = [prog EXCEPT ![t] = p]
        BY <1>15, <3>1 DEF ExecPlain
      <4>2. p.pos \in {"start", "tail"}
        BY <2>1, <4>1, ProgramAssumption
      <4> QED
        BY <1>1, <4>1, <4>2
    <3>2. CASE Stmt[tok[t]] # "logic"
      BY <1>1, <1>15, <2>1, <3>2, EolPlaces DEF ExecPlain
    <3> QED
      BY <3>1, <3>2
  <2> QED
    BY <2>1, <2>2
<1>16. CASE ExecFault(t) BY <1>4, <1>16 DEF ExecFault, Dispatch, NoFault
<1>17. CASE ExecEnd(t) BY <1>1, <1>17 DEF ExecEnd
<1>18. CASE ExecTorn(t) BY <1>4, <1>18 DEF ExecTorn, Dispatch
<1>19. CASE ExecAbort(t) BY <1>1, <1>19 DEF ExecAbort
<1>20. CASE ExecPause(t)
  BY <1>1, <1>4, <1>20 DEF ExecPause, Dispatch, Intact
<1>21. CASE PauseMark(t) BY <1>1, <1>3, <1>21 DEF PauseMark, Intact
<1>22. CASE PauseLeft(t)
  <2>1. tok[t] \in Lines /\ Intact(t)
    BY <1>3, <1>22 DEF PauseLeft
  <2> QED
    BY <1>1, <1>22, <2>1, EolPlaces DEF PauseLeft
<1>23. CASE ExecMotion(t)
  <2>1. tok[t] \in Lines /\ Intact(t)
    BY <1>4, <1>23 DEF ExecMotion, Dispatch
  <2> QED
    BY <1>1, <1>23, <2>1, EolPlaces DEF ExecMotion
<1>24. CASE SetInstruction(t) BY <1>1, <1>3, <1>24 DEF SetInstruction
<1>25. CASE TakePermission(t) BY <1>1, <1>3, <1>25 DEF TakePermission
<1>26. CASE MotionWrite(t) BY <1>1, <1>3, <1>26 DEF MotionWrite
<1>27. CASE MotionDone(t) BY <1>1, <1>3, <1>27 DEF MotionDone
<1>28. CASE PublishIdle(t) BY <1>1, <1>28 DEF PublishIdle
<1>29. CASE DropHandle(t) BY <1>1, <1>29 DEF DropHandle
<1> QED
  BY <1>1, <1>6, <1>7, <1>8, <1>9, <1>10, <1>11, <1>12, <1>13, <1>14, <1>15, <1>16,
     <1>17, <1>18, <1>19, <1>20, <1>21, <1>22, <1>23, <1>24, <1>25, <1>26, <1>27, <1>28,
     <1>29 DEF ThreadStep

\* A thread neither begins nor ends a command.
LEMMA ThreadKeepsMover ==
  ASSUME IInv, MoverInv, NEW t \in Threads, RunThread(t)
  PROVE  MoverInv'
<1>1. mpc' = mpc
  BY DEF RunThread, mainLocal
<1>2. seq' = seq /\ (UNCHANGED aborting \/ Begin(t))
  BY DEF RunThread, ThreadStep, LoadProgram, EnterMain, StepPause, StepPauseSetLine,
       StepLeftPaused, StepGo, StepPass, GetToken, PollPass, ExecPlain, ExecFault, ExecEnd,
       ExecTorn, ExecAbort, ExecPause, PauseMark, PauseLeft, ExecMotion, SetInstruction,
       TakePermission, MotionWrite, MotionDone, PublishIdle, DropHandle, Dispatch, shared,
       history
<1>3. \A u \in Threads : aborting[u] # "no" => aborting'[u] # "no"
  BY <1>2 DEF Begin, Spend, IInv, TypeOK
<1>4. mpc = "abortProg" => seq \in Threads
  BY DEF IInv, MainInv
<1> QED
  BY <1>1, <1>2, <1>3, <1>4 DEF MoverInv

\* A request moves no pointer: ABORT only announces that it will.
LEMMA ParseKeepsPlaced ==
  ASSUME NoJump, IInv, PlacedInv, NEW c \in Commands, Parse(c)
  PROVE  PlacedInv' /\ MoverInv'
<1> USE DEF IInv, TypeOK, PlacedInv, Placed, MoverInv, Intact, Between, AtStatement, shared,
            local, history
<1>0. mpc = "loop"
  BY DEF Parse
<1>1. CASE Refused BY <1>0, <1>1 DEF Refused
<1>2. ASSUME NEW mode, NEW st, StartProgram(mode, st)
      PROVE  PlacedInv' /\ MoverInv'
  <2>1. \A u \in Threads : pc'[u] # pc[u] => pc'[u] = "load"
    BY <1>2 DEF StartProgram
  <2>2. UNCHANGED <<aborting, tok, prog>> /\ mpc' \in {"loop", "wild"}
    BY <1>2 DEF StartProgram
  <2> QED
    BY <2>1, <2>2
<1>3. CASE Jump
  <2>1. \A n \in JumpLines : ~(n > 0)
    BY DEF NoJump
  <2> QED
    BY <1>1, <1>3, <2>1 DEF Jump, JumpTo
<1>4. CASE SwitchStep BY <1>0, <1>1, <1>4 DEF SwitchStep
<1>5. CASE Forward BY <1>0, <1>1, <1>5 DEF Forward, Released
<1>6. CASE Backward
  <2>1. CASE BackOneLine BY <1>0, <2>1 DEF BackOneLine
  <2>2. CASE RunBackward BY <2>2 DEF RunBackward, Released
  <2> QED
    BY <1>1, <1>6, <2>1, <2>2 DEF Backward
<1>7. CASE Continue BY <1>0, <1>1, <1>7 DEF Continue, Released
<1>8. CASE Pause BY <1>0, <1>1, <1>8 DEF Pause
<1>9. CASE Abort
  <2>1. ASSUME ~Refused
        PROVE  PlacedInv' /\ MoverInv'
    <3>1. seq \in Threads /\ aborting'[seq] # "no" /\ seq' = seq
      BY <1>9, <2>1 DEF Abort, HasBlock
    <3>2. \A u \in Threads : aborting'[u] = "no" => aborting[u] = "no"
      BY <1>9, <2>1 DEF Abort
    <3>3. UNCHANGED <<pc, tok, prog>> /\ mpc' = "abortProg"
      BY <1>9, <2>1 DEF Abort
    <3> QED
      BY <3>1, <3>2, <3>3
  <2> QED
    BY <1>1, <2>1
<1> QED
  BY <1>1, <1>2, <1>3, <1>4, <1>5, <1>6, <1>7, <1>8, <1>9 DEF Parse

\* The second halves: ABORT moves the pointer of a program that was told so.
LEMMA FinishKeepsPlaced ==
  ASSUME IInv, PlacedInv, MoverInv, FinishCommand
  PROVE  PlacedInv' /\ MoverInv'
<1> USE DEF IInv, TypeOK, MainInv, PlacedInv, Placed, MoverInv, Intact, local, history
<1>1. CASE JumpProg BY <1>1 DEF JumpProg
<1>2. CASE ForwardSetLine BY <1>2 DEF ForwardSetLine
<1>3. CASE BackwardSetLine BY <1>3 DEF BackwardSetLine
<1>4. CASE AbortProg BY <1>4 DEF AbortProg
<1>5. CASE AbortIdle BY <1>5 DEF AbortIdle
<1> QED
  BY <1>1, <1>2, <1>3, <1>4, <1>5 DEF FinishCommand, CommandStep

\* Whatever the number of programs and the commands: only an ABORT moves the pointer
\* under a statement that is about to read its operands, as long as no JUMP finds its
\* line and no statement fails.
THEOREM TearsOnlyByAbort ==
  ASSUME NoJump, NoFault
  PROVE  Spec => []OnlyAbortTearsStatement
<1> DEFINE PInv == PlacedInv /\ MoverInv
<1>1. Init => PInv
  BY DEF Init, PlacedInv, Placed, MoverInv, Between, AtStatement
<1>2. IInv /\ PInv /\ [Next]_vars => PInv'
  <2> SUFFICES ASSUME IInv, PlacedInv, MoverInv, [Next]_vars
               PROVE  PlacedInv' /\ MoverInv'
    OBVIOUS
  <2>1. ASSUME NEW c \in Requests, ServeRequest(c)
        PROVE  PlacedInv' /\ MoverInv'
    BY <2>1, ParseKeepsPlaced, RequestsAssumption DEF ServeRequest
  <2>2. CASE IdlePass
    BY <2>2, ParseKeepsPlaced DEF IdlePass, IInv, TypeOK
  <2>3. CASE FinishCommand
    BY <2>3, FinishKeepsPlaced
  <2>4. ASSUME NEW t \in Threads, RunThread(t)
        PROVE  PlacedInv' /\ MoverInv'
    <3>1. \A u \in Threads : aborting'[u] = "no" => Placed(u)'
      BY <2>4, OthersPlaced, SelfPlaced DEF IInv
    <3> QED
      BY <2>4, <3>1, ThreadKeepsMover DEF PlacedInv
  <2>5. CASE PermitMotion
    BY <2>5 DEF PermitMotion, PlacedInv, Placed, Intact, MoverInv, local, history, mainLocal
  <2>6. CASE UNCHANGED vars
    BY <2>6 DEF vars, PlacedInv, Placed, Intact, MoverInv, shared, local, history, mainLocal
  <2> QED
    BY <2>1, <2>2, <2>3, <2>4, <2>5, <2>6 DEF Next
<1>3. IInv /\ PInv => OnlyAbortTearsStatement
  BY DEF IInv, ExecInv, PlacedInv, Placed, AtStatement, OnlyAbortTearsStatement, Begins
<1> QED
  BY <1>1, <1>2, <1>3, Invariance, PTL DEF Spec

-----------------------------------------------------------------------------
(***************************************************************************)
(* One program, whatever it is and whatever commands steer it: at most one *)
(* statement begins per step, and after a PAUSE.  The argument follows the *)
(* thread from the statement it began to the gate, where the state holds   *)
(* it, and along the stretches that pass the gate: an empty line, the rest *)
(* of a line, and a step a FORWARD has just released.                      *)
(***************************************************************************)

Gate == {"stepSet", "stepWait", "stepGo"}

Ended == {"leave", "exit", "gone"}

InMotion == {"motion", "motionTake", "motionWrite", "motionWait"}

\* What the history says of a thread: a step only counts in single steps, an empty line
\* is only passed over by the loop, and a program that failed goes no further than the
\* top of the loop.
HistoryInv ==
  \A t \in Threads :
    /\ pc[t] = "none" => stepping[t] = "no"
    /\ stepping[t] = "yes" => prog_mode[t] # "FULL_MODE"
    /\ skip[t] => pc[t] \in {"top", "read"} \cup Ended
    /\ skip[t] /\ pc[t] = "top" => stepping[t] # "yes"
    /\ is_abort[t] => aborting[t] # "no"
    /\ prog_mode[t] = "ERROR_MODE" => pc[t] \notin Gate \cup {"read", "poll", "exec"}

\* The second half of an ABORT speaks of a program that was told so.
CommandInv ==
  /\ mpc # "jump"
  /\ mpc \in {"abortProg", "abortIdle"} => aborting[seq] # "no"
  /\ mpc = "abortIdle" => pausing = "no"

Stepped(t) == prog_mode[t] = "STEP_MODE" /\ stepping[t] = "yes"

\* A thread that has begun the statement of its step waits at the gate, or is passing
\* over something that is no statement.
StepInv ==
  seq = 0 /\ aborting[0] = "no" /\ Stepped(0) =>
    /\ pc[0] \in {"stepSet", "stepWait"} => state = "PAUSED_R"
    /\ pc[0] \notin {"stepGo", "exec"}
    /\ pc[0] = "read" => TokenAt(prog[0]) \notin Lines
    /\ pc[0] = "poll" => tok[0] \notin Lines

\* While a PAUSE holds, a thread that waits sees it.
PauseGateInv ==
  seq = 0 =>
    /\ pc[0] \in Gate => prog_mode[0] = "STEP_MODE"
    /\ pausing = "spent" => pc[0] \notin {"none", "load", "main"}
    /\ pausing # "no" /\ pc[0] \in {"stepSet", "stepWait", "pauseMark", "pauseWait"}
         => state = "PAUSED_R"
    /\ pausing = "spent" /\ pc[0] = "stepGo" => is_abort[0]
    /\ pausing = "spent" /\ Stepped(0) /\ pc[0] = "read" /\ ~is_abort[0]
         => TokenAt(prog[0]) \notin Lines
    /\ pausing = "spent" /\ Stepped(0) /\ pc[0] = "poll" => tok[0] \notin Lines
    /\ pausing = "spent" /\ pc[0] = "exec"
         => prog_mode[0] = "STEP_MODE" /\ stepping[0] = "empty"

\* A PAUSE that was overwritten was so in a step that had just been released, and the
\* program is still in that step.
PauseLostInv ==
  seq = 0 /\ state # "PAUSED_R" /\ pc[0] \notin Ended =>
    /\ pausing = "armed" =>
         pc[0] \in {"stepGo", "read", "poll", "exec", "top"} /\ prog_mode[0] = "STEP_MODE"
    /\ pausing = "spent" =>
         \/ prog_mode[0] = "STEP_MODE" /\ stepping[0] # "no"
         \/ prog_mode[0] = "ERROR_MODE" /\ pc[0] \in {"top"} \cup InMotion
         \/ is_abort[0] /\ pc[0] \in {"stepGo", "read"}

-----------------------------------------------------------------------------
(***************************************************************************)
(* Lemmas.                                                                 *)
(***************************************************************************)
\* What counts as no statement at the gate is none behind it.
LEMMA EmptyHasNoToken ==
  ASSUME NEW p \in Positions, IsEmptyAt(p)
  PROVE  TokenAt(p) \notin Lines
BY LastLineNat DEF IsEmptyAt, TokenAt, Lines, FINISHED, Positions

\* With a single program, thread 0 makes every step.
LEMMA OnlyThread ==
  ASSUME IInv, seq = 0, NEW t \in Threads, RunThread(t)
  PROVE  t = 0
<1>1. pc[t] # "none"
  BY DEF RunThread, ThreadStep, LoadProgram, EnterMain, StepPause, StepPauseSetLine,
       StepLeftPaused, StepGo, StepPass, GetToken, PollPass, ExecPlain, ExecFault, ExecEnd,
       ExecTorn, ExecAbort, ExecPause, PauseMark, PauseLeft, ExecMotion, SetInstruction,
       TakePermission, MotionWrite, MotionDone, PublishIdle, DropHandle, Dispatch
<1> QED
  BY <1>1 DEF IInv, SlotInv, Threads

LEMMA ThreadKeepsSeq ==
  ASSUME NEW t \in Threads, RunThread(t)
  PROVE  seq' = seq
BY DEF RunThread, ThreadStep, LoadProgram, EnterMain, StepPause, StepPauseSetLine,
       StepLeftPaused, StepGo, StepPass, GetToken, PollPass, ExecPlain, ExecFault, ExecEnd,
       ExecTorn, ExecAbort, ExecPause, PauseMark, PauseLeft, ExecMotion, SetInstruction,
       TakePermission, MotionWrite, MotionDone, PublishIdle, DropHandle, Dispatch, shared

LEMMA ZeroIsThread == 0 \in Threads
BY ThreadsAssumption DEF Threads

\* A thread's step keeps what the history says.
LEMMA HistoryThread ==
  ASSUME IInv, HistoryInv, NEW t \in Threads, RunThread(t)
  PROVE  HistoryInv'
<1> USE DEF HistoryInv, TypeOK, Goto, shared, local, history, Gate, Ended
<1>0. ThreadStep(t) /\ TypeOK
  BY DEF RunThread, IInv
<1>1. CASE LoadProgram(t) BY <1>0, <1>1 DEF LoadProgram
<1>2. CASE EnterMain(t) BY <1>0, <1>2 DEF EnterMain
<1>3. CASE StepPause(t) BY <1>0, <1>3 DEF StepPause, MustStep
<1>4. CASE StepPauseSetLine(t) BY <1>0, <1>4 DEF StepPauseSetLine
<1>5. CASE StepLeftPaused(t) BY <1>0, <1>5 DEF StepLeftPaused
<1>6. CASE StepGo(t) BY <1>0, <1>6 DEF StepGo
<1>7. CASE StepPass(t) BY <1>0, <1>7 DEF StepPass, MustStep
<1>8. CASE GetToken(t) BY <1>0, <1>8 DEF GetToken, AfterToken
<1>9. CASE PollPass(t) BY <1>0, <1>9 DEF PollPass, ExecuteEmpty
<1>10. CASE ExecPlain(t) BY <1>0, <1>10 DEF ExecPlain, Dispatch, Begin, Spend
<1>11. CASE ExecFault(t) BY <1>0, <1>11 DEF ExecFault, Dispatch, Begin, Spend
<1>12. CASE ExecEnd(t) BY <1>0, <1>12 DEF ExecEnd, Dispatch, Begin, Spend
<1>13. CASE ExecTorn(t) BY <1>0, <1>13 DEF ExecTorn, Dispatch, Begin, Spend
<1>14. CASE ExecAbort(t) BY <1>0, <1>14 DEF ExecAbort, Dispatch, Begin, Spend
<1>15. CASE ExecPause(t) BY <1>0, <1>15 DEF ExecPause, Dispatch, Begin, Spend
<1>16. CASE PauseMark(t) BY <1>0, <1>16 DEF PauseMark
<1>17. CASE PauseLeft(t) BY <1>0, <1>17 DEF PauseLeft
<1>18. CASE ExecMotion(t) BY <1>0, <1>18 DEF ExecMotion, Dispatch, Begin, Spend
<1>19. CASE SetInstruction(t) BY <1>0, <1>19 DEF SetInstruction
<1>20. CASE TakePermission(t) BY <1>0, <1>20 DEF TakePermission
<1>21. CASE MotionWrite(t) BY <1>0, <1>21 DEF MotionWrite
<1>22. CASE MotionDone(t) BY <1>0, <1>22 DEF MotionDone
<1>23. CASE PublishIdle(t) BY <1>0, <1>23 DEF PublishIdle
<1>24. CASE DropHandle(t) BY <1>0, <1>24 DEF DropHandle
<1> QED
  BY <1>0, <1>1, <1>2, <1>3, <1>4, <1>5, <1>6, <1>7, <1>8, <1>9, <1>10, <1>11, <1>12,
     <1>13, <1>14, <1>15, <1>16, <1>17, <1>18, <1>19, <1>20, <1>21, <1>22, <1>23, <1>24
     DEF ThreadStep

\* The thread of the only program.
LEMMA StepThread ==
  ASSUME IInv, HistoryInv, StepInv, seq = 0, RunThread(0)
  PROVE  StepInv'
<1> USE ZeroIsThread
<1> USE DEF HistoryInv, StepInv, Stepped, TypeOK, Goto, shared, local, history, Gate, Ended
<1>0. ThreadStep(0) /\ TypeOK /\ (pc[0] = "exec" => tok[0] \in Lines)
  BY DEF RunThread, IInv, ExecInv
<1>1. CASE LoadProgram(0) BY <1>0, <1>1 DEF LoadProgram
<1>2. CASE EnterMain(0) BY <1>0, <1>2 DEF EnterMain
<1>3. CASE StepPause(0) BY <1>0, <1>3 DEF StepPause
<1>4. CASE StepPauseSetLine(0) BY <1>0, <1>4 DEF StepPauseSetLine
<1>5. CASE StepLeftPaused(0) BY <1>0, <1>5 DEF StepLeftPaused, LeftPaused
<1>6. CASE StepGo(0) BY <1>0, <1>6 DEF StepGo
<1>7. CASE StepPass(0)
  <2>1. prog[0] \in Positions
    BY <1>0
  <2>2. IsEmptyAt(prog[0]) => TokenAt(prog[0]) \notin Lines
    BY <2>1, EmptyHasNoToken
  <2> QED
    BY <1>0, <1>7, <2>2 DEF StepPass, MustStep
<1>8. CASE GetToken(0) BY <1>0, <1>8 DEF GetToken, AfterToken
<1>9. CASE PollPass(0) BY <1>0, <1>9 DEF PollPass
<1>10. CASE ExecPlain(0) BY <1>0, <1>10 DEF ExecPlain, Dispatch, Begin, Spend
<1>11. CASE ExecFault(0) BY <1>0, <1>11 DEF ExecFault, Dispatch, Begin, Spend
<1>12. CASE ExecEnd(0) BY <1>0, <1>12 DEF ExecEnd, Dispatch, Begin, Spend
<1>13. CASE ExecTorn(0) BY <1>0, <1>13 DEF ExecTorn, Dispatch, Begin, Spend
<1>14. CASE ExecAbort(0) BY <1>0, <1>14 DEF ExecAbort, Dispatch, Begin, Spend
<1>15. CASE ExecPause(0) BY <1>0, <1>15 DEF ExecPause, Dispatch, Begin, Spend
<1>16. CASE PauseMark(0) BY <1>0, <1>16 DEF PauseMark
<1>17. CASE PauseLeft(0) BY <1>0, <1>17 DEF PauseLeft
<1>18. CASE ExecMotion(0) BY <1>0, <1>18 DEF ExecMotion, Dispatch, Begin, Spend
<1>19. CASE SetInstruction(0) BY <1>0, <1>19 DEF SetInstruction
<1>20. CASE TakePermission(0) BY <1>0, <1>20 DEF TakePermission
<1>21. CASE MotionWrite(0) BY <1>0, <1>21 DEF MotionWrite
<1>22. CASE MotionDone(0) BY <1>0, <1>22 DEF MotionDone
<1>23. CASE PublishIdle(0) BY <1>0, <1>23 DEF PublishIdle
<1>24. CASE DropHandle(0) BY <1>0, <1>24 DEF DropHandle
<1> QED
  BY <1>0, <1>1, <1>2, <1>3, <1>4, <1>5, <1>6, <1>7, <1>8, <1>9, <1>10, <1>11, <1>12,
     <1>13, <1>14, <1>15, <1>16, <1>17, <1>18, <1>19, <1>20, <1>21, <1>22, <1>23, <1>24
     DEF ThreadStep

LEMMA PauseGateThread ==
  ASSUME IInv, HistoryInv, PauseGateInv, PauseLostInv, seq = 0, RunThread(0)
  PROVE  PauseGateInv'
<1> USE ZeroIsThread
<1> USE DEF HistoryInv, PauseGateInv, PauseLostInv, Stepped, TypeOK, Goto, shared, local,
            history, Gate, Ended, InMotion
<1>0. ThreadStep(0) /\ TypeOK /\ (pc[0] = "exec" => tok[0] \in Lines)
  BY DEF RunThread, IInv, ExecInv
<1>1. CASE LoadProgram(0) BY <1>0, <1>1 DEF LoadProgram
<1>2. CASE EnterMain(0) BY <1>0, <1>2 DEF EnterMain
<1>3. CASE StepPause(0) BY <1>0, <1>3 DEF StepPause, MustStep
<1>4. CASE StepPauseSetLine(0) BY <1>0, <1>4 DEF StepPauseSetLine
<1>5. CASE StepLeftPaused(0) BY <1>0, <1>5 DEF StepLeftPaused, LeftPaused
<1>6. CASE StepGo(0) BY <1>0, <1>6 DEF StepGo
<1>7. CASE StepPass(0)
  <2>1. prog[0] \in Positions
    BY <1>0
  <2>2. IsEmptyAt(prog[0]) => TokenAt(prog[0]) \notin Lines
    BY <2>1, EmptyHasNoToken
  <2> QED
    BY <1>0, <1>7, <2>2 DEF StepPass, MustStep
<1>8. CASE GetToken(0) BY <1>0, <1>8 DEF GetToken, AfterToken
<1>9. CASE PollPass(0) BY <1>0, <1>9 DEF PollPass, PollOpen
<1>10. CASE ExecPlain(0) BY <1>0, <1>10 DEF ExecPlain, Dispatch, Begin, Spend
<1>11. CASE ExecFault(0) BY <1>0, <1>11 DEF ExecFault, Dispatch, Begin, Spend
<1>12. CASE ExecEnd(0) BY <1>0, <1>12 DEF ExecEnd, Dispatch, Begin, Spend
<1>13. CASE ExecTorn(0) BY <1>0, <1>13 DEF ExecTorn, Dispatch, Begin, Spend
<1>14. CASE ExecAbort(0) BY <1>0, <1>14 DEF ExecAbort, Dispatch, Begin, Spend
<1>15. CASE ExecPause(0) BY <1>0, <1>15 DEF ExecPause, Dispatch, Begin, Spend
<1>16. CASE PauseMark(0) BY <1>0, <1>16 DEF PauseMark
<1>17. CASE PauseLeft(0) BY <1>0, <1>17 DEF PauseLeft, LeftPaused
<1>18. CASE ExecMotion(0) BY <1>0, <1>18 DEF ExecMotion, Dispatch, Begin, Spend
<1>19. CASE SetInstruction(0) BY <1>0, <1>19 DEF SetInstruction
<1>20. CASE TakePermission(0) BY <1>0, <1>20 DEF TakePermission
<1>21. CASE MotionWrite(0) BY <1>0, <1>21 DEF MotionWrite
<1>22. CASE MotionDone(0) BY <1>0, <1>22 DEF MotionDone
<1>23. CASE PublishIdle(0) BY <1>0, <1>23 DEF PublishIdle
<1>24. CASE DropHandle(0) BY <1>0, <1>24 DEF DropHandle
<1> QED
  BY <1>0, <1>1, <1>2, <1>3, <1>4, <1>5, <1>6, <1>7, <1>8, <1>9, <1>10, <1>11, <1>12,
     <1>13, <1>14, <1>15, <1>16, <1>17, <1>18, <1>19, <1>20, <1>21, <1>22, <1>23, <1>24
     DEF ThreadStep

LEMMA PauseLostThread ==
  ASSUME IInv, HistoryInv, PauseGateInv, PauseLostInv, seq = 0, RunThread(0)
  PROVE  PauseLostInv'
<1> USE ZeroIsThread
<1> USE DEF HistoryInv, PauseGateInv, PauseLostInv, Stepped, TypeOK, Goto, shared, local,
            history, Gate, Ended, InMotion
<1>0. ThreadStep(0) /\ TypeOK /\ (pc[0] = "exec" => tok[0] \in Lines)
  BY DEF RunThread, IInv, ExecInv
<1>1. CASE LoadProgram(0) BY <1>0, <1>1 DEF LoadProgram
<1>2. CASE EnterMain(0) BY <1>0, <1>2 DEF EnterMain
<1>3. CASE StepPause(0) BY <1>0, <1>3 DEF StepPause, MustStep
<1>4. CASE StepPauseSetLine(0) BY <1>0, <1>4 DEF StepPauseSetLine
<1>5. CASE StepLeftPaused(0) BY <1>0, <1>5 DEF StepLeftPaused, LeftPaused
<1>6. CASE StepGo(0) BY <1>0, <1>6 DEF StepGo
<1>7. CASE StepPass(0) BY <1>0, <1>7 DEF StepPass, MustStep
<1>8. CASE GetToken(0) BY <1>0, <1>8 DEF GetToken, AfterToken
<1>9. CASE PollPass(0) BY <1>0, <1>9 DEF PollPass, PollOpen
<1>10. CASE ExecPlain(0) BY <1>0, <1>10 DEF ExecPlain, Dispatch, Begin, Spend
<1>11. CASE ExecFault(0) BY <1>0, <1>11 DEF ExecFault, Dispatch, Begin, Spend
<1>12. CASE ExecEnd(0) BY <1>0, <1>12 DEF ExecEnd, Dispatch, Begin, Spend
<1>13. CASE ExecTorn(0) BY <1>0, <1>13 DEF ExecTorn, Dispatch, Begin, Spend
<1>14. CASE ExecAbort(0) BY <1>0, <1>14 DEF ExecAbort, Dispatch, Begin, Spend
<1>15. CASE ExecPause(0) BY <1>0, <1>15 DEF ExecPause, Dispatch, Begin, Spend
<1>16. CASE PauseMark(0) BY <1>0, <1>16 DEF PauseMark
<1>17. CASE PauseLeft(0) BY <1>0, <1>17 DEF PauseLeft, LeftPaused
<1>18. CASE ExecMotion(0) BY <1>0, <1>18 DEF ExecMotion, Dispatch, Begin, Spend
<1>19. CASE SetInstruction(0) BY <1>0, <1>19 DEF SetInstruction
<1>20. CASE TakePermission(0) BY <1>0, <1>20 DEF TakePermission
<1>21. CASE MotionWrite(0) BY <1>0, <1>21 DEF MotionWrite
<1>22. CASE MotionDone(0) BY <1>0, <1>22 DEF MotionDone
<1>23. CASE PublishIdle(0) BY <1>0, <1>23 DEF PublishIdle
<1>24. CASE DropHandle(0) BY <1>0, <1>24 DEF DropHandle
<1> QED
  BY <1>0, <1>1, <1>2, <1>3, <1>4, <1>5, <1>6, <1>7, <1>8, <1>9, <1>10, <1>11, <1>12,
     <1>13, <1>14, <1>15, <1>16, <1>17, <1>18, <1>19, <1>20, <1>21, <1>22, <1>23, <1>24
     DEF ThreadStep

\* A thread's step neither begins nor ends a command.
LEMMA CommandThread ==
  ASSUME IInv, CommandInv, NEW t \in Threads, RunThread(t)
  PROVE  CommandInv'
<1>1. mpc' = mpc
  BY DEF RunThread, mainLocal
<1>2. seq' = seq /\ (UNCHANGED <<aborting, pausing>> \/ Begin(t))
  BY DEF RunThread, ThreadStep, LoadProgram, EnterMain, StepPause, StepPauseSetLine,
       StepLeftPaused, StepGo, StepPass, GetToken, PollPass, ExecPlain, ExecFault, ExecEnd,
       ExecTorn, ExecAbort, ExecPause, PauseMark, PauseLeft, ExecMotion, SetInstruction,
       TakePermission, MotionWrite, MotionDone, PublishIdle, DropHandle, Dispatch, shared,
       history
<1>3. \A u \in Threads : aborting[u] # "no" => aborting'[u] # "no"
  BY <1>2 DEF Begin, Spend, IInv, TypeOK
<1>4. pausing = "no" => pausing' = "no"
  BY <1>2 DEF Begin, Spend
<1>5. mpc \in {"abortProg", "abortIdle"} => seq \in Threads
  BY DEF IInv, MainInv
<1> QED
  BY <1>1, <1>2, <1>3, <1>4, <1>5 DEF CommandInv

\* A command works on the newest program; the first START finds an untouched slot.
LEMMA CommandsHistory ==
  ASSUME NoJump, IInv, HistoryInv, CommandInv, StepInv, NEW c \in Commands, Parse(c)
  PROVE  HistoryInv' /\ CommandInv' /\ StepInv'
<1> USE ZeroIsThread
<1> USE DEF IInv, TypeOK, HistoryInv, CommandInv, StepInv, Stepped, shared, local, history,
            Gate, Ended, HasBlock, Alive, Steerable
<1>0. mpc = "loop"
  BY DEF Parse
<1>1. CASE Refused BY <1>0, <1>1 DEF Refused
<1>2. ASSUME NEW mode \in {"FULL_MODE", "STEP_MODE"}, NEW st, StartProgram(mode, st)
      PROVE  HistoryInv' /\ CommandInv' /\ StepInv'
  <2>1. seq + 1 \in Threads => pc[seq + 1] = "none" /\ aborting[seq + 1] = "no"
    BY DEF SlotInv
  <2>2. HistoryInv'
    BY <1>2, <2>1 DEF StartProgram
  <2>3. CommandInv'
    BY <1>2 DEF StartProgram
  <2>4. StepInv'
    BY <1>2, <2>1 DEF StartProgram
  <2> QED
    BY <2>2, <2>3, <2>4
<1>3. CASE Jump
  <2>1. \A n \in JumpLines : ~(n > 0)
    BY DEF NoJump
  <2> QED
    BY <1>1, <1>3, <2>1 DEF Jump, JumpTo
<1>4. CASE SwitchStep BY <1>0, <1>1, <1>4, RequestsAssumption DEF SwitchStep
<1>5. CASE Forward BY <1>0, <1>1, <1>5 DEF Forward, Released
<1>6. CASE Backward
  <2>1. CASE BackOneLine BY <1>0, <2>1 DEF BackOneLine
  <2>2. CASE RunBackward BY <2>2 DEF RunBackward, Released
  <2> QED
    BY <1>1, <1>6, <2>1, <2>2 DEF Backward
<1>7. CASE Continue BY <1>0, <1>1, <1>7 DEF Continue, Released
<1>8. CASE Pause
  <2>1. ASSUME ~Refused
        PROVE  HistoryInv' /\ CommandInv' /\ StepInv'
    <3>1. /\ state' = "PAUSED_R" /\ mpc' = mpc
          /\ UNCHANGED <<seq, is_abort, prog, local, aborting, stepping>>
      BY <1>8, <2>1 DEF Pause
    <3>2. \A t \in Threads : prog_mode'[t] \in {prog_mode[t], "STEP_MODE"}
      BY <1>8, <2>1 DEF Pause
    <3>3. HistoryInv'
      BY <3>1, <3>2
    <3>4. CommandInv'
      BY <1>0, <3>1
    <3>5. StepInv'
      <4>1. prog_mode'[0] \in {prog_mode[0], "STEP_MODE"} /\ prog_mode[0] \in ProgModes
        BY <3>2
      <4>2. Stepped(0)' => Stepped(0) \/ prog_mode[0] = "ERROR_MODE"
        BY <3>1, <4>1 DEF ProgModes
      <4> QED
        BY <3>1, <4>2
    <3> QED
      BY <3>3, <3>4, <3>5
  <2> QED
    BY <1>1, <2>1, <1>0 DEF Refused
<1>9. CASE Abort BY <1>0, <1>1, <1>9 DEF Abort
<1> QED
  BY <1>1, <1>2, <1>3, <1>4, <1>5, <1>6, <1>7, <1>8, <1>9 DEF Parse

\* The second halves of the commands.
LEMMA SecondHalvesHistory ==
  ASSUME IInv, HistoryInv, CommandInv, StepInv, FinishCommand
  PROVE  HistoryInv' /\ CommandInv' /\ StepInv'
<1> USE ZeroIsThread
<1> USE DEF IInv, TypeOK, HistoryInv, CommandInv, StepInv, Stepped, local, history, Gate,
            Ended
<1>1. CASE JumpProg BY <1>1 DEF JumpProg
<1>2. CASE ForwardSetLine BY <1>2 DEF ForwardSetLine
<1>3. CASE BackwardSetLine BY <1>3 DEF BackwardSetLine
<1>4. CASE AbortProg BY <1>4 DEF AbortProg
<1>5. CASE AbortIdle BY <1>5 DEF AbortIdle
<1> QED
  BY <1>1, <1>2, <1>3, <1>4, <1>5 DEF FinishCommand, CommandStep

\* A PAUSE arms, a command that resumes disarms; no other looks at it.
LEMMA CommandsPause ==
  ASSUME NoJump, IInv, HistoryInv, PauseGateInv, PauseLostInv,
         NEW c \in Commands \ {"SWITCH_STEP"}, Parse(c)
  PROVE  PauseGateInv' /\ PauseLostInv'
<1> USE ZeroIsThread
<1> USE DEF IInv, TypeOK, HistoryInv, PauseGateInv, PauseLostInv, Stepped, shared, local,
            history, Gate, Ended, InMotion, HasBlock, Alive, Steerable
<1>1. CASE Refused BY <1>1 DEF Refused
<1>2. ASSUME NEW mode, NEW st, StartProgram(mode, st)
      PROVE  PauseGateInv' /\ PauseLostInv'
  <2>1. seq + 1 \in Threads => pc[seq + 1] = "none"
    BY DEF SlotInv
  <2>2. pausing' = "no"
    BY <1>2 DEF StartProgram
  <2>3. seq' = 0 => pc'[0] \notin Gate
    BY <1>2, <2>1 DEF StartProgram
  <2> QED
    BY <2>2, <2>3
<1>3. CASE Jump
  <2>1. \A n \in JumpLines : ~(n > 0)
    BY DEF NoJump
  <2> QED
    BY <1>1, <1>3, <2>1 DEF Jump, JumpTo
<1>4. CASE Forward BY <1>1, <1>4 DEF Forward, Released
<1>5. CASE Backward
  <2>1. CASE BackOneLine BY <2>1 DEF BackOneLine
  <2>2. CASE RunBackward BY <2>2 DEF RunBackward, Released
  <2> QED
    BY <1>1, <1>5, <2>1, <2>2 DEF Backward
<1>6. CASE Continue BY <1>1, <1>6 DEF Continue, Released
<1>7. CASE Pause
  <2>1. ASSUME ~Refused
        PROVE  PauseGateInv' /\ PauseLostInv'
    <3>1. /\ state' = "PAUSED_R"
          /\ pausing' = "spent" => pausing = "spent"
          /\ UNCHANGED <<seq, is_abort, prog, local, aborting, stepping>>
      BY <1>7, <2>1 DEF Pause
    <3>2. \A t \in Threads : prog_mode'[t] \in {prog_mode[t], "STEP_MODE"}
      BY <1>7, <2>1 DEF Pause
    <3>3. prog_mode'[0] \in {prog_mode[0], "STEP_MODE"} /\ prog_mode[0] \in ProgModes
      BY <3>2
    <3>4. Stepped(0)' => Stepped(0) \/ prog_mode[0] = "ERROR_MODE"
      BY <3>1, <3>3 DEF ProgModes
    <3>5. PauseLostInv'
      BY <3>1
    <3>6. PauseGateInv'
      BY <3>1, <3>3, <3>4
    <3> QED
      BY <3>5, <3>6
  <2> QED
    BY <1>1, <2>1
<1>8. CASE Abort BY <1>1, <1>8 DEF Abort
<1> QED
  BY <1>1, <1>2, <1>3, <1>4, <1>5, <1>6, <1>7, <1>8 DEF Parse

LEMMA SecondHalvesPause ==
  ASSUME IInv, CommandInv, PauseGateInv, PauseLostInv, FinishCommand
  PROVE  PauseGateInv' /\ PauseLostInv'
<1> USE ZeroIsThread
<1> USE DEF IInv, TypeOK, CommandInv, PauseGateInv, PauseLostInv, Stepped, local, history,
            Gate, Ended, InMotion
<1>1. CASE JumpProg BY <1>1 DEF JumpProg
<1>2. CASE ForwardSetLine BY <1>2 DEF ForwardSetLine
<1>3. CASE BackwardSetLine BY <1>3 DEF BackwardSetLine
<1>4. CASE AbortProg BY <1>4 DEF AbortProg
<1>5. CASE AbortIdle BY <1>5 DEF AbortIdle
<1> QED
  BY <1>1, <1>2, <1>3, <1>4, <1>5 DEF FinishCommand, CommandStep

-----------------------------------------------------------------------------
(***************************************************************************)
(* The theorems.                                                           *)
(***************************************************************************)
SInv == HistoryInv /\ CommandInv /\ StepInv

PInv == PauseGateInv /\ PauseLostInv /\ cmd # "SWITCH_STEP"

\* With no JUMP that finds its line, whatever else the clients ask for.
LEMMA StepInvariance ==
  ASSUME NoJump
  PROVE  Spec => []SInv
<1>1. Init => SInv
  BY DEF Init, SInv, HistoryInv, CommandInv, StepInv, Gate, Ended
<1>2. IInv /\ SInv /\ [Next]_vars => SInv'
  <2> SUFFICES ASSUME IInv, HistoryInv, CommandInv, StepInv, [Next]_vars
               PROVE  HistoryInv' /\ CommandInv' /\ StepInv'
    BY DEF SInv
  <2>1. ASSUME NEW c \in Requests, ServeRequest(c)
        PROVE  HistoryInv' /\ CommandInv' /\ StepInv'
    BY <2>1, CommandsHistory, RequestsAssumption DEF ServeRequest
  <2>2. CASE IdlePass
    BY <2>2, CommandsHistory DEF IdlePass, IInv, TypeOK
  <2>3. CASE FinishCommand
    BY <2>3, SecondHalvesHistory
  <2>4. ASSUME NEW t \in Threads, RunThread(t)
        PROVE  HistoryInv' /\ CommandInv' /\ StepInv'
    <3>1. HistoryInv' /\ CommandInv'
      BY <2>4, HistoryThread, CommandThread
    <3>2. CASE seq = 0
      <4>1. t = 0
        BY <2>4, <3>2, OnlyThread
      <4> QED
        BY <2>4, <3>1, <3>2, <4>1, StepThread
    <3>3. CASE seq # 0
      <4>1. seq' = seq
        BY <2>4, ThreadKeepsSeq
      <4> QED
        BY <3>1, <3>3, <4>1 DEF StepInv
    <3> QED
      BY <3>2, <3>3
  <2>5. CASE PermitMotion
    BY <2>5 DEF PermitMotion, HistoryInv, CommandInv, StepInv, Stepped, local, history,
         mainLocal
  <2>6. CASE UNCHANGED vars
    BY <2>6 DEF vars, HistoryInv, CommandInv, StepInv, Stepped, shared, local, history,
         mainLocal
  <2> QED
    BY <2>1, <2>2, <2>3, <2>4, <2>5, <2>6 DEF Next
<1> QED
  BY <1>1, <1>2, Invariance, PTL DEF Spec

\* Whatever the program and the other commands: with a single program a statement only
\* begins in STEP_MODE when a command let it, or behind something that is no statement.
THEOREM OneStatement ==
  ASSUME NoJump
  PROVE  Spec => []OneStatementPerStep
<1>1. IInv /\ SInv => OneStatementPerStep
  BY DEF SInv, StepInv, Stepped, OneStatementPerStep, Steps, Begins
<1> QED
  BY <1>1, StepInvariance, Invariance, PTL

\* Clients that never switch the mode of a running program.
NoSwitch == "SWITCH_STEP" \notin Requests

\* Whatever the program: behind a PAUSE that nobody resumed at most one more statement
\* begins, unless the PAUSE came into a step that had just been released.
THEOREM PauseBounds ==
  ASSUME NoJump, NoSwitch
  PROVE  Spec => []PauseBoundsRun
<1>1. Init => PInv
  BY DEF Init, PInv, PauseGateInv, PauseLostInv, Gate
<1>2. IInv /\ SInv /\ PInv /\ [Next]_vars => PInv'
  <2> SUFFICES ASSUME IInv, HistoryInv, CommandInv, PauseGateInv, PauseLostInv,
                      cmd # "SWITCH_STEP", [Next]_vars
               PROVE  PauseGateInv' /\ PauseLostInv' /\ cmd' # "SWITCH_STEP"
    BY DEF PInv, SInv
  <2>1. ASSUME NEW c \in Requests, ServeRequest(c)
        PROVE  PauseGateInv' /\ PauseLostInv' /\ cmd' # "SWITCH_STEP"
    BY <2>1, CommandsPause, RequestsAssumption DEF ServeRequest, NoSwitch
  <2>2. CASE IdlePass
    BY <2>2, CommandsPause DEF IdlePass, IInv, TypeOK
  <2>3. CASE FinishCommand
    BY <2>3, SecondHalvesPause DEF FinishCommand, loop
  <2>4. ASSUME NEW t \in Threads, RunThread(t)
        PROVE  PauseGateInv' /\ PauseLostInv' /\ cmd' # "SWITCH_STEP"
    <3>1. cmd' = cmd
      BY <2>4 DEF RunThread, loop
    <3>2. CASE seq = 0
      <4>1. t = 0
        BY <2>4, <3>2, OnlyThread
      <4> QED
        BY <2>4, <3>1, <3>2, <4>1, PauseGateThread, PauseLostThread
    <3>3. CASE seq # 0
      <4>1. seq' = seq
        BY <2>4, ThreadKeepsSeq
      <4> QED
        BY <3>1, <3>3, <4>1 DEF PauseGateInv, PauseLostInv
    <3> QED
      BY <3>2, <3>3
  <2>5. CASE PermitMotion
    BY <2>5 DEF PermitMotion, PauseGateInv, PauseLostInv, Stepped, local, history, loop
  <2>6. CASE UNCHANGED vars
    BY <2>6 DEF vars, PauseGateInv, PauseLostInv, Stepped, shared, local, history, loop
  <2> QED
    BY <2>1, <2>2, <2>3, <2>4, <2>5, <2>6 DEF Next
<1>3. IInv /\ SInv /\ PInv => PauseBoundsRun
  BY ZeroIsThread DEF IInv, TypeOK, SInv, PInv, HistoryInv, PauseGateInv, PauseLostInv,
     PauseBoundsRun, Begins, Ended, InMotion, Stepped
<1> QED
  BY <1>1, <1>2, <1>3, StepInvariance, Invariance, PTL DEF Spec

=============================================================================
