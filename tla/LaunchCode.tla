------------------------------ MODULE LaunchCode ------------------------------
(***************************************************************************)
(* Starting programs by launch code (forsight_launch_code_startup.cpp,     *)
(* launch_code_mgr.cpp), with what the command loop does to it             *)
(* (deal_auto_mode, MOD_SMLT_VAL, MOD_SMLT_STS and START of                *)
(* forsight_inter_control.cpp).  A launch thread polls the selection       *)
(* strobe, reads the program number off the selection lines, confirms it,  *)
(* starts the program and takes its own signals back.  All lines are       *)
(* simulated lines both threads write without a lock: every access is a    *)
(* step.  A number is the set of the lines that are up for it: line i is   *)
(* bit i - 1.  The controller is a sender of requests that raises the      *)
(* strobe behind its selection and waits for the strobe and the check      *)
(* request to fall before it selects again.                                *)
(***************************************************************************)
EXTENDS IoController, Sequences, FiniteSets

CONSTANTS
  NUM_THREAD,      \* slots of g_thread_control_block
  SelectionLines,  \* number of selection lines (6 in the code)
  Files,           \* the property files below /data/programs: [prog, code]
  Launchers,       \* bound: the launch threads ever created
  Modes,           \* the modes requests ask for
  Switches,        \* the names requests switch simulation on or off for
  MaxAsked,        \* bound: selections of the controller
  MaxSeq           \* bound: programs started by hand

AutoModes == {"AUTOMODE_NONE_U", "LOCAL_TRIGGER_U", "LAUNCH_CODE_U", "MACRO_TRIGGER_U"}

Numbers == 1 .. SelectionLines
Codes == SUBSET Numbers
Programs == {f.prog : f \in Files}
FileCodes == {f.code : f \in Files}

ASSUME LaunchAssumption ==
  /\ NUM_THREAD \in Nat \ {0}
  /\ SelectionLines \in Nat \ {0}
  /\ Files \subseteq [prog : Programs, code : SUBSET Nat]
  /\ Launchers \subseteq Nat
  /\ Modes \subseteq AutoModes
  /\ MaxAsked \in Nat
  /\ MaxSeq \in Nat

UI_SELECTION_STROBE == <<"ui", 6>>
UI_MPLCS_START == <<"ui", 7>>
UI_PROGRAM_SELECTION(i) == <<"ui", 7 + i>>
UO_SELECTION_CHECK_REQUEST == <<"uo", 6>>
UO_MPLCS_START_DONE == <<"uo", 7>>
UO_SELECTION_CONFIRM(i) == <<"uo", 7 + i>>

VARIABLES
  io,        \* g_io_config_
  mode,      \* g_current_auto_mode
  loop,      \* the command loop: "up", "joining" a thread, or "gone" with the process
             \* (or nothing is known of it any more)
  seq,       \* g_iCurrentThreadSeq
  thread,    \* the launch threads: where each stands, and its variables (history met:
             \* a program was started by hand since this thread counted its own)
  handle,    \* the launch threads g_launch_code_interpreter_handle stands for: the last one
  want,      \* what the controller is about to select
  at,        \* the selection line it writes next; 0 when it waits
  asked,     \* the codes selected, at each strobe
  known,     \* history: those of them that some file has
  started    \* the programs launch threads started, where, and met as it was then

vars == <<io, mode, loop, seq, thread, handle, want, at, asked, known, started>>

Lines == {UI_SELECTION_STROBE, UI_MPLCS_START, UO_SELECTION_CHECK_REQUEST, UO_MPLCS_START_DONE}
           \cup {UI_PROGRAM_SELECTION(i) : i \in Numbers}
           \cup {UO_SELECTION_CONFIRM(i) : i \in Numbers}

Classes == {<<"rio_all", 0>>, <<"uio_all", 0>>}

On(line) == forgesight_get_io_status(io, line) # 0

Write(line, v) == io' = forgesight_set_io_status(io, line, v)

Bit(code, i) == IF i \in code THEN 1 ELSE 0

incCurrentThreadSeq == seq' = IF seq < NUM_THREAD THEN seq + 1 ELSE 0

Places == {"none", "files", "strobe", "select", "confirm", "check", "fake", "start", "found",
           "count", "block", "file", "lower", "unstart", "clear", "behind", "uncheck",
           "unconfirm", "undone"}

NoThread == [pc |-> "none", iRet |-> {}, bIsSelectionStrobe |-> FALSE, i |-> 1,
             block |-> 0, prog |-> {}, list |-> <<>>, met |-> FALSE]

Init ==
  /\ io = [n \in Lines \cup Classes |-> [emltFlag |-> 1, value |-> IF n \in Lines THEN 0 ELSE 1]]
  /\ mode = "AUTOMODE_NONE_U"
  /\ loop = "up"
  /\ seq = -1
  /\ thread = [l \in Launchers |-> NoThread]
  /\ handle = {}
  /\ want = {}
  /\ at = 0
  /\ asked = <<>>
  /\ known = <<>>
  /\ started = <<>>

(***************************************************************************)
(* The launch thread.                                                      *)
(***************************************************************************)
Go(l, from, to) ==
  /\ loop # "gone"
  /\ thread[l].pc = from
  /\ thread' = [thread EXCEPT ![l].pc = to]

\* Variant: with the seventh line that is compiled out.
NextLineSeventh(l, from, to, iRet) ==
  /\ loop # "gone"
  /\ thread[l].pc = from
  /\ thread' = [thread EXCEPT ![l].iRet = iRet,
                              ![l].i = IF @ <= SelectionLines THEN @ + 1 ELSE 1,
                              ![l].pc = IF thread[l].i <= SelectionLines THEN @ ELSE to]

\* For each of the lines in turn, then on to the next place.
NextLine(l, from, to, iRet) ==
  /\ loop # "gone"
  /\ thread[l].pc = from
  /\ thread' = [thread EXCEPT ![l].iRet = iRet,
                              ![l].i = IF @ < SelectionLines THEN @ + 1 ELSE 1,
                              ![l].pc = IF thread[l].i < SelectionLines THEN @ ELSE to]

Controller == <<want, at, asked, known>>
Loop == <<mode, loop, handle>>

\* LaunchCodeMgr reads the files in the order of the directory; of two with one code
\* the first is kept.
initial(l) ==
  /\ loop # "gone"
  /\ thread[l].pc = "files"
  /\ \E list \in [FileCodes -> Programs] :
       /\ \A c \in FileCodes : [prog |-> list[c], code |-> c] \in Files
       /\ thread' = [thread EXCEPT ![l].pc = "strobe", ![l].list = list]
  /\ UNCHANGED <<io, seq, started, Loop, Controller>>

PollStrobe(l) ==
  /\ loop # "gone"
  /\ thread[l].pc = "strobe"
  /\ thread' = [thread EXCEPT ![l].bIsSelectionStrobe = On(UI_SELECTION_STROBE),
                              ![l].iRet = IF On(UI_SELECTION_STROBE) THEN {} ELSE @,
                              ![l].pc = IF On(UI_SELECTION_STROBE) THEN "select" ELSE "start"]
  /\ UNCHANGED <<io, seq, started, Loop, Controller>>

get_program_selection_value(l) ==
  /\ LET i == thread[l].i
     IN  NextLine(l, "select", "confirm",
           IF On(UI_PROGRAM_SELECTION(i)) THEN thread[l].iRet \cup {i} ELSE thread[l].iRet)
  /\ UNCHANGED <<io, seq, started, Loop, Controller>>

\* Variant: the last line is left out.
set_selection_confirm_value_short(l) ==
  /\ NextLine(l, "confirm", "check", thread[l].iRet)
  /\ IF thread[l].i < SelectionLines
     THEN Write(UO_SELECTION_CONFIRM(thread[l].i), Bit(thread[l].iRet, thread[l].i))
     ELSE UNCHANGED io
  /\ UNCHANGED <<seq, started, Loop, Controller>>

set_selection_confirm_value(l) ==
  /\ NextLine(l, "confirm", "check", thread[l].iRet)
  /\ Write(UO_SELECTION_CONFIRM(thread[l].i), Bit(thread[l].iRet, thread[l].i))
  /\ UNCHANGED <<seq, started, Loop, Controller>>

RequestCheck(l) ==
  /\ Go(l, "check", "fake")
  /\ Write(UO_SELECTION_CHECK_REQUEST, 1)
  /\ UNCHANGED <<seq, started, Loop, Controller>>

\* USE_FAKE_PLC: the thread gives itself the signal to start.
FakeStart(l) ==
  /\ Go(l, "fake", "start")
  /\ Write(UI_MPLCS_START, 1)
  /\ UNCHANGED <<seq, started, Loop, Controller>>

PollStart(l) ==
  /\ Go(l, "start", IF On(UI_MPLCS_START) THEN "found" ELSE "behind")
  /\ UNCHANGED <<io, seq, started, Loop, Controller>>

getProgramByCode(t) == {t.list[c] : c \in {t.iRet} \cap DOMAIN t.list}

StartDone(l) ==
  /\ loop # "gone"
  /\ thread[l].pc = "found"
  /\ LET prog == getProgramByCode(thread[l])
     IN  thread' = [thread EXCEPT ![l].prog = prog,
                                  ![l].met = FALSE,
                                  ![l].pc = IF prog = {} THEN "lower" ELSE "count"]
  /\ Write(UO_MPLCS_START_DONE, 1)
  /\ UNCHANGED <<seq, started, Loop, Controller>>

CountThread(l) ==
  /\ Go(l, "count", "block")
  /\ incCurrentThreadSeq
  /\ UNCHANGED <<io, started, Loop, Controller>>

\* Block NUM_THREAD lies behind the array; nothing is known once it is written to.
BlockOf(s) == loop' = IF s = NUM_THREAD THEN "gone" ELSE loop

TakeBlock(l) ==
  /\ loop # "gone"
  /\ thread[l].pc = "block"
  /\ thread' = [thread EXCEPT ![l].pc = "file", ![l].block = seq]
  /\ BlockOf(seq)
  /\ UNCHANGED <<io, seq, started, mode, handle, Controller>>

\* The block is the one taken before, the thread index the number as it is now.
startFile(l) ==
  /\ Go(l, "file", "lower")
  /\ \E p \in thread[l].prog :
       started' = Append(started, [prog |-> p, block |-> thread[l].block, idx |-> seq,
                                   met |-> thread[l].met])
  /\ UNCHANGED <<io, seq, Loop, Controller>>

LowerStrobe(l) ==
  /\ Go(l, "lower", "unstart")
  /\ Write(UI_SELECTION_STROBE, 0)
  /\ UNCHANGED <<seq, started, Loop, Controller>>

\* Variant: the signal to start is left up.
LowerStartNot(l) ==
  /\ Go(l, "unstart", "clear")
  /\ UNCHANGED <<io, seq, started, Loop, Controller>>

LowerStart(l) ==
  /\ Go(l, "unstart", "clear")
  /\ Write(UI_MPLCS_START, 0)
  /\ UNCHANGED <<seq, started, Loop, Controller>>

clear_program_selection_value(l) ==
  /\ NextLine(l, "clear", "behind", thread[l].iRet)
  /\ Write(UI_PROGRAM_SELECTION(thread[l].i), 0)
  /\ UNCHANGED <<seq, started, Loop, Controller>>

\* Variant: the test of the strobe is the wrong way round.
StrobeFellRaised(l) ==
  /\ Go(l, "behind",
        IF thread[l].bIsSelectionStrobe /\ On(UI_SELECTION_STROBE) THEN "uncheck" ELSE "strobe")
  /\ UNCHANGED <<io, seq, started, Loop, Controller>>

StrobeFell(l) ==
  /\ Go(l, "behind",
        IF thread[l].bIsSelectionStrobe /\ ~On(UI_SELECTION_STROBE) THEN "uncheck" ELSE "strobe")
  /\ UNCHANGED <<io, seq, started, Loop, Controller>>

Uncheck(l) ==
  /\ Go(l, "uncheck", "unconfirm")
  /\ Write(UO_SELECTION_CHECK_REQUEST, 0)
  /\ UNCHANGED <<seq, started, Loop, Controller>>

clear_selection_confirm_value(l) ==
  /\ NextLine(l, "unconfirm", "undone", thread[l].iRet)
  /\ Write(UO_SELECTION_CONFIRM(thread[l].i), 0)
  /\ UNCHANGED <<seq, started, Loop, Controller>>

Undone(l) ==
  /\ Go(l, "undone", "strobe")
  /\ Write(UO_MPLCS_START_DONE, 0)
  /\ UNCHANGED <<seq, started, Loop, Controller>>

launch_code_thread(l) ==
  \/ initial(l) \/ PollStrobe(l) \/ get_program_selection_value(l)
  \/ set_selection_confirm_value(l) \/ RequestCheck(l) \/ FakeStart(l)
  \/ PollStart(l) \/ StartDone(l) \/ CountThread(l) \/ TakeBlock(l) \/ startFile(l)
  \/ LowerStrobe(l) \/ LowerStart(l) \/ clear_program_selection_value(l)
  \/ StrobeFell(l) \/ Uncheck(l) \/ clear_selection_confirm_value(l) \/ Undone(l)

(***************************************************************************)
(* The command loop.                                                       *)
(***************************************************************************)
launch_code_thread_create ==
  \E l \in Launchers :
    /\ thread[l].pc = "none"
    /\ thread' = [thread EXCEPT ![l].pc = "files"]
    /\ handle' = {l}
    /\ loop' = "up"

\* The join waits for a thread whose loop never ends.  Joining the handle no thread was
\* created for is undefined: the call returns or the process is gone.
launch_code_thread_destroy ==
  /\ loop' \in IF handle = {} THEN {"up", "gone"} ELSE {"joining"}
  /\ UNCHANGED <<thread, handle>>

\* The thread of the macro instructions does not end either.
macro_instr_thread_destroy == loop' = "joining" /\ UNCHANGED <<thread, handle>>

Mode(m) == mode' = IF loop' = "up" THEN m ELSE mode

deal_auto_mode(m) ==
  /\ CASE mode \in {"AUTOMODE_NONE_U", "LOCAL_TRIGGER_U"} /\ m = "LAUNCH_CODE_U" ->
            launch_code_thread_create
       [] mode = "LAUNCH_CODE_U" /\ m \in {"LOCAL_TRIGGER_U", "MACRO_TRIGGER_U"} ->
            launch_code_thread_destroy
       [] mode = "MACRO_TRIGGER_U" /\ m = "LOCAL_TRIGGER_U" -> launch_code_thread_destroy
       [] mode = "MACRO_TRIGGER_U" /\ m = "LAUNCH_CODE_U" -> macro_instr_thread_destroy
       [] OTHER -> UNCHANGED <<loop, thread, handle>>
  /\ Mode(m)

SetAutoMode ==
  /\ loop = "up"
  /\ \E m \in Modes : deal_auto_mode(m)
  /\ UNCHANGED <<io, seq, started, Controller>>

\* Requests that need a block are dropped before the first program.
ModSmltSts ==
  /\ loop = "up"
  /\ seq >= 0
  /\ \E n \in Switches, v \in {0, 1} : io' = forgesight_mod_io_emulate_status(io, n, v)
  /\ UNCHANGED <<seq, thread, started, Loop, Controller>>

ModSmltVal(line, v) ==
  /\ loop = "up"
  /\ io' = IF seq >= 0 THEN forgesight_mod_io_emulate_value(io, line, v) ELSE io
  /\ UNCHANGED <<seq, thread, started, Loop>>

\* A program is started by hand, in any mode, whatever the launch thread is doing with
\* the number.  One increment is one step.
Start ==
  /\ loop = "up"
  /\ seq < MaxSeq
  /\ incCurrentThreadSeq
  /\ BlockOf(seq')
  /\ thread' = [l \in Launchers |->
                  [thread[l] EXCEPT !.met = @ \/ thread[l].pc \in {"block", "file"}]]
  /\ UNCHANGED <<io, started, mode, handle, Controller>>

(***************************************************************************)
(* The controller: a number is written to the selection lines, then the    *)
(* strobe is raised; the next one waits for both signals to fall.          *)
(***************************************************************************)
Choose ==
  /\ at = 0
  /\ seq >= 0
  /\ Len(asked) < MaxAsked
  /\ ~On(UI_SELECTION_STROBE)
  /\ ~On(UO_SELECTION_CHECK_REQUEST)
  /\ want' \in Codes
  /\ at' = 1
  /\ UNCHANGED <<io, seq, thread, started, asked, known, Loop>>

WriteSelection ==
  /\ at \in Numbers
  /\ ModSmltVal(UI_PROGRAM_SELECTION(at), Bit(want, at))
  /\ at' = at + 1
  /\ UNCHANGED <<want, asked, known>>

RaiseStrobe ==
  /\ at = SelectionLines + 1
  /\ ModSmltVal(UI_SELECTION_STROBE, 1)
  /\ asked' = Append(asked, want)
  /\ known' = IF want \in FileCodes THEN Append(known, want) ELSE known
  /\ at' = 0
  /\ UNCHANGED want

Next ==
  \/ \E l \in Launchers : launch_code_thread(l)
  \/ SetAutoMode \/ ModSmltSts \/ Start
  \/ Choose \/ WriteSelection \/ RaiseStrobe

Spec == Init /\ [][Next]_vars

\* Every launch thread goes on running.
Fairness == \A l \in Launchers : WF_vars(launch_code_thread(l))

FairSpec == Spec /\ Fairness

-----------------------------------------------------------------------------
TypeOK ==
  /\ \A n \in DOMAIN io : io[n].emltFlag \in {0, 1} /\ io[n].value \in {0, 1}
  /\ mode \in AutoModes
  /\ loop \in {"up", "joining", "gone"}
  /\ seq \in -1 .. NUM_THREAD
  /\ \A l \in Launchers :
       /\ thread[l].pc \in Places /\ thread[l].iRet \in Codes /\ thread[l].i \in Numbers
       /\ thread[l].met \in BOOLEAN
  /\ handle \subseteq Launchers
  /\ want \in Codes
  /\ at \in 0 .. SelectionLines + 1

\* Each selection of a known code starts one program, one with that code, in the order
\* of the selections: none is started twice, none from a half-written number, and each
\* runs in the block its thread index stands for, unless a START by hand came in between
\* the count and the start.
StartsSelected ==
  /\ Len(started) <= Len(known)
  /\ \A i \in 1 .. Len(started) : started[i].met \/ started[i].block = started[i].idx
  /\ \A i \in 1 .. Len(started) : [prog |-> started[i].prog, code |-> known[i]] \in Files

\* While the check request is up, the confirmation lines show the number selected last.
ConfirmsSelected ==
  On(UO_SELECTION_CHECK_REQUEST) =>
    /\ asked # <<>>
    /\ \A i \in Numbers : On(UO_SELECTION_CONFIRM(i)) <=> i \in asked[Len(asked)]

\* A strobe that a launch thread can see is answered: the known program starts, and the
\* check request falls again, so that the controller can select once more.
EverySelectionServed ==
  \A n \in 1 .. MaxAsked :
    Len(asked) = n /\ handle # {} ~>
      \/ Len(started) = Len(known) /\ ~On(UI_SELECTION_STROBE) /\ ~On(UO_SELECTION_CHECK_REQUEST)
      \/ Len(asked) > n
      \/ loop = "gone"

=============================================================================
