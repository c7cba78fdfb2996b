--------------------------- MODULE LaunchCodeProofs ---------------------------
(***************************************************************************)
(* For every number of selection lines, every set of files and of slots:   *)
(* each selection of a known code starts its program once and in order,    *)
(* and the confirmation shows what was selected.  The argument is the      *)
(* handshake itself: where the launch thread stands decides which signals  *)
(* are up, and the signals decide what the controller may do.              *)
(***************************************************************************)
EXTENDS LaunchCode, TLAPS

\* Leaving LAUNCH_CODE for NONE lets a second launch thread be created.
OneLauncher == "AUTOMODE_NONE_U" \notin Modes

rio_all == <<"rio_all", 0>>

\* Requests leave every line simulated, by its own flag or by that of its class.
StaySimulated == rio_all \notin Switches \/ Switches \cap Lines = {}

\* The lines that are up.
UpIn(c) == {n \in Lines : forgesight_get_io_status(c, n) # 0}

Up == UpIn(io)

-----------------------------------------------------------------------------
(***************************************************************************)
(* The invariant.                                                          *)
(***************************************************************************)
IsConfig(c) ==
  /\ c = [n \in DOMAIN c |-> [emltFlag |-> c[n].emltFlag, value |-> c[n].value]]
  /\ Lines \cup Classes \subseteq DOMAIN c
  /\ \A n \in DOMAIN c : c[n].emltFlag \in {0, 1} /\ c[n].value \in {0, 1}

Simulated(c) ==
  /\ IsConfig(c)
  /\ rio_all \notin Switches => c[rio_all].emltFlag = 1
  /\ \A n \in Lines \ Switches : c[n].emltFlag = 1

IoInv == Simulated(io)

LaunchThreads ==
  [pc : Places, iRet : Codes, bIsSelectionStrobe : BOOLEAN, i : Numbers,
   block : -1 .. NUM_THREAD, prog : SUBSET Programs,
   list : {<<>>} \cup [FileCodes -> Programs], met : BOOLEAN]

StateInv ==
  /\ mode \in AutoModes /\ loop \in {"up", "joining", "gone"}
  /\ seq \in -1 .. NUM_THREAD /\ handle \subseteq Launchers
  /\ thread \in [Launchers -> LaunchThreads]
  /\ want \in Codes /\ at \in 0 .. SelectionLines + 1
  /\ asked \in Seq(Codes) /\ known \in Seq(FileCodes)
  /\ started \in Seq([prog : Programs, block : -1 .. NUM_THREAD, idx : -1 .. NUM_THREAD,
                      met : BOOLEAN])

\* There is at most one launch thread, and from its creation on the mode stays.
LauncherInv ==
  /\ \A l \in Launchers : thread[l].pc # "none" => handle = {l}
  /\ handle # {} => mode = "LAUNCH_CODE_U" /\ \E l \in Launchers : thread[l].pc # "none"

\* The stretches of the loop.
Found == {"found", "count", "block", "file", "lower"}

Answering(t) ==
  \/ t.pc \in {"select", "confirm", "check", "fake"} \cup Found
  \/ t.pc = "start" /\ t.bIsSelectionStrobe

Signalled(t) ==
  \/ t.pc \in Found \cup {"unstart"}
  \/ t.pc = "start" /\ t.bIsSelectionStrobe

Confirmed(t) ==
  \/ t.pc \in {"fake"} \cup Found \cup {"unstart", "clear", "uncheck"}
  \/ t.pc \in {"start", "behind"} /\ t.bIsSelectionStrobe

Ending(t) ==
  \/ t.pc \in {"unstart", "clear", "uncheck"}
  \/ t.pc = "behind" /\ t.bIsSelectionStrobe

\* Where the thread stands decides which signals are up; without one none is.
SignalInv ==
  /\ handle = {} => UO_SELECTION_CHECK_REQUEST \notin Up /\ UI_MPLCS_START \notin Up
  /\ \A l \in Launchers : thread[l].pc # "none" =>
       /\ UO_SELECTION_CHECK_REQUEST \in Up <=> Confirmed(thread[l])
       /\ UI_MPLCS_START \in Up <=> Signalled(thread[l])
       /\ Answering(thread[l]) => UI_SELECTION_STROBE \in Up
       /\ Ending(thread[l]) => UI_SELECTION_STROBE \notin Up
       /\ Answering(thread[l]) \/ Ending(thread[l]) => thread[l].bIsSelectionStrobe

\* The controller writes while both signals are down, and waits while one is up.
ControllerInv ==
  /\ at > 0 =>
       /\ seq >= 0
       /\ UI_SELECTION_STROBE \notin Up /\ UO_SELECTION_CHECK_REQUEST \notin Up
       /\ \A j \in Numbers : j < at => (UI_PROGRAM_SELECTION(j) \in Up <=> j \in want)
  /\ UI_SELECTION_STROBE \in Up =>
       \A j \in Numbers : UI_PROGRAM_SELECTION(j) \in Up <=> j \in want
  /\ UI_SELECTION_STROBE \in Up \/ UO_SELECTION_CHECK_REQUEST \in Up =>
       asked # <<>> /\ asked[Len(asked)] = want

\* The number the thread works with is the one selected.
ReadInv ==
  \A l \in Launchers :
    /\ thread[l].pc = "select" => thread[l].iRet = {j \in want : j < thread[l].i}
    /\ thread[l].pc \in {"confirm", "check"} \/ Confirmed(thread[l]) => thread[l].iRet = want
    /\ thread[l].pc = "confirm" =>
         \A j \in Numbers : j < thread[l].i => (UO_SELECTION_CONFIRM(j) \in Up <=> j \in want)
    /\ thread[l].pc = "check" \/ Confirmed(thread[l]) =>
         \A j \in Numbers : UO_SELECTION_CONFIRM(j) \in Up <=> j \in want
    /\ thread[l].pc \notin {"select", "confirm", "clear", "unconfirm"} => thread[l].i = 1

FileInv ==
  \A l \in Launchers :
    /\ thread[l].pc \notin {"none", "files"} =>
         /\ thread[l].list \in [FileCodes -> Programs]
         /\ \A c \in FileCodes : [prog |-> thread[l].list[c], code |-> c] \in Files
    /\ thread[l].pc \in {"count", "block", "file"} =>
         want \in FileCodes /\ thread[l].prog = {thread[l].list[want]}
    /\ thread[l].pc = "file" => thread[l].met \/ thread[l].block = seq

\* The last selection waits for its program.
Pending ==
  /\ UI_SELECTION_STROBE \in Up /\ want \in FileCodes
  /\ \A l \in Launchers : thread[l].pc # "lower"

StartedInv ==
  /\ Pending => Len(known) = Len(started) + 1 /\ known[Len(known)] = want
  /\ ~Pending => Len(known) = Len(started)
  /\ \A k \in 1 .. Len(started) :
       /\ started[k].met \/ started[k].block = started[k].idx
       /\ [prog |-> started[k].prog, code |-> known[k]] \in Files

-----------------------------------------------------------------------------
(***************************************************************************)
(* Lines and steps.                                                        *)
(***************************************************************************)
LEMMA ConstantFacts ==
  /\ NUM_THREAD \in Nat \ {0} /\ SelectionLines \in Nat \ {0}
  /\ Files \subseteq [prog : Programs, code : SUBSET Nat]
  /\ Modes \subseteq AutoModes /\ 1 \in Numbers
BY LaunchAssumption DEF Numbers

\* No two signals share a line.
LEMMA LineFacts ==
  /\ UI_SELECTION_STROBE \in Lines /\ UI_MPLCS_START \in Lines
  /\ UO_SELECTION_CHECK_REQUEST \in Lines /\ UO_MPLCS_START_DONE \in Lines
  /\ UI_SELECTION_STROBE # UI_MPLCS_START
  /\ UI_SELECTION_STROBE # UO_SELECTION_CHECK_REQUEST
  /\ UI_SELECTION_STROBE # UO_MPLCS_START_DONE
  /\ UI_MPLCS_START # UO_SELECTION_CHECK_REQUEST
  /\ UI_MPLCS_START # UO_MPLCS_START_DONE
  /\ UO_SELECTION_CHECK_REQUEST # UO_MPLCS_START_DONE
BY DEF Lines, UI_SELECTION_STROBE, UI_MPLCS_START, UO_SELECTION_CHECK_REQUEST,
       UO_MPLCS_START_DONE

LEMMA GroupFacts ==
  ASSUME NEW i \in Numbers
  PROVE  /\ UI_PROGRAM_SELECTION(i) \in Lines /\ UO_SELECTION_CONFIRM(i) \in Lines
         /\ UI_PROGRAM_SELECTION(i) \notin {UI_SELECTION_STROBE, UI_MPLCS_START,
              UO_SELECTION_CHECK_REQUEST, UO_MPLCS_START_DONE}
         /\ UO_SELECTION_CONFIRM(i) \notin {UI_SELECTION_STROBE, UI_MPLCS_START,
              UO_SELECTION_CHECK_REQUEST, UO_MPLCS_START_DONE}
         /\ \A j \in Numbers :
              /\ UI_PROGRAM_SELECTION(j) # UO_SELECTION_CONFIRM(i)
              /\ UI_PROGRAM_SELECTION(j) = UI_PROGRAM_SELECTION(i) => j = i
              /\ UO_SELECTION_CONFIRM(j) = UO_SELECTION_CONFIRM(i) => j = i
BY LaunchAssumption DEF Numbers, Lines, UI_SELECTION_STROBE, UI_MPLCS_START,
   UO_SELECTION_CHECK_REQUEST, UO_MPLCS_START_DONE, UI_PROGRAM_SELECTION, UO_SELECTION_CONFIRM

\* Every line stays simulated.
LEMMA LinesEmulated ==
  ASSUME StaySimulated, NEW c, Simulated(c), NEW n \in Lines
  PROVE  Emulated(c, n)
<1>1. AllOf(n[1]) = rio_all
  BY DEF AllOf, rio_all, Lines, UI_SELECTION_STROBE, UI_MPLCS_START,
     UO_SELECTION_CHECK_REQUEST, UO_MPLCS_START_DONE, UI_PROGRAM_SELECTION,
     UO_SELECTION_CONFIRM
<1>2. n \in DOMAIN c /\ rio_all \in DOMAIN c
  BY DEF Simulated, IsConfig, Classes, rio_all
<1> QED
  BY <1>1, <1>2 DEF StaySimulated, Simulated, Emulated, forgesight_io_config_get_value

LEMMA UpFacts ==
  ASSUME StaySimulated, NEW c, Simulated(c), NEW n \in Lines
  PROVE  n \in UpIn(c) <=> c[n].value = 1
<1>1. n \in DOMAIN c
  BY DEF Simulated, IsConfig
<1> QED
  BY <1>1, LinesEmulated DEF Simulated, IsConfig, UpIn, forgesight_get_io_status,
     forgesight_io_config_get_value

\* A write raises or lowers its line and no other.
LEMMA ValueWritten ==
  ASSUME StaySimulated, IoInv, NEW line \in Lines, NEW v \in {0, 1},
         io' = [io EXCEPT ![line]["value"] = v]
  PROVE  IoInv' /\ Up' = IF v = 1 THEN Up \cup {line} ELSE Up \ {line}
<1> USE DEF IoInv
<1>1. line \in DOMAIN io
  BY DEF Simulated, IsConfig
<1>2. /\ DOMAIN io' = DOMAIN io
      /\ \A n \in DOMAIN io : io'[n] = IF n = line THEN [io[n] EXCEPT !["value"] = v] ELSE io[n]
  BY <1>1
<1>3. \A n \in DOMAIN io :
        io'[n] = [emltFlag |-> io[n].emltFlag,
                  value |-> IF n = line THEN v ELSE io[n].value]
  BY <1>2 DEF Simulated, IsConfig
<1>4. io' = [n \in DOMAIN io' |-> [emltFlag |-> io'[n].emltFlag, value |-> io'[n].value]]
  BY <1>2, <1>3
<1>5. IsConfig(io')
  BY <1>2, <1>3, <1>4 DEF Simulated, IsConfig
<1>6. Simulated(io')
  <2>1. \A n \in DOMAIN io : io'[n].emltFlag = io[n].emltFlag
    BY <1>3
  <2>2. Lines \subseteq DOMAIN io /\ rio_all \in DOMAIN io
    BY DEF Simulated, IsConfig, Classes, rio_all
  <2> QED
    BY <1>5, <2>1, <2>2 DEF Simulated
<1>7. \A n \in Lines : n \in UpIn(io') <=> IF n = line THEN v = 1 ELSE n \in UpIn(io)
  <2> TAKE n \in Lines
  <2>1. n \in DOMAIN io
    BY DEF Simulated, IsConfig
  <2>2. io'[n].value = IF n = line THEN v ELSE io[n].value
    BY <1>3, <2>1
  <2> QED
    BY <1>6, <2>2, UpFacts
<1> QED
  BY <1>6, <1>7 DEF Up, UpIn

\* The two ways to write a line, and reading one.
LEMMA LineWritten ==
  ASSUME StaySimulated, IoInv, NEW line \in Lines, NEW v \in {0, 1}, Write(line, v)
  PROVE  IoInv' /\ Up' = IF v = 1 THEN Up \cup {line} ELSE Up \ {line}
<1>1. Emulated(io, line) /\ line \in DOMAIN io
  BY LinesEmulated DEF IoInv, Simulated, IsConfig
<1>2. io' = [io EXCEPT ![line]["value"] = v]
  BY <1>1 DEF Write, forgesight_set_io_status, forgesight_io_config_set_value
<1> QED
  BY <1>2, ValueWritten

LEMMA LineRequested ==
  ASSUME StaySimulated, IoInv, NEW line \in Lines, NEW v \in {0, 1},
         io' = forgesight_mod_io_emulate_value(io, line, v)
  PROVE  IoInv' /\ Up' = IF v = 1 THEN Up \cup {line} ELSE Up \ {line}
<1>1. line \in DOMAIN io
  BY DEF IoInv, Simulated, IsConfig
<1>2. io' = [io EXCEPT ![line]["value"] = v]
  BY <1>1 DEF forgesight_mod_io_emulate_value, forgesight_io_config_set_value
<1> QED
  BY <1>2, ValueWritten

LEMMA LineRead ==
  ASSUME NEW n \in Lines
  PROVE  On(n) <=> n \in Up
BY DEF Up, UpIn, On

\* Switching simulation on or off moves no line.
LEMMA LineSwitched ==
  ASSUME StaySimulated, IoInv, NEW n \in Switches, NEW v \in {0, 1},
         io' = forgesight_mod_io_emulate_status(io, n, v)
  PROVE  IoInv' /\ Up' = Up
<1> USE DEF IoInv
<1>1. \A k \in DOMAIN io : k \in DOMAIN io' /\ io'[k].value = io[k].value
  <2>1. CASE n \in DOMAIN io
    <3>1. /\ DOMAIN io' = DOMAIN io
          /\ \A k \in DOMAIN io :
               io'[k] = IF k = n THEN [io[k] EXCEPT !["emltFlag"] = v] ELSE io[k]
      BY <2>1 DEF forgesight_mod_io_emulate_status, forgesight_io_config_set_value
    <3> QED
      BY <3>1 DEF Simulated, IsConfig
  <2>2. CASE n \notin DOMAIN io
    BY <2>2 DEF forgesight_mod_io_emulate_status, forgesight_io_config_set_value
  <2> QED
    BY <2>1, <2>2
<1>2. \A k \in DOMAIN io' :
        /\ io'[k] = [emltFlag |-> io'[k].emltFlag, value |-> io'[k].value]
        /\ io'[k].emltFlag \in {0, 1} /\ io'[k].value \in {0, 1}
        /\ k # n => k \in DOMAIN io /\ io'[k].emltFlag = io[k].emltFlag
  <2>1. CASE n \in DOMAIN io
    <3>1. /\ DOMAIN io' = DOMAIN io
          /\ \A k \in DOMAIN io :
               io'[k] = IF k = n THEN [io[k] EXCEPT !["emltFlag"] = v] ELSE io[k]
      BY <2>1 DEF forgesight_mod_io_emulate_status, forgesight_io_config_set_value
    <3>2. \A k \in DOMAIN io :
            io'[k] = [emltFlag |-> IF k = n THEN v ELSE io[k].emltFlag, value |-> io[k].value]
      BY <3>1 DEF Simulated, IsConfig
    <3> QED
      BY <3>1, <3>2 DEF Simulated, IsConfig
  <2>2. CASE n \notin DOMAIN io
    <3>1. /\ DOMAIN io' = DOMAIN io \cup {n}
          /\ \A k \in DOMAIN io :
               io'[k] = [emltFlag |-> io[k].emltFlag, value |-> io[k].value]
          /\ io'[n] = [emltFlag |-> 0, value |-> v]
      BY <2>2 DEF forgesight_mod_io_emulate_status, forgesight_io_config_set_value,
        Simulated, IsConfig
    <3> QED
      BY <3>1 DEF Simulated, IsConfig
  <2> QED
    BY <2>1, <2>2
<1>3. io' = [k \in DOMAIN io' |-> io'[k]]
  BY DEF forgesight_mod_io_emulate_status, forgesight_io_config_set_value, Simulated, IsConfig
<1>4. IsConfig(io')
  BY <1>1, <1>2, <1>3 DEF Simulated, IsConfig
<1>5. Simulated(io')
  BY <1>1, <1>2, <1>4 DEF Simulated, IsConfig, Classes, rio_all
<1>6. \A k \in Lines : k \in UpIn(io') <=> k \in UpIn(io)
  BY <1>1, <1>5, UpFacts DEF Simulated, IsConfig
<1> QED
  BY <1>5, <1>6 DEF Up, UpIn

-----------------------------------------------------------------------------
(***************************************************************************)
(* The launch thread.                                                      *)
(***************************************************************************)
SameRest(t, u) ==
  /\ t.bIsSelectionStrobe = u.bIsSelectionStrobe
  /\ t.block = u.block /\ t.prog = u.prog /\ t.list = u.list /\ t.met = u.met

Others(l) == \A k \in Launchers : k # l => thread'[k] = thread[k]

LEMMA GoEffect ==
  ASSUME StateInv, NEW l \in Launchers, NEW from, NEW to \in Places, Go(l, from, to)
  PROVE  /\ thread' \in [Launchers -> LaunchThreads] /\ Others(l)
         /\ thread[l].pc = from /\ thread'[l].pc = to
         /\ thread'[l].iRet = thread[l].iRet /\ thread'[l].i = thread[l].i
         /\ SameRest(thread'[l], thread[l])
<1>1. thread' = [thread EXCEPT ![l] = [thread[l] EXCEPT !.pc = to]] /\ thread[l].pc = from
  BY DEF Go
<1>2. [thread[l] EXCEPT !.pc = to] \in LaunchThreads
  BY DEF StateInv, LaunchThreads
<1>3. thread'[l] = [thread[l] EXCEPT !.pc = to]
  BY <1>1 DEF StateInv
<1> QED
  BY <1>1, <1>2, <1>3 DEF StateInv, LaunchThreads, Others, SameRest

LineDone(l, from, to, r) ==
  /\ thread' \in [Launchers -> LaunchThreads] /\ Others(l)
  /\ thread[l].pc = from /\ thread'[l].iRet = r
  /\ SameRest(thread'[l], thread[l])
  /\ \/ /\ thread[l].i < SelectionLines
        /\ thread'[l].pc = from /\ thread'[l].i = thread[l].i + 1
     \/ /\ thread[l].i = SelectionLines
        /\ thread'[l].pc = to /\ thread'[l].i = 1

LEMMA NextLineEffect ==
  ASSUME StateInv, NEW l \in Launchers, NEW from, NEW to \in Places, NEW r \in Codes,
         NextLine(l, from, to, r)
  PROVE  LineDone(l, from, to, r)
<1> DEFINE u == [thread[l] EXCEPT !.iRet = r,
                   !.i = IF @ < SelectionLines THEN @ + 1 ELSE 1,
                   !.pc = IF thread[l].i < SelectionLines THEN @ ELSE to]
<1>1. thread' = [thread EXCEPT ![l] = u] /\ thread[l].pc = from
  BY DEF NextLine
<1>2. u \in LaunchThreads
  <2>1. (IF thread[l].i < SelectionLines THEN thread[l].i + 1 ELSE 1) \in Numbers
    BY ConstantFacts DEF StateInv, LaunchThreads, Numbers
  <2>2. (IF thread[l].i < SelectionLines THEN thread[l].pc ELSE to) \in Places
    BY DEF StateInv, LaunchThreads
  <2> QED
    BY <2>1, <2>2 DEF StateInv, LaunchThreads
<1>3. thread'[l] = u
  BY <1>1 DEF StateInv
<1> HIDE DEF u
<1>4. thread' \in [Launchers -> LaunchThreads] /\ Others(l)
  BY <1>1, <1>2 DEF StateInv, Others
<1> QED
  <2>1. thread[l] \in LaunchThreads /\ thread[l].i \in Numbers
    BY DEF StateInv, LaunchThreads
  <2>2. thread'[l].iRet = r /\ SameRest(thread'[l], thread[l])
    BY <1>3, <2>1 DEF LaunchThreads, SameRest, u
  <2>3. /\ thread'[l].i = IF thread[l].i < SelectionLines THEN thread[l].i + 1 ELSE 1
        /\ thread'[l].pc = IF thread[l].i < SelectionLines THEN thread[l].pc ELSE to
    BY <1>3, <2>1 DEF LaunchThreads, u
  <2>4. thread[l].i < SelectionLines \/ thread[l].i = SelectionLines
    BY <2>1, ConstantFacts DEF Numbers
  <2> QED
    BY <1>1, <1>4, <2>2, <2>3, <2>4 DEF LineDone

LEMMA Alone ==
  ASSUME LauncherInv, NEW l \in Launchers, thread[l].pc # "none"
  PROVE  /\ handle = {l} /\ mode = "LAUNCH_CODE_U"
         /\ \A k \in Launchers : k # l => thread[k].pc = "none"
BY DEF LauncherInv

LInv == /\ IoInv /\ StateInv /\ LauncherInv /\ SignalInv /\ ControllerInv
        /\ ReadInv /\ FileInv /\ StartedInv

\* Every step of a launch thread keeps the invariant.
LEMMA LaunchStep ==
  ASSUME StaySimulated, LInv, NEW l \in Launchers, launch_code_thread(l)
  PROVE  LInv'
<1> USE ConstantFacts
<1> USE DEF LInv, Controller, Loop, Places, Answering, Signalled, Confirmed, Ending, Found,
   Pending, SameRest, Others, LaunchThreads, LineDone
<1>0. thread[l].pc # "none"
  BY DEF launch_code_thread, initial, PollStrobe, get_program_selection_value,
     set_selection_confirm_value, RequestCheck, FakeStart, PollStart, StartDone, CountThread,
     TakeBlock, startFile, LowerStrobe, LowerStart, clear_program_selection_value, StrobeFell,
     Uncheck, clear_selection_confirm_value, Undone, Go, NextLine
<1>a. /\ handle = {l} /\ mode = "LAUNCH_CODE_U"
      /\ \A k \in Launchers : k # l => thread[k].pc = "none"
  BY <1>0, Alone
<1>b. thread[l] \in LaunchThreads
  BY DEF StateInv
<1>1. CASE RequestCheck(l)
  <2>1. /\ thread' \in [Launchers -> LaunchThreads] /\ Others(l)
        /\ thread[l].pc = "check" /\ thread'[l].pc = "fake"
        /\ thread'[l].iRet = thread[l].iRet /\ thread'[l].i = thread[l].i
        /\ SameRest(thread'[l], thread[l])
    BY <1>1, GoEffect DEF RequestCheck
  <2>2. IoInv' /\ Up' = Up \cup {UO_SELECTION_CHECK_REQUEST}
    BY <1>1, LineFacts, LineWritten DEF RequestCheck
  <2>3. UNCHANGED <<seq, started, mode, loop, handle, want, at, asked, known>>
    BY <1>1 DEF RequestCheck
  <2>4. StateInv' /\ LauncherInv'
    BY <1>0, <1>a, <1>b, <2>1, <2>2, <2>3 DEF StateInv, LauncherInv
  <2>5. SignalInv'
    BY <1>0, <1>a, <1>b, <2>1, <2>2, <2>3, LineFacts, GroupFacts, SMTT(20) DEF SignalInv
  <2>6. ControllerInv'
    BY <1>0, <1>a, <1>b, <2>1, <2>2, <2>3, LineFacts, GroupFacts DEF ControllerInv,
       SignalInv
  <2>7. ReadInv'
    BY <1>0, <1>a, <1>b, <2>1, <2>2, <2>3, LineFacts, GroupFacts, SMTT(20) DEF ReadInv,
       SignalInv
  <2>8. FileInv'
    BY <1>0, <1>a, <1>b, <2>1, <2>2, <2>3, LineFacts, GroupFacts DEF FileInv
  <2>9. StartedInv'
    <3>1. Pending' <=> Pending
      BY <1>0, <1>a, <1>b, <2>1, <2>2, <2>3, LineFacts, GroupFacts DEF SignalInv
    <3> HIDE DEF Pending
    <3> QED
      BY <2>3, <3>1 DEF StartedInv
  <2> QED
    BY <2>2, <2>4, <2>5, <2>6, <2>7, <2>8, <2>9
<1>2. CASE FakeStart(l)
  <2>1. /\ thread' \in [Launchers -> LaunchThreads] /\ Others(l)
        /\ thread[l].pc = "fake" /\ thread'[l].pc = "start"
        /\ thread'[l].iRet = thread[l].iRet /\ thread'[l].i = thread[l].i
        /\ SameRest(thread'[l], thread[l])
    BY <1>2, GoEffect DEF FakeStart
  <2>2. IoInv' /\ Up' = Up \cup {UI_MPLCS_START}
    BY <1>2, LineFacts, LineWritten DEF FakeStart
  <2>3. UNCHANGED <<seq, started, mode, loop, handle, want, at, asked, known>>
    BY <1>2 DEF FakeStart
  <2>4. StateInv' /\ LauncherInv'
    BY <1>0, <1>a, <1>b, <2>1, <2>2, <2>3 DEF StateInv, LauncherInv
  <2>5. SignalInv'
    BY <1>0, <1>a, <1>b, <2>1, <2>2, <2>3, LineFacts, GroupFacts, SMTT(20) DEF SignalInv
  <2>6. ControllerInv'
    BY <1>0, <1>a, <1>b, <2>1, <2>2, <2>3, LineFacts, GroupFacts DEF ControllerInv,
       SignalInv
  <2>7. ReadInv'
    BY <1>0, <1>a, <1>b, <2>1, <2>2, <2>3, LineFacts, GroupFacts, SMTT(20) DEF ReadInv,
       SignalInv
  <2>8. FileInv'
    BY <1>0, <1>a, <1>b, <2>1, <2>2, <2>3, LineFacts, GroupFacts DEF FileInv
  <2>9. StartedInv'
    <3>1. Pending' <=> Pending
      BY <1>0, <1>a, <1>b, <2>1, <2>2, <2>3, LineFacts, GroupFacts DEF SignalInv
    <3> HIDE DEF Pending
    <3> QED
      BY <2>3, <3>1 DEF StartedInv
  <2> QED
    BY <2>2, <2>4, <2>5, <2>6, <2>7, <2>8, <2>9
<1>3. CASE LowerStrobe(l)
  <2>1. /\ thread' \in [Launchers -> LaunchThreads] /\ Others(l)
        /\ thread[l].pc = "lower" /\ thread'[l].pc = "unstart"
        /\ thread'[l].iRet = thread[l].iRet /\ thread'[l].i = thread[l].i
        /\ SameRest(thread'[l], thread[l])
    BY <1>3, GoEffect DEF LowerStrobe
  <2>2. IoInv' /\ Up' = Up \ {UI_SELECTION_STROBE}
    BY <1>3, LineFacts, LineWritten DEF LowerStrobe
  <2>3. UNCHANGED <<seq, started, mode, loop, handle, want, at, asked, known>>
    BY <1>3 DEF LowerStrobe
  <2>4. StateInv' /\ LauncherInv'
    BY <1>0, <1>a, <1>b, <2>1, <2>2, <2>3 DEF StateInv, LauncherInv
  <2>5. SignalInv'
    BY <1>0, <1>a, <1>b, <2>1, <2>2, <2>3, LineFacts, GroupFacts, SMTT(20) DEF SignalInv
  <2>6. ControllerInv'
    BY <1>0, <1>a, <1>b, <2>1, <2>2, <2>3, LineFacts, GroupFacts DEF ControllerInv,
       SignalInv
  <2>7. ReadInv'
    BY <1>0, <1>a, <1>b, <2>1, <2>2, <2>3, LineFacts, GroupFacts, SMTT(20) DEF ReadInv,
       SignalInv
  <2>8. FileInv'
    BY <1>0, <1>a, <1>b, <2>1, <2>2, <2>3, LineFacts, GroupFacts DEF FileInv
  <2>9. StartedInv'
    <3>1. Pending' <=> Pending
      BY <1>0, <1>a, <1>b, <2>1, <2>2, <2>3, LineFacts, GroupFacts DEF SignalInv
    <3> HIDE DEF Pending
    <3> QED
      BY <2>3, <3>1 DEF StartedInv
  <2> QED
    BY <2>2, <2>4, <2>5, <2>6, <2>7, <2>8, <2>9
<1>4. CASE LowerStart(l)
  <2>1. /\ thread' \in [Launchers -> LaunchThreads] /\ Others(l)
        /\ thread[l].pc = "unstart" /\ thread'[l].pc = "clear"
        /\ thread'[l].iRet = thread[l].iRet /\ thread'[l].i = thread[l].i
        /\ SameRest(thread'[l], thread[l])
    BY <1>4, GoEffect DEF LowerStart
  <2>2. IoInv' /\ Up' = Up \ {UI_MPLCS_START}
    BY <1>4, LineFacts, LineWritten DEF LowerStart
  <2>3. UNCHANGED <<seq, started, mode, loop, handle, want, at, asked, known>>
    BY <1>4 DEF LowerStart
  <2>4. StateInv' /\ LauncherInv'
    BY <1>0, <1>a, <1>b, <2>1, <2>2, <2>3 DEF StateInv, LauncherInv
  <2>5. SignalInv'
    BY <1>0, <1>a, <1>b, <2>1, <2>2, <2>3, LineFacts, GroupFacts, SMTT(20) DEF SignalInv
  <2>6. ControllerInv'
    BY <1>0, <1>a, <1>b, <2>1, <2>2, <2>3, LineFacts, GroupFacts DEF ControllerInv,
       SignalInv
  <2>7. ReadInv'
    BY <1>0, <1>a, <1>b, <2>1, <2>2, <2>3, LineFacts, GroupFacts, SMTT(20) DEF ReadInv,
       SignalInv
  <2>8. FileInv'
    BY <1>0, <1>a, <1>b, <2>1, <2>2, <2>3, LineFacts, GroupFacts DEF FileInv
  <2>9. StartedInv'
    <3>1. Pending' <=> Pending
      BY <1>0, <1>a, <1>b, <2>1, <2>2, <2>3, LineFacts, GroupFacts DEF SignalInv
    <3> HIDE DEF Pending
    <3> QED
      BY <2>3, <3>1 DEF StartedInv
  <2> QED
    BY <2>2, <2>4, <2>5, <2>6, <2>7, <2>8, <2>9
<1>5. CASE Uncheck(l)
  <2>1. /\ thread' \in [Launchers -> LaunchThreads] /\ Others(l)
        /\ thread[l].pc = "uncheck" /\ thread'[l].pc = "unconfirm"
        /\ thread'[l].iRet = thread[l].iRet /\ thread'[l].i = thread[l].i
        /\ SameRest(thread'[l], thread[l])
    BY <1>5, GoEffect DEF Uncheck
  <2>2. IoInv' /\ Up' = Up \ {UO_SELECTION_CHECK_REQUEST}
    BY <1>5, LineFacts, LineWritten DEF Uncheck
  <2>3. UNCHANGED <<seq, started, mode, loop, handle, want, at, asked, known>>
    BY <1>5 DEF Uncheck
  <2>4. StateInv' /\ LauncherInv'
    BY <1>0, <1>a, <1>b, <2>1, <2>2, <2>3 DEF StateInv, LauncherInv
  <2>5. SignalInv'
    BY <1>0, <1>a, <1>b, <2>1, <2>2, <2>3, LineFacts, GroupFacts, SMTT(20) DEF SignalInv
  <2>6. ControllerInv'
    BY <1>0, <1>a, <1>b, <2>1, <2>2, <2>3, LineFacts, GroupFacts DEF ControllerInv,
       SignalInv
  <2>7. ReadInv'
    BY <1>0, <1>a, <1>b, <2>1, <2>2, <2>3, LineFacts, GroupFacts, SMTT(20) DEF ReadInv,
       SignalInv
  <2>8. FileInv'
    BY <1>0, <1>a, <1>b, <2>1, <2>2, <2>3, LineFacts, GroupFacts DEF FileInv
  <2>9. StartedInv'
    <3>1. Pending' <=> Pending
      BY <1>0, <1>a, <1>b, <2>1, <2>2, <2>3, LineFacts, GroupFacts DEF SignalInv
    <3> HIDE DEF Pending
    <3> QED
      BY <2>3, <3>1 DEF StartedInv
  <2> QED
    BY <2>2, <2>4, <2>5, <2>6, <2>7, <2>8, <2>9
<1>6. CASE Undone(l)
  <2>1. /\ thread' \in [Launchers -> LaunchThreads] /\ Others(l)
        /\ thread[l].pc = "undone" /\ thread'[l].pc = "strobe"
        /\ thread'[l].iRet = thread[l].iRet /\ thread'[l].i = thread[l].i
        /\ SameRest(thread'[l], thread[l])
    BY <1>6, GoEffect DEF Undone
  <2>2. IoInv' /\ Up' = Up \ {UO_MPLCS_START_DONE}
    BY <1>6, LineFacts, LineWritten DEF Undone
  <2>3. UNCHANGED <<seq, started, mode, loop, handle, want, at, asked, known>>
    BY <1>6 DEF Undone
  <2>4. StateInv' /\ LauncherInv'
    BY <1>0, <1>a, <1>b, <2>1, <2>2, <2>3 DEF StateInv, LauncherInv
  <2>5. SignalInv'
    BY <1>0, <1>a, <1>b, <2>1, <2>2, <2>3, LineFacts, GroupFacts, SMTT(20) DEF SignalInv
  <2>6. ControllerInv'
    BY <1>0, <1>a, <1>b, <2>1, <2>2, <2>3, LineFacts, GroupFacts DEF ControllerInv,
       SignalInv
  <2>7. ReadInv'
    BY <1>0, <1>a, <1>b, <2>1, <2>2, <2>3, LineFacts, GroupFacts, SMTT(20) DEF ReadInv,
       SignalInv
  <2>8. FileInv'
    BY <1>0, <1>a, <1>b, <2>1, <2>2, <2>3, LineFacts, GroupFacts DEF FileInv
  <2>9. StartedInv'
    <3>1. Pending' <=> Pending
      BY <1>0, <1>a, <1>b, <2>1, <2>2, <2>3, LineFacts, GroupFacts DEF SignalInv
    <3> HIDE DEF Pending
    <3> QED
      BY <2>3, <3>1 DEF StartedInv
  <2> QED
    BY <2>2, <2>4, <2>5, <2>6, <2>7, <2>8, <2>9
<1>7. CASE set_selection_confirm_value(l)
  <2>i. thread[l].i \in Numbers /\ thread[l].iRet \in Codes
    BY <1>b
  <2>1. LineDone(l, "confirm", "check", thread[l].iRet)
    <3>1. NextLine(l, "confirm", "check", thread[l].iRet)
      BY <1>7 DEF set_selection_confirm_value
    <3> QED
      BY <2>i, <3>1, NextLineEffect
  <2>2. IoInv' /\ Up' = IF thread[l].i \in thread[l].iRet
                       THEN Up \cup {UO_SELECTION_CONFIRM(thread[l].i)}
                       ELSE Up \ {UO_SELECTION_CONFIRM(thread[l].i)}
    BY <1>7, <1>b, GroupFacts, LineWritten DEF set_selection_confirm_value, Bit
  <2>3. UNCHANGED <<seq, started, mode, loop, handle, want, at, asked, known>>
    BY <1>7 DEF set_selection_confirm_value
  <2>w. \A j \in Numbers : j < thread[l].i + 1 =>
          (UO_SELECTION_CONFIRM(j) \in Up' <=> j \in want)
    <3>1. thread[l].iRet = want
      BY <2>1 DEF ReadInv
    <3>2. \A j \in Numbers : j < thread[l].i => (UO_SELECTION_CONFIRM(j) \in Up <=> j \in want)
      BY <2>1 DEF ReadInv
    <3>3. \A j \in Numbers : j < thread[l].i + 1 => j < thread[l].i \/ j = thread[l].i
      BY <2>i DEF Numbers
    <3> QED
      BY <2>2, <2>i, <3>1, <3>2, <3>3, GroupFacts DEF Numbers
  <2>v. thread[l].i = SelectionLines =>
          \A j \in Numbers : UO_SELECTION_CONFIRM(j) \in Up' <=> j \in want
    BY <2>w DEF Numbers
  <2>4. StateInv' /\ LauncherInv'
    BY <1>0, <1>a, <1>b, <2>1, <2>2, <2>3, <2>i, <2>w, <2>v DEF StateInv, LauncherInv
  <2>5. SignalInv'
    BY <1>0, <1>a, <1>b, <2>1, <2>2, <2>3, <2>i, <2>w, <2>v, LineFacts, GroupFacts,
       SMTT(20) DEF SignalInv
  <2>6. ControllerInv'
    BY <1>0, <1>a, <1>b, <2>1, <2>2, <2>3, <2>i, <2>w, <2>v, LineFacts, GroupFacts,
       SMTT(20) DEF ControllerInv, SignalInv
  <2>x. /\ thread'[l].iRet = want
        /\ \A k \in Launchers : k # l => thread'[k] = thread[k]
        /\ \/ thread'[l].pc = "confirm" /\ thread'[l].i = thread[l].i + 1
           \/ thread'[l].pc = "check" /\ thread'[l].i = 1 /\ thread[l].i = SelectionLines
    BY <2>1 DEF ReadInv
  <2>7. ReadInv'
    <3>1. CASE thread'[l].pc = "confirm"
      BY <1>a, <2>3, <2>w, <2>x, <3>1, SMTT(20) DEF ReadInv
    <3>2. CASE thread'[l].pc = "check"
      BY <1>a, <2>3, <2>v, <2>x, <3>2, SMTT(20) DEF ReadInv
    <3> QED
      BY <2>x, <3>1, <3>2
  <2>8. FileInv'
    BY <1>0, <1>a, <1>b, <2>1, <2>2, <2>3, <2>i, <2>w, <2>v, LineFacts, GroupFacts,
       SMTT(20) DEF FileInv
  <2>9. StartedInv'
    <3>1. Pending' <=> Pending
      BY <1>0, <1>a, <1>b, <2>1, <2>2, <2>3, <2>i, <2>w, <2>v, LineFacts, GroupFacts DEF
         SignalInv
    <3> HIDE DEF Pending
    <3> QED
      BY <2>3, <3>1 DEF StartedInv
  <2> QED
    BY <2>2, <2>4, <2>5, <2>6, <2>7, <2>8, <2>9
<1>8. CASE clear_program_selection_value(l)
  <2>i. thread[l].i \in Numbers /\ thread[l].iRet \in Codes
    BY <1>b
  <2>1. LineDone(l, "clear", "behind", thread[l].iRet)
    <3>1. NextLine(l, "clear", "behind", thread[l].iRet)
      BY <1>8 DEF clear_program_selection_value
    <3> QED
      BY <2>i, <3>1, NextLineEffect
  <2>2. IoInv' /\ Up' = Up \ {UI_PROGRAM_SELECTION(thread[l].i)}
    BY <1>8, <1>b, GroupFacts, LineWritten DEF clear_program_selection_value, Bit
  <2>3. UNCHANGED <<seq, started, mode, loop, handle, want, at, asked, known>>
    BY <1>8 DEF clear_program_selection_value
  <2>4. StateInv' /\ LauncherInv'
    BY <1>0, <1>a, <1>b, <2>1, <2>2, <2>3, <2>i DEF StateInv, LauncherInv
  <2>5. SignalInv'
    BY <1>0, <1>a, <1>b, <2>1, <2>2, <2>3, <2>i, LineFacts, GroupFacts, SMTT(20) DEF
       SignalInv
  <2>6. ControllerInv'
    BY <1>0, <1>a, <1>b, <2>1, <2>2, <2>3, <2>i, LineFacts, GroupFacts DEF
       ControllerInv, SignalInv
  <2>7. ReadInv'
    BY <1>0, <1>a, <1>b, <2>1, <2>2, <2>3, <2>i, LineFacts, GroupFacts, SMTT(20) DEF
       ReadInv, SignalInv
  <2>8. FileInv'
    BY <1>0, <1>a, <1>b, <2>1, <2>2, <2>3, <2>i, LineFacts, GroupFacts DEF FileInv
  <2>9. StartedInv'
    <3>1. Pending' <=> Pending
      BY <1>0, <1>a, <1>b, <2>1, <2>2, <2>3, <2>i, LineFacts, GroupFacts DEF SignalInv
    <3> HIDE DEF Pending
    <3> QED
      BY <2>3, <3>1 DEF StartedInv
  <2> QED
    BY <2>2, <2>4, <2>5, <2>6, <2>7, <2>8, <2>9
<1>9. CASE clear_selection_confirm_value(l)
  <2>i. thread[l].i \in Numbers /\ thread[l].iRet \in Codes
    BY <1>b
  <2>1. LineDone(l, "unconfirm", "undone", thread[l].iRet)
    <3>1. NextLine(l, "unconfirm", "undone", thread[l].iRet)
      BY <1>9 DEF clear_selection_confirm_value
    <3> QED
      BY <2>i, <3>1, NextLineEffect
  <2>2. IoInv' /\ Up' = Up \ {UO_SELECTION_CONFIRM(thread[l].i)}
    BY <1>9, <1>b, GroupFacts, LineWritten DEF clear_selection_confirm_value, Bit
  <2>3. UNCHANGED <<seq, started, mode, loop, handle, want, at, asked, known>>
    BY <1>9 DEF clear_selection_confirm_value
  <2>4. StateInv' /\ LauncherInv'
    BY <1>0, <1>a, <1>b, <2>1, <2>2, <2>3, <2>i DEF StateInv, LauncherInv
  <2>5. SignalInv'
    BY <1>0, <1>a, <1>b, <2>1, <2>2, <2>3, <2>i, LineFacts, GroupFacts, SMTT(20) DEF
       SignalInv
  <2>6. ControllerInv'
    BY <1>0, <1>a, <1>b, <2>1, <2>2, <2>3, <2>i, LineFacts, GroupFacts DEF
       ControllerInv, SignalInv
  <2>7. ReadInv'
    BY <1>0, <1>a, <1>b, <2>1, <2>2, <2>3, <2>i, LineFacts, GroupFacts, SMTT(20) DEF
       ReadInv, SignalInv
  <2>8. FileInv'
    BY <1>0, <1>a, <1>b, <2>1, <2>2, <2>3, <2>i, LineFacts, GroupFacts DEF FileInv
  <2>9. StartedInv'
    <3>1. Pending' <=> Pending
      BY <1>0, <1>a, <1>b, <2>1, <2>2, <2>3, <2>i, LineFacts, GroupFacts DEF SignalInv
    <3> HIDE DEF Pending
    <3> QED
      BY <2>3, <3>1 DEF StartedInv
  <2> QED
    BY <2>2, <2>4, <2>5, <2>6, <2>7, <2>8, <2>9
<1>10. CASE get_program_selection_value(l)
  <2> DEFINE r == IF UI_PROGRAM_SELECTION(thread[l].i) \in Up
                 THEN thread[l].iRet \cup {thread[l].i} ELSE thread[l].iRet
  <2>i. thread[l].i \in Numbers /\ thread[l].iRet \in Codes
    BY <1>b
  <2>r. r \in Codes
    BY <2>i DEF Codes
  <2>1. LineDone(l, "select", "confirm", r)
    <3>1. NextLine(l, "select", "confirm", r)
      BY <1>10, <2>i, GroupFacts, LineRead DEF get_program_selection_value
    <3> HIDE DEF r, LineDone
    <3> QED
      BY <2>r, <3>1, NextLineEffect
  <2>2. IoInv' /\ Up' = Up
    BY <1>10 DEF get_program_selection_value, IoInv, Up
  <2>3. UNCHANGED <<seq, started, mode, loop, handle, want, at, asked, known>>
    BY <1>10 DEF get_program_selection_value
  <2>w. UI_SELECTION_STROBE \in Up /\ want \subseteq Numbers
    BY <1>0, <2>1 DEF SignalInv, StateInv, Codes
  <2>v. thread'[l].iRet = {j \in want : j < thread[l].i + 1}
    <3>1. UI_PROGRAM_SELECTION(thread[l].i) \in Up <=> thread[l].i \in want
      BY <2>i, <2>w DEF ControllerInv
    <3>2. thread[l].iRet = {j \in want : j < thread[l].i}
      BY <2>1 DEF ReadInv
    <3>3. \A j \in want : j < thread[l].i + 1 <=> j < thread[l].i \/ j = thread[l].i
      BY <2>i, <2>w DEF Numbers
    <3>4. thread'[l].iRet = IF thread[l].i \in want THEN thread[l].iRet \cup {thread[l].i}
                           ELSE thread[l].iRet
      BY <2>1, <3>1
    <3> QED
      BY <3>2, <3>3, <3>4
  <2>u. thread[l].i = SelectionLines => thread'[l].iRet = want
    <3>1. \A j \in want : thread[l].i = SelectionLines => j < thread[l].i + 1
      BY <2>i, <2>w DEF Numbers
    <3>2. want = {j \in want : TRUE}
      OBVIOUS
    <3> QED
      BY <2>v, <3>1, <3>2
  <2>o. \A j \in Numbers : ~(j < 1)
    BY DEF Numbers
  <2>4. StateInv' /\ LauncherInv'
    BY <1>0, <1>a, <1>b, <2>1, <2>2, <2>3, <2>i, <2>u, <2>v DEF StateInv, LauncherInv
  <2>5. SignalInv'
    BY <1>0, <1>a, <1>b, <2>1, <2>2, <2>3, <2>i, <2>u, <2>v, SMTT(20) DEF SignalInv
  <2>6. ControllerInv'
    BY <1>0, <1>a, <1>b, <2>1, <2>2, <2>3, <2>i, <2>u, <2>v DEF ControllerInv, SignalInv
  <2>x. /\ Others(l)
        /\ \/ /\ thread'[l].pc = "select"
              /\ thread'[l].iRet = {j \in want : j < thread'[l].i}
           \/ thread'[l].pc = "confirm" /\ thread'[l].i = 1 /\ thread'[l].iRet = want
    BY <2>1, <2>u, <2>v
  <2>7. ReadInv'
    BY <1>a, <2>2, <2>3, <2>o, <2>x DEF ReadInv
  <2>8. FileInv'
    BY <1>0, <1>a, <1>b, <2>1, <2>2, <2>3, <2>i, <2>u, <2>v DEF FileInv
  <2>9. StartedInv'
    <3>1. Pending' <=> Pending
      BY <1>0, <1>a, <1>b, <2>1, <2>2, <2>3, <2>i, <2>u, <2>v DEF SignalInv
    <3> HIDE DEF Pending
    <3> QED
      BY <2>3, <3>1 DEF StartedInv
  <2> QED
    BY <2>2, <2>4, <2>5, <2>6, <2>7, <2>8, <2>9
<1>11. CASE PollStrobe(l)
  <2>1. /\ thread' \in [Launchers -> LaunchThreads] /\ Others(l)
        /\ thread[l].pc = "strobe" /\ thread'[l].i = thread[l].i
        /\ thread'[l].list = thread[l].list /\ thread'[l].block = thread[l].block
        /\ thread'[l].prog = thread[l].prog
        /\ UI_SELECTION_STROBE \in Up =>
             thread'[l].pc = "select" /\ thread'[l].bIsSelectionStrobe /\ thread'[l].iRet = {}
        /\ UI_SELECTION_STROBE \notin Up =>
             /\ thread'[l].pc = "start" /\ ~thread'[l].bIsSelectionStrobe
             /\ thread'[l].iRet = thread[l].iRet
    <3> DEFINE u == [thread[l] EXCEPT !.bIsSelectionStrobe = On(UI_SELECTION_STROBE),
                       !.iRet = IF On(UI_SELECTION_STROBE) THEN {} ELSE @,
                       !.pc = IF On(UI_SELECTION_STROBE) THEN "select" ELSE "start"]
    <3>1. thread' = [thread EXCEPT ![l] = u] /\ thread[l].pc = "strobe"
      BY <1>11 DEF PollStrobe
    <3>2. On(UI_SELECTION_STROBE) <=> UI_SELECTION_STROBE \in Up
      BY LineFacts, LineRead
    <3>3. On(UI_SELECTION_STROBE) \in BOOLEAN /\ {} \in Codes
      BY DEF On, Codes
    <3>4. u \in LaunchThreads
      BY <1>b, <3>3
    <3>5. thread'[l] = u
      BY <3>1 DEF StateInv
    <3>6. thread' \in [Launchers -> LaunchThreads] /\ Others(l)
      BY <3>1, <3>4 DEF StateInv
    <3> QED
      BY <1>b, <3>1, <3>2, <3>5, <3>6
  <2>2. IoInv' /\ Up' = Up
    BY <1>11 DEF PollStrobe, IoInv, Up
  <2>3. UNCHANGED <<seq, started, mode, loop, handle, want, at, asked, known>>
    BY <1>11 DEF PollStrobe
  <2>w. {j \in want : j < 1} = {}
    <3>1. \A j \in want : ~(j < 1)
      BY DEF StateInv, Codes, Numbers
    <3> QED
      BY <3>1
  <2>4. StateInv' /\ LauncherInv'
    BY <1>0, <1>a, <1>b, <2>1, <2>2, <2>3, <2>w DEF StateInv, LauncherInv
  <2>5. SignalInv'
    BY <1>0, <1>a, <1>b, <2>1, <2>2, <2>3, <2>w, SMTT(20) DEF SignalInv
  <2>6. ControllerInv'
    BY <1>0, <1>a, <1>b, <2>1, <2>2, <2>3, <2>w, SMTT(20) DEF ControllerInv, SignalInv
  <2>7. ReadInv'
    BY <1>0, <1>a, <1>b, <2>1, <2>2, <2>3, <2>w, SMTT(20) DEF ReadInv, SignalInv
  <2>8. FileInv'
    BY <1>0, <1>a, <1>b, <2>1, <2>2, <2>3, <2>w, SMTT(20) DEF FileInv
  <2>9. StartedInv'
    <3>1. Pending' <=> Pending
      BY <1>0, <1>a, <1>b, <2>1, <2>2, <2>3, <2>w DEF SignalInv
    <3> HIDE DEF Pending
    <3> QED
      BY <2>3, <3>1 DEF StartedInv
  <2> QED
    BY <2>2, <2>4, <2>5, <2>6, <2>7, <2>8, <2>9
<1>12. CASE initial(l)
  <2>1. /\ thread' \in [Launchers -> LaunchThreads] /\ Others(l)
        /\ thread[l].pc = "files" /\ thread'[l].pc = "strobe"
        /\ thread'[l].i = thread[l].i /\ thread'[l].iRet = thread[l].iRet
        /\ thread'[l].list \in [FileCodes -> Programs]
        /\ \A c \in FileCodes : [prog |-> thread'[l].list[c], code |-> c] \in Files
    <3>1. PICK list \in [FileCodes -> Programs] :
            /\ \A c \in FileCodes : [prog |-> list[c], code |-> c] \in Files
            /\ thread' = [thread EXCEPT ![l].pc = "strobe", ![l].list = list]
      BY <1>12 DEF initial
    <3>2. [thread[l] EXCEPT !.pc = "strobe", !.list = list] \in LaunchThreads
      BY <1>b
    <3>3. thread'[l] = [thread[l] EXCEPT !.pc = "strobe", !.list = list]
      BY <3>1 DEF StateInv
    <3>4. thread' \in [Launchers -> LaunchThreads] /\ Others(l)
      BY <3>1, <3>2 DEF StateInv
    <3> QED
      BY <1>12, <1>b, <3>1, <3>3, <3>4 DEF initial
  <2>2. IoInv' /\ Up' = Up
    BY <1>12 DEF initial, IoInv, Up
  <2>3. UNCHANGED <<seq, started, mode, loop, handle, want, at, asked, known>>
    BY <1>12 DEF initial
  <2>4. StateInv' /\ LauncherInv'
    BY <1>0, <1>a, <1>b, <2>1, <2>2, <2>3 DEF StateInv, LauncherInv
  <2>5. SignalInv'
    BY <1>0, <1>a, <1>b, <2>1, <2>2, <2>3, SMTT(20) DEF SignalInv
  <2>6. ControllerInv'
    BY <1>0, <1>a, <1>b, <2>1, <2>2, <2>3 DEF ControllerInv, SignalInv
  <2>7. ReadInv'
    BY <1>0, <1>a, <1>b, <2>1, <2>2, <2>3, SMTT(20) DEF ReadInv, SignalInv
  <2>8. FileInv'
    BY <1>0, <1>a, <1>b, <2>1, <2>2, <2>3 DEF FileInv
  <2>9. StartedInv'
    <3>1. Pending' <=> Pending
      BY <1>0, <1>a, <1>b, <2>1, <2>2, <2>3 DEF SignalInv
    <3> HIDE DEF Pending
    <3> QED
      BY <2>3, <3>1 DEF StartedInv
  <2> QED
    BY <2>2, <2>4, <2>5, <2>6, <2>7, <2>8, <2>9
<1>13. CASE PollStart(l)
  <2>1. /\ thread' \in [Launchers -> LaunchThreads] /\ Others(l)
        /\ thread[l].pc = "start"
        /\ thread'[l].pc = IF UI_MPLCS_START \in Up THEN "found" ELSE "behind"
        /\ thread'[l].iRet = thread[l].iRet /\ thread'[l].i = thread[l].i
        /\ SameRest(thread'[l], thread[l])
    BY <1>13, GoEffect, LineFacts, LineRead DEF PollStart
  <2>2. IoInv' /\ Up' = Up
    BY <1>13 DEF PollStart, IoInv, Up
  <2>3. UNCHANGED <<seq, started, mode, loop, handle, want, at, asked, known>>
    BY <1>13 DEF PollStart
  <2>4. StateInv' /\ LauncherInv'
    BY <1>0, <1>a, <1>b, <2>1, <2>2, <2>3 DEF StateInv, LauncherInv
  <2>5. SignalInv'
    BY <1>0, <1>a, <1>b, <2>1, <2>2, <2>3, SMTT(20) DEF SignalInv
  <2>6. ControllerInv'
    BY <1>0, <1>a, <1>b, <2>1, <2>2, <2>3 DEF ControllerInv, SignalInv
  <2>7. ReadInv'
    BY <1>0, <1>a, <1>b, <2>1, <2>2, <2>3, SMTT(20) DEF ReadInv, SignalInv
  <2>8. FileInv'
    BY <1>0, <1>a, <1>b, <2>1, <2>2, <2>3 DEF FileInv
  <2>9. StartedInv'
    <3>1. Pending' <=> Pending
      BY <1>0, <1>a, <1>b, <2>1, <2>2, <2>3 DEF SignalInv
    <3> HIDE DEF Pending
    <3> QED
      BY <2>3, <3>1 DEF StartedInv
  <2> QED
    BY <2>2, <2>4, <2>5, <2>6, <2>7, <2>8, <2>9
<1>14. CASE StrobeFell(l)
  <2>1. /\ thread' \in [Launchers -> LaunchThreads] /\ Others(l)
        /\ thread[l].pc = "behind"
        /\ thread'[l].pc = IF thread[l].bIsSelectionStrobe /\ UI_SELECTION_STROBE \notin Up
                           THEN "uncheck" ELSE "strobe"
        /\ thread'[l].iRet = thread[l].iRet /\ thread'[l].i = thread[l].i
        /\ SameRest(thread'[l], thread[l])
    BY <1>14, GoEffect, LineFacts, LineRead DEF StrobeFell
  <2>2. IoInv' /\ Up' = Up
    BY <1>14 DEF StrobeFell, IoInv, Up
  <2>3. UNCHANGED <<seq, started, mode, loop, handle, want, at, asked, known>>
    BY <1>14 DEF StrobeFell
  <2>4. StateInv' /\ LauncherInv'
    BY <1>0, <1>a, <1>b, <2>1, <2>2, <2>3 DEF StateInv, LauncherInv
  <2>5. SignalInv'
    BY <1>0, <1>a, <1>b, <2>1, <2>2, <2>3, SMTT(20) DEF SignalInv
  <2>6. ControllerInv'
    BY <1>0, <1>a, <1>b, <2>1, <2>2, <2>3 DEF ControllerInv, SignalInv
  <2>7. ReadInv'
    BY <1>0, <1>a, <1>b, <2>1, <2>2, <2>3, SMTT(20) DEF ReadInv, SignalInv
  <2>8. FileInv'
    BY <1>0, <1>a, <1>b, <2>1, <2>2, <2>3 DEF FileInv
  <2>9. StartedInv'
    <3>1. Pending' <=> Pending
      BY <1>0, <1>a, <1>b, <2>1, <2>2, <2>3 DEF SignalInv
    <3> HIDE DEF Pending
    <3> QED
      BY <2>3, <3>1 DEF StartedInv
  <2> QED
    BY <2>2, <2>4, <2>5, <2>6, <2>7, <2>8, <2>9
<1>15. CASE StartDone(l)
  <2>p. /\ getProgramByCode(thread[l]) \in SUBSET Programs
        /\ thread[l].pc = "found" /\ thread[l].iRet = want
        /\ want \in FileCodes => getProgramByCode(thread[l]) = {thread[l].list[want]}
        /\ want \notin FileCodes => getProgramByCode(thread[l]) = {}
    <3>1. thread[l].pc = "found"
      BY <1>15 DEF StartDone
    <3>2. thread[l].iRet = want /\ thread[l].list \in [FileCodes -> Programs]
      BY <3>1 DEF ReadInv, FileInv
    <3> QED
      BY <3>1, <3>2 DEF getProgramByCode
  <2>1. /\ thread' \in [Launchers -> LaunchThreads] /\ Others(l)
        /\ thread'[l].pc = IF want \in FileCodes THEN "count" ELSE "lower"
        /\ thread'[l].prog = getProgramByCode(thread[l])
        /\ thread'[l].iRet = thread[l].iRet /\ thread'[l].i = thread[l].i
        /\ thread'[l].bIsSelectionStrobe = thread[l].bIsSelectionStrobe
        /\ thread'[l].block = thread[l].block /\ thread'[l].list = thread[l].list
    <3> DEFINE p == getProgramByCode(thread[l])
    <3> DEFINE u == [thread[l] EXCEPT !.prog = p, !.met = FALSE,
                                      !.pc = IF p = {} THEN "lower" ELSE "count"]
    <3>1. thread' = [thread EXCEPT ![l] = u]
      BY <1>15 DEF StartDone
    <3>2. p = {} <=> want \notin FileCodes
      BY <2>p
    <3> HIDE DEF p
    <3>3. p \in SUBSET Programs
      BY <2>p DEF p
    <3>4. u \in LaunchThreads
      BY <1>b, <3>3
    <3>5. thread'[l] = u
      BY <3>1 DEF StateInv
    <3>6. thread' \in [Launchers -> LaunchThreads] /\ Others(l)
      BY <3>1, <3>4 DEF StateInv
    <3>7. /\ thread'[l].pc = (IF want \in FileCodes THEN "count" ELSE "lower")
          /\ thread'[l].prog = p
          /\ thread'[l].iRet = thread[l].iRet /\ thread'[l].i = thread[l].i
          /\ thread'[l].bIsSelectionStrobe = thread[l].bIsSelectionStrobe
          /\ thread'[l].block = thread[l].block /\ thread'[l].list = thread[l].list
      BY <1>b, <3>2, <3>5
    <3> QED
      BY <3>6, <3>7 DEF p
  <2>2. IoInv' /\ Up' = Up \cup {UO_MPLCS_START_DONE}
    BY <1>15, LineFacts, LineWritten DEF StartDone
  <2>3. UNCHANGED <<seq, started, mode, loop, handle, want, at, asked, known>>
    BY <1>15 DEF StartDone
  <2>4. StateInv' /\ LauncherInv'
    BY <1>0, <1>a, <1>b, <2>1, <2>2, <2>3, <2>p DEF StateInv, LauncherInv
  <2>5. SignalInv'
    BY <1>0, <1>a, <1>b, <2>1, <2>2, <2>3, <2>p, LineFacts, GroupFacts, SMTT(20) DEF
       SignalInv
  <2>6. ControllerInv'
    BY <1>0, <1>a, <1>b, <2>1, <2>2, <2>3, <2>p, LineFacts, GroupFacts DEF
       ControllerInv, SignalInv
  <2>7. ReadInv'
    BY <1>0, <1>a, <1>b, <2>1, <2>2, <2>3, <2>p, LineFacts, GroupFacts, SMTT(20) DEF
       ReadInv, SignalInv
  <2>8. FileInv'
    BY <1>0, <1>a, <1>b, <2>1, <2>2, <2>3, <2>p, LineFacts, GroupFacts DEF FileInv
  <2>9. StartedInv'
    <3>1. Pending' <=> Pending
      BY <1>0, <1>a, <1>b, <2>1, <2>2, <2>3, <2>p, LineFacts, GroupFacts DEF SignalInv
    <3> HIDE DEF Pending
    <3> QED
      BY <2>3, <3>1 DEF StartedInv
  <2> QED
    BY <2>2, <2>4, <2>5, <2>6, <2>7, <2>8, <2>9
<1>16. CASE CountThread(l)
  <2>1. /\ thread' \in [Launchers -> LaunchThreads] /\ Others(l)
        /\ thread[l].pc = "count" /\ thread'[l].pc = "block"
        /\ thread'[l].iRet = thread[l].iRet /\ thread'[l].i = thread[l].i
        /\ SameRest(thread'[l], thread[l])
    BY <1>16, GoEffect DEF CountThread
  <2>2. IoInv' /\ Up' = Up
    BY <1>16 DEF CountThread, IoInv, Up
  <2>3. UNCHANGED <<started, mode, loop, handle, want, at, asked, known>>
    BY <1>16 DEF CountThread
  <2>s. seq' \in 0 .. NUM_THREAD
    BY <1>16 DEF CountThread, incCurrentThreadSeq, StateInv
  <2>4. StateInv' /\ LauncherInv'
    BY <1>0, <1>a, <1>b, <2>1, <2>2, <2>3, <2>s DEF StateInv, LauncherInv
  <2>5. SignalInv'
    BY <1>0, <1>a, <1>b, <2>1, <2>2, <2>3, <2>s, SMTT(20) DEF SignalInv
  <2>6. ControllerInv'
    BY <1>0, <1>a, <1>b, <2>1, <2>2, <2>3, <2>s DEF ControllerInv, SignalInv
  <2>7. ReadInv'
    BY <1>0, <1>a, <1>b, <2>1, <2>2, <2>3, <2>s, SMTT(20) DEF ReadInv, SignalInv
  <2>8. FileInv'
    BY <1>0, <1>a, <1>b, <2>1, <2>2, <2>3, <2>s DEF FileInv
  <2>9. StartedInv'
    <3>1. Pending' <=> Pending
      BY <1>0, <1>a, <1>b, <2>1, <2>2, <2>3, <2>s DEF SignalInv
    <3> HIDE DEF Pending
    <3> QED
      BY <2>3, <3>1 DEF StartedInv
  <2> QED
    BY <2>2, <2>4, <2>5, <2>6, <2>7, <2>8, <2>9
<1>17. CASE TakeBlock(l)
  <2>1. /\ thread' \in [Launchers -> LaunchThreads] /\ Others(l)
        /\ thread[l].pc = "block" /\ thread'[l].pc = "file" /\ thread'[l].block = seq
        /\ thread'[l].iRet = thread[l].iRet /\ thread'[l].i = thread[l].i
        /\ thread'[l].bIsSelectionStrobe = thread[l].bIsSelectionStrobe
        /\ thread'[l].prog = thread[l].prog /\ thread'[l].list = thread[l].list
    <3>1. thread' = [thread EXCEPT ![l] = [thread[l] EXCEPT !.pc = "file", !.block = seq]]
      BY <1>17 DEF TakeBlock
    <3>2. [thread[l] EXCEPT !.pc = "file", !.block = seq] \in LaunchThreads
      BY <1>b DEF StateInv
    <3>3. thread'[l] = [thread[l] EXCEPT !.pc = "file", !.block = seq]
      BY <3>1 DEF StateInv
    <3>4. thread' \in [Launchers -> LaunchThreads] /\ Others(l)
      BY <3>1, <3>2 DEF StateInv
    <3> QED
      BY <1>17, <1>b, <3>3, <3>4 DEF TakeBlock
  <2>2. IoInv' /\ Up' = Up
    BY <1>17 DEF TakeBlock, IoInv, Up
  <2>3. UNCHANGED <<seq, started, mode, handle, want, at, asked, known>>
    BY <1>17 DEF TakeBlock
  <2>s. loop' \in {loop, "gone"}
    BY <1>17 DEF TakeBlock, BlockOf
  <2>4. StateInv' /\ LauncherInv'
    BY <1>0, <1>a, <1>b, <2>1, <2>2, <2>3, <2>s DEF StateInv, LauncherInv
  <2>5. SignalInv'
    BY <1>0, <1>a, <1>b, <2>1, <2>2, <2>3, <2>s, SMTT(20) DEF SignalInv
  <2>6. ControllerInv'
    BY <1>0, <1>a, <1>b, <2>1, <2>2, <2>3, <2>s DEF ControllerInv, SignalInv
  <2>7. ReadInv'
    BY <1>0, <1>a, <1>b, <2>1, <2>2, <2>3, <2>s, SMTT(20) DEF ReadInv, SignalInv
  <2>8. FileInv'
    BY <1>0, <1>a, <1>b, <2>1, <2>2, <2>3, <2>s DEF FileInv
  <2>9. StartedInv'
    <3>1. Pending' <=> Pending
      BY <1>0, <1>a, <1>b, <2>1, <2>2, <2>3, <2>s DEF SignalInv
    <3> HIDE DEF Pending
    <3> QED
      BY <2>3, <3>1 DEF StartedInv
  <2> QED
    BY <2>2, <2>4, <2>5, <2>6, <2>7, <2>8, <2>9
<1>18. CASE startFile(l)
  <2>1. /\ thread' \in [Launchers -> LaunchThreads] /\ Others(l)
        /\ thread[l].pc = "file" /\ thread'[l].pc = "lower"
        /\ thread'[l].iRet = thread[l].iRet /\ thread'[l].i = thread[l].i
        /\ SameRest(thread'[l], thread[l])
    BY <1>18, GoEffect DEF startFile
  <2>2. IoInv' /\ Up' = Up
    BY <1>18 DEF startFile, IoInv, Up
  <2>3. UNCHANGED <<seq, mode, loop, handle, want, at, asked, known>>
    BY <1>18 DEF startFile
  <2>f. /\ want \in FileCodes /\ thread[l].prog = {thread[l].list[want]}
        /\ thread[l].list[want] \in Programs /\ (thread[l].met \/ thread[l].block = seq)
        /\ thread[l].met \in BOOLEAN /\ thread[l].block \in -1 .. NUM_THREAD
        /\ [prog |-> thread[l].list[want], code |-> want] \in Files
    BY <1>0, <2>1 DEF FileInv
  <2> DEFINE new == [prog |-> thread[l].list[want], block |-> thread[l].block, idx |-> seq,
                     met |-> thread[l].met]
  <2>s. started' = Append(started, new)
    BY <1>18, <2>f DEF startFile
  <2>n. /\ new \in [prog : Programs, block : -1 .. NUM_THREAD, idx : -1 .. NUM_THREAD,
                     met : BOOLEAN]
        /\ new.prog = thread[l].list[want] /\ (new.met \/ new.block = new.idx)
    BY <2>f DEF StateInv
  <2> HIDE DEF new
  <2>4. StateInv' /\ LauncherInv'
    BY <1>0, <1>a, <1>b, <2>1, <2>2, <2>3, <2>n, <2>s DEF StateInv, LauncherInv
  <2>5. SignalInv'
    BY <1>0, <1>a, <1>b, <2>1, <2>2, <2>3, <2>f, <2>s, SMTT(20) DEF SignalInv
  <2>6. ControllerInv'
    BY <1>0, <1>a, <1>b, <2>1, <2>2, <2>3, <2>f, <2>s DEF ControllerInv, SignalInv
  <2>7. ReadInv'
    BY <1>0, <1>a, <1>b, <2>1, <2>2, <2>3, <2>f, <2>s, SMTT(20) DEF ReadInv, SignalInv
  <2>8. FileInv'
    BY <1>0, <1>a, <1>b, <2>1, <2>2, <2>3, <2>f, <2>s DEF FileInv
  <2>p. Pending /\ ~Pending'
    BY <1>0, <1>a, <2>1, <2>f DEF SignalInv
  <2>9. StartedInv'
    <3>1. /\ Len(started) \in Nat /\ Len(known) = Len(started) + 1
          /\ known[Len(known)] = want
      BY <2>p DEF StartedInv, StateInv
    <3>2. /\ Len(started') = Len(started) + 1
          /\ started'[Len(started) + 1] = new
          /\ \A k \in 1 .. Len(started) : started'[k] = started[k]
      BY <2>s, <2>n DEF StateInv
    <3> QED
      BY <2>3, <2>f, <2>n, <2>p, <3>1, <3>2 DEF StartedInv
  <2> QED
    BY <2>2, <2>4, <2>5, <2>6, <2>7, <2>8, <2>9
<1> QED
  BY <1>1, <1>2, <1>3, <1>4, <1>5, <1>6, <1>7, <1>8, <1>9, <1>10, <1>11, <1>12, <1>13,
     <1>14, <1>15, <1>16, <1>17, <1>18 DEF launch_code_thread

-----------------------------------------------------------------------------
(***************************************************************************)
(* The command loop and the controller.                                    *)
(***************************************************************************)
LEMMA InitLaunch ==
  ASSUME StaySimulated, Init
  PROVE  LInv
<1> USE ConstantFacts
<1>1. IoInv
  BY DEF Init, IoInv, Simulated, IsConfig, Classes, rio_all
<1>2. Up = {}
  <2>1. \A n \in Lines : n \in DOMAIN io /\ io[n].value = 0
    BY DEF Init
  <2> QED
    BY <1>1, <2>1, UpFacts DEF IoInv, Up, UpIn
<1>3. NoThread \in LaunchThreads
  BY DEF NoThread, LaunchThreads, Places, Codes
<1>4. StateInv
  BY <1>3 DEF Init, StateInv, AutoModes, Codes
<1>5. \A l \in Launchers : thread[l].pc = "none" /\ thread[l].i = 1
  BY DEF Init, NoThread
<1>6. LauncherInv /\ SignalInv /\ ReadInv /\ FileInv
  BY <1>2, <1>5 DEF Init, LauncherInv, SignalInv, ReadInv, FileInv, Confirmed, Found
<1>7. ControllerInv /\ StartedInv
  BY <1>2, LineFacts DEF Init, ControllerInv, StartedInv, Pending
<1> QED
  BY <1>1, <1>4, <1>6, <1>7 DEF LInv

\* Once a thread is created the mode stays; before that none is there.
LEMMA ModeStep ==
  ASSUME OneLauncher, LInv, SetAutoMode
  PROVE  LInv'
<1> USE DEF LInv
<1>1. PICK m \in Modes : deal_auto_mode(m)
  BY DEF SetAutoMode
<1>2. /\ UNCHANGED <<io, seq, started, want, at, asked, known>> /\ Up' = Up
      /\ loop = "up" /\ m \in AutoModes
  BY ConstantFacts DEF SetAutoMode, Controller, Up
<1>3. IoInv'
  BY <1>2 DEF IoInv
<1>4. CASE UNCHANGED <<thread, handle>>
  <2>1. handle # {} => mode' = "LAUNCH_CODE_U"
    BY <1>1, <1>2, <1>4 DEF deal_auto_mode, LauncherInv, Mode, OneLauncher,
       launch_code_thread_destroy, macro_instr_thread_destroy, AutoModes
  <2>2. mode' \in AutoModes /\ loop' \in {"up", "joining", "gone"}
    <3>1. mode' \in AutoModes
      BY <1>1, <1>2 DEF deal_auto_mode, Mode, StateInv
    <3>2. loop' \in {"up", "joining", "gone"}
      BY <1>1, <1>2 DEF deal_auto_mode, launch_code_thread_create,
         launch_code_thread_destroy, macro_instr_thread_destroy
    <3> QED
      BY <3>1, <3>2
  <2>3. StateInv' /\ LauncherInv'
    BY <1>2, <1>4, <2>1, <2>2 DEF StateInv, LauncherInv
  <2>4. SignalInv' /\ ControllerInv' /\ ReadInv' /\ FileInv' /\ StartedInv'
    BY <1>2, <1>4 DEF SignalInv, ControllerInv, ReadInv, FileInv, StartedInv, Pending
  <2> QED
    BY <1>3, <2>3, <2>4
<1>5. CASE ~UNCHANGED <<thread, handle>>
  <2>1. mode \in {"AUTOMODE_NONE_U", "LOCAL_TRIGGER_U"} /\ m = "LAUNCH_CODE_U"
    BY <1>1, <1>5 DEF deal_auto_mode, launch_code_thread_destroy, macro_instr_thread_destroy
  <2>2. handle = {} /\ launch_code_thread_create
    BY <1>1, <2>1 DEF deal_auto_mode, LauncherInv
  <2>3. PICK l \in Launchers :
          /\ thread[l].pc = "none" /\ handle' = {l} /\ loop' = "up"
          /\ thread' = [thread EXCEPT ![l].pc = "files"]
    BY <2>2 DEF launch_code_thread_create
  <2>4. mode' = "LAUNCH_CODE_U"
    BY <1>1, <2>1, <2>3 DEF deal_auto_mode, Mode
  <2>5. \A k \in Launchers : thread[k].pc = "none"
    BY <2>2 DEF LauncherInv
  <2>6. /\ thread' \in [Launchers -> LaunchThreads]
        /\ thread'[l].pc = "files" /\ thread'[l].i = thread[l].i
        /\ \A k \in Launchers : k # l => thread'[k] = thread[k]
    <3>1. thread[l] \in LaunchThreads
      BY DEF StateInv
    <3>2. [thread[l] EXCEPT !.pc = "files"] \in LaunchThreads
      BY <3>1 DEF LaunchThreads, Places
    <3> QED
      BY <2>3, <3>1, <3>2 DEF StateInv, LaunchThreads
  <2>7. StateInv' /\ LauncherInv'
    BY <1>2, <2>1, <2>3, <2>4, <2>5, <2>6 DEF StateInv, LauncherInv, AutoModes
  <2>8. SignalInv' /\ ReadInv' /\ FileInv'
    BY <1>2, <2>2, <2>3, <2>5, <2>6 DEF SignalInv, ReadInv, FileInv, Answering, Signalled,
       Confirmed, Ending, Found
  <2>9. ControllerInv' /\ StartedInv'
    BY <1>2, <2>5, <2>6 DEF ControllerInv, StartedInv, Pending
  <2> QED
    BY <1>3, <2>7, <2>8, <2>9
<1> QED
  BY <1>4, <1>5

\* Nothing the proof speaks of but the switches.
LEMMA SwitchStep ==
  ASSUME StaySimulated, LInv, ModSmltSts
  PROVE  LInv'
<1> USE DEF LInv
<1>1. UNCHANGED <<seq, thread, started, mode, loop, handle, want, at, asked, known>>
  BY DEF ModSmltSts, Loop, Controller
<1>2. IoInv' /\ Up' = Up
  BY LineSwitched DEF ModSmltSts
<1>3. StateInv' /\ LauncherInv'
  BY <1>1 DEF StateInv, LauncherInv
<1>4. SignalInv' /\ ReadInv' /\ StartedInv'
  BY <1>1, <1>2 DEF SignalInv, ReadInv, StartedInv, Pending
<1>5. ControllerInv' /\ FileInv'
  BY <1>1, <1>2 DEF ControllerInv, FileInv
<1> QED
  BY <1>2, <1>3, <1>4, <1>5

\* A START by hand moves the number on, and leaves its mark on a launch thread that has
\* counted its own program and not started it yet.
LEMMA StartStep ==
  ASSUME LInv, Start
  PROVE  LInv'
<1> USE DEF LInv
<1>1. /\ UNCHANGED <<io, started, mode, handle, want, at, asked, known>>
      /\ loop' \in {loop, "gone"}
  BY DEF Start, Controller, BlockOf
<1>2. IoInv' /\ Up' = Up
  BY <1>1 DEF IoInv, Up
<1>3. seq' \in -1 .. NUM_THREAD /\ (seq >= 0 => seq' >= 0)
  BY ConstantFacts DEF Start, incCurrentThreadSeq, StateInv
<1>4. \A l \in Launchers :
        /\ thread'[l] \in LaunchThreads
        /\ thread'[l].pc = thread[l].pc /\ thread'[l].iRet = thread[l].iRet
        /\ thread'[l].bIsSelectionStrobe = thread[l].bIsSelectionStrobe
        /\ thread'[l].i = thread[l].i /\ thread'[l].prog = thread[l].prog
        /\ thread'[l].list = thread[l].list
        /\ thread[l].pc = "file" => thread'[l].met
  <2> TAKE l \in Launchers
  <2> DEFINE met == thread[l].met \/ thread[l].pc \in {"block", "file"}
             u == [thread[l] EXCEPT !.met = met]
  <2>1. thread'[l] = u
    BY DEF Start
  <2>2. thread[l] \in LaunchThreads
    BY DEF StateInv
  <2>3. met \in BOOLEAN /\ (thread[l].pc = "file" => met)
    BY <2>2 DEF LaunchThreads
  <2> HIDE DEF met
  <2> QED
    BY <2>1, <2>2, <2>3 DEF LaunchThreads
<1>5. thread' \in [Launchers -> LaunchThreads]
  BY <1>4 DEF Start
<1>6. StateInv' /\ LauncherInv'
  BY <1>1, <1>3, <1>4, <1>5 DEF StateInv, LauncherInv
<1>7. SignalInv'
  BY <1>1, <1>2, <1>4 DEF SignalInv, Answering, Signalled, Confirmed, Ending
<1>8. ReadInv'
  BY <1>1, <1>2, <1>4 DEF ReadInv, Confirmed
<1>9. StartedInv'
  BY <1>1, <1>2, <1>4 DEF StartedInv, Pending
<1>10. ControllerInv'
  BY <1>1, <1>2, <1>3 DEF ControllerInv
<1>11. FileInv'
  BY <1>1, <1>4 DEF FileInv
<1> QED
  BY <1>2, <1>6, <1>7, <1>8, <1>9, <1>10, <1>11

\* While both signals are down no launch thread is at work.
LEMMA NobodyWorks ==
  ASSUME SignalInv, UI_SELECTION_STROBE \notin Up, UO_SELECTION_CHECK_REQUEST \notin Up,
         NEW l \in Launchers
  PROVE  /\ ~Answering(thread[l]) /\ ~Ending(thread[l]) /\ ~Confirmed(thread[l])
         /\ thread[l].pc \notin {"select", "confirm", "check", "count", "block", "file", "lower"}
BY DEF SignalInv, Answering, Ending, Confirmed, Found

LEMMA ChooseStep ==
  ASSUME LInv, Choose
  PROVE  LInv'
<1> USE DEF LInv
<1>1. /\ UNCHANGED <<io, seq, thread, started, asked, known, mode, loop, handle>>
      /\ Up' = Up /\ at' = 1 /\ want' \in Codes /\ seq >= 0
  BY DEF Choose, Loop, Up
<1>2. UI_SELECTION_STROBE \notin Up /\ UO_SELECTION_CHECK_REQUEST \notin Up
  BY LineFacts, LineRead DEF Choose
<1>3. StateInv' /\ LauncherInv' /\ IoInv'
  BY <1>1, ConstantFacts DEF StateInv, LauncherInv, IoInv
<1>4. SignalInv'
  BY <1>1 DEF SignalInv
<1>5. ControllerInv'
  <2>1. \A j \in Numbers : ~(j < 1)
    BY DEF Numbers
  <2> QED
    BY <1>1, <1>2, <2>1 DEF ControllerInv
<1>6. ReadInv' /\ FileInv'
  BY <1>1, <1>2, NobodyWorks DEF ReadInv, FileInv
<1>7. StartedInv'
  BY <1>1, <1>2 DEF StartedInv, Pending
<1> QED
  BY <1>3, <1>4, <1>5, <1>6, <1>7

LEMMA WriteStep ==
  ASSUME StaySimulated, LInv, WriteSelection
  PROVE  LInv'
<1> USE DEF LInv
<1>1. /\ UNCHANGED <<seq, thread, started, want, asked, known, mode, loop, handle>>
      /\ at \in Numbers /\ at > 0 /\ at' = at + 1 /\ seq >= 0
  BY DEF WriteSelection, ModSmltVal, Loop, Numbers, ControllerInv
<1>2. IoInv' /\ Up' = IF at \in want THEN Up \cup {UI_PROGRAM_SELECTION(at)}
                      ELSE Up \ {UI_PROGRAM_SELECTION(at)}
  BY <1>1, GroupFacts, LineRequested DEF WriteSelection, ModSmltVal, Bit
<1>3. UI_SELECTION_STROBE \notin Up /\ UO_SELECTION_CHECK_REQUEST \notin Up
  BY <1>1 DEF ControllerInv
<1>4. /\ UI_SELECTION_STROBE \notin Up' /\ UO_SELECTION_CHECK_REQUEST \notin Up'
      /\ UI_MPLCS_START \in Up' <=> UI_MPLCS_START \in Up
      /\ \A j \in Numbers : UO_SELECTION_CONFIRM(j) \in Up' <=> UO_SELECTION_CONFIRM(j) \in Up
  BY <1>1, <1>2, <1>3, GroupFacts
<1>5. StateInv' /\ LauncherInv'
  BY <1>1, ConstantFacts DEF StateInv, LauncherInv, Numbers
<1>6. SignalInv'
  BY <1>1, <1>3, <1>4 DEF SignalInv
<1>7. ControllerInv'
  <2>1. \A j \in Numbers : j < at + 1 => j < at \/ j = at
    BY <1>1 DEF Numbers
  <2>2. \A j \in Numbers : j < at + 1 => (UI_PROGRAM_SELECTION(j) \in Up' <=> j \in want)
    BY <1>1, <1>2, <2>1, GroupFacts DEF ControllerInv
  <2> QED
    BY <1>1, <1>4, <2>2 DEF ControllerInv
<1>8. ReadInv' /\ FileInv'
  BY <1>1, <1>4 DEF ReadInv, FileInv
<1>9. StartedInv'
  BY <1>1, <1>3, <1>4 DEF StartedInv, Pending
<1> QED
  BY <1>2, <1>5, <1>6, <1>7, <1>8, <1>9

LEMMA RaiseStep ==
  ASSUME StaySimulated, LInv, RaiseStrobe
  PROVE  LInv'
<1> USE DEF LInv
<1>1. /\ UNCHANGED <<seq, thread, started, want, mode, loop, handle>>
      /\ at = SelectionLines + 1 /\ at > 0 /\ at' = 0 /\ seq >= 0
      /\ asked' = Append(asked, want)
      /\ known' = IF want \in FileCodes THEN Append(known, want) ELSE known
  BY ConstantFacts DEF RaiseStrobe, ModSmltVal, Loop, ControllerInv
<1>2. IoInv' /\ Up' = Up \cup {UI_SELECTION_STROBE}
  BY <1>1, LineFacts, LineRequested DEF RaiseStrobe, ModSmltVal
<1>3. UI_SELECTION_STROBE \notin Up /\ UO_SELECTION_CHECK_REQUEST \notin Up
  BY <1>1 DEF ControllerInv
<1>4. /\ UI_SELECTION_STROBE \in Up' /\ UO_SELECTION_CHECK_REQUEST \notin Up'
      /\ UI_MPLCS_START \in Up' <=> UI_MPLCS_START \in Up
      /\ \A j \in Numbers :
           /\ UO_SELECTION_CONFIRM(j) \in Up' <=> UO_SELECTION_CONFIRM(j) \in Up
           /\ UI_PROGRAM_SELECTION(j) \in Up' <=> UI_PROGRAM_SELECTION(j) \in Up
  BY <1>2, <1>3, LineFacts, GroupFacts
<1>5. StateInv'
  <2>1. asked' \in Seq(Codes) /\ known' \in Seq(FileCodes)
    BY <1>1 DEF StateInv
  <2> QED
    BY <1>1, <2>1, ConstantFacts DEF StateInv
<1>6. LauncherInv'
  BY <1>1 DEF LauncherInv
<1>7. SignalInv'
  BY <1>1, <1>3, <1>4, NobodyWorks DEF SignalInv
<1>8. ControllerInv'
  <2>1. \A j \in Numbers : j < at
    BY <1>1, ConstantFacts DEF Numbers
  <2>2. asked' # <<>> /\ asked'[Len(asked')] = want
    <3>1. asked \in Seq(Codes) /\ want \in Codes
      BY DEF StateInv
    <3>2. Len(asked') = Len(asked) + 1 /\ asked'[Len(asked) + 1] = want
      BY <1>1, <3>1
    <3>3. asked' \in Seq(Codes) /\ Len(asked') # 0
      BY <1>1, <3>1, <3>2
    <3> QED
      BY <3>2, <3>3
  <2> QED
    BY <1>1, <1>4, <2>1, <2>2 DEF ControllerInv
<1>9. ReadInv' /\ FileInv'
  BY <1>1, <1>4 DEF ReadInv, FileInv
<1>10. StartedInv'
  <2>1. Pending' <=> want \in FileCodes
    BY <1>1, <1>3, <1>4, NobodyWorks DEF Pending
  <2>2. ~Pending
    BY <1>3 DEF Pending
  <2>3. /\ Len(known) = Len(started) /\ Len(started) \in Nat
        /\ known \in Seq(FileCodes)
    BY <2>2 DEF StartedInv, StateInv
  <2>4. CASE want \in FileCodes
    <3>1. /\ Len(known') = Len(known) + 1 /\ known'[Len(known')] = want
          /\ \A k \in 1 .. Len(known) : known'[k] = known[k]
      BY <1>1, <2>3, <2>4
    <3> QED
      BY <1>1, <2>1, <2>3, <2>4, <3>1 DEF StartedInv
  <2>5. CASE want \notin FileCodes
    BY <1>1, <2>1, <2>2, <2>5 DEF StartedInv
  <2> QED
    BY <2>4, <2>5
<1> QED
  BY <1>2, <1>5, <1>6, <1>7, <1>8, <1>9, <1>10

-----------------------------------------------------------------------------
(***************************************************************************)
(* The theorems.                                                           *)
(***************************************************************************)
\* While lines stay simulated and requests do not leave LAUNCH_CODE for NONE.
THEOREM LaunchInvariance ==
  ASSUME OneLauncher, StaySimulated
  PROVE  Spec => []LInv
<1>1. LInv /\ [Next]_vars => LInv'
  <2> SUFFICES ASSUME LInv, [Next]_vars
               PROVE  LInv'
    OBVIOUS
  <2>1. CASE UNCHANGED vars
    BY <2>1 DEF vars, LInv, IoInv, StateInv, LauncherInv, SignalInv, ControllerInv, ReadInv,
       FileInv, StartedInv, Pending, Up
  <2> QED
    BY <2>1, LaunchStep, ModeStep, SwitchStep, StartStep, ChooseStep, WriteStep, RaiseStep DEF Next
<1> QED
  BY <1>1, InitLaunch, PTL DEF Spec

\* The types, for every number of lines, slots and launch threads.
THEOREM LaunchTypeCorrect ==
  ASSUME OneLauncher, StaySimulated
  PROVE  Spec => []TypeOK
<1>1. LInv => TypeOK
  BY DEF LInv, IoInv, Simulated, IsConfig, StateInv, LaunchThreads, TypeOK
<1> QED
  BY <1>1, LaunchInvariance, PTL

\* Each selection of a known code starts one program with that code, in order, and in the
\* block its thread index stands for unless a START by hand came in between: programs may
\* be started by hand in every mode.
THEOREM SelectionStarts ==
  ASSUME OneLauncher, StaySimulated
  PROVE  Spec => []StartsSelected
<1>1. LInv => StartsSelected
  <2> SUFFICES ASSUME StateInv, StartedInv PROVE StartsSelected
    BY DEF LInv
  <2>1. Len(started) \in Nat /\ Len(known) \in Nat
    BY DEF StateInv
  <2>2. Len(started) <= Len(known)
    BY <2>1 DEF StartedInv
  <2> QED
    BY <2>2 DEF StartedInv, StartsSelected
<1> QED
  BY <1>1, LaunchInvariance, PTL

\* While the check request is up the confirmation lines show the last selection.
THEOREM SelectionConfirmed ==
  ASSUME OneLauncher, StaySimulated
  PROVE  Spec => []ConfirmsSelected
<1>1. LInv => ConfirmsSelected
  <2> SUFFICES ASSUME LInv, UO_SELECTION_CHECK_REQUEST \in Up
               PROVE  /\ asked # <<>>
                      /\ \A i \in Numbers :
                           UO_SELECTION_CONFIRM(i) \in Up <=> i \in asked[Len(asked)]
    BY LineFacts, GroupFacts, LineRead DEF ConfirmsSelected
  <2>1. PICK l \in Launchers : thread[l].pc # "none" /\ Confirmed(thread[l])
    BY DEF LInv, SignalInv, LauncherInv
  <2>2. \A i \in Numbers : UO_SELECTION_CONFIRM(i) \in Up <=> i \in want
    BY <2>1 DEF LInv, ReadInv
  <2>3. asked # <<>> /\ asked[Len(asked)] = want
    BY DEF LInv, ControllerInv
  <2> QED
    BY <2>2, <2>3
<1> QED
  BY <1>1, LaunchInvariance, PTL
===============================================================================
