# A verification project for fstinterpreter

`fstinterpreter` runs BASIC programs for a robot arm. One process holds a
command loop, which serves the requests of a teach pendant, and up to 32
program threads, which interpret programs and send instructions to a motion
controller. The threads and the loop share plain memory, without a lock, and
the process talks to the controller through shared memory segments with a
hand-made flag protocol. The interpreter itself scans the text of a program and
keeps three stacks. Programs and the pendant read and write numbered registers,
each class of which is kept in a file, and a launch thread starts the programs
that a PLC selects over input and output lines. These TLA+ modules model these parts of the program, TLC
checks them on small instances and TLAPS proves the main results for every value
of the constants.

Source names in this text are relative to `src/src/` and drop the prefix
`forsight_`: `basint.cpp:613` is line 613 of `src/src/forsight_basint.cpp`. The
reference is the Linux build. "Design document" is
`src/doc/FFAL2000D001-interpreter-V1.05_1_lujiaming.pdf`.

## 1. Inventory

### Components

| Component | State it keeps | Operations | Interacts with |
|---|---|---|---|
| Command loop: `int_main.cpp`, `inter_control.cpp` | `intprt_ctrl`, `lastCmd`, `g_iCurrentThreadSeq`, `g_privateInterpreterState` | `parseCtrlComand` per command, the idle pass, `startFile`, `deal_auto_mode` | writes the blocks of the program threads, publishes the state, creates threads |
| Program threads: `basint.cpp` | `thread_control_block` (program, pointer, stacks, mode, flags), locals of `call_interpreter` | load and scan, step gate, token, pause poll, statements, end | read the flags and the line the loop writes; write the state and the line |
| Inner commands: `innercmd.cpp` | `is_paused`, motion positions, timers | MOVEJ, MOVEL, MOVEC, PAUSE, ABORT, WAIT, TIMER, frames, overrides | the state, `setInstruction`, registers, I/O |
| Shared memory: `interpreter_shm.cpp` | flags `read`, `write`, `turn`, `latest` and a message per segment | `tryWrite`, `tryRead`, `lockRead`, `unlockRead`, `isInstructionEmpty` | the controller, through memory |
| Launch codes: `launch_code_startup.cpp`, `launch_code_mgr.cpp` | code table, PLC handshake lines | a polling thread, created and joined by `deal_auto_mode` | I/O lines, starts programs |
| Macro instructions: `macro_instr_startup.cpp`, `macro_instr_mgr.cpp` | macros by name, macros by I/O | a polling thread; add, delete, update | I/O lines, starts programs, a JSON file |
| Flow statements, calls, expressions: `basint.cpp`, `innerfunc.cpp` | select-and-cycle stack, call stack, variable stack, labels | IF, SELECT, FOR, WHILE, LOOP, BREAK, CONTINUE, CALL, END SUB, RETURN | program pointer |
| Registers: `reg_manager/` | five classes of numbered registers: entries, values, a parameter object and a file each | add, set, get, delete; members read and written one by one | the commands of the loop, expressions, from every thread |
| Register shared memory: `reg-shmi/` | register image, a Peterson lock | read and write with the lock | another process; not in the Linux build |
| I/O: `io_controller.cpp`, `io_mapping.cpp`, `io_interface.cpp` | simulated lines and their switches, name mapping, devices | get, set, simulate | launch codes, macros, expressions |
| Translation: `xml_reader.cpp`, `program_property.cpp` | the XPATH table | XML program to BASIC text | loader, JUMP |
| `forsight_eval_type.h`, `cJSON.cpp`, `[ref].mem-share` | - | value type; vendored and unused libraries | - |

### What is hard here

* Two kinds of threads change the state, the mode, the program pointer and the
  line of the same program. A command is a sequence of writes which the program
  thread may see half done, and the thread reads a flag in one place and acts on
  it in another.
* Stopping is cooperative: `PAUSE` is a value of a variable that other writers
  overwrite, `ABORT` a flag looked at in three places, and neither waits.
* `main` parses the last request again when no new one came.
* A statement whose pointer is moved between its token and its operands is read
  from somewhere else in the program.
* One `InterpreterState` serves all programs, while flags and lines are per
  program; a program that ends publishes `IDLE_R` for all.
* Segments are passed with check-then-set flags; only `latest` keeps reader and
  writer apart, and nothing keeps two writers apart.
* Stacks and the thread sequence run into fixed limits.
* A flow statement finds the end of a block by scanning the text forwards, and the
  head of a loop in a frame it pushed earlier. Nothing checks that text and stack
  agree; statements that leave a block, a call or the program early disturb both.

* A register is changed by reading it, changing a member and writing it back,
  from several threads and without a lock; entry, value and file are changed one
  after the other, the write of the file may fail, and only the file survives.
* A value read from a register carries the register beside its number, and
  arithmetic has to keep the two in step.
* The launch handshake is two loops that each wait for what the other writes, line
  by line, on lines that requests may switch out of simulation.

### What makes each component correct

* *Command loop and threads*: an ABORT or a PAUSE bounds what still runs; a step
  runs one statement, or what follows an empty line as well, and comes back; an aborted program ends; a request is done
  once; commands do not tear a statement; lines and indices stay in their range.
* *Inner commands*: a PAUSE statement holds until it is continued; one
  permission lets one motion go; a wait ends when its condition or its time says.
* *Shared memory*: reader and writer exclude each other; every message arrives
  once, whole and in order; nobody is locked out.
* *Launch codes*: a selection starts the program it names, once and in order; the
  confirmation shows the number selected; the lines come back for the next one.
* *Flow statements*: a well-formed program's control flow is that of structured
  BASIC; the stacks return to their depth; limits are reported before they break.
* *Expressions*: the text is read whole, and operators bind and group as written.
* *Registers*: a call changes the register and the member it names and no other;
  what was assigned reads back; only an assignment makes a register; what a call
  reported as done is in the file; no refused value gets in.

PROJECT.json lists the hazards one by one, each at its line, with the
properties that are about it or the reason why there is none.

## 2. Modules

| Module | Models |
|---|---|
| `ThreadControlBlock` | constants and shared variables: blocks, handles, state, sequence; program positions |
| `CallInterpreter` | a program thread: loading, gate, token, poll, statements, end |
| `ParseCtrlComand` | the commands, split where a thread can see them half done |
| `InterpreterControl` | the loop of `main`, the composition, properties |
| `MCInterpreterControl` | programs and request sets for TLC |
| `InterpreterControlProofs` | invariants of `InterpreterControl`: types, ABORT, the pointer, single steps, PAUSE |
| `BasicProgram` | the text of a program: words on lines, how blocks pair |
| `StructuredBasic` | what the flow statements promise: each goes where the pairing says |
| `BasicFlow` | how `call_interpreter` runs them: scanning, and three stacks |
| `MCBasicFlow` | programs for TLC |
| `BasicFlowProofs` | invariants of the stacks; what goes back repeats a loop |
| `BasicNestingProofs` | in tidy programs the stack holds the blocks of the text |
| `BasicRefinementProofs` | the flow statements implement structured BASIC |
| `EvalValue` | the values of expressions and their arithmetic |
| `ExpressionTree` | what an expression means, and its text |
| `Expression` | how the levels of `get_exp` read it |
| `MCExpression` | expressions and conditions for TLC |
| `BaseReg` | what the register classes check and store, and where they differ |
| `RegManagerWrapper` | getters and setters of members over all classes |
| `RegistersManager` | `get_register`, `set_register` and the requests, member by member |
| `RegisterAccess` | programs and the operator at the registers, in steps |
| `MCRegisterAccess` | registers, statements and requests for TLC |
| `RegisterAccessProofs` | which register a call changes, which member, what it holds, and what a value carries |
| `RegStore` | one class with its memory and its file; failing writes, restarts |
| `MCRegStore` | callers for TLC |
| `RegStoreProofs` | durability and limits |
| `IoController` | simulated lines and their switches |
| `LaunchCode` | the launch thread, the mode commands, and the controller that selects |
| `MCLaunchCode` | files, modes and switches for TLC |
| `Mailbox` | what a segment promises: a box for one message |
| `InterpreterShm` | the flag protocol, an access per step |
| `MCInterpreterShm` | users of a segment for TLC |
| `InterpreterShmProofs` | exclusion and refinement of `Mailbox` |

### Correspondence, command loop and threads

`prog_mode`, `execute_direction`, `is_abort`, `is_paused`, `iLineNum` and `prog`
are the fields of the block with an element per slot; `handle` is the set of
slots with a thread handle; `state` is `g_privateInterpreterState`, `seq` is
`g_iCurrentThreadSeq`. `pc`, `iLinenum`, `tok` and `skip` are locals of the
thread, `mpc`, `mline` and `lastCmd` those of the main thread.

A step of a thread is a stretch of `call_interpreter` with at most one access
that another thread can tell apart. `top`, `stepSet`, `stepWait` and `stepGo`
are the gate (basint.cpp:520-604), `read` the token and the abort check
(611-619), `poll` the pause poll (620-636), `exec` the dispatch (637-814),
`pauseMark` and `pauseWait` are `call_Pause`, the four `motion` places
`call_MoveJ` with `setInstruction`, `leave` and `exit` the end of
`basic_interpreter`. Sleeps are places where others may run.

A program is an array of statement kinds, one per line, and `Succ` says where a
control-flow statement may leave the pointer: at the start of a line, or at the
rest of one, as a false IF stops behind the word ELSE. `call_interpreter` treats the
rest of a line like an empty line: the next statement runs without the gate. A program pointer is a line and a place in it:
before the line, behind its first token, before its newline, or elsewhere. A
statement whose pointer was moved under it (`~Intact`) reads other text: it may
leave the pointer anywhere, with or without an error (`ExecTorn`).

A command is one step up to the first write a thread can act on while later
writes of the command are outstanding: JUMP, FORWARD, BACKWARD and ABORT have
second and third steps (`CommandStep`), during which the main thread does
nothing else. FORWARD, BACKWARD and PAUSE write `prog_mode` shortly before the state
(forsight_inter_control.cpp:826 and 831, 902 and 906, 953 and 955), which is one step
here: a thread that saw only the mode would come to the gate, as it does a moment later,
and the properties speak of what begins behind it. `OneStatementPerStep` counts from the
release that the state is.

What the code fixes and the model therefore takes as given:

* `int_main.cpp:44` copies the payload of a request past the end of
  `intprt_ctrl` (the pointer arithmetic is in units of the struct), so every command
  that reads its payload from there sees zeros: JUMP no line, SWITCH_STEP `FULL_MODE`,
  START and DEBUG the default program, SET_AUTO_MODE the mode 0, the register and line
  commands an empty name. The runs about steering use these values; `statements`,
  `registers` and `launch` take the payloads the sender put there, since that is what
  the handlers behind `parseCtrlComand` are written for.
* `readShm` and `writeShm` have empty bodies in this build, so the controller's
  permission never arrives (`ShmAttached = FALSE`). With it, a motion command can
  complete; `statements` sets it to TRUE.
* `is_in_macro` is FALSE in every block `startFile` fills, and `is_backward` is
  written and never read for a decision: both are left out.
* The first pass of `main` carries out a START nobody asked for (int_main.cpp:23).

Abstractions: which statement stands on a line, expressions and variables; the
double definition of labels by an ABORT during loading is the choice of an
`ERROR_MODE`; `calc_line_from_prog` before the table is built may answer any
line; a statement other than PAUSE and the motion commands ends.

### Correspondence, shared memory

`tryWrite` and `tryRead` are the same code with the flags exchanged, and the
actions of `InterpreterShm` are written once for both (`Own`, `Other`). A
message has two words, so a copy takes two steps and can be torn. `lockRead` is
`tryRead` that keeps its flag, `unlockRead` clears it. Accesses happen in the
order of the source (the flag words are volatile; reordering by a processor is
not modelled). Writers repeat `tryWrite` until it is true, as
`setInstruction` does. Who reads is the controller, outside this repository, with
the functions of this file.

### Correspondence, flow statements and calls

`p_buf` and `prog` are the text and the pointer of the block, `selcyclstack`,
`gosub_stack`, `gosub_tos` and `func_call_stack` its stacks. `local_vars` is the
size of `local_var_stack`, `vars` the loop variables in `global_vars`, `err` the
last `serror` (`ERROR_MODE`), and `running` the recursive activations of
`call_interpreter`. A step is one pass of the loop of `call_interpreter`, with
the whole `exec_*` function it dispatches to. A search through the text
(`Outside`, `Behind`, `EndsFrom`) is a set of lines whose least element is where
it stops; an empty set is a search that does not end, because `get_token` answers
`FINISHED` for ever (`fate = "hung"`). `jumpout_one_block_in_loc` calls itself for
inner blocks, which is the count of `Level`; `OutOf` is the loop of
`jumpout_blocks_in_loc`, one search per frame.

A frame is its kind and the line of its head, from which the code's location,
target and variable follow: the target is kept in the frame and the model reads it
from the head, so targets are constants. Values of conditions are free. A place on
`gosub_stack` is the rest of a line or the start of one, since `exec_call` skips to
the next line after the call and `gosub` does not.

Taken as given: operands are well formed, so the errors about a missing `THEN`,
`TO`, `=` or expression do not occur; one statement stands on a line and lines end
in CR LF, as the files in the repository do; labels are found or not (`to = 0`), and
their names are not modelled. Where an error leaves the program pointer is left
out, because the thread ends at its next pass. `StructuredBasic` is written from
sections 20 to 29 of the design document, as the meaning against which the code
is compared.

The refinement mapping (`Structured`) reads the counting loops off the stack: the
frames of FOR and LOOP in order (`Counting`), each with the value of its variable; the
lines to return to are those of the pending calls. An ELSEIF that the code goes to from
a false condition stands for its IF, whose choice is still to make (`At`).

The two are compared on programs that keep clear of what the code does otherwise. Four
conditions on the text say so; `flow` checks programs that meet them and the theorem
holds for all that do. `Tidy` excludes

* blocks that are not paired or not nested, a branch of another block;
* an ELSEIF that is reached from the end of a taken branch, and a SELECT without
  DEFAULT, whose frame stays (basint.cpp:2019);
* BREAK or CONTINUE outside of a cycle, or where the search stops at the end of an inner
  cycle (basint.cpp:1927);
* CALL without parentheses, which skips the line behind it (basint.cpp:2231);
* a GOTO or CALL into a block; RETURN from inside a block;

`GotoInMain` a GOTO that runs in a call, as it takes the caller's frames; `Straight`

* a FOR whose first value is above its target, which runs once (basint.cpp:1649);
* CONTINUE in a FOR or a LOOP; BREAK in a LOOP, where the search never ends;
* missing labels, a second branch behind the ELSE, an END in a SELECT, where the search
  of a CASE meets it, a text that does not end with END SUB;

and `Apart`

* END in a subroutine, which returns to the caller (basint.cpp:2082);
* two running loops that count with one variable, as nested LOOPs do; also when one runs
  in a call from the other. So that the text can tell, calls lead forwards: a
  subroutine stands behind the lines that call it, and none calls itself.

The programs of `anyflow` have all of these. Besides, a WHILE that ends is left
behind the first WEND that fits its head, also when a WEND or CONTINUE behind that one
brought it back: the program then goes on before the statement that ended the loop
(basint.cpp:1849, 1901), which `Repeats` allows and `Strays` shows.

`FramesMatch` needs only `Tidy` and `GotoInMain`: loops may count with one variable,
nest and end in any way whose search stops at the end of the block it stands in, and
subroutines may call themselves.

### Correspondence, values and expressions

A value has a set `type`, the bits of `evalType`, and a field per payload; as in
the code the setters add types and none takes one away. One field `reg` stands for
`reg_pr`, `reg_sr`, `reg_r`, `reg_mr` and `reg_hr`, because a value is filled by one
setter. Numbers are integers; `AsFloat` rounds them beyond `FloatLimit` as a float
does. The arithmetic is that of the code: `calcMod` of plain numbers asks its
divisor for an int it does not have and divides by -1, `calcPower` multiplies by the
exponent, `calcCartesianPosAdd` returns its first argument, and a pair of types
without a branch leaves the left operand as it is. Quotients are only formed when
nothing remains.

In `Expression` a reading is a function of the text: each `levelN` takes the rest
of the text with its first token read and returns it with the token behind read, as
the calls pass `token` on. The variable a level fills is part of the reading, since
`hold` in the loops of `level3` and `level4` keeps what it held. `ExpressionTree` is
the meaning; `Text` writes a tree with the parentheses it needs, and the expressions
read are the texts of trees.

### Correspondence, registers

`st[kind][id]` in `RegisterAccess` is the entry and value of a register, `call[x]`
what each thread is doing: reading operands, having read the register (`got`), about
to write it. The functions of `reg_manager_interface_wrapper.cpp` are operators with
the same names on the answer of the class; the branches of `get_register` and
`set_register` are an operator per kind and group of members, with the member as
data. What memory holds where the code leaves a variable unset is a choice from
`Junk`. In particular: a PR or HR assigned as a whole, or given an id, goes where its
data says, while R, MR and SR go where the statement says; `pj` of a joint position
cannot be read; HR takes id and comment from PR (registers_manager.cpp:562, 567); a
plain number does not change an SR; an assignment to `SR.value` takes the
line's next token.

The index in a statement or a request is an `int` of `atoi`, and every function of the
wrapper takes `uint16_t num`: `Narrowed` and `uint16_t` keep its remainder by `Uint16`
(2^16 in the code), on the way out of a statement and out of a request. R[65537] is R[1].

The build (CMakeLists.txt:78-84) compiles the wrapper and `forsight_registers_manager.cpp`
and has the classes (`*_reg.cpp`, `reg_manager_interface.cpp`) commented out; they come
from a library whose sources are these files. `RegStore` and `BaseReg` are models of the
files in the repository.

`RegStore` takes one class apart: `reg_list`, `data_list_` and `param_` are its
fields, `file` the YAML file. A call goes through check, entry, value, parameters and
dump, each a step between accesses to shared state. A value is stored part by part
(`Parts`: the type and coordinates of a PR, the coordinates of an HR): the `memcpy` of a
struct is no single access, and `writeRegDataToYaml` looks each coordinate up again, the
type last (pr_reg.cpp:341-368). The entry, which a call writes twice with its own values,
and a string are one part each. A dump writes all of `param`, so
it also carries what another call has put there. `Die` is the end of the process at
any step; a process that dies between `createYaml`'s file and its first dump leaves
an empty file, from which reading stores an entry that was never filled
(`ReadMissing`). The parameter library is external: a dump replaces the file or
fails and changes nothing.

### Correspondence, launch codes and lines

A place of a launch thread is named for the line or group of lines it accesses next;
the six lines of a group are a step each (`NextLine`). A program number is the set of
the lines that are up for it, line i being bit i - 1: shifting, testing and joining
bits are what the code does with it. `known` is a history variable, the selections that
some file answers. `thread[l].iRet` and
`bIsSelectionStrobe` are the locals of `launch_code_thread`. `io` is
`g_io_config_` with simulation flag and value; `Emulated` is
`refresh_io_config_emulated`, which sends UI, UO, SI and SO lines by the switch of
the RI and RO lines. `USE_FAKE_PLC` is defined in this build: the thread raises
`MPLCS_START` itself. A line that a request names and the table does not have is added
with `emltFlag` 0: `cJSON_CreateBool(1)` (io_controller.cpp:83) leaves `valueint` 0, and
only a restart reads it back as set.

`Start` is START by hand (forsight_inter_control.cpp:726), in any mode. It counts
`g_iCurrentThreadSeq` up as the launch thread does, without a lock. When it comes between
the increment of the launch thread (launch_code_startup.cpp:257) and the block the thread
fills, the selected program starts in the block of the later number and goes under the
index of the earlier one; `met` marks such a selection.

The controller is not in the repository. Its steps are requests (`MOD_SMLT_VAL`): it
writes its selection, raises the strobe, and waits until strobe and check request
have fallen. Requests that need a block are dropped while no program was started
(`seq < 0`), so it begins after the first one. `g_iCurrentThreadSeq` takes the value
`NUM_THREAD` before it returns to 0 (inter_control.cpp:280), and that block lies
behind the array: `loop = "gone"`, as nothing is known from there on. Leaving LAUNCH_CODE or MACRO_TRIGGER
joins a thread that does not end: `loop = "joining"` for good. From MACRO_TRIGGER to
LOCAL_TRIGGER the code joins the launch handle, which no thread was created for:
undefined, modelled as returning or ending the process.

## 3. What the runs check

| Run | Instance | Properties | Shows |
|---|---|---|---|
| `steering` | one program of 4 lines with a loop and an empty line, 8 commands in every order | `TypeOK`, `PauseBoundsRun`, `OneStatementPerStep`, `OnlyAbortTearsStatement` | at most one statement begins after a PAUSE, or per step, up to empty lines; only ABORT moves the pointer under a statement |
| `statements` | PAUSE, motion, failing statement, ABORT; a controller, JUMP lines, both modes; a second START that goes behind the array | `AbortBoundsRun` | at most one statement begins after an ABORT, inside each of these |
| `abort` | a loop, single steps, PAUSE and ABORT, fair | `AbortEnds`, `StepReturns` | an aborted program ends unless paused again; every step comes back to the gate |
| `mailbox` | one writer, one reader, 4 messages, fair | `Exclusion`, `IsMailbox`, `Delivered` | the segment is a mailbox; all messages arrive |
| `flags` | two writers, two readers, 3 messages | `FlagsReturn` | no flag is left behind on any path |
| `flow` | 2663 programs: all bodies of up to 5 lines, deep ones of 6 and 7, choices with ELSEIF, ENDs; fair | `FramesMatch`, `ImplementsStructured`, `Terminates` | safe programs run as structured BASIC; the stack mirrors the blocks around the statement and each call |
| `anyflow` | 17578 programs: any three lines, two in which a WHILE is left behind an earlier WEND, and a subroutine that calls itself | `TypeOK`, `FramesSound`, `ReturnsFind`, `LocalsReturned`, `RepeatsOwnKind` | what the stacks can be trusted for in any program |
| `registers` | two registers of each kind, a program with statements and an operator with requests for every member, a call each; indices beyond `Uint16` | `TypeOK`, `CopiesAgree`, `FloatsAssigned`, `OnlyNamedRegister`, `OthersKept`, `NoRevival`, `ReadsBack` | a call changes what it names, keeps the rest unless it was overtaken, and reads back |
| `regfile` | two threads, two registers of class HR with two coordinates, a value with one of them beyond the limit, an id out of range; dumps fail and the process dies at any step | `TypeOK`, `Durable`, `ValuesInLimit` | what was reported done survives; refused values never get in, not in a mixture of two |
| `expressions` | 21 000 expressions and conditions of up to four operands | `ReadWhole`, `MeansItsTree`, `HoldsAsWritten` | the text is read whole and means its tree |
| `launch` | two selection lines, three files of which two share a code, two selections, simulation switched, a start by hand at any moment, all modes but NONE; fair | `TypeOK`, `StartsSelected`, `ConfirmsSelected`, `EverySelectionServed` | each selection starts its program once and is answered |
| `terms` | the expressions of `expressions` | `TermsAreAdded`, violated | R[2] + R[1] + 2 adds R[1] twice (basint.cpp:2897) |

`terms` expects the violation: the comments at basint.cpp:2893 and 2907 say that terms
are added and factors multiplied, and the code reads a number into a `hold` that still
carries a register. `MeansItsTree` leaves out exactly the trees in which that happens
(`Refilled`) and holds for all others.

### Known differences

Five more properties state what the sources say and the code does not do. TLC finds
each violated with the configuration named:

| Configuration | Property | What TLC finds |
|---|---|---|
| `MC_restart.cfg` | `OneProgramPerStart` | the pass after a START parses it again (int_main.cpp:60): two threads run one program |
| `MC_pause.cfg` | `PauseStatementHolds` | FORWARD gets through between `PAUSED_R` and `is_paused` (innercmd.cpp:1379) |
| `MC_step_over.cfg` | `StepIsOneLine` | one FORWARD at a false IF runs the IF and the first statement behind ELSE (basint.cpp:813) |
| `MC_continue_for.cfg` | `ContinueIsNext` | CONTINUE in a FOR does not count (basint.cpp:1876) |
| `MC_goto.cfg` | `GotoArrives` | the search for the ends of blocks does not come back (basint.cpp:1406) |

### Bounds

* `MaxSeq` bounds START and DEBUG. With 0, one program runs, started by the
  first pass, and the properties about one program are checked under every
  order of the other commands without a bound: the state is finite. In `statements`
  there is one slot and `MaxSeq = 1`: the second start goes behind the array
  (`wild`) and the main thread stops there, which is why that run does not check for
  deadlock. That several threads disturb each other's states does not touch
  `AbortBoundsRun`, which is proved for any number.
* `LastLine` is 3 to 7: a program needs the SUB, a statement or an empty line in the
  middle, a jump back and the END SUB to show every relation of pointer, line and
  gate; `step_over` needs an IF with an ELSE.
* `MaxMessages` bounds the messages; when all are delivered nothing is left to
  do, so `mailbox` and `flags` do not check for deadlock. The theorems have no bound.
* `flags` uses symmetry between the writers and between the readers; it checks
  an invariant that treats them alike.
* `steering` has no SWITCH_STEP, which can take a step out of `STEP_MODE` when a
  PAUSE has just been lost in it. `abort` leaves out the commands that only repeat its
  cases, and its loop has no empty line: with nothing else in a loop, a step would
  never end.
* `SELECT_AND_CYCLE_NEST` and `SUB_NEST` are 64 and 16 in the code and 3 or 4 here,
  so that programs of a few lines reach them. Blocks nest three deep in `flow`
  (`SELECT_AND_CYCLE_NEST = 4`: the stack must not overflow) and calls once. In
  `anyflow` the subroutine calls itself from inside an IF until one of the stacks is
  full. `RepeatsOwnKind` has an end of a loop and one wrong frame as its smallest
  case, which three lines hold; `Strays` adds the case that takes five. The theorems have no bound on programs or stacks.
* The programs of `MC_continue_for.cfg` and `MC_goto.cfg` are `Samples`, one for each.
* `registers` has one call of the program against one of the operator: every property
  is about one call, or two of which one comes between the steps of the other. A second
  coordinate would repeat the first (`Axes = {1}`). One member name is none the code knows.
  `OthersKept` says nothing of an id out of range, where there is nothing to keep. `FloatLimit = 4` and
  `MAX_REG_VALUE = 9` let sums and products of the numbers used pass both. `Uint16 = 4`
  and the indices 5, 6 and 8 stand for those beyond 2^16: two that come back as a
  register, one that comes back as 0.
* `regfile` needs two threads, so that calls meet, two registers, so that one
  call's dump carries another register, and two coordinates, so that values mix. A PR
  register has a type besides, which gives `ValuesInLimit` nothing to say of mixtures:
  only what is settled, which is checked for HR, too. All writes have one comment; who
  wrote shows in the coordinates. Reads do not change anything and are left out.
  Nothing bounds the number of calls, failures or restarts. The theorems have no bound
  and hold for every class.
* `expressions` has a number and a register of two classes as operands and up to
  two operators on each side of a third: enough for each operator to meet each other on
  its left and right, with and without parentheses. `/` and `%` group as `*` does.
* `launch` has two lines, so that a half-written number is a different one, a code no
  file has, and 0. `MaxAsked = 2`: the second selection meets what the first one left.
  `MaxSeq = 2`: the first START, without which no line can be written, and two more
  programs, a selection's or one started by hand in between. NONE is left out of the modes: LAUNCH_CODE,
  NONE, LAUNCH_CODE makes a second launch thread beside the first. A restart in
  the middle of a handshake is left out: the lines are kept in a file and the thread's
  place is not.

### Fairness

`Spec` of `BasicFlow` has weak fairness of the next statement: the thread sleeps
only in the step gate and the pause poll, which are in `InterpreterControl`.

`FairSpec` of `LaunchCode` has weak fairness of the launch thread, which polls for
ever without waiting for anybody. Requests and the controller are not fair.

`FairSpec` of `InterpreterControl` has weak fairness for each thread (`usleep`
loops under the kernel's scheduler), for the rest of a command once begun, and
for the controller when it is there. Requests are not fair: nobody has to send
any. The idle pass is not fair either: a stream of requests may keep the list
from being empty. `FairSpec` of `InterpreterShm` lets both sides repeat their
calls, which `setInstruction` and a polling reader do, and a reader unlock.

## 4. What is proved

`InterpreterControlProofs`, from the assumptions on the constants in
`ThreadControlBlock` (some slots, a program of at least two lines, successors for
control-flow statements):

* `Invariance`: `Spec => []IInv`. `TypeOK` and `AbortBoundsRun` are not
  inductive. `IInv` adds what the main thread's place says of its local line and
  of the sequence (`MainInv`), what a thread at the dispatch has read (`ExecInv`),
  that slots above the sequence were never used (`SlotInv`), and that a thread
  that has spent its last statement cannot be between the abort check and the
  dispatch with its flag still down (`AbortInv`).
* `TypeCorrect`: `Spec => []TypeOK`; in particular no command ever puts a line
  below -1 or behind the program.
* `AbortBounds`: `Spec => []AbortBoundsRun`, for every number of programs.
* `TearsOnlyByAbort`: `Spec => []OnlyAbortTearsStatement`, when no JUMP finds its line
  (`NoJump`, what `getLineNumFromXPathVector` comes to) and no statement fails
  (`NoFault`). A statement that fails leaves the pointer inside its line, and as
  FORWARD overwrites ERROR_MODE the program can run on from there, with a token that
  is not the line's first. `PlacedInv` follows the pointer from one statement to the
  next while nobody aborts; `MoverInv` says that a command about to move it is an ABORT.

* `OneStatement`, when no JUMP finds its line: `Spec => []OneStatementPerStep`. The property speaks of the moment a
  statement begins; what keeps it is that between two statements the thread passes the
  gate, and that whatever opens the gate has also cleared `stepping`. `StepInv` says so
  at every place of the loop, `CommandInv` of a command that is half done, and
  `HistoryInv` what the histories can hold of a thread that has not begun or has ended.
* `PauseBounds`, likewise: `Spec => []PauseBoundsRun`, when in addition no command switches the mode
  (`NoSwitch`). `PauseGateInv` says that a thread behind its last statement can only wait
  at the poll or the gate; `PauseLostInv` follows the one way out, a step that FORWARD
  has released and in which the gate publishes `PAUSED_R` over the PAUSE. A SWITCH_STEP
  in that step lets the program run on in full mode with the PAUSE lost, so that the
  hypothesis cannot be left out.

`InterpreterShmProofs`, for any number of messages, the first two for one writer and one
reader:

* `ReadersAlone`: `Spec => []Exclusion`. The argument is that `latest` is a
  baton: a user past its check of `latest` keeps the other one before his until
  it publishes (`BatonInv`), and a reader behind its copy still holds its flag, so
  no writer gets past it (`LockInv`). `turn` plays no part.
* `ImplementsMailbox`: `Spec => IsMailbox`: the step that sets `latest` is the
  Put or the Take, all others stutter. `DataInv` follows the words of the message
  through the copies.
* `FlagsComeBack`: `Spec => []FlagsReturn`, for any number of writers and readers. Two
  users of one side share their flag, and the first to leave clears it for both, so
  that a set flag has *some* user on the way to clear it (`FlagInv`) is the invariant.

`BasicFlowProofs`, for every set of programs, well paired or not, and all sizes of
the stacks:

* `FlowInvariance`: `Spec => []IInv`, with `IInv` the conjunction of `TypeOK`,
  `FramesSound`, `ReturnsFind` and `LocalsInv`. They need each other: NEXT and
  CONTINUE set the program pointer to a line a frame names (`FramesSound` makes it a
  line), RETURN to a place that must have been stored (`ReturnsFind`), and that
  `local_var_stack` is empty in the end needs the first saved size to be 0 and fewer
  saved sizes than places (`LocalsInv`), as a RETURN pops whichever is on top.
* `FlowTypeCorrect`, `FramesAreSound`, `ReturnsAreFound`, `LocalsAreReturned`: its
  parts, and `LocalsReturned` as a consequence. That error 13 ("RETURN without
  GOSUB") cannot be reported is part of `ReturnsFind`.
* `LoopsRepeat`: `Spec => RepeatsOwnKind`. A frame's kind and the word on its line agree
  (`FramesSound`), so that NEXT, WEND, ENDLOOP and CONTINUE, which look at the kind,
  come back behind a head of that kind; what skips from a head stops behind a closing
  word of its kind.

`BasicNestingProofs`, for every set of programs that are `Tidy` and `GotoInMain`, any
depth of blocks and of calls, and all sizes of the stacks:

* `FramesAreBlocks`: `Spec => []FramesMatch`. The code counts opening and closing words
  from the statement on; the property speaks of the blocks around it. The first part is
  about the text alone: blocks that are paired form a forest, the blocks around a line
  are those around the innermost one and itself (`Innermost`), and a search that starts
  at a word of a block stops at a word of the same block (`SearchInBlock`, from
  `LevelInside`: inside a block no more of its kind are closed than opened, by the least
  line at which that would fail). The second part is about the stack:
  `Mirrors` says that its frames are the blocks of each activation in order, and has a
  lemma for each change: a frame put on top, frames cut off, an activation begun and
  ended (`MirrorsPush`, `MirrorsCut`, `MirrorsCall`, `MirrorsReturn`). The third has a
  lemma per statement.
* `NestInv`, the inductive invariant, adds to `FramesMatch` that the places on
  `gosub_stack` are the rests of CALL and GOSUB lines (`CallsKept`) and, where there is
  a GOTO, that the END SUB which ends main parts the text (`GotoApart`): main runs
  before it and everything called behind it, so that the GOTO that empties the stack
  takes no caller's frames.

`BasicRefinementProofs`, for every set of programs that are `Tidy`, `GotoInMain`,
`Straight` and `Apart`, whatever the conditions say and for all sizes of the stacks:

* `FlowImplementsStructured`: `Spec /\ []WithinLimits => ImplementsStructured`: each
  step of `call_interpreter` is the step of `StructuredBasic`, or stands still.
  `WithinLimits` says that no stack was full, neither written behind its end
  (`"overrun"`) nor answered with error 12. It cannot be left out: the sizes are
  constants and the text bounds neither its blocks nor its calls.
  The first part shows that both modules read a text in the same way. The second is
  about the mapping: `Nth` counts the frames of the loops that count, and
  `LoopsPut`, `LoopsCut`, `LoopsTop`, `LoopsCount` say what the sequence of loops becomes
  when a frame is put on or cut off and when a variable counts. Then a lemma per statement
  shows that where the scan stops and what it leaves on the stack is what the pairing of
  the text says, with `FramesMatch` for what is on the stack (`IfRight` to `EndRight`).
* `ClearInv`, the inductive invariant, adds to `NestInv` that no error is ever reported
  and the pointer stays on a line (`Clear`), that each activation is one pending call, and
  `Deeper`: an activation stands behind the line its call led to, and behind those of the
  calls before it. From that and the text follows that no two running loops count with
  the same variable (`CountersAre`), and that END stands in main (`EndInMain`).

`RegStoreProofs`, for every class, set of ids, set of threads and set of requests,
from the assumptions in `BaseReg` and `RegStore` (ids are positive, the limit is a
natural number):

* `StoreInvariance`: `Spec => []IInv`. `Durable` is not inductive: that a dump puts
  the right value into the file needs that the parameters hold it, part by part what
  memory holds, which needs that memory holds it, part by part what was asked for, as
  long as no other call is on the register (`WrittenInv`, `AloneInv`); and that a dump of
  another register carries along what is settled needs the settled registers to be in the
  parameters as well (`SettledInv`). A part of the value is stored while others still
  have to be: what a register is to hold does not change by that (`TargetStays`), also
  when a deletion takes it from what the register held.
  `CallInv` says that a call behind its check has a value that was admitted.
* `StoreTypeCorrect`, `StoreIsDurable`: its consequences.
* `StoredInLimit` (`ValuesInLimit`): what is settled is a value the class admits. In the
  classes R, MR, SR and HR so is whatever memory and the file hold at any moment: a value
  is refused for one of its parts (`RefusedIs`), and every part that is stored or read
  back comes from a value that was not (`Fine`, in `MemoryInv` and `FileInv`). A position
  is refused for coordinates of its type only, so that two calls that meet on a PR
  register can leave one's type with the other's coordinates, which nobody checked, and a
  single one a file with its coordinates and an old type, if another's dump comes in
  between. Of both the property says nothing.

`RegisterAccessProofs`, for every set of programs, statements, requests and register
contents and any number of registers and axes. The assumptions in `RegisterAccess` say
what a statement, a request and a register are made of: a statement may name any member,
known or not, an id of any class, in range or not; a request carries the payload its
member has; a position register starts with one of the two position types. Any number
of actors may be in the middle of a call.

* `AccessInvariant`: `Spec => []AInv`. Registers, values and calls keep their shape
  (`IsStore`, `IsEval`, `IsAssign`, `IsModify`), which no property asks for but every
  step relies on: a value that carries a PR must carry a position. `IsCurrent` says that
  a call about to write holds what the register it names still holds, or is overtaken;
  a step of another actor keeps it because it marks whom it overtakes. `Agree` says what
  `CopiesAgree` says of a value at hand; while the right operand is still outstanding
  the left one is `Copied`, as an operator can only keep in step what was in step.
* `NumbersOfRegisters` (`CopiesAgree`): each operator computes the number and the
  register's from operands that are equal (`NumbersAgree`, `StringsAgree`,
  `PositionsAgree`), in the range in which `AsFloat` is exact (`SmallIsExact`).
* `WritesWhereNamed` (`OnlyNamedRegister`): the index a statement or a request names may be
  any natural number; a write changes the register of the class named whose number is the
  remainder of that index (`NarrowedIs`), and no other. Of a PR or HR assigned as a whole
  and of an id that is assigned (`Renumbers`) it says less, because the code does: one
  register of the class changes, the one its data names.
* `MembersKept`, `NothingRevived`: what a call passes on to be
  written always `Fits` what it read: right class, id of the register named, the other
  members as they were, and nothing at all if the register was not there and only a
  member of it is set. The lemmas say so once for every branch of `set_register` and of
  `forgesight_mod_reg`; `UpsertIs` and `DeletedIs` say what a class then does with it.
* `AssignedReadsBack` (`ReadsBack`), from `[]FloatsAssigned`: the two directions through
  the members, `set_register` and `get_register`, meet in what the entry says then.
  `PrHolds`, `HrHolds`, `SrHolds`, `RHolds`, `MrHolds` say for each class what an entry
  holds once the register passed on has gone through the checks of its class; `PrShows`
  to `MrShows` what `get_register` makes of such an entry; `WrittenShows` puts them
  together for the members that are written and read in the same way. The hypothesis is
  needed because reading converts to float once more: a number that is assigned must be
  one a float holds. The run `registers` checks `FloatsAssigned`, and `RoundedOnce`
  proves the fact it rests on, that rounding twice is rounding once. A proof of it
  would need numbers that stay below `FloatLimit` * 2^10, up to where `Spacing` is given,
  and that `Power` of integers is an integer, an induction over data.
* `AccessTypeCorrect` (`TypeOK`): the invariant above says that positions have the shape
  of positions; that an R or MR always holds a number and a PR one of the two position
  types needs what the classes refuse (`LimitAdmits`), whatever is passed to them, so
  `Admitted` needs nothing of the values in the calls.

`LaunchCodeProofs`, for every number of selection lines, slots and launch threads and
every set of files, from the assumptions in `LaunchCode`, while requests leave every
line simulated (`StaySimulated`: by its own flag, or by that of its class) and do not
leave LAUNCH_CODE for NONE (`OneLauncher`). Without the first a signal is on a device
nobody models, without the second there are two launch threads on one set of lines.

* `LaunchInvariance`: `Spec => []LInv`. Thread and controller share the lines without a
  lock; it is the handshake that keeps them apart. `SignalInv` says which of the
  three signals are up at each place of the thread, `ControllerInv` that the controller
  only writes while strobe and check request are down, so that no step of the thread
  that reads the lines is possible then; `ReadInv` that the number read so far is the
  part of the selected one below the line it stands at, and so the whole one at the
  end; `FileInv` that the program found is the one of that number and that `seq` does
  not move between its two readings unless a START met it; `StartedInv` that programs started and known
  selections agree but for the one that is `Pending`.
* `LaunchTypeCorrect`, `SelectionConfirmed`: its consequences.
* `SelectionStarts` (`StartsSelected`): likewise, with START by hand in any mode and at any
  moment, also between the two readings of `seq`. There is no lock against it: a program
  that it met (`met`) starts in another block than its index says, and the theorem claims
  the block only for the others. That each selection of a known code starts its program
  once and in order it claims for all.

Only model-checked: the liveness properties (`AbortEnds`, `StepReturns`,
`Delivered`, `Terminates`, `EverySelectionServed`), which need fairness and `ENABLED`,
out of the prover's reach; what is said of expressions, whose levels are recursive
operators; and `FloatsAssigned`, the hypothesis of `AssignedReadsBack`.

## 5. Plan

In this order; 1, 2 and 3 carry the interpreter's own concurrency, 4 its meaning.

1. *Done*: command loop and program threads; type and abort invariants proved.
2. *Done*: shared memory segments, the mailbox, exclusion and refinement proved.
3. *Done*: launch codes with the mode commands and the simulated lines, and with START
   by hand beside them.
4. *Done*: flow statements and calls, against structured BASIC; the invariants of
   the stacks proved; expressions, against their trees. To add: function calls in
   expressions, values of parameters.
5. `MotionChannel`: permissions and instructions from `setInstruction` to the
   controller with several programs, composed with `InterpreterShm`. What the controller
   does with two writers is not in the repository.
6. *Done*: registers from statements and commands, and one class with its file; both
   proved. To add: the YAML file of the lines.
7. WAIT and timers; the line table of the translation against the XPATH table.

Theorems to add: that slots go through none, running and gone only once
(refinement of a small life-cycle specification).

## 6. Not modelled, and why

* Translation of XML and program properties: string building in one pass.
* Macro instructions: an entry's `iValue` is set to 1 when the lists are read and never
  to 0 (macro_instr_mgr.cpp:370), and a macro starts on a change from 0 to 1. No macro
  ever starts in this program; a model would only poll. CALLMACRO goes with them.
* `reg-shmi` with its Peterson lock: not in the build of the interpreter.
* Real I/O (a device driver), `io_mapping` (printed only), logging, `cJSON` (vendored),
  the mem-share library (a reference copy nothing uses).
* Of the registers: axes j7 to j9 and the external ones, posture and turns; the UF, TF
  and PL branches, which answer nothing; the lists of changed registers, whose commands
  are compiled out.
* Of expressions: function calls, array indices, strings of PRINT. Of programs: IMPORT
  and the values of parameters. WAIT and the timers depend on the time of day.
* Which program's instruction the motion controller takes when two programs send: its
  side of the segment is not in the repository.
