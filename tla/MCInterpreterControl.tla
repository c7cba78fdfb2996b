------------------------ MODULE MCInterpreterControl ------------------------
(***************************************************************************)
(* Small programs and sets of commands for TLC.                            *)
(***************************************************************************)
EXTENDS InterpreterControl

Tail(l) == [line |-> l, pos |-> "tail"]

\* SUB main / assignment / WEND, back or on / END SUB
LoopStmt == <<"sub", "common", "logic", "end">>
LoopSucc == [l \in 1 .. 4 |-> IF l = 3 THEN {At(2), At(4)} ELSE {}]

\* SUB main / empty / a jump back, to itself or on / END SUB
BlankStmt == <<"sub", "blank", "logic", "end">>
BlankSucc == [l \in 1 .. 4 |-> IF l = 3 THEN {At(2), At(3), At(4)} ELSE {}]

\* SUB main / IF / assignment / ELSE / assignment / ENDIF / END SUB
ElseStmt == <<"sub", "logic", "common", "logic", "common", "logic", "end">>
ElseSucc == [l \in 1 .. 7 |-> CASE l = 2 -> {At(3), Tail(4)}
                                 [] l = 4 -> {Tail(6)}
                                 [] l = 6 -> {At(7)}
                                 [] OTHER -> {}]

NoSucc == [l \in 1 .. LastLine |-> {}]

\* SUB main / assignment / END SUB
ShortStmt == <<"sub", "common", "end">>

\* SUB main / PAUSE / MOVEJ / a failing statement / ABORT
PauseStmt == <<"sub", "pause", "motion", "fault", "abort">>

\* What getLineNumFromXPathVector answers: nothing but "" reaches it, because
\* of the copy in int_main.cpp:44; and a line, were the payload to arrive.
NoLine == {-1}
OneLine == {-1, 3}

\* What SWITCH_STEP carries: 0, for the same reason; and either mode.
Full == {"FULL_MODE"}
StepOrFull == {"FULL_MODE", "STEP_MODE"}

Steering == {"FORWARD", "BACKWARD", "CONTINUE", "PAUSE", "ABORT"}
SteeringAll == Steering \cup {"DEBUG", "JUMP", "OTHER"}
Statements == {"START", "JUMP", "SWITCH_STEP", "CONTINUE", "PAUSE", "ABORT"}
Aborting == {"DEBUG", "FORWARD", "PAUSE", "ABORT"}
StartOnly == {"START", "OTHER"}
ForwardOnly == {"DEBUG", "FORWARD"}
=============================================================================
