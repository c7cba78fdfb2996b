--------------------------- MODULE StructuredBasic --------------------------
(***************************************************************************)
(* What the flow statements of a BASIC program promise (the design document*)
(* doc/FFAL2000D001-interpreter-V1.05_1_lujiaming.pdf, sections 20 to 29): *)
(* every statement goes where the pairing of the blocks in the text says.  *)
(* Nothing but the counters of the running loops and the lines to return to*)
(* is remembered.  Programs are those whose blocks are paired and nested.  *)
(***************************************************************************)
EXTENDS BasicProgram, SequencesExt

VARIABLES
  p_buf,   \* the program
  at,      \* the statement to execute, 0 at the end
  loops,   \* the FOR and LOOP loops that run: head and counter, outermost first
  calls,   \* lines to return to
  over     \* the program has ended

vars == <<p_buf, at, loops, calls, over>>

Is(op) == ~over /\ Op(p_buf, at) = op
Go(l) == at' = l /\ UNCHANGED <<p_buf, calls, over>>
Jump(l) == Go(l) /\ UNCHANGED loops
After(l) == EndOf(p_buf, l) + 1
Innermost(kinds) == Max(Around(p_buf, kinds, at))

\* The other branches of the IF on line l: its ELSEIF and ELSE lines.
Branches(l) == {m \in Outside(p_buf, {"ELSE", "ELSEIF"}, "IF", l) : m < EndOf(p_buf, l)}

HasElse(l) == \E m \in Branches(l) : Op(p_buf, m) = "ELSE"

\* One branch is chosen, or none when there is no ELSE.
If == Is("IF") /\ \E b \in {at} \cup Branches(at)
                         \cup (IF HasElse(at) THEN {} ELSE {EndOf(p_buf, at)}) :
        Jump(b + 1)

\* The end of a branch leads behind the ENDIF.
EndBranch == (Is("ELSE") \/ Is("ELSEIF")) /\ Jump(After(Innermost({"IF"})))

\* A FOR loop whose target is below its start is skipped; LOOP counts from 1.
Enter ==
  /\ Is("FOR") \/ Is("LOOP")
  /\ IF p_buf[at].first > p_buf[at].last THEN Jump(After(at))
     ELSE Go(at + 1) /\ loops' = Append(loops, [line |-> at, count |-> p_buf[at].first])

\* The counter is incremented, and the body repeated up to the target.
Repeat(head) ==
  LET n == Last(loops).count + 1 IN
  IF n > p_buf[head].last THEN Go(After(head)) /\ loops' = Front(loops)
  ELSE Go(head + 1) /\ loops' = Append(Front(loops), [line |-> head, count |-> n])

EndCount == (Is("NEXT") \/ Is("ENDLOOP")) /\ Repeat(Innermost({"FOR", "LOOP"}))

While(head) == \/ Jump(head + 1)
               \/ Jump(After(head))

EnterWhile == Is("WHILE") /\ While(at)

EndWhile == Is("WEND") /\ While(Innermost({"WHILE"}))

\* CONTINUE does what the end of the innermost loop does.
Continue ==
  /\ Is("CONTINUE")
  /\ LET head == Innermost({"FOR", "LOOP", "WHILE"}) IN
     IF Op(p_buf, head) = "WHILE" THEN While(head) ELSE Repeat(head)

\* BREAK leaves the innermost loop or SELECT.
Break ==
  /\ Is("BREAK")
  /\ LET head == Innermost({"FOR", "LOOP", "WHILE", "SELECT"}) IN
     /\ Go(After(head))
     /\ loops' = IF Op(p_buf, head) \in {"FOR", "LOOP"} THEN Front(loops) ELSE loops

\* A CASE that does not match leads to the next CASE or DEFAULT, or behind the SELECT.
Case ==
  /\ Is("CASE")
  /\ LET next == Min(Outside(p_buf, {"CASE", "DEFAULT", "ENDSELECT"}, "SELECT", at)) IN
     \/ Jump(at + 1)
     \/ Jump(IF Op(p_buf, next) = "ENDSELECT" THEN next + 1 ELSE next)

Plain == /\ \E op \in {"STMT", "SUB", "ENDIF", "SELECT", "DEFAULT", "ENDSELECT"} : Is(op)
         /\ Jump(at + 1)

\* GOTO leaves the loops that do not hold its target.
Goto ==
  /\ Is("GOTO")
  /\ LET left == Around(p_buf, {"FOR", "LOOP"}, at)
                   \ Around(p_buf, {"FOR", "LOOP"}, p_buf[at].to)
     IN  Go(p_buf[at].to) /\ loops' = SubSeq(loops, 1, Len(loops) - Cardinality(left))

Call == /\ Is("CALL") \/ Is("GOSUB")
        /\ at' = Entry(p_buf, p_buf[at].to) /\ calls' = Append(calls, at + 1)
        /\ UNCHANGED <<p_buf, loops, over>>

\* A RETURN leaves the loops around it.
Return ==
  /\ Is("RETURN") \/ Is("ENDSUB")
  /\ LET left == Cardinality(Around(p_buf, {"FOR", "LOOP"}, at))
     IN  loops' = SubSeq(loops, 1, Len(loops) - left)
  /\ IF calls = <<>> THEN over' = TRUE /\ at' = 0 /\ UNCHANGED calls
     ELSE at' = Last(calls) /\ calls' = Front(calls) /\ UNCHANGED over
  /\ UNCHANGED p_buf

End == Is("END") /\ over' = TRUE /\ at' = 0 /\ UNCHANGED <<p_buf, loops, calls>>

Init == /\ p_buf \in Program
        /\ at = Entry(p_buf, 1) /\ loops = <<>> /\ calls = <<>> /\ over = FALSE

Next == \/ If \/ EndBranch \/ Enter \/ EndCount \/ EnterWhile \/ EndWhile
        \/ Continue \/ Break \/ Case \/ Plain \/ Goto \/ Call \/ Return \/ End

Spec == Init /\ [][Next]_vars
=============================================================================
