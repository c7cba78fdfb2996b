---------------------------- MODULE BasicProgram ----------------------------
(***************************************************************************)
(* The text of a BASIC program as the flow statements of basint.cpp see it:*)
(* one statement per line, of which only the words they look for matter.   *)
(* "STMT" is any statement that goes on with the next line.  Operands are  *)
(* well formed; which words stand where is not restricted.                 *)
(***************************************************************************)
EXTENDS Integers, Sequences, FiniteSetsExt

CONSTANTS Vars   \* names of loop variables, "loop_var" among them

\* The closing word of each block.
Close == [IF |-> "ENDIF", FOR |-> "NEXT", WHILE |-> "WEND",
          LOOP |-> "ENDLOOP", SELECT |-> "ENDSELECT"]

Openers == DOMAIN Close

Ops == Openers \cup {Close[o] : o \in Openers}
         \cup {"ELSE", "ELSEIF", "BREAK", "CONTINUE", "CASE", "DEFAULT", "GOTO",
               "CALL", "GOSUB", "RETURN", "ENDSUB", "END", "SUB", "STMT"}

\* to: the line a GOTO, GOSUB or CALL names, 0 when the label table has no such
\* label; args, parens: the number of arguments of a CALL, and whether it has "(" and
\* ")"; var, first, last: FOR var = first TO last, and LOOP last, which counts
\* "loop_var" from 1.
Line == [op : Ops, to : Nat, args : Nat, parens : BOOLEAN,
         var : Vars, first : Int, last : Int]

Program == {p \in Seq(Line) : \A l \in DOMAIN p : p[l].to \in 0 .. Len(p)}

Op(p, l) == IF l \in DOMAIN p THEN p[l].op ELSE "FINISHED"

\* Blocks of a kind opened and not closed on the lines l .. m - 1.
Level(p, kind, l, m) ==
  LET Count(w) == Cardinality({k \in l .. m - 1 : Op(p, k) = w})
  IN  Count(kind) - Count(Close[kind])

\* The lines behind l where one of the words stands outside every block of that
\* kind which is opened behind l.
Outside(p, words, kind, l) ==
  {m \in l + 1 .. Len(p) : Op(p, m) \in words /\ Level(p, kind, l + 1, m) = 0}

\* The lines behind l where one of the words stands.
Behind(p, words, l) == {m \in l + 1 .. Len(p) : Op(p, m) \in words}

\* The line that closes the block opened on line l.
EndOf(p, l) == Min(Outside(p, {Close[Op(p, l)]}, Op(p, l), l))

\* A program whose blocks are paired and nested.
Closed(p, l) == Outside(p, {Close[Op(p, l)]}, Op(p, l), l) # {}

Block(p, l) == l .. EndOf(p, l)

BlocksNest(p) ==
  LET Heads == {l \in DOMAIN p : p[l].op \in Openers} IN
  /\ \A l \in Heads : Closed(p, l)
  /\ \A k, l \in Heads : k < l /\ l < EndOf(p, k) => EndOf(p, l) < EndOf(p, k)
  /\ \A m \in DOMAIN p : (\E o \in Openers : p[m].op = Close[o])
       => \E l \in Heads : m = EndOf(p, l)

\* The heads of the blocks of these kinds around line l, the head included.
Around(p, kinds, l) ==
  {k \in DOMAIN p : p[k].op \in kinds /\ Closed(p, k) /\ l \in Block(p, k)}

\* Where execution starts when it is sent to line t: behind the SUB line.
Entry(p, t) == IF Op(p, t) = "SUB" THEN t + 1 ELSE t
=============================================================================
