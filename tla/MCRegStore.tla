------------------------------ MODULE MCRegStore ------------------------------
(***************************************************************************)
(* Two threads and two registers of class HR with two coordinates, so that *)
(* values can mix.  The first register is written, written beyond the      *)
(* limit and deleted, the second one written; an id out of range is        *)
(* written to, too.                                                        *)
(***************************************************************************)
EXTENDS RegStore, TLC

Register(i, text, x, y) == [id |-> i, comment |-> text, value |-> [a \in Axes |-> IF a = 1 THEN x ELSE y]]

MCWrites ==
  {Register(0, <<"c">>, 1, 1), Register(1, <<"c">>, 1, 1), Register(1, <<"c">>, 1, 4),
   Register(2, <<"c">>, 1, 1)}

ThreadSymmetry == Permutations(Threads)

=============================================================================
