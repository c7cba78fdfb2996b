-------------------------- MODULE MCInterpreterShm --------------------------
(***************************************************************************)
(* Users of one segment for TLC.                                           *)
(***************************************************************************)
EXTENDS InterpreterShm, TLC

CONSTANTS w1, w2, r1, r2

OneWriter == {w1}
TwoWriters == {w1, w2}
OneReader == {r1}
TwoReaders == {r1, r2}
UserSymmetry == Permutations(TwoWriters) \cup Permutations(TwoReaders)
=============================================================================
