------------------------------ MODULE Mailbox ------------------------------
(***************************************************************************)
(* What a shared memory segment of interpreter_shm.cpp promises to the     *)
(* process that writes it and the one that reads it: a box for one message.*)
(* Messages are numbered; the box is full while the newest one sent was    *)
(* not received.                                                           *)
(***************************************************************************)
EXTENDS Naturals

VARIABLES sent, received

Init == sent = 0 /\ received = 0

Put == received = sent /\ sent' = sent + 1 /\ UNCHANGED received

Take == received # sent /\ received' = sent /\ UNCHANGED sent

Next == Put \/ Take

Spec == Init /\ [][Next]_<<sent, received>>
=============================================================================
