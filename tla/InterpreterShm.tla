--------------------------- MODULE InterpreterShm ---------------------------
(***************************************************************************)
(* One shared memory segment of interpreter_shm.cpp: four flag words and a *)
(* message (param) of two words, so that a copy can be torn.  Writers call *)
(* tryWrite until it answers true, as setInstruction does; readers poll    *)
(* with tryRead, or with lockRead and unlockRead.  Every access to the     *)
(* segment is a step of its own, in the order of the source; tryWrite and  *)
(* tryRead are the same code with the roles of the flags exchanged.        *)
(***************************************************************************)
EXTENDS Integers

CONSTANTS
  Writers, Readers,   \* threads and processes that use the segment
  MaxMessages         \* bound: messages the writers have to send

ASSUME UsersAssumption == Writers \cap Readers = {} /\ MaxMessages \in Nat

Users == Writers \cup Readers

VARIABLES
  flag,       \* AcceFlag.read and AcceFlag.write
  turn,       \* AcceFlag.turn
  latest,     \* AcceFlag.latest
  param,      \* the message in the segment
  pc,         \* where each user is
  msg,        \* the message a writer has to send
  buf,        \* the buffer of each reader
  made, sent, received   \* history: messages begun, the newest sent, received

segment == <<flag, turn, latest, param>>

vars == <<segment, pc, msg, buf, made, sent, received>>

PCs == {"idle", "latest", "read", "write", "setFlag", "setTurn", "recheck",
        "recheckTurn", "backOut", "copy1", "copy2", "publish", "clear", "locked"}

\* createShm clears the segment: READ_ALREADY is 0.
Init ==
  /\ flag = [f \in {"read", "write"} |-> FALSE]
  /\ turn = "none" /\ latest = "READ_ALREADY"
  /\ param = [i \in 1 .. 2 |-> 0]
  /\ pc = [p \in Users |-> IF p \in Writers THEN "idle" ELSE "latest"]
  /\ msg = [w \in Writers |-> 0]
  /\ buf = [r \in Readers |-> [i \in 1 .. 2 |-> 0]]
  /\ made = 0 /\ sent = 0 /\ received = 0

Own(p) == IF p \in Writers THEN "write" ELSE "read"
Other(p) == IF p \in Writers THEN "read" ELSE "write"

Goto(p, l) == pc' = [pc EXCEPT ![p] = l]

\* A program thread has an instruction to write.
Begin(w) ==
  /\ pc[w] = "idle" /\ made < MaxMessages
  /\ made' = made + 1
  /\ msg' = [msg EXCEPT ![w] = made + 1]
  /\ Goto(w, "latest")
  /\ UNCHANGED <<segment, buf, sent, received>>

Local(p) == UNCHANGED <<segment, msg, buf, made, sent, received>>

\* Variant: without the check of latest.
BatonIgnored(p) == TRUE

\* latest says whose turn to copy it is.
Baton(p) == latest = IF p \in Writers THEN "READ_ALREADY" ELSE "WRITE_ALREADY"

CheckLatest(p) == pc[p] = "latest" /\ Baton(p) /\ Goto(p, "read") /\ Local(p)

\* Either flag set: tryWrite returns false and is called again; tryRead and
\* lockRead return true, and have copied nothing.
CheckFlags(p) ==
  /\ \/ pc[p] = "read" /\ Goto(p, IF flag["read"] THEN "latest" ELSE "write")
     \/ pc[p] = "write" /\ Goto(p, IF flag["write"] THEN "latest" ELSE "setFlag")
  /\ Local(p)

SetFlag(p) ==
  /\ pc[p] = "setFlag"
  /\ flag' = [flag EXCEPT ![Own(p)] = TRUE]
  /\ Goto(p, "setTurn")
  /\ UNCHANGED <<turn, latest, param, msg, buf, made, sent, received>>

SetTurn(p) ==
  /\ pc[p] = "setTurn"
  /\ turn' = Own(p)
  /\ Goto(p, "recheck")
  /\ UNCHANGED <<flag, latest, param, msg, buf, made, sent, received>>

Recheck(p) ==
  /\ \/ pc[p] = "recheck" /\ Goto(p, IF flag[Other(p)] THEN "recheckTurn" ELSE "copy1")
     \/ pc[p] = "recheckTurn" /\ Goto(p, IF turn # Own(p) THEN "backOut" ELSE "copy1")
  /\ Local(p)

\* Variant: the flag stays set.
BackOutFlagged(p) == pc[p] = "backOut" /\ Goto(p, "latest") /\ Local(p)

BackOut(p) ==
  /\ pc[p] = "backOut"
  /\ flag' = [flag EXCEPT ![Own(p)] = FALSE]
  /\ Goto(p, "latest")
  /\ UNCHANGED <<turn, latest, param, msg, buf, made, sent, received>>

\* memcpy, one half after the other
CopyWord(p, i) ==
  /\ IF p \in Writers
     THEN param' = [param EXCEPT ![i] = msg[p]] /\ UNCHANGED buf
     ELSE buf' = [buf EXCEPT ![p][i] = param[i]] /\ UNCHANGED param
  /\ UNCHANGED <<flag, turn, latest, msg, made, sent, received>>

Copy(p) ==
  \/ pc[p] = "copy1" /\ Goto(p, "copy2") /\ CopyWord(p, 1)
  \/ pc[p] = "copy2" /\ Goto(p, "publish") /\ CopyWord(p, 2)

\* The number of a whole message, -1 for a torn one
Value(words) == IF words[1] = words[2] THEN words[1] ELSE -1

Publish(p) ==
  /\ pc[p] = "publish"
  /\ IF p \in Writers
     THEN latest' = "WRITE_ALREADY" /\ sent' = msg[p] /\ UNCHANGED received
     ELSE latest' = "READ_ALREADY" /\ received' = Value(buf[p]) /\ UNCHANGED sent
  /\ Goto(p, "clear")
  /\ UNCHANGED <<flag, turn, param, msg, buf, made>>

\* Variant: tryRead ends as lockRead does.
ClearFlagged(p) ==
  /\ pc[p] = "clear"
  /\ Goto(p, IF p \in Writers THEN "idle" ELSE "latest")
  /\ Local(p)

\* tryWrite and tryRead return true.
Clear(p) ==
  /\ pc[p] = "clear"
  /\ flag' = [flag EXCEPT ![Own(p)] = FALSE]
  /\ Goto(p, IF p \in Writers THEN "idle" ELSE "latest")
  /\ UNCHANGED <<turn, latest, param, msg, buf, made, sent, received>>

\* lockRead leaves its flag set for unlockRead.
LockRead(r) == pc[r] = "clear" /\ Goto(r, "locked") /\ Local(r)

UnlockRead(r) ==
  /\ pc[r] = "locked"
  /\ flag' = [flag EXCEPT !["read"] = FALSE]
  /\ Goto(r, "latest")
  /\ UNCHANGED <<turn, latest, param, msg, buf, made, sent, received>>

Access(p) ==
  \/ CheckLatest(p) \/ CheckFlags(p) \/ SetFlag(p) \/ SetTurn(p) \/ Recheck(p)
  \/ BackOut(p) \/ Copy(p) \/ Publish(p) \/ Clear(p)
  \/ p \in Readers /\ (LockRead(p) \/ UnlockRead(p))

Next == (\E w \in Writers : Begin(w)) \/ (\E p \in Users : Access(p))

Spec == Init /\ [][Next]_vars

\* Both sides keep calling; a reader that locked unlocks.
FairSpec == Spec /\ \A p \in Users : WF_vars(Access(p))

-----------------------------------------------------------------------------
TypeOK ==
  /\ flag \in [{"read", "write"} -> BOOLEAN]
  /\ turn \in {"none", "read", "write"}
  /\ latest \in {"READ_ALREADY", "WRITE_ALREADY"}
  /\ param \in [1 .. 2 -> Nat]
  /\ pc \in [Users -> PCs]
  /\ msg \in [Writers -> Nat]
  /\ buf \in [Readers -> [1 .. 2 -> Nat]]
  /\ made \in Nat /\ sent \in Nat /\ received \in Int

Copying(p) == pc[p] \in {"copy1", "copy2"}

\* A reader never copies, or holds with lockRead, what a writer is changing.
Exclusion ==
  \A w \in Writers, r \in Readers :
    Copying(w) => ~(Copying(r) \/ pc[r] = "locked")

\* The segment is a box for one message: none is overwritten before it was
\* read, read twice, or read while half written.
Box == INSTANCE Mailbox
IsMailbox == Box!Spec

\* Every message a program begins to send reaches the reader.
Delivered == \A k \in 1 .. MaxMessages : made >= k ~> received >= k

\* isInstructionEmpty answers true when nobody uses the segment: however many
\* users back out of each other's way, no flag stays set.
InstructionEmpty == ~flag["read"] /\ ~flag["write"]
FlagsReturn == (\A p \in Users : pc[p] \in {"idle", "latest"}) => InstructionEmpty

=============================================================================
