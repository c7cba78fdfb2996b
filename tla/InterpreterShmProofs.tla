------------------------ MODULE InterpreterShmProofs ------------------------
(***************************************************************************)
(* One writer and one reader: the segment is a mailbox, whatever the number*)
(* of messages.  The argument is that latest is a baton: a user past its   *)
(* check of latest keeps the other one before his until it publishes.      *)
(* Any number of writers and readers: no flag is left behind.              *)
(***************************************************************************)
EXTENDS InterpreterShm, TLAPS

\* The stretch from the check of latest to the change of latest.
Inside(p) ==
  pc[p] \in {"read", "write", "setFlag", "setTurn", "recheck", "recheckTurn",
             "backOut", "copy1", "copy2", "publish"}

\* A writer is inside only while the box is empty, a reader while it is full.
BatonInv ==
  /\ \A w \in Writers : Inside(w) => latest = "READ_ALREADY"
  /\ \A r \in Readers : Inside(r) => latest = "WRITE_ALREADY"

\* A reader that set its flag keeps it; behind its copy nobody writes.
LockInv ==
  \A r \in Readers :
    /\ pc[r] \in {"setTurn", "recheck", "recheckTurn", "backOut", "copy1", "copy2",
                  "publish", "clear", "locked"} => flag["read"]
    /\ pc[r] \in {"clear", "locked"} =>
         \A w \in Writers : ~(Inside(w) /\ pc[w] # "read")

\* Readers are never at the places only tryWrite's callers know, and the
\* other way round.
RoleInv ==
  /\ \A w \in Writers : pc[w] # "locked"
  /\ \A r \in Readers : pc[r] # "idle"

\* What has been copied so far, and how the counters relate.
DataInv(w, r) ==
  /\ pc[w] \in {"idle", "clear"} => made = sent
  /\ pc[w] \notin {"idle", "clear"} => msg[w] = made /\ made = sent + 1
  /\ pc[w] \in {"copy2", "publish"} => param[1] = msg[w]
  /\ pc[w] = "publish" => param[2] = msg[w]
  /\ latest = "WRITE_ALREADY" => param[1] = sent /\ param[2] = sent
  /\ latest = "WRITE_ALREADY" => sent = received + 1
  /\ latest = "READ_ALREADY" => sent = received
  /\ pc[r] \in {"copy2", "publish"} => buf[r][1] = sent
  /\ pc[r] = "publish" => buf[r][2] = sent

IInv(w, r) == TypeOK /\ RoleInv /\ BatonInv /\ LockInv /\ DataInv(w, r)

-----------------------------------------------------------------------------
LEMMA ShmInit ==
  ASSUME NEW w, NEW r, Writers = {w}, Readers = {r}, w # r, Init
  PROVE  IInv(w, r)
BY DEF Init, IInv, TypeOK, RoleInv, BatonInv, LockInv, DataInv, Inside, Users, PCs

\* The type invariant under one access.
LEMMA AccessType ==
  ASSUME NEW p \in Users, TypeOK, RoleInv, Access(p)
  PROVE  TypeOK' /\ RoleInv'
<1>1. p \notin Writers => p \in Readers
  BY DEF Users
<1>2. CASE CheckLatest(p)
  BY UsersAssumption, <1>1, <1>2 DEF CheckLatest, Local, Goto, TypeOK, RoleInv, PCs, segment
<1>3. CASE CheckFlags(p)
  <2>1. \E l \in {"latest", "write", "setFlag"} : Goto(p, l)
    BY <1>3, Zenon DEF CheckFlags
  <2> QED
    BY UsersAssumption, <1>1, <1>3, <2>1 DEF CheckFlags, Local, Goto, TypeOK, RoleInv, PCs, segment
<1>4. CASE SetFlag(p)
  BY UsersAssumption, <1>1, <1>4 DEF SetFlag, Own, Goto, TypeOK, RoleInv, PCs
<1>5. CASE SetTurn(p)
  BY UsersAssumption, <1>1, <1>5 DEF SetTurn, Own, Goto, TypeOK, RoleInv, PCs
<1>6. CASE Recheck(p)
  <2>1. \E l \in {"recheckTurn", "backOut", "copy1"} : Goto(p, l)
    BY <1>6, Zenon DEF Recheck
  <2> QED
    BY UsersAssumption, <1>1, <1>6, <2>1 DEF Recheck, Local, Goto, TypeOK, RoleInv, PCs, segment
<1>7. CASE BackOut(p)
  BY UsersAssumption, <1>1, <1>7 DEF BackOut, Own, Goto, TypeOK, RoleInv, PCs
<1>8. CASE Copy(p)
  <2>1. pc' \in [Users -> PCs] /\ RoleInv'
    BY UsersAssumption, <1>8 DEF Copy, Goto, TypeOK, RoleInv, PCs, Users
  <2>2. param' \in [1 .. 2 -> Nat] /\ buf' \in [Readers -> [1 .. 2 -> Nat]]
    <3>1. PICK i \in 1 .. 2 : CopyWord(p, i)
      BY <1>8 DEF Copy
    <3>2. CASE p \in Writers
      BY <3>1, <3>2 DEF CopyWord, TypeOK
    <3>3. CASE p \notin Writers
      BY <1>1, <3>1, <3>3 DEF CopyWord, TypeOK
    <3> QED
      BY <3>2, <3>3
  <2> QED
    BY <1>8, <2>1, <2>2 DEF Copy, CopyWord, TypeOK
<1>9. CASE Publish(p)
  BY UsersAssumption, <1>1, <1>9 DEF Publish, Value, Goto, TypeOK, RoleInv, PCs
<1>10. CASE Clear(p)
  BY UsersAssumption, <1>1, <1>10 DEF Clear, Own, Goto, TypeOK, RoleInv, PCs
<1>11. CASE p \in Readers /\ (LockRead(p) \/ UnlockRead(p))
  <2>1. CASE LockRead(p)
    BY UsersAssumption, <1>11, <2>1 DEF LockRead, Local, Goto, TypeOK, RoleInv, PCs, segment
  <2>2. CASE UnlockRead(p)
    BY UsersAssumption, <1>11, <2>2 DEF UnlockRead, Goto, TypeOK, RoleInv, PCs
  <2> QED
    BY <1>11, <2>1, <2>2
<1> QED
  BY <1>2, <1>3, <1>4, <1>5, <1>6, <1>7, <1>8, <1>9, <1>10, <1>11 DEF Access

\* The writer's accesses keep the strengthening.
LEMMA WriterKeeps ==
  ASSUME NEW w, NEW r, Writers = {w}, Readers = {r}, w # r, IInv(w, r), Access(w)
  PROVE  IInv(w, r)'
<1> USE DEF Users, Own, Other, Goto, Inside
<1>1. TypeOK' /\ RoleInv'
  BY AccessType DEF IInv
<1>2. BatonInv' /\ LockInv' /\ DataInv(w, r)'
  <2> USE DEF IInv, TypeOK, RoleInv, BatonInv, LockInv, DataInv
  <2>1. CASE CheckLatest(w)
    BY <2>1 DEF CheckLatest, Baton, Local, segment
  <2>2. CASE CheckFlags(w)
    BY <2>2 DEF CheckFlags, Local, segment
  <2>3. CASE SetFlag(w)
    BY <2>3 DEF SetFlag
  <2>4. CASE SetTurn(w)
    BY <2>4 DEF SetTurn
  <2>5. CASE Recheck(w)
    BY <2>5 DEF Recheck, Local, segment
  <2>6. CASE BackOut(w)
    BY <2>6 DEF BackOut
  <2>7. CASE Copy(w)
    BY <2>7 DEF Copy, CopyWord
  <2>8. CASE Publish(w)
    BY <2>8 DEF Publish
  <2>9. CASE Clear(w)
    BY <2>9 DEF Clear
  <2> QED
    BY <2>1, <2>2, <2>3, <2>4, <2>5, <2>6, <2>7, <2>8, <2>9 DEF Access
<1> QED
  BY <1>1, <1>2 DEF IInv

\* So do the reader's.
LEMMA ReaderKeeps ==
  ASSUME NEW w, NEW r, Writers = {w}, Readers = {r}, w # r, IInv(w, r), Access(r)
  PROVE  IInv(w, r)'
<1> USE DEF Users, Own, Other, Goto, Inside
<1>1. TypeOK' /\ RoleInv'
  BY AccessType DEF IInv
<1>2. BatonInv' /\ LockInv' /\ DataInv(w, r)'
  <2> USE DEF IInv, TypeOK, RoleInv, BatonInv, LockInv, DataInv
  <2>1. CASE CheckLatest(r)
    BY <2>1 DEF CheckLatest, Baton, Local, segment
  <2>2. CASE CheckFlags(r)
    BY <2>2 DEF CheckFlags, Local, segment
  <2>3. CASE SetFlag(r)
    BY <2>3 DEF SetFlag
  <2>4. CASE SetTurn(r)
    BY <2>4 DEF SetTurn
  <2>5. CASE Recheck(r)
    BY <2>5 DEF Recheck, Local, segment
  <2>6. CASE BackOut(r)
    BY <2>6 DEF BackOut
  <2>7. CASE Copy(r)
    BY <2>7 DEF Copy, CopyWord
  <2>8. CASE Publish(r)
    <3>1. received' = sent /\ latest' = "READ_ALREADY" /\ UNCHANGED sent
      BY <2>8 DEF Publish, Value
    <3> QED
      BY <2>8, <3>1 DEF Publish
  <2>9. CASE Clear(r)
    BY <2>9 DEF Clear
  <2>10. CASE LockRead(r) \/ UnlockRead(r)
    BY <2>10 DEF LockRead, UnlockRead, Local, segment
  <2> QED
    BY <2>1, <2>2, <2>3, <2>4, <2>5, <2>6, <2>7, <2>8, <2>9, <2>10 DEF Access
<1> QED
  BY <1>1, <1>2 DEF IInv

\* The inductive step.
LEMMA ShmInductive ==
  ASSUME NEW w, NEW r, Writers = {w}, Readers = {r}, w # r,
         IInv(w, r), [Next]_vars
  PROVE  IInv(w, r)'
<1>1. CASE Begin(w)
  BY <1>1 DEF Begin, Goto, IInv, TypeOK, RoleInv, BatonInv, LockInv, DataInv,
              Inside, Users, PCs, segment
<1>2. CASE UNCHANGED vars
  BY <1>2 DEF vars, segment, IInv, TypeOK, RoleInv, BatonInv, LockInv, DataInv, Inside
<1> QED
  BY <1>1, <1>2, WriterKeeps, ReaderKeeps DEF Next, Users

-----------------------------------------------------------------------------
\* The invariant holds in every behaviour.
THEOREM ShmInvariance ==
  ASSUME NEW w, NEW r, Writers = {w}, Readers = {r}, w # r
  PROVE  Spec => []IInv(w, r)
BY ShmInit, ShmInductive, PTL DEF Spec

\* A reader never copies, or holds with lockRead, what the writer is changing.
THEOREM ReadersAlone ==
  ASSUME NEW w, NEW r, Writers = {w}, Readers = {r}, w # r
  PROVE  Spec => []Exclusion
<1>1. IInv(w, r) => Exclusion
  BY DEF IInv, BatonInv, LockInv, Exclusion, Copying, Inside
<1> QED
  BY <1>1, ShmInvariance, PTL

\* tryWrite and tryRead implement a box for one message: the step that sets
\* latest is the Put or the Take, every other one a stutter.
THEOREM ImplementsMailbox ==
  ASSUME NEW w, NEW r, Writers = {w}, Readers = {r}, w # r
  PROVE  Spec => IsMailbox
<1>1. Init => Box!Init
  BY DEF Init, Box!Init
<1>2. ASSUME IInv(w, r), [Next]_vars
      PROVE  [Box!Next]_<<sent, received>>
  <2>1. CASE \E p \in Users : Publish(p)
    <3> PICK p \in Users : Publish(p)
      BY <2>1
    <3>1. CASE p = w
      BY <1>2, <3>1 DEF Publish, IInv, TypeOK, BatonInv, DataInv, Inside, Box!Next, Box!Put
    <3>2. CASE p = r
      BY <1>2, <3>2 DEF Publish, Value, IInv, TypeOK, BatonInv, DataInv, Inside, Box!Next, Box!Take
    <3> QED
      BY <3>1, <3>2 DEF Users
  <2>2. CASE ~\E p \in Users : Publish(p)
    BY <1>2, <2>2 DEF Next, Begin, Access, CheckLatest, CheckFlags, SetFlag, SetTurn,
       Recheck, BackOut, Copy, CopyWord, Clear, LockRead, UnlockRead, Local, vars
  <2> QED
    BY <2>1, <2>2
<1> QED
  BY <1>1, <1>2, ShmInvariance, PTL DEF Spec, IsMailbox, Box!Spec

-----------------------------------------------------------------------------
(***************************************************************************)
(* Any number of writers and readers: a flag that is set has a user who is *)
(* on the way to clear it.                                                 *)
(***************************************************************************)
Held ==
  {"setTurn", "recheck", "recheckTurn", "backOut", "copy1", "copy2", "publish", "clear",
   "locked"}

FlagInv == \A f \in {"read", "write"} : flag[f] => \E p \in Users : Own(p) = f /\ pc[p] \in Held

\* The invariants under the begin of a message.
LEMMA BeginKeepsFlags ==
  ASSUME NEW w \in Writers, TypeOK, RoleInv, FlagInv, Begin(w)
  PROVE  TypeOK' /\ RoleInv' /\ FlagInv'
<1>1. TypeOK' /\ RoleInv'
  BY UsersAssumption DEF Begin, Goto, TypeOK, RoleInv, PCs, Users, segment
<1>2. FlagInv'
  BY DEF Begin, Goto, TypeOK, FlagInv, Held, Own, Users, segment
<1> QED
  BY <1>1, <1>2

\* An access that leaves the flags alone and does not let go of one it holds.
LEMMA FlagsStay ==
  ASSUME NEW p \in Users, NEW l, TypeOK, FlagInv, UNCHANGED flag,
         pc' = [pc EXCEPT ![p] = l], pc[p] \in Held => l \in Held
  PROVE  FlagInv'
BY DEF TypeOK, FlagInv, Own

\* An access that clears the user's flag.
LEMMA FlagCleared ==
  ASSUME NEW p \in Users, NEW l, TypeOK, FlagInv, pc' = [pc EXCEPT ![p] = l],
         flag' = [flag EXCEPT ![Own(p)] = FALSE]
  PROVE  FlagInv'
<1>1. ASSUME NEW f \in {"read", "write"}, flag'[f]
      PROVE  \E q \in Users : Own(q) = f /\ pc'[q] \in Held
  <2>1. Own(p) \in {"read", "write"}
    BY DEF Own
  <2>2. flag[f] /\ f # Own(p)
    BY <1>1, <2>1 DEF TypeOK
  <2>3. PICK q \in Users : Own(q) = f /\ pc[q] \in Held
    BY <2>2 DEF FlagInv
  <2>4. q # p
    BY <2>2, <2>3
  <2>5. pc'[q] = pc[q]
    BY <2>4 DEF TypeOK
  <2> QED
    BY <2>3, <2>5
<1> QED
  BY <1>1 DEF FlagInv, Own

\* Where the flags are held, after one access.
LEMMA AccessKeepsFlags ==
  ASSUME NEW p \in Users, TypeOK, RoleInv, FlagInv, Access(p)
  PROVE  FlagInv'
<1> USE DEF Goto
<1>1. CASE CheckLatest(p)
  BY <1>1, FlagsStay DEF CheckLatest, Local, segment, Held
<1>2. CASE CheckFlags(p)
  <2>1. PICK l \in {"latest", "write", "setFlag"} : pc' = [pc EXCEPT ![p] = l]
    BY <1>2, Zenon DEF CheckFlags
  <2>2. pc[p] \notin Held /\ UNCHANGED flag
    BY <1>2 DEF CheckFlags, Local, segment, Held
  <2> QED
    BY <2>1, <2>2, FlagsStay
<1>3. CASE SetFlag(p)
  BY <1>3 DEF SetFlag, TypeOK, FlagInv, Held, Own
<1>4. CASE SetTurn(p)
  BY <1>4, FlagsStay DEF SetTurn, Held
<1>5. CASE Recheck(p)
  <2>1. PICK l \in {"recheckTurn", "backOut", "copy1"} : pc' = [pc EXCEPT ![p] = l]
    BY <1>5, Zenon DEF Recheck
  <2>2. l \in Held /\ UNCHANGED flag
    BY <1>5, <2>1 DEF Recheck, Local, segment, Held
  <2> QED
    BY <2>1, <2>2, FlagsStay
<1>6. CASE BackOut(p)
  BY <1>6, FlagCleared DEF BackOut
<1>7. CASE Copy(p)
  <2>1. PICK l \in {"copy2", "publish"} : pc' = [pc EXCEPT ![p] = l]
    BY <1>7 DEF Copy
  <2>2. l \in Held /\ UNCHANGED flag
    BY <1>7, <2>1 DEF Copy, CopyWord, Held
  <2> QED
    BY <2>1, <2>2, FlagsStay
<1>8. CASE Publish(p)
  BY <1>8, FlagsStay DEF Publish, Held
<1>9. CASE Clear(p)
  <2>1. PICK l \in {"idle", "latest"} : pc' = [pc EXCEPT ![p] = l]
    BY <1>9, Zenon DEF Clear
  <2> QED
    BY <1>9, <2>1, FlagCleared DEF Clear
<1>10. CASE p \in Readers /\ LockRead(p)
  BY <1>10, FlagsStay DEF LockRead, Local, segment, Held
<1>11. CASE p \in Readers /\ UnlockRead(p)
  <2>1. Own(p) = "read"
    BY <1>11, UsersAssumption DEF Own
  <2> QED
    BY <1>11, <2>1, FlagCleared DEF UnlockRead
<1> QED
  BY <1>1, <1>2, <1>3, <1>4, <1>5, <1>6, <1>7, <1>8, <1>9, <1>10, <1>11 DEF Access

\* Whatever the number of writers and readers, and however often they back out of each
\* other's way: when all have left, no flag of the segment stays set.
THEOREM FlagsComeBack == Spec => []FlagsReturn
<1> DEFINE FInv == TypeOK /\ RoleInv /\ FlagInv
<1>1. Init => FInv
  BY UsersAssumption DEF Init, TypeOK, RoleInv, FlagInv, Users, PCs
<1>2. FInv /\ [Next]_vars => FInv'
  <2> SUFFICES ASSUME TypeOK, RoleInv, FlagInv, [Next]_vars
               PROVE  TypeOK' /\ RoleInv' /\ FlagInv'
    OBVIOUS
  <2>1. CASE UNCHANGED vars
    BY <2>1 DEF vars, segment, TypeOK, RoleInv, FlagInv
  <2> QED
    BY <2>1, BeginKeepsFlags, AccessType, AccessKeepsFlags DEF Next
<1>3. FInv => FlagsReturn
  BY DEF TypeOK, FlagInv, FlagsReturn, InstructionEmpty, Held
<1> QED
  BY <1>1, <1>2, <1>3, PTL DEF Spec

=============================================================================
