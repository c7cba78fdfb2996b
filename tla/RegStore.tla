------------------------------- MODULE RegStore -------------------------------
(***************************************************************************)
(* One class of registers with its memory and its file, used by several    *)
(* threads at once (program threads and the command loop): the entries     *)
(* reg_list, the values data_list, the parameters param_ the file is       *)
(* written from, and the file.  There is no lock: every action is a step   *)
(* of a call between two accesses to shared state.  A value is stored and  *)
(* read again part by part (Parts): a position is a struct, which is       *)
(* copied with memcpy and goes to the parameters one coordinate after the  *)
(* other.  An entry is written in one step, a string is one part.  A write *)
(* of the file may fail, and the process may die at any step and start     *)
(* again.  The parameter library is external: setting a parameter is one   *)
(* step, a dump replaces the whole file or fails.                          *)
(***************************************************************************)
EXTENDS BaseReg

CONSTANTS Kind,             \* the class
          Threads,
          Writes, Deletes   \* what callers ask for: registers to set, ids to delete

ASSUME KindAssumption == Kind \in Kinds

ASSUME CallersAssumption == (\A d \in Writes : d.id \in Nat) /\ Deletes \subseteq Nat

\* What values are stored in: the type and the coordinates of a PR register, the
\* coordinates of an HR register, and a value of the other classes as it is.
Parts ==
  CASE Kind = "PR" -> {<<"type">>} \cup ({"pose", "joint"} \X Axes)
    [] Kind = "HR" -> Axes
    [] OTHER -> {"value"}

PartOf(v, q) ==
  CASE Kind = "PR" -> (CASE q[1] = "type" -> v.type
                         [] q[1] = "pose" -> v.pose[q[2]]
                         [] q[1] = "joint" -> v.joint[q[2]])
    [] Kind = "HR" -> v[q]
    [] OTHER -> v

\* A value in parts, and the value that parts make up, whoever wrote them.
Split(v) == [q \in Parts |-> PartOf(v, q)]

Whole(f) ==
  CASE Kind = "PR" -> [type |-> f[<<"type">>], pose |-> [a \in Axes |-> f[<<"pose", a>>]],
                       joint |-> [a \in Axes |-> f[<<"joint", a>>]]]
    [] Kind = "HR" -> [a \in Axes |-> f[a]]
    [] OTHER -> f["value"]

Refused(f) == OutOfLimit(Kind, Whole(f))

VARIABLES
  reg_list, data_list,      \* memory of the class, values in parts
  param,                    \* param_: id -> what the next dump writes
  file,                     \* whether it exists, and id -> what was dumped last
  up,                       \* "down", "create", "read" or "up"
  call,                     \* thread -> its call
  settled                   \* history: id -> what its last writer wrote, if that
                            \* one was alone on the register and heard yes

vars == <<reg_list, data_list, param, file, up, call, settled>>

Idle == [pc |-> "idle"]

NewEntry == [is_valid |-> FALSE, comment |-> <<"empty">>]

Saved(entry, value) == [is_valid |-> entry.is_valid, comment |-> entry.comment, value |-> value]

\* f with v for id.
Put(f, id, v) == [i \in DOMAIN f \cup {id} |-> IF i = id THEN v ELSE f[i]]

\* What memory holds for a register.
Content(id) == Saved(reg_list[id], data_list[id])

Busy(t) == call[t].pc # "idle"

\* Calls of others on a register.
Others(t, id) == {u \in Threads \ {t} : Busy(u) /\ call[u].id = id}

NewFile == [id \in Ids |-> Saved(NewEntry, Split(Created(Kind)))]

\* The memory of a process that has just started.
FreshMemory ==
  /\ reg_list' = [id \in Ids |-> NewEntry]
  /\ data_list' = [id \in Ids |-> Split(Fresh(Kind))]
  /\ param' = <<>>

Init ==
  /\ reg_list = [id \in Ids |-> NewEntry]
  /\ data_list = [id \in Ids |-> Split(Fresh(Kind))]
  /\ param = <<>>
  /\ file = [exists |-> FALSE, regs |-> <<>>]
  /\ up = "down"
  /\ call = [t \in Threads |-> Idle]
  /\ settled = <<>>

(***************************************************************************)
(* Starting: load_register_data constructs the class.  A file that does    *)
(* not exist is created empty and then written; one that exists is read.   *)
(***************************************************************************)
Start ==
  /\ up = "down"
  /\ up' = IF file.exists THEN "read" ELSE "create"
  /\ file' = [file EXCEPT !.exists = TRUE]
  /\ param' = file.regs
  /\ UNCHANGED <<reg_list, data_list, call, settled>>

\* When the dump fails the class is not ready, which nobody asks: calls are answered.
CreateYaml ==
  /\ up = "create"
  /\ param' = NewFile
  /\ \/ file' = [file EXCEPT !.regs = NewFile] /\ up' = "read"
     \/ up' = "up" /\ UNCHANGED file
  /\ UNCHANGED <<reg_list, data_list, call, settled>>

\* The registers the file does not hold.
Missing == Ids \ DOMAIN file.regs

LoadedEntry(id) ==
  [is_valid |-> file.regs[id].is_valid, comment |-> file.regs[id].comment]

LoadedValues(ids) ==
  [id \in Ids |-> IF id \in ids THEN file.regs[id].value ELSE data_list[id]]

ReadAllRegDataFromYaml ==
  /\ up = "read"
  /\ Missing = {}
  /\ reg_list' = [id \in Ids |-> LoadedEntry(id)]
  /\ data_list' = LoadedValues(Ids)
  /\ up' = "up"
  /\ UNCHANGED <<param, file, call, settled>>

\* The process died once between creating the file and writing it.  For a register
\* that is not in the file an entry is stored that was never filled: its id is out of
\* range and the loop ends there, or it is some register's, whose entry becomes junk.
\* What callers were promised ends here.
ReadMissing ==
  LET before == {id \in Ids : \A m \in Missing : id < m} IN
  /\ up = "read"
  /\ Missing # {}
  /\ \/ /\ reg_list' = [id \in Ids |-> IF id \in before THEN LoadedEntry(id) ELSE reg_list[id]]
        /\ data_list' = LoadedValues(before)
     \/ /\ \E junk \in Ids, valid \in BOOLEAN :
             reg_list' = [id \in Ids |->
                IF id = junk THEN [is_valid |-> valid, comment |-> <<"junk">>]
                ELSE IF id \in Missing THEN reg_list[id] ELSE LoadedEntry(id)]
        /\ data_list' = LoadedValues(Ids \ Missing)
  /\ up' = "up"
  /\ settled' = <<>>
  /\ UNCHANGED <<param, file, call>>

\* The process ends, whatever its threads are doing.
Die ==
  /\ up # "down"
  /\ up' = "down"
  /\ FreshMemory
  /\ call' = [t \in Threads |-> Idle]
  /\ UNCHANGED <<file, settled>>

(***************************************************************************)
(* Calls.  The interface sets a register with setReg and, when that says   *)
(* no, with addReg; op is the class function at work, left what is left to *)
(* do of the parts.                                                        *)
(***************************************************************************)
Begin(t, op, id, comment, value) ==
  /\ up = "up"
  /\ ~Busy(t)
  /\ call' = [u \in Threads |->
                IF u = t THEN [pc |-> "check", op |-> op, id |-> id, comment |-> comment,
                               value |-> Split(value), left |-> {},
                               alone |-> Others(t, id) = {}]
                ELSE IF u \in Others(t, id) THEN [call[u] EXCEPT !.alone = FALSE]
                ELSE call[u]]
  /\ UNCHANGED <<reg_list, data_list, param, file, up, settled>>

SetReg(t, id, comment, value) == Begin(t, "set", id, comment, value)

DeleteReg(t, id) == Begin(t, "delete", id, <<>>, Created(Kind))

\* Fault: addReg does not look at the value.
AdmittedUnlimited(c) ==
  CASE c.op = "set" -> isDeleteInputValid(reg_list, c.id) /\ ~Refused(c.value)
    [] c.op = "add" -> isAddInputValid(reg_list, c.id)
    [] c.op = "delete" -> isDeleteInputValid(reg_list, c.id)

Admitted(c) ==
  CASE c.op = "set" -> isDeleteInputValid(reg_list, c.id) /\ ~Refused(c.value)
    [] c.op = "add" -> isAddInputValid(reg_list, c.id) /\ ~Refused(c.value)
    [] c.op = "delete" -> isDeleteInputValid(reg_list, c.id)

\* A rejected setReg is followed by addReg, the other two return.
Answer(t, c) == IF c.op = "set" THEN [c EXCEPT !.op = "add", !.pc = "check"] ELSE Idle

Check(t) ==
  /\ call[t].pc = "check"
  /\ call' = [call EXCEPT ![t] = IF Admitted(@) THEN [@ EXCEPT !.pc = "entry"]
                                 ELSE Answer(t, @)]
  /\ UNCHANGED <<reg_list, data_list, param, file, up, settled>>

Packed(c) ==
  CASE c.op = "set" -> packSetRegData(c.comment)
    [] c.op = "add" -> packAddRegData(c.comment)
    [] c.op = "delete" -> packDeleteRegData

\* What is settled while a register is being written.
Without(id) == [i \in DOMAIN settled \ {id} |-> settled[i]]

PutEntry(t) ==
  /\ call[t].pc = "entry"
  /\ reg_list' = [reg_list EXCEPT ![call[t].id] = Packed(call[t])]
  /\ call' = [call EXCEPT ![t] = [@ EXCEPT !.pc = "value", !.left = Parts]]
  /\ settled' = Without(call[t].id)
  /\ UNCHANGED <<data_list, param, file, up>>

\* What memory is to hold once the value is stored.
NewValue(c) ==
  IF c.op = "delete" THEN Split(Cleared(Kind, Whole(data_list[c.id]))) ELSE c.value

\* One part done, the call goes on at next when it was the last.
Done(t, q, next) ==
  LET left == call[t].left \ {q} IN
  call' = [call EXCEPT ![t] =
             [@ EXCEPT !.pc = IF left = {} THEN next ELSE call[t].pc, !.left = left]]

\* The parts are copied in no particular order.
PutValue(t) ==
  /\ call[t].pc = "value"
  /\ \E q \in call[t].left :
       /\ data_list' = [data_list EXCEPT ![call[t].id][q] = NewValue(call[t])[q]]
       /\ Done(t, q, "yaml")
  /\ UNCHANGED <<reg_list, param, file, up, settled>>

\* Fault: a deleted register stays in the file.
PutYamlUnlessDeleted(t) ==
  LET c == call[t] IN
  /\ c.pc = "yaml"
  /\ param' = IF c.op = "delete" THEN param
              ELSE Put(param, c.id, Saved(Packed(c), data_list[c.id]))
  /\ call' = [call EXCEPT ![t] = [@ EXCEPT !.pc = "yaml_value", !.left = Parts]]
  /\ UNCHANGED <<reg_list, data_list, file, up, settled>>

\* The entry written is the caller's own.  A register that the parameters do not hold
\* has no value yet: reading one from such a file leaves fresh memory as it is.
PutYaml(t) ==
  LET c == call[t]
      old == IF c.id \in DOMAIN param THEN param[c.id].value ELSE Split(Fresh(Kind))
  IN  /\ c.pc = "yaml"
      /\ param' = Put(param, c.id, Saved(Packed(c), old))
      /\ call' = [call EXCEPT ![t] = [@ EXCEPT !.pc = "yaml_value", !.left = Parts]]
      /\ UNCHANGED <<reg_list, data_list, file, up, settled>>

\* The order in the file: Cartesian coordinates, joints, type.
Turn(q) ==
  IF Kind # "PR" THEN 0
  ELSE CASE q[1] = "pose" -> 1 [] q[1] = "joint" -> 2 [] q[1] = "type" -> 3

\* The value is what memory holds by now, looked up again for every part.
PutYamlValue(t) ==
  LET c == call[t] IN
  /\ c.pc = "yaml_value"
  /\ \E q \in c.left :
       /\ \A r \in c.left : Turn(q) <= Turn(r)
       /\ param' = [param EXCEPT ![c.id].value[q] = data_list[c.id][q]]
       /\ Done(t, q, "dump")
  /\ UNCHANGED <<reg_list, data_list, file, up, settled>>

Dump(t) ==
  LET c == call[t] IN
  /\ c.pc = "dump"
  /\ file' = [file EXCEPT !.regs = param]
  /\ call' = [call EXCEPT ![t] = Idle]
  /\ settled' = IF c.alone
                THEN Put(settled, c.id, Saved(Packed(c), NewValue(c)))
                ELSE settled
  /\ UNCHANGED <<reg_list, data_list, param, up>>

\* The caller hears no, although memory has changed.
DumpFails(t) ==
  /\ call[t].pc = "dump"
  /\ call' = [call EXCEPT ![t] = Answer(t, @)]
  /\ UNCHANGED <<reg_list, data_list, param, file, up, settled>>

Next ==
  \/ Start \/ CreateYaml \/ ReadAllRegDataFromYaml \/ ReadMissing \/ Die
  \/ \E t \in Threads :
       \/ \E d \in Writes : SetReg(t, d.id, d.comment, d.value)
       \/ \E id \in Deletes : DeleteReg(t, id)
       \/ Check(t) \/ PutEntry(t) \/ PutValue(t) \/ PutYaml(t) \/ PutYamlValue(t)
       \/ Dump(t) \/ DumpFails(t)

Spec == Init /\ [][Next]_vars

-----------------------------------------------------------------------------
Comments ==
  {d.comment : d \in Writes}
    \cup {<<>>, <<"empty">>, <<"EMPTY">>, <<"Not used">>, <<"junk">>}

Entries == [is_valid : BOOLEAN, comment : Comments]

TypeOK ==
  /\ reg_list \in [Ids -> Entries]
  /\ DOMAIN data_list = Ids /\ \A id \in Ids : DOMAIN data_list[id] = Parts
  /\ DOMAIN param \subseteq Ids /\ DOMAIN file.regs \subseteq Ids
  /\ file.exists \in BOOLEAN
  /\ up \in {"down", "create", "read", "up"}
  /\ DOMAIN settled \subseteq Ids
  /\ DOMAIN call = Threads
  /\ \A t \in Threads :
       call[t].pc \in {"entry", "value", "yaml", "yaml_value", "dump"} => call[t].id \in Ids

\* What a call that was alone on its register reported as done is in memory and in
\* the file, and comes back after the process dies: setReg and addReg answer with
\* the result of the dump.  Between a failed dump and the next call on the register,
\* and when two calls met on it, nothing is promised.
Durable ==
  \A id \in DOMAIN settled :
    /\ id \in DOMAIN file.regs /\ file.regs[id] = settled[id]
    /\ up = "up" => Content(id) = settled[id]

\* No register holds a value its class refuses, in memory or in the file, whatever calls
\* meet on it, half done, and wherever the process dies: a mixture of values that were
\* checked has only coordinates that were.  Not so a PR register, of whose coordinates
\* only those of its type are checked: one call's type may meet another's coordinates, or
\* its own in a file dumped too early, and only what is settled is within the limits.
ValuesInLimit ==
  /\ \A id \in DOMAIN settled : ~Refused(settled[id].value)
  /\ Kind # "PR" =>
       /\ \A id \in Ids : ~Refused(data_list[id])
       /\ \A id \in DOMAIN file.regs : ~Refused(file.regs[id].value)

=============================================================================
