---------------------------- MODULE RegStoreProofs ----------------------------
(***************************************************************************)
(* What the file of a register class can be trusted for, whatever the      *)
(* class, the ids, the threads and their calls.  The argument: a call that *)
(* is alone on its register carries its own values, part by part, from     *)
(* memory into the parameters and into the file; a call that is not never  *)
(* settles anything; and for what is settled the parameters agree with the *)
(* file, so that a dump by the call of another register writes the same    *)
(* again.  What is refused is refused for one of its parts, except in      *)
(* class PR.                                                               *)
(***************************************************************************)
EXTENDS RegStore, TLAPS

Ops == {"set", "add", "delete"}

CallIds == {d.id : d \in Writes} \cup Deletes

Texts == {d.comment : d \in Writes} \cup {<<>>}

CallValues == {Split(d.value) : d \in Writes} \cup {Split(Created(Kind))}

Calls == [pc : {"check", "entry", "value", "yaml", "yaml_value", "dump"}, op : Ops, id : CallIds,
          comment : Texts, value : CallValues, left : SUBSET Parts, alone : BOOLEAN]

\* A value in parts, of which, in all classes but PR, none alone is beyond the limit.
InParts(f) == f = [q \in Parts |-> f[q]]

BadPart(x) == Kind \in {"HR", "R", "MR"} /\ Beyond(x)

Fine(f) == InParts(f) /\ (Kind # "PR" => \A q \in Parts : ~BadPart(f[q]))

\* Registers as the parameters and the file hold them.
SavedRegs(f) ==
  /\ DOMAIN f \subseteq Ids
  /\ \A id \in DOMAIN f :
       /\ f[id] = [is_valid |-> f[id].is_valid, comment |-> f[id].comment, value |-> f[id].value]
       /\ f[id].is_valid \in BOOLEAN /\ f[id].comment \in Comments
       /\ Fine(f[id].value)

MemoryInv ==
  /\ reg_list \in [Ids -> Entries]
  /\ DOMAIN data_list = Ids
  /\ data_list = [id \in Ids |-> data_list[id]]
  /\ \A id \in Ids : Fine(data_list[id])

FileInv ==
  /\ SavedRegs(param)
  /\ SavedRegs(file.regs)
  /\ file \in [exists : BOOLEAN, regs : {file.regs}]
  /\ ~file.exists => DOMAIN file.regs = {}
  /\ up \in {"down", "create", "read", "up"}
  /\ up = "read" => param = file.regs
  /\ up # "down" => file.exists
  /\ up = "create" => DOMAIN settled = {}

\* Calls run in a process that is up; behind its check a call has an id and a value
\* that were admitted.
CallInv ==
  /\ call \in [Threads -> {Idle} \cup Calls]
  /\ \A t \in Threads : Busy(t) => up = "up"
  /\ \A t \in Threads :
       call[t].pc \in {"entry", "value", "yaml", "yaml_value", "dump"} =>
         /\ call[t].id \in Ids
         /\ call[t].op # "delete" => ~Refused(call[t].value)

\* A call that is alone shares its register with no other call.
AloneInv ==
  \A t, u \in Threads :
    t # u /\ Busy(t) /\ Busy(u) /\ call[t].alone => call[u].id # call[t].id

\* What a register is to hold that holds f.
Target(c, f) == IF c.op = "delete" THEN Split(Cleared(Kind, Whole(f))) ELSE c.value

\* What a call has written so far, as long as it is alone.
Wrote(t) ==
  LET c == call[t] IN
  c.alone =>
    /\ c.pc \in {"value", "yaml", "yaml_value", "dump"} => reg_list[c.id] = Packed(c)
    /\ c.pc = "value" =>
         \A q \in Parts \ c.left : data_list[c.id][q] = Target(c, data_list[c.id])[q]
    /\ c.pc \in {"yaml", "yaml_value", "dump"} => data_list[c.id] = Target(c, data_list[c.id])
    /\ c.pc \in {"yaml_value", "dump"} =>
         c.id \in DOMAIN param /\ param[c.id] = Saved(Packed(c), param[c.id].value)
    /\ c.pc = "yaml_value" =>
         \A q \in Parts \ c.left : param[c.id].value[q] = data_list[c.id][q]
    /\ c.pc = "dump" => param[c.id].value = data_list[c.id]

WrittenInv == \A t \in Threads : Wrote(t)

\* What is settled: in the file, in the parameters, in memory, and in nobody's hands.
SettledInv ==
  /\ \A id \in DOMAIN settled :
       /\ id \in Ids
       /\ ~Refused(settled[id].value)
       /\ id \in DOMAIN file.regs /\ file.regs[id] = settled[id]
       /\ up = "up" => id \in DOMAIN param /\ param[id] = settled[id] /\ Content(id) = settled[id]
  /\ \A t \in Threads :
       call[t].pc \in {"value", "yaml", "yaml_value", "dump"} => call[t].id \notin DOMAIN settled

IInv == MemoryInv /\ FileInv /\ CallInv /\ AloneInv /\ WrittenInv /\ SettledInv

-----------------------------------------------------------------------------
\* Outside PR a value is refused for one of its parts.
LEMMA RefusedIs ==
  ASSUME Kind # "PR", NEW f
  PROVE  Refused(f) <=> \E q \in Parts : BadPart(f[q])
<1>1. CASE Kind = "HR"
  <2> DEFINE w == [a \in Axes |-> f[a]]
  <2>1. Parts = Axes /\ Whole(f) = w
    BY <1>1 DEF Parts, Whole
  <2>2. Refused(f) <=> \E a \in Axes : Beyond(w[a])
    BY <1>1, <2>1 DEF Refused, OutOfLimit, HrOutOfPosLimit, AnyBeyond
  <2> QED
    BY <1>1, <2>1, <2>2 DEF BadPart
<1>2. CASE Kind \in {"R", "MR"}
  <2>1. Parts = {"value"} /\ Whole(f) = f["value"]
    BY <1>2 DEF Parts, Whole
  <2>2. Refused(f) <=> Beyond(f["value"])
    BY <1>2, <2>1 DEF Refused, OutOfLimit
  <2> QED
    BY <1>2, <2>1, <2>2 DEF BadPart
<1>3. CASE Kind = "SR"
  BY <1>3 DEF Refused, OutOfLimit, BadPart
<1> QED
  BY <1>1, <1>2, <1>3, KindAssumption DEF Kinds

LEMMA SplitInParts ==
  ASSUME NEW v
  PROVE  InParts(Split(v))
BY DEF InParts, Split

LEMMA NothingBeyond == ~Beyond(0) /\ ~AnyBeyond(Zero)
<1>1. ~Beyond(0)
  BY MaxAssumption DEF Beyond
<1> QED
  BY <1>1 DEF AnyBeyond, Zero

\* The cleared position is within the limits.
LEMMA ClearedPosition ==
  ASSUME Kind = "PR"
  PROVE  ~Refused(Split(ZeroPosition))
<1> DEFINE f == Split(ZeroPosition)
           w == Whole(f)
<1>1. Parts = {<<"type">>} \cup ({"pose", "joint"} \X Axes)
  BY DEF Parts
<1>2. /\ ZeroPosition.type = POS_TYPE_CARTESIAN /\ ZeroPosition.pose = Zero
      /\ ZeroPosition.joint = Zero
  BY DEF ZeroPosition
<1>3. f[<<"type">>] = POS_TYPE_CARTESIAN
  BY <1>1, <1>2 DEF Split, PartOf
<1>4. \A a \in Axes : f[<<"pose", a>>] = 0
  <2> SUFFICES ASSUME NEW a \in Axes PROVE f[<<"pose", a>>] = 0
    OBVIOUS
  <2> DEFINE q == <<"pose", a>>
  <2>1. q \in Parts /\ q[1] = "pose" /\ q[2] = a
    BY <1>1
  <2> HIDE DEF q
  <2>2. f[q] = Zero[a]
    BY <1>2, <2>1 DEF Split, PartOf
  <2> QED
    BY <2>2 DEF Zero, q
<1> HIDE DEF f
<1>5. w.type = POS_TYPE_CARTESIAN /\ w.pose = [a \in Axes |-> f[<<"pose", a>>]]
  BY <1>3 DEF Whole
<1> HIDE DEF w
<1>6. ~AnyBeyond(w.pose)
  BY <1>4, <1>5, NothingBeyond DEF AnyBeyond
<1>7. ~PrOutOfPosLimit(w)
  BY <1>5, <1>6 DEF PrOutOfPosLimit, POS_TYPE_CARTESIAN, POS_TYPE_JOINT
<1> QED
  BY <1>7 DEF Refused, OutOfLimit, w, f

\* The values a class makes up itself are within its limits.
LEMMA OwnValuesFine ==
  /\ Fine(Split(Created(Kind)))
  /\ Fine(Split(Fresh(Kind)))
<1>1. \A v : InParts(Split(v))
  BY SplitInParts
<1>2. CASE Kind = "PR"
  BY <1>1, <1>2 DEF Fine
<1>3. CASE Kind = "HR"
  <2>1. Parts = Axes /\ Created(Kind) = Zero /\ Fresh(Kind) = Zero
    BY <1>3 DEF Parts, Created, Fresh, HrReg
  <2>2. \A q \in Parts : Split(Zero)[q] = 0
    BY <1>3, <2>1 DEF Split, PartOf, Zero
  <2> QED
    BY <1>1, <2>1, <2>2, NothingBeyond DEF Fine, BadPart
<1>4. CASE Kind \in {"R", "MR"}
  <2>1. Parts = {"value"} /\ Created(Kind) = 0 /\ Fresh(Kind) = 0
    BY <1>4 DEF Parts, Created, Fresh, RReg, MrReg
  <2>2. \A q \in Parts : Split(0)[q] = 0
    BY <1>4, <2>1 DEF Split, PartOf
  <2> QED
    BY <1>1, <2>1, <2>2, NothingBeyond DEF Fine, BadPart
<1>5. CASE Kind = "SR"
  BY <1>1, <1>5 DEF Fine, BadPart
<1> QED
  BY <1>2, <1>3, <1>4, <1>5, KindAssumption DEF Kinds

\* What a deleted register is cleared to, class by class.
LEMMA ClearedIs ==
  ASSUME NEW f, InParts(f)
  PROVE  LET g == Split(Cleared(Kind, Whole(f))) IN
         /\ Kind = "PR" => g = Split(ZeroPosition)
         /\ Kind = "HR" => g = Split(Zero)
         /\ Kind \in {"R", "MR"} => g = Split(0)
         /\ Kind = "SR" => g = f
<1>1. Kind = "PR" => Cleared(Kind, Whole(f)) = ZeroPosition
  BY DEF Cleared, PrReg
<1>2. Kind = "HR" => Cleared(Kind, Whole(f)) = Zero
  BY DEF Cleared, HrReg
<1>3. Kind \in {"R", "MR"} => Cleared(Kind, Whole(f)) = 0
  BY DEF Cleared, RReg, MrReg
<1>4. ASSUME Kind = "SR"
      PROVE  Split(Cleared(Kind, Whole(f))) = f
  <2>1. Parts = {"value"} /\ Cleared(Kind, Whole(f)) = f["value"]
    BY <1>4 DEF Parts, Cleared, Whole
  <2>2. Split(f["value"]) = [q \in Parts |-> f["value"]]
    BY <1>4 DEF Split, PartOf
  <2>3. [q \in Parts |-> f["value"]] = [q \in Parts |-> f[q]]
    BY <2>1
  <2> QED
    BY <2>1, <2>2, <2>3 DEF InParts
<1> QED
  BY <1>1, <1>2, <1>3, <1>4

\* Storing one part of what a register is to hold does not change what that is.
LEMMA TargetStays ==
  ASSUME NEW c, NEW f, InParts(f), NEW q \in Parts
  PROVE  Target(c, [f EXCEPT ![q] = Target(c, f)[q]]) = Target(c, f)
<1> DEFINE x == Target(c, f)[q]
           g == [f EXCEPT ![q] = x]
<1>1. InParts(g)
  BY DEF InParts
<1>2. CASE c.op # "delete"
  BY <1>2 DEF Target
<1>3. CASE c.op = "delete"
  <2>1. \A h : Target(c, h) = Split(Cleared(Kind, Whole(h)))
    BY <1>3 DEF Target
  <2>2. CASE Kind = "SR"
    <3>1. Target(c, f) = f
      BY <2>1, <2>2, ClearedIs
    <3>2. x = f[q]
      BY <3>1
    <3>3. g = f
      BY <3>2 DEF InParts
    <3> QED
      BY <3>3
  <2>3. CASE Kind # "SR"
    <3> HIDE DEF g
    <3>1. Target(c, g) = Target(c, f)
      BY <1>1, <2>1, <2>3, ClearedIs, KindAssumption DEF Kinds
    <3> QED
      BY <3>1 DEF g
  <2> QED
    BY <2>2, <2>3
<1> QED
  BY <1>2, <1>3

\* What a register is to hold is within the limits, if what it holds is.
LEMMA TargetFine ==
  ASSUME NEW c, NEW f, Fine(f),
         c.op # "delete" => InParts(c.value) /\ ~Refused(c.value)
  PROVE  Fine(Target(c, f)) /\ ~Refused(Target(c, f))
<1>1. CASE c.op # "delete"
  <2>1. Target(c, f) = c.value
    BY <1>1 DEF Target
  <2>2. Kind # "PR" => \A q \in Parts : ~BadPart(c.value[q])
    BY <1>1, RefusedIs
  <2> QED
    BY <1>1, <2>1, <2>2 DEF Fine
<1>2. CASE c.op = "delete"
  <2> DEFINE g == Split(Cleared(Kind, Whole(f)))
  <2>1. Target(c, f) = g
    BY <1>2 DEF Target
  <2>2. InParts(g)
    BY SplitInParts
  <2>3. /\ Kind = "PR" => g = Split(ZeroPosition)
        /\ Kind = "HR" => g = Split(Zero)
        /\ Kind \in {"R", "MR"} => g = Split(0)
        /\ Kind = "SR" => g = f
    BY ClearedIs DEF Fine
  <2> HIDE DEF g
  <2>4. CASE Kind = "PR"
    BY <2>1, <2>2, <2>3, <2>4, ClearedPosition DEF Fine
  <2>5. CASE Kind # "PR"
    <3>1. Kind \in {"HR", "R", "MR"} => g = Split(Created(Kind))
      BY <2>3 DEF Created, HrReg, RReg, MrReg
    <3>2. Fine(g)
      BY <2>3, <2>5, <3>1, OwnValuesFine, KindAssumption DEF Kinds
    <3>3. ~Refused(g)
      BY <2>5, <3>2, RefusedIs DEF Fine
    <3> QED
      BY <2>1, <3>2, <3>3
  <2> QED
    BY <2>4, <2>5
<1> QED
  BY <1>1, <1>2

\* One part replaced by a part of a value within the limits.
LEMMA PartFine ==
  ASSUME NEW f, Fine(f), NEW g, Fine(g), NEW q \in Parts
  PROVE  /\ Fine([f EXCEPT ![q] = g[q]])
         /\ [f EXCEPT ![q] = g[q]][q] = g[q]
         /\ \A p \in Parts \ {q} : [f EXCEPT ![q] = g[q]][p] = f[p]
<1> DEFINE x == g[q]
           w == [f EXCEPT ![q] = x]
<1>1. f = [p \in Parts |-> f[p]]
  BY DEF Fine, InParts
<1>2. Kind # "PR" => ~BadPart(x) /\ \A p \in Parts : ~BadPart(f[p])
  BY DEF Fine
<1> HIDE DEF x
<1>3. /\ w = [p \in Parts |-> w[p]] /\ w[q] = x
      /\ \A p \in Parts \ {q} : w[p] = f[p]
  BY <1>1
<1> HIDE DEF w
<1>4. Fine(w)
  BY <1>2, <1>3 DEF Fine, InParts
<1> QED
  BY <1>3, <1>4 DEF w, x

LEMMA PackedEntry ==
  ASSUME NEW c \in Calls
  PROVE  Packed(c) \in Entries
<1>1. c.op \in Ops /\ c.comment \in Comments
  BY DEF Calls, Texts, Comments
<1>2. <<"EMPTY">> \in Comments /\ <<"Not used">> \in Comments
  BY DEF Comments
<1>3. \A e \in Comments, b \in BOOLEAN : [is_valid |-> b, comment |-> e] \in Entries
  BY DEF Entries
<1>4. packSetRegData(c.comment) \in Entries
  BY <1>1, <1>2, <1>3 DEF packSetRegData, packAddRegData
<1>5. packAddRegData(c.comment) \in Entries
  BY <1>1, <1>3 DEF packAddRegData
<1>6. packDeleteRegData \in Entries
  BY <1>2, <1>3 DEF packDeleteRegData
<1> QED
  BY <1>1, <1>4, <1>5, <1>6 DEF Packed, Ops

LEMMA NewEntryType == NewEntry \in Entries
<1>1. <<"empty">> \in Comments
  BY DEF Comments
<1> QED
  BY <1>1 DEF NewEntry, Entries

\* One more register leaves saved registers as they should be.
LEMMA PutSaved ==
  ASSUME NEW f, SavedRegs(f), NEW id \in Ids, NEW e \in Entries, NEW v, Fine(v)
  PROVE  /\ SavedRegs(Put(f, id, Saved(e, v)))
         /\ id \in DOMAIN Put(f, id, Saved(e, v))
         /\ Put(f, id, Saved(e, v))[id] = Saved(e, v)
         /\ \A i \in DOMAIN f : i # id =>
              i \in DOMAIN Put(f, id, Saved(e, v)) /\ Put(f, id, Saved(e, v))[i] = f[i]
<1> DEFINE g == Put(f, id, Saved(e, v))
<1>1. DOMAIN g = DOMAIN f \cup {id} /\ \A i \in DOMAIN g : g[i] = IF i = id THEN Saved(e, v) ELSE f[i]
  BY DEF Put
<1>2. /\ Saved(e, v).is_valid = e.is_valid /\ Saved(e, v).comment = e.comment
      /\ Saved(e, v).value = v
  BY DEF Saved
<1>3. e.is_valid \in BOOLEAN /\ e.comment \in Comments
  BY DEF Entries
<1>4. Saved(e, v) = [is_valid |-> Saved(e, v).is_valid, comment |-> Saved(e, v).comment,
                     value |-> Saved(e, v).value]
  BY <1>2 DEF Saved
<1> HIDE DEF g
<1>5. SavedRegs(g)
  BY <1>1, <1>2, <1>3, <1>4 DEF SavedRegs
<1> QED
  BY <1>1, <1>5 DEF g

\* So does another value of a register.
LEMMA ValueSaved ==
  ASSUME NEW f, SavedRegs(f), NEW id \in DOMAIN f, NEW w, Fine(w),
         NEW g, DOMAIN g = DOMAIN f, g[id] = Saved(f[id], w), \A i \in DOMAIN f : i # id => g[i] = f[i]
  PROVE  SavedRegs(g)
<1>1. /\ g[id].is_valid = f[id].is_valid /\ g[id].comment = f[id].comment /\ g[id].value = w
      /\ g[id] = [is_valid |-> g[id].is_valid, comment |-> g[id].comment, value |-> g[id].value]
  BY DEF Saved
<1> QED
  BY <1>1 DEF SavedRegs

LEMMA NewFileSaved == SavedRegs(NewFile)
<1>1. DOMAIN NewFile = Ids /\ \A id \in Ids : NewFile[id] = Saved(NewEntry, Split(Created(Kind)))
  BY DEF NewFile
<1>2. NewEntry.is_valid \in BOOLEAN /\ NewEntry.comment \in Comments
  BY DEF NewEntry, Comments
<1>3. \A e, v : Saved(e, v) = [is_valid |-> e.is_valid, comment |-> e.comment, value |-> v]
  BY DEF Saved
<1> QED
  BY <1>1, <1>2, <1>3, OwnValuesFine DEF SavedRegs

\* What busy calls look like.
LEMMA BusyCall ==
  ASSUME CallInv, NEW t \in Threads
  PROVE  /\ Busy(t) <=> call[t] \in Calls
         /\ call[t].pc \in {"check", "entry", "value", "yaml", "yaml_value", "dump"} => call[t] \in Calls
         /\ call[t].pc \in {"check", "entry", "value", "yaml", "yaml_value", "dump"} <=> Busy(t)
<1>1. call[t] = Idle \/ call[t] \in Calls
  BY DEF CallInv
<1>2. Idle.pc = "idle"
  BY DEF Idle
<1>3. \A c \in Calls : c.pc \in {"check", "entry", "value", "yaml", "yaml_value", "dump"}
  BY DEF Calls
<1> QED
  BY <1>1, <1>2, <1>3 DEF Busy

-----------------------------------------------------------------------------
LEMMA InitInv == Init => IInv
<1> SUFFICES ASSUME Init PROVE IInv
  OBVIOUS
<1> USE DEF Init
<1>1. MemoryInv
  BY NewEntryType, OwnValuesFine DEF MemoryInv
<1>2. FileInv
  BY DEF FileInv, SavedRegs
<1>3. \A t \in Threads : ~Busy(t) /\ call[t].pc = "idle"
  BY DEF Busy, Idle
<1>4. CallInv
  BY <1>3 DEF CallInv
<1> QED
  BY <1>1, <1>2, <1>3, <1>4 DEF IInv, AloneInv, WrittenInv, Wrote, SettledInv

LEMMA StartKeeps ==
  ASSUME IInv, Start
  PROVE  IInv'
<1> USE DEF IInv, Start
<1>1. MemoryInv'
  BY DEF MemoryInv
<1>2. \A t \in Threads : ~Busy(t)
  BY DEF CallInv
<1>3. FileInv'
  <2>1. file'.regs = file.regs /\ file' \in [exists : BOOLEAN, regs : {file.regs}] /\ file'.exists
    BY DEF FileInv
  <2>2. up' = "create" => DOMAIN settled = {}
    BY DEF FileInv, SettledInv
  <2> QED
    BY <2>1, <2>2 DEF FileInv
<1>4. CallInv'
  BY <1>2 DEF CallInv, Busy
<1>5. \A t \in Threads : call[t].pc \notin {"check", "entry", "value", "yaml", "yaml_value", "dump"}
  BY <1>2, BusyCall
<1>6. file'.regs = file.regs /\ up' # "up"
  BY DEF FileInv
<1>7. SettledInv'
  BY <1>5, <1>6 DEF SettledInv
<1> QED
  BY <1>1, <1>2, <1>3, <1>4, <1>5, <1>7 DEF AloneInv, WrittenInv, Wrote, Busy

LEMMA CreateYamlKeeps ==
  ASSUME IInv, CreateYaml
  PROVE  IInv'
<1> USE DEF IInv, CreateYaml
<1>1. MemoryInv'
  BY DEF MemoryInv
<1>2. \A t \in Threads : ~Busy(t)
  BY DEF CallInv
<1>3. FileInv'
  <2>1. /\ file' \in [exists : BOOLEAN, regs : {file'.regs}] /\ file'.exists
        /\ file'.regs \in {file.regs, NewFile} /\ (up' = "read" => file'.regs = NewFile)
    BY DEF FileInv
  <2> QED
    BY <2>1, NewFileSaved DEF FileInv
<1>4. CallInv'
  BY <1>2 DEF CallInv, Busy
<1>5. \A t \in Threads : call[t].pc \notin {"check", "entry", "value", "yaml", "yaml_value", "dump"}
  BY <1>2, BusyCall
<1>6. DOMAIN settled = {}
  BY DEF FileInv
<1>7. SettledInv'
  BY <1>5, <1>6 DEF SettledInv
<1> QED
  BY <1>1, <1>2, <1>3, <1>4, <1>5, <1>7 DEF AloneInv, WrittenInv, Wrote, Busy

\* Entries and values taken from the file.
LEMMA LoadedFromFile ==
  ASSUME SavedRegs(file.regs), NEW id \in DOMAIN file.regs
  PROVE  /\ LoadedEntry(id) \in Entries
         /\ Saved(LoadedEntry(id), file.regs[id].value) = file.regs[id]
         /\ Fine(file.regs[id].value)
BY DEF SavedRegs, LoadedEntry, Entries, Saved

LEMMA ReadKeeps ==
  ASSUME IInv, ReadAllRegDataFromYaml
  PROVE  IInv'
<1> USE DEF IInv, ReadAllRegDataFromYaml
<1>1. DOMAIN file.regs = Ids
  BY DEF FileInv, SavedRegs, Missing
<1>2. \A id \in Ids : /\ reg_list'[id] = LoadedEntry(id)
                      /\ data_list'[id] = file.regs[id].value
  BY DEF LoadedValues
<1>3. \A id \in Ids : /\ LoadedEntry(id) \in Entries
                      /\ Saved(LoadedEntry(id), file.regs[id].value) = file.regs[id]
                      /\ Fine(file.regs[id].value)
  BY <1>1, LoadedFromFile DEF FileInv
<1>4. MemoryInv'
  BY <1>2, <1>3 DEF MemoryInv, LoadedValues
<1>5. FileInv'
  BY DEF FileInv
<1>6. \A t \in Threads : ~Busy(t)
  BY DEF CallInv
<1>7. CallInv'
  BY <1>6 DEF CallInv, Busy
<1>8. \A t \in Threads : call[t].pc \notin {"check", "entry", "value", "yaml", "yaml_value", "dump"}
  BY <1>6, BusyCall
<1>9. \A id \in DOMAIN settled : Content(id)' = settled[id] /\ param[id] = settled[id]
  BY <1>2, <1>3 DEF SettledInv, FileInv, Content
<1>10. SettledInv'
  BY <1>8, <1>9 DEF SettledInv, FileInv
<1> QED
  BY <1>4, <1>5, <1>6, <1>7, <1>8, <1>10 DEF AloneInv, WrittenInv, Wrote, Busy

LEMMA ReadMissingKeeps ==
  ASSUME IInv, ReadMissing
  PROVE  IInv'
<1> USE DEF IInv
<1>1. \A id \in Ids : id \notin Missing => id \in DOMAIN file.regs
  BY DEF Missing
<1>2. \A id \in Ids \ Missing : /\ LoadedEntry(id) \in Entries
                                /\ Fine(file.regs[id].value)
  BY <1>1, LoadedFromFile DEF FileInv
<1>3. \A ids \in SUBSET (Ids \ Missing) :
        /\ DOMAIN LoadedValues(ids) = Ids
        /\ LoadedValues(ids) = [id \in Ids |-> LoadedValues(ids)[id]]
        /\ \A id \in Ids : Fine(LoadedValues(ids)[id])
  BY <1>2 DEF LoadedValues, MemoryInv
<1> DEFINE before == {id \in Ids : \A m \in Missing : id < m}
<1>4. before \subseteq Ids \ Missing
  <2>1. \A id \in Ids : ~(id < id)
    BY IdsAssumption
  <2> QED
    BY <2>1
<1>5. MemoryInv'
  <2>1. CASE /\ reg_list' = [id \in Ids |-> IF id \in before THEN LoadedEntry(id) ELSE reg_list[id]]
             /\ data_list' = LoadedValues(before)
    <3>1. reg_list' \in [Ids -> Entries]
      BY <2>1, <1>2, <1>4 DEF MemoryInv
    <3> QED
      BY <2>1, <3>1, <1>3, <1>4 DEF MemoryInv
  <2>2. CASE /\ \E junk \in Ids, valid \in BOOLEAN :
                  reg_list' = [id \in Ids |->
                     IF id = junk THEN [is_valid |-> valid, comment |-> <<"junk">>]
                     ELSE IF id \in Missing THEN reg_list[id] ELSE LoadedEntry(id)]
             /\ data_list' = LoadedValues(Ids \ Missing)
    <3>1. \A valid \in BOOLEAN : [is_valid |-> valid, comment |-> <<"junk">>] \in Entries
      BY DEF Entries, Comments
    <3>2. reg_list' \in [Ids -> Entries]
      BY <2>2, <3>1, <1>2 DEF MemoryInv
    <3>3. Ids \ Missing \in SUBSET (Ids \ Missing)
      OBVIOUS
    <3>4. data_list' = LoadedValues(Ids \ Missing)
      BY <2>2
    <3>5. /\ DOMAIN data_list' = Ids /\ data_list' = [id \in Ids |-> data_list'[id]]
          /\ \A id \in Ids : Fine(data_list'[id])
      BY <3>3, <3>4, <1>3
    <3> QED
      BY <3>2, <3>5 DEF MemoryInv
  <2> QED
    BY <2>1, <2>2 DEF ReadMissing
<1>6. \A t \in Threads : ~Busy(t)
  BY DEF CallInv, ReadMissing
<1>7. /\ UNCHANGED <<param, file, call>> /\ up = "read" /\ up' = "up" /\ DOMAIN settled' = {}
  BY DEF ReadMissing
<1>8. FileInv'
  BY <1>7 DEF FileInv
<1>9. CallInv'
  BY <1>6, <1>7 DEF CallInv, Busy
<1>10. \A t \in Threads : call[t].pc \notin {"check", "entry", "value", "yaml", "yaml_value", "dump"}
  BY <1>6, BusyCall
<1>11. SettledInv'
  BY <1>7, <1>10 DEF SettledInv
<1> QED
  BY <1>5, <1>6, <1>7, <1>8, <1>9, <1>10, <1>11 DEF AloneInv, WrittenInv, Wrote, Busy

LEMMA DieKeeps ==
  ASSUME IInv, Die
  PROVE  IInv'
<1> USE DEF IInv, Die, FreshMemory
<1>1. MemoryInv'
  BY NewEntryType, OwnValuesFine DEF MemoryInv
<1>2. FileInv'
  <2>1. SavedRegs(<<>>)
    BY DEF SavedRegs
  <2> QED
    BY <2>1 DEF FileInv
<1>3. \A t \in Threads : call'[t].pc = "idle" /\ ~Busy(t)'
  BY DEF Busy, Idle
<1>4. CallInv'
  BY <1>3 DEF CallInv
<1>5. SettledInv'
  BY <1>3 DEF SettledInv
<1> QED
  BY <1>1, <1>2, <1>3, <1>4, <1>5 DEF AloneInv, WrittenInv, Wrote

-----------------------------------------------------------------------------
\* Calls that write nothing leave behind what calls have written.
LEMMA WroteNothing ==
  ASSUME WrittenInv, UNCHANGED <<reg_list, data_list, param>>,
         \A t \in Threads :
           call'[t].pc \in {"value", "yaml", "yaml_value", "dump"} /\ call'[t].alone =>
             call'[t] = call[t]
  PROVE  WrittenInv'
<1> SUFFICES ASSUME NEW t \in Threads,
                    call'[t].pc \in {"value", "yaml", "yaml_value", "dump"}, call'[t].alone
             PROVE  Wrote(t)'
  BY DEF WrittenInv, Wrote
<1>1. call'[t] = call[t] /\ reg_list' = reg_list /\ data_list' = data_list /\ param' = param
  OBVIOUS
<1>2. Wrote(t)
  BY DEF WrittenInv
<1>3. Packed(call'[t]) = Packed(call[t])
  BY ONLY <1>1
<1> QED
  BY ONLY <1>1, <1>2, <1>3 DEF Wrote

\* A call begins: it knows whether others are at work on its register, and they learn
\* of it.
LEMMA BeginKeeps ==
  ASSUME IInv, NEW t \in Threads, NEW op \in Ops, NEW id \in CallIds, NEW comment \in Texts,
         NEW value, Split(value) \in CallValues, Begin(t, op, id, comment, value)
  PROVE  IInv'
<1> USE DEF IInv
<1> DEFINE new == [pc |-> "check", op |-> op, id |-> id, comment |-> comment,
                   value |-> Split(value), left |-> {}, alone |-> Others(t, id) = {}]
<1>1. UNCHANGED <<reg_list, data_list, param, file, up, settled>> /\ up = "up" /\ ~Busy(t)
  BY DEF Begin
<1>2. /\ call' = [u \in Threads |-> call'[u]]
      /\ call'[t] = new
      /\ \A u \in Threads \ {t} : u \notin Others(t, id) => call'[u] = call[u]
      /\ \A u \in Others(t, id) : call'[u] = [call[u] EXCEPT !.alone = FALSE]
  BY DEF Begin, Others
<1>3. new \in Calls
  BY DEF Calls
<1>4. \A u \in Others(t, id) : u \in Threads /\ u # t /\ call[u] \in Calls /\ call[u].id = id
  BY BusyCall DEF Others
<1>5. \A c \in Calls : /\ [c EXCEPT !.alone = FALSE] \in Calls
                       /\ [c EXCEPT !.alone = FALSE].pc = c.pc
                       /\ [c EXCEPT !.alone = FALSE].op = c.op
                       /\ [c EXCEPT !.alone = FALSE].id = c.id
                       /\ [c EXCEPT !.alone = FALSE].value = c.value
                       /\ [c EXCEPT !.alone = FALSE].alone = FALSE
  BY DEF Calls
<1>6. \A u \in Threads \ {t} :
        /\ call'[u].pc = call[u].pc
        /\ call[u].pc # "idle" => /\ call'[u].id = call[u].id
                                  /\ call'[u].op = call[u].op
                                  /\ call'[u].value = call[u].value
                                  /\ call'[u].alone => call'[u] = call[u] /\ u \notin Others(t, id)
  <2> HIDE DEF new
  <2>1. \A u \in Threads \ {t} : u \notin Others(t, id) => call'[u] = call[u]
    BY <1>2
  <2>2. \A u \in Others(t, id) :
          /\ call'[u].pc = call[u].pc /\ call'[u].id = call[u].id /\ call'[u].op = call[u].op
          /\ call'[u].value = call[u].value /\ call'[u].alone = FALSE
    <3> SUFFICES ASSUME NEW u \in Others(t, id)
                 PROVE  /\ call'[u].pc = call[u].pc /\ call'[u].id = call[u].id
                        /\ call'[u].op = call[u].op
                        /\ call'[u].value = call[u].value /\ call'[u].alone = FALSE
      OBVIOUS
    <3>1. call'[u] = [call[u] EXCEPT !.alone = FALSE] /\ call[u] \in Calls
      BY <1>2, <1>4
    <3> QED
      BY ONLY <3>1, <1>5
  <2> QED
    BY ONLY <2>1, <2>2
<1>7. new.pc = "check" /\ new.id = id /\ (new.alone => Others(t, id) = {})
  OBVIOUS
<1>8. CallInv'
  <2>1. call' \in [Threads -> {Idle} \cup Calls]
    <3>1. \A u \in Threads : call'[u] \in {Idle} \cup Calls
      <4> SUFFICES ASSUME NEW u \in Threads PROVE call'[u] \in {Idle} \cup Calls
        OBVIOUS
      <4>1. CASE u = t
        BY <4>1, <1>2, <1>3
      <4>2. CASE u \in Others(t, id)
        BY <4>2, <1>2, <1>4, <1>5
      <4>3. CASE u # t /\ u \notin Others(t, id)
        BY <4>3, <1>2 DEF CallInv
      <4> QED
        BY <4>1, <4>2, <4>3
    <3> QED
      BY <3>1, <1>2
  <2>2. \A u \in Threads : Busy(u)' => up' = "up"
    BY <1>1
  <2> HIDE DEF new
  <2>3. \A u \in Threads : call'[u].pc \in {"entry", "value", "yaml", "yaml_value", "dump"} =>
          u # t /\ call'[u].pc = call[u].pc /\ call'[u].id = call[u].id
          /\ call'[u].op = call[u].op /\ call'[u].value = call[u].value
    BY <1>2, <1>6, <1>7
  <2> QED
    BY <2>1, <2>2, <2>3 DEF CallInv
<1> HIDE DEF new
<1>9. AloneInv'
  <2> SUFFICES ASSUME NEW u \in Threads, NEW v \in Threads, u # v, Busy(u)', Busy(v)', call'[u].alone
               PROVE  call'[v].id # call'[u].id
    BY DEF AloneInv
  <2>1. CASE u = t
    BY <2>1, <1>2, <1>6, <1>7 DEF Busy, Others
  <2>2. CASE v = t
    BY <2>2, <1>2, <1>6, <1>7 DEF Busy, Others
  <2>3. CASE u # t /\ v # t
    BY <2>3, <1>6 DEF Busy, AloneInv
  <2> QED
    BY <2>1, <2>2, <2>3
<1>10. WrittenInv'
  <2>1. \A u \in Threads : call'[u].pc \in {"value", "yaml", "yaml_value", "dump"} /\ call'[u].alone =>
          call'[u] = call[u]
    BY <1>2, <1>6, <1>7
  <2> QED
    BY <1>1, <2>1, WroteNothing
<1>11. SettledInv'
  <2>1. \A u \in Threads : call'[u].pc \in {"value", "yaml", "yaml_value", "dump"} =>
          u # t /\ call'[u].pc = call[u].pc /\ call'[u].id = call[u].id
    BY <1>2, <1>6, <1>7
  <2> QED
    BY <1>1, <2>1 DEF SettledInv, Content
<1>12. MemoryInv' /\ FileInv'
  BY <1>1 DEF MemoryInv, FileInv
<1> QED
  BY <1>8, <1>9, <1>10, <1>11, <1>12

\* A step of the call of t that leaves the rest of the calls alone.
LEMMA OthersStay ==
  ASSUME CallInv, NEW t \in Threads, NEW c, call' = [call EXCEPT ![t] = c]
  PROVE  call'[t] = c /\ \A u \in Threads \ {t} : call'[u] = call[u]
BY DEF CallInv

LEMMA CheckKeeps ==
  ASSUME IInv, NEW t \in Threads, Check(t)
  PROVE  IInv'
<1> USE DEF IInv
<1>1. UNCHANGED <<reg_list, data_list, param, file, up, settled>> /\ call[t].pc = "check"
  BY DEF Check
<1>2. call[t] \in Calls
  BY <1>1, BusyCall
<1> DEFINE c == IF Admitted(call[t]) THEN [call[t] EXCEPT !.pc = "entry"] ELSE Answer(t, call[t])
<1>3. call' = [call EXCEPT ![t] = c]
  BY DEF Check
<1>4. call'[t] = c /\ \A u \in Threads \ {t} : call'[u] = call[u]
  BY <1>3, OthersStay
<1>5. \/ c = Idle
      \/ /\ c \in Calls /\ c.pc \in {"check", "entry"}
         /\ c.id = call[t].id /\ c.alone = call[t].alone /\ c.value = call[t].value
         /\ c.pc = "entry" => Admitted(call[t]) /\ c.op = call[t].op
  BY <1>2 DEF Answer, Calls, Ops
<1>6. Idle.pc = "idle"
  BY DEF Idle
<1>7. Admitted(call[t]) =>
        call[t].id \in Ids /\ (call[t].op # "delete" => ~Refused(call[t].value))
  BY <1>2 DEF Admitted, isAddInputValid, isDeleteInputValid, Calls, Ops
<1> HIDE DEF c
<1>8. CallInv'
  <2>1. call' \in [Threads -> {Idle} \cup Calls]
    BY <1>3, <1>5 DEF CallInv
  <2>2. up' = "up"
    BY <1>1 DEF CallInv, Busy
  <2> QED
    BY <2>1, <2>2, <1>4, <1>5, <1>6, <1>7 DEF CallInv, Busy
<1>9. AloneInv'
  BY <1>1, <1>4, <1>5, <1>6 DEF AloneInv, Busy
<1>10. WrittenInv'
  <2>1. \A u \in Threads : call'[u].pc \in {"value", "yaml", "yaml_value", "dump"} /\ call'[u].alone =>
          call'[u] = call[u]
    BY <1>4, <1>5, <1>6
  <2> QED
    BY <1>1, <2>1, WroteNothing
<1>11. SettledInv'
  BY <1>1, <1>4, <1>5, <1>6 DEF SettledInv, Content
<1>12. MemoryInv' /\ FileInv'
  BY <1>1 DEF MemoryInv, FileInv
<1> QED
  BY <1>8, <1>9, <1>10, <1>11, <1>12

-----------------------------------------------------------------------------
\* The call of t goes on to place p with the parts l left, and changes nothing else of
\* itself or of the others.
Went(t, p, l) ==
  /\ call' \in [Threads -> {Idle} \cup Calls]
  /\ \A u \in Threads \ {t} : call'[u] = call[u]
  /\ call'[t] \in Calls /\ call'[t].pc = p /\ call'[t].left = l
  /\ call'[t].id = call[t].id /\ call'[t].op = call[t].op
  /\ call'[t].value = call[t].value /\ call'[t].alone = call[t].alone
  /\ Packed(call'[t]) = Packed(call[t])
  /\ \A f : Target(call'[t], f) = Target(call[t], f)
  /\ \A u \in Threads : Busy(u)' <=> Busy(u)

LEMMA NextPlace ==
  ASSUME CallInv, NEW t \in Threads, Busy(t), NEW p \in {"entry", "value", "yaml", "yaml_value", "dump"},
         NEW l \in SUBSET Parts, call' = [call EXCEPT ![t] = [@ EXCEPT !.pc = p, !.left = l]]
  PROVE  Went(t, p, l)
<1>1. call[t] \in Calls
  BY BusyCall
<1>2. /\ call'[t] = [call[t] EXCEPT !.pc = p, !.left = l]
      /\ \A u \in Threads \ {t} : call'[u] = call[u]
  BY DEF CallInv
<1>3. /\ call'[t] \in Calls /\ call'[t].pc = p /\ call'[t].left = l
      /\ call'[t].id = call[t].id /\ call'[t].op = call[t].op
      /\ call'[t].value = call[t].value /\ call'[t].alone = call[t].alone
      /\ call'[t].comment = call[t].comment
  <2> DEFINE c == call[t]
             w == [c EXCEPT !.pc = p, !.left = l]
  <2>1. c \in Calls
    BY <1>1
  <2> HIDE DEF c
  <2>2. w \in Calls
    BY ONLY <2>1, p \in {"entry", "value", "yaml", "yaml_value", "dump"}, l \in SUBSET Parts DEF Calls
  <2>3. /\ w.pc = p /\ w.left = l /\ w.id = c.id /\ w.op = c.op /\ w.value = c.value
        /\ w.alone = c.alone /\ w.comment = c.comment
    BY ONLY <2>1 DEF Calls
  <2> HIDE DEF w
  <2>4. call'[t] = w
    BY <1>2 DEF w, c
  <2> QED
    BY ONLY <2>2, <2>3, <2>4 DEF c
<1>4. Packed(call'[t]) = Packed(call[t])
  BY <1>3 DEF Packed
<1>6. \A f : Target(call'[t], f) = Target(call[t], f)
  BY <1>3 DEF Target
<1>5. call' \in [Threads -> {Idle} \cup Calls]
  BY <1>2, <1>3 DEF CallInv
<1>7. \A u \in Threads : Busy(u)' <=> Busy(u)
  BY <1>2, <1>3 DEF Busy
<1> QED
  BY <1>2, <1>3, <1>4, <1>5, <1>6, <1>7 DEF Went

\* With one part done the call stays where it is, or goes on when none is left.
LEMMA DoneIs ==
  ASSUME CallInv, NEW t \in Threads, Busy(t), NEW q \in call[t].left,
         NEW next \in {"yaml", "dump"}, call[t].pc \in {"value", "yaml_value"}, Done(t, q, next)
  PROVE  Went(t, IF call[t].left \ {q} = {} THEN next ELSE call[t].pc, call[t].left \ {q})
<1> DEFINE l == call[t].left \ {q}
           p == IF l = {} THEN next ELSE call[t].pc
<1>1. call[t] \in Calls
  BY BusyCall
<1>2. l \in SUBSET Parts /\ p \in {"entry", "value", "yaml", "yaml_value", "dump"}
  BY <1>1 DEF Calls
<1>3. call' = [call EXCEPT ![t] = [@ EXCEPT !.pc = p, !.left = l]]
  BY DEF Done
<1> HIDE DEF l, p
<1>4. Went(t, p, l)
  BY <1>2, <1>3, NextPlace
<1> QED
  BY ONLY <1>4 DEF p, l

\* What the call of u has written is not touched by the call of t.
LEMMA WroteStays ==
  ASSUME CallInv, AloneInv, WrittenInv, NEW t \in Threads, Busy(t), NEW u \in Threads \ {t},
         call'[u] = call[u],
         \A id \in Ids \ {call[t].id} :
           /\ reg_list'[id] = reg_list[id] /\ data_list'[id] = data_list[id]
           /\ id \in DOMAIN param => id \in DOMAIN param' /\ param'[id] = param[id]
  PROVE  Wrote(u)'
<1> SUFFICES ASSUME call[u].alone, call[u].pc \in {"value", "yaml", "yaml_value", "dump"}
             PROVE  Wrote(u)'
  BY DEF Wrote
<1>1. call[u].id \in Ids \ {call[t].id}
  BY BusyCall DEF CallInv, AloneInv
<1>2. Wrote(u)
  BY DEF WrittenInv
<1> DEFINE i == call[u].id
<1>3. /\ reg_list'[i] = reg_list[i] /\ data_list'[i] = data_list[i] /\ call'[u] = call[u]
      /\ i \in DOMAIN param => i \in DOMAIN param' /\ param'[i] = param[i]
  BY <1>1
<1>4. Packed(call'[u]) = Packed(call[u])
  BY ONLY <1>3
<1> QED
  BY ONLY <1>2, <1>3, <1>4 DEF Wrote, i

\* What the caller of t asks to be stored is within the limits when it is stored.
LEMMA TargetOfCall ==
  ASSUME MemoryInv, CallInv, NEW t \in Threads, call[t].pc \in {"value", "yaml", "yaml_value", "dump"}
  PROVE  /\ Fine(Target(call[t], data_list[call[t].id]))
         /\ ~Refused(Target(call[t], data_list[call[t].id]))
<1>1. call[t] \in Calls /\ call[t].id \in Ids
  BY BusyCall DEF CallInv
<1>2. InParts(call[t].value)
  BY <1>1, SplitInParts DEF Calls, CallValues
<1>3. call[t].op # "delete" => ~Refused(call[t].value)
  BY DEF CallInv
<1>4. Fine(data_list[call[t].id])
  BY <1>1 DEF MemoryInv
<1> QED
  BY <1>2, <1>3, <1>4, TargetFine

LEMMA PutEntryKeeps ==
  ASSUME IInv, NEW t \in Threads, PutEntry(t)
  PROVE  IInv'
<1> USE DEF IInv
<1>1. /\ call[t].pc = "entry" /\ call' = [call EXCEPT ![t] = [@ EXCEPT !.pc = "value", !.left = Parts]]
      /\ UNCHANGED <<data_list, param, file, up>>
      /\ reg_list' = [reg_list EXCEPT ![call[t].id] = Packed(call[t])]
      /\ settled' = Without(call[t].id)
  BY DEF PutEntry
<1>2. Busy(t) /\ call[t] \in Calls
  BY <1>1, BusyCall
<1> DEFINE id == call[t].id
<1>3. id \in Ids
  BY <1>1 DEF CallInv
<1>4. /\ call' \in [Threads -> {Idle} \cup Calls]
      /\ \A u \in Threads \ {t} : call'[u] = call[u]
      /\ call'[t].pc = "value" /\ call'[t].left = Parts
      /\ call'[t].id = id /\ call'[t].op = call[t].op
      /\ call'[t].value = call[t].value /\ call'[t].alone = call[t].alone
      /\ Packed(call'[t]) = Packed(call[t])
      /\ \A u \in Threads : Busy(u)' <=> Busy(u)
  <2>1. Went(t, "value", Parts)
    BY <1>1, <1>2, NextPlace
  <2> QED
    BY <2>1 DEF Went
<1>5. reg_list'[id] = Packed(call[t]) /\ \A i \in Ids \ {id} : reg_list'[i] = reg_list[i]
  BY <1>1, <1>3 DEF MemoryInv
<1>6. DOMAIN settled' = DOMAIN settled \ {id} /\ \A i \in DOMAIN settled' : settled'[i] = settled[i]
  BY <1>1 DEF Without
<1>7. MemoryInv'
  BY <1>1, <1>2, <1>3, PackedEntry DEF MemoryInv
<1>8. FileInv'
  BY <1>1, <1>6 DEF FileInv
<1>9. CallInv'
  BY <1>1, <1>3, <1>4 DEF CallInv
<1>10. AloneInv'
  BY <1>4 DEF AloneInv
<1>11. WrittenInv'
  <2>1. \A u \in Threads \ {t} : Wrote(u)'
    BY <1>1, <1>2, <1>4, <1>5, WroteStays
  <2>2. Wrote(t)'
    BY <1>4, <1>5 DEF Wrote
  <2> QED
    BY <2>1, <2>2 DEF WrittenInv
<1>12. SettledInv'
  <2>1. \A i \in DOMAIN settled' : i \in Ids \ {id} /\ Content(i)' = Content(i)
    BY <1>1, <1>5, <1>6 DEF SettledInv, Content
  <2> QED
    BY <1>1, <1>4, <1>6, <2>1 DEF SettledInv
<1> QED
  BY <1>7, <1>8, <1>9, <1>10, <1>11, <1>12

LEMMA PutValueKeeps ==
  ASSUME IInv, NEW t \in Threads, PutValue(t)
  PROVE  IInv'
<1> USE DEF IInv
<1> DEFINE id == call[t].id
           f == data_list[id]
           g == Target(call[t], f)
<1>1. call[t].pc = "value" /\ UNCHANGED <<reg_list, param, file, up, settled>>
  BY DEF PutValue
<1>2. Busy(t) /\ call[t] \in Calls /\ id \in Ids
  BY <1>1, BusyCall DEF CallInv
<1>3. PICK q \in call[t].left :
        data_list' = [data_list EXCEPT ![id][q] = g[q]] /\ Done(t, q, "yaml")
  BY DEF PutValue, NewValue, Target
<1>4. q \in Parts
  BY <1>2, <1>3 DEF Calls
<1> DEFINE w == [f EXCEPT ![q] = g[q]]
           p == IF call[t].left \ {q} = {} THEN "yaml" ELSE "value"
<1>5. Fine(f) /\ Fine(g)
  BY <1>1, <1>2, TargetOfCall DEF MemoryInv
<1>6. Target(call[t], w) = g
  BY <1>4, <1>5, TargetStays DEF Fine
<1> HIDE DEF g
<1>7. Fine(w) /\ w[q] = g[q] /\ \A r \in Parts \ {q} : w[r] = f[r]
  BY <1>4, <1>5, PartFine
<1>8. data_list' = [data_list EXCEPT ![id] = w]
  BY <1>3
<1> HIDE DEF w
<1>9. /\ data_list'[id] = w /\ \A i \in Ids \ {id} : data_list'[i] = data_list[i]
      /\ DOMAIN data_list' = Ids
      /\ data_list' = [i \in Ids |-> data_list'[i]]
  BY <1>2, <1>8 DEF MemoryInv
<1>10. /\ call' \in [Threads -> {Idle} \cup Calls]
       /\ \A u \in Threads \ {t} : call'[u] = call[u]
       /\ call'[t].pc = p /\ call'[t].left = call[t].left \ {q}
       /\ call'[t].id = id /\ call'[t].op = call[t].op
       /\ call'[t].value = call[t].value /\ call'[t].alone = call[t].alone
       /\ Packed(call'[t]) = Packed(call[t])
       /\ Target(call'[t], w) = Target(call[t], w)
       /\ \A u \in Threads : Busy(u)' <=> Busy(u)
  <2>1. Went(t, p, call[t].left \ {q})
    BY <1>1, <1>2, <1>3, DoneIs
  <2> QED
    BY <2>1 DEF Went
<1>11. MemoryInv'
  <2>1. \A i \in Ids : Fine(data_list'[i])
    BY <1>7, <1>9 DEF MemoryInv
  <2> QED
    BY <1>1, <1>9, <2>1 DEF MemoryInv
<1>12. FileInv'
  BY <1>1 DEF FileInv
<1>13. CallInv'
  BY <1>1, <1>2, <1>10 DEF CallInv
<1>14. AloneInv'
  BY <1>10 DEF AloneInv
<1>15. WrittenInv'
  <2>1. \A u \in Threads \ {t} : Wrote(u)'
    BY <1>1, <1>2, <1>9, <1>10, WroteStays
  <2>2. call[t].alone => \A r \in Parts \ call[t].left : w[r] = g[r]
    BY <1>1, <1>7 DEF WrittenInv, Wrote, g
  <2>3. call[t].alone => \A r \in Parts \ (call[t].left \ {q}) : w[r] = g[r]
    BY <1>7, <2>2
  <2>4. call[t].alone /\ call[t].left \ {q} = {} => w = g
    BY <1>5, <1>7, <2>3 DEF Fine, InParts
  <2>5. call[t].alone => reg_list[id] = Packed(call[t])
    BY <1>1 DEF WrittenInv, Wrote
  <2>6. Wrote(t)'
    BY <1>1, <1>6, <1>9, <1>10, <2>3, <2>4, <2>5 DEF Wrote
  <2> QED
    BY <2>1, <2>6 DEF WrittenInv
<1>16. SettledInv'
  <2>1. id \notin DOMAIN settled
    BY <1>1 DEF SettledInv
  <2>2. \A i \in DOMAIN settled : i \in Ids \ {id} /\ Content(i)' = Content(i)
    BY <1>1, <1>9, <2>1 DEF SettledInv, Content
  <2> QED
    BY <1>1, <1>10, <2>1, <2>2 DEF SettledInv
<1> QED
  BY <1>11, <1>12, <1>13, <1>14, <1>15, <1>16

LEMMA PutYamlKeeps ==
  ASSUME IInv, NEW t \in Threads, PutYaml(t)
  PROVE  IInv'
<1> USE DEF IInv
<1> DEFINE id == call[t].id
           e == Packed(call[t])
           old == IF id \in DOMAIN param THEN param[id].value ELSE Split(Fresh(Kind))
<1>1. /\ call[t].pc = "yaml"
      /\ call' = [call EXCEPT ![t] = [@ EXCEPT !.pc = "yaml_value", !.left = Parts]]
      /\ UNCHANGED <<reg_list, data_list, file, up, settled>>
      /\ param' = Put(param, id, Saved(e, old))
  BY DEF PutYaml
<1>2. Busy(t) /\ call[t] \in Calls /\ up = "up"
  BY <1>1, BusyCall DEF CallInv
<1>3. id \in Ids /\ e \in Entries
  BY <1>1, <1>2, PackedEntry DEF CallInv
<1>4. Fine(old)
  BY OwnValuesFine DEF FileInv, SavedRegs
<1>5. /\ call' \in [Threads -> {Idle} \cup Calls]
      /\ \A u \in Threads \ {t} : call'[u] = call[u]
      /\ call'[t].pc = "yaml_value" /\ call'[t].left = Parts
      /\ call'[t].id = id /\ call'[t].op = call[t].op
      /\ call'[t].value = call[t].value /\ call'[t].alone = call[t].alone
      /\ Packed(call'[t]) = e
      /\ Target(call'[t], data_list[id]) = Target(call[t], data_list[id])
      /\ \A u \in Threads : Busy(u)' <=> Busy(u)
  <2>1. Went(t, "yaml_value", Parts)
    BY <1>1, <1>2, NextPlace
  <2> HIDE DEF old
  <2> QED
    BY <2>1 DEF Went
<1> HIDE DEF e, old
<1>6. /\ SavedRegs(param') /\ id \in DOMAIN param' /\ param'[id] = Saved(e, old)
      /\ \A i \in DOMAIN param : i # id => i \in DOMAIN param' /\ param'[i] = param[i]
  BY <1>1, <1>3, <1>4, PutSaved DEF FileInv
<1>7. MemoryInv'
  BY <1>1 DEF MemoryInv
<1>8. FileInv'
  BY <1>1, <1>2, <1>6 DEF FileInv, SavedRegs
<1>9. CallInv'
  BY <1>1, <1>3, <1>5 DEF CallInv
<1>10. AloneInv'
  BY <1>5 DEF AloneInv
<1>11. WrittenInv'
  <2>1. \A u \in Threads \ {t} : Wrote(u)'
    BY <1>1, <1>2, <1>5, <1>6, WroteStays
  <2>2. call[t].alone => reg_list[id] = e /\ data_list[id] = Target(call[t], data_list[id])
    BY <1>1 DEF WrittenInv, Wrote, e
  <2>3. param'[id] = Saved(e, param'[id].value)
    BY <1>6 DEF Saved
  <2>4. Wrote(t)'
    BY <1>1, <1>5, <1>6, <2>2, <2>3 DEF Wrote
  <2> QED
    BY <2>1, <2>4 DEF WrittenInv
<1>12. SettledInv'
  <2>1. id \notin DOMAIN settled
    BY <1>1 DEF SettledInv
  <2> QED
    BY <1>1, <1>2, <1>5, <1>6, <2>1 DEF SettledInv, Content
<1> QED
  BY <1>7, <1>8, <1>9, <1>10, <1>11, <1>12

LEMMA PutYamlValueKeeps ==
  ASSUME IInv, NEW t \in Threads, PutYamlValue(t)
  PROVE  IInv'
<1> USE DEF IInv
<1> DEFINE id == call[t].id
           f == data_list[id]
           e == Packed(call[t])
<1>1. call[t].pc = "yaml_value" /\ UNCHANGED <<reg_list, data_list, file, up, settled>>
  BY DEF PutYamlValue
<1>2. Busy(t) /\ call[t] \in Calls /\ up = "up" /\ id \in Ids
  BY <1>1, BusyCall DEF CallInv
<1>3. PICK q \in call[t].left :
        param' = [param EXCEPT ![id].value[q] = f[q]] /\ Done(t, q, "dump")
  BY DEF PutYamlValue
<1>4. q \in Parts /\ Fine(f)
  BY <1>2, <1>3 DEF Calls, MemoryInv
<1> DEFINE p == IF call[t].left \ {q} = {} THEN "dump" ELSE "yaml_value"
           w == [param[id].value EXCEPT ![q] = f[q]]
<1>5. /\ call' \in [Threads -> {Idle} \cup Calls]
      /\ \A u \in Threads \ {t} : call'[u] = call[u]
      /\ call'[t].pc = p /\ call'[t].left = call[t].left \ {q}
      /\ call'[t].id = id /\ call'[t].op = call[t].op
      /\ call'[t].value = call[t].value /\ call'[t].alone = call[t].alone
      /\ Packed(call'[t]) = e
      /\ Target(call'[t], f) = Target(call[t], f)
      /\ \A u \in Threads : Busy(u)' <=> Busy(u)
  <2>1. Went(t, p, call[t].left \ {q})
    BY <1>1, <1>2, <1>3, DoneIs
  <2> HIDE DEF p
  <2> QED
    BY <2>1 DEF Went
<1> HIDE DEF e
<1>6. /\ SavedRegs(param') /\ DOMAIN param' = DOMAIN param
      /\ \A i \in DOMAIN param : i # id => param'[i] = param[i]
      /\ id \in DOMAIN param => param'[id] = Saved(param[id], w)
  <2>1. CASE id \in DOMAIN param
    <3> DEFINE r == [param[id] EXCEPT !.value = w]
    <3>1. param' = [param EXCEPT ![id] = r]
      BY <1>3
    <3>2. Fine(param[id].value)
      BY <2>1 DEF FileInv, SavedRegs
    <3>3. Fine(w)
      BY <1>4, <3>2, PartFine
    <3> HIDE DEF w
    <3>4. param[id] = [is_valid |-> param[id].is_valid, comment |-> param[id].comment,
                       value |-> param[id].value]
      BY <2>1 DEF FileInv, SavedRegs
    <3>5. r = Saved(param[id], w)
      BY ONLY <3>4 DEF Saved
    <3> HIDE DEF r
    <3>6. /\ DOMAIN param' = DOMAIN param /\ param'[id] = r
          /\ \A i \in DOMAIN param : i # id => param'[i] = param[i]
      BY ONLY <2>1, <3>1
    <3>7. SavedRegs(param')
      BY <2>1, <3>3, <3>5, <3>6, ValueSaved DEF FileInv
    <3> QED
      BY <3>5, <3>6, <3>7
  <2>2. CASE id \notin DOMAIN param
    <3>1. DOMAIN param' = DOMAIN param /\ \A i \in DOMAIN param : param'[i] = param[i]
      BY <2>2, <1>3
    <3> QED
      BY <2>2, <3>1 DEF FileInv, SavedRegs
  <2> QED
    BY <2>1, <2>2
<1>7. MemoryInv'
  BY <1>1 DEF MemoryInv
<1>8. FileInv'
  BY <1>1, <1>2, <1>6 DEF FileInv, SavedRegs
<1>9. CallInv'
  BY <1>1, <1>2, <1>5 DEF CallInv
<1>10. AloneInv'
  BY <1>5 DEF AloneInv
<1>11. WrittenInv'
  <2>1. \A u \in Threads \ {t} : Wrote(u)'
    BY <1>1, <1>2, <1>5, <1>6, WroteStays
  <2>2. ASSUME call[t].alone PROVE Wrote(t)'
    <3>1. /\ reg_list[id] = e /\ f = Target(call[t], f)
          /\ id \in DOMAIN param /\ param[id] = Saved(e, param[id].value)
          /\ \A r \in Parts \ call[t].left : param[id].value[r] = f[r]
      BY <2>2, <1>1 DEF WrittenInv, Wrote, e
    <3>2. Fine(param[id].value)
      BY <3>1 DEF FileInv, SavedRegs
    <3>3. Fine(w) /\ w[q] = f[q] /\ \A r \in Parts \ {q} : w[r] = param[id].value[r]
      BY <1>4, <3>2, PartFine
    <3> HIDE DEF w
    <3>4. param'[id] = Saved(e, w) /\ param'[id].value = w
      BY <1>6, <3>1 DEF Saved
    <3>5. \A r \in Parts \ (call[t].left \ {q}) : w[r] = f[r]
      BY <3>1, <3>3
    <3>6. call[t].left \ {q} = {} => w = f
      BY <1>4, <3>3, <3>5 DEF Fine, InParts
    <3> QED
      BY <1>1, <1>5, <1>6, <3>1, <3>4, <3>5, <3>6 DEF Wrote
  <2>3. Wrote(t)'
    BY <1>5, <2>2 DEF Wrote
  <2> QED
    BY <2>1, <2>3 DEF WrittenInv
<1>12. SettledInv'
  <2>1. id \notin DOMAIN settled
    BY <1>1 DEF SettledInv
  <2> QED
    BY <1>1, <1>2, <1>5, <1>6, <2>1 DEF SettledInv, Content
<1> QED
  BY <1>7, <1>8, <1>9, <1>10, <1>11, <1>12

LEMMA DumpKeeps ==
  ASSUME IInv, NEW t \in Threads, Dump(t)
  PROVE  IInv'
<1> USE DEF IInv
<1> DEFINE id == call[t].id
           g == Target(call[t], data_list[id])
           done == Saved(Packed(call[t]), g)
<1>1. /\ call[t].pc = "dump" /\ call' = [call EXCEPT ![t] = Idle]
      /\ UNCHANGED <<reg_list, data_list, param, up>>
      /\ file' = [file EXCEPT !.regs = param]
      /\ settled' = IF call[t].alone THEN Put(settled, id, done) ELSE settled
  BY DEF Dump, NewValue, Target
<1>0. UNCHANGED <<reg_list, data_list, param>>
  BY <1>1
<1>2. Busy(t) /\ call[t] \in Calls /\ up = "up" /\ id \in Ids
  BY <1>1, BusyCall DEF CallInv
<1>3. call'[t] = Idle /\ \A u \in Threads \ {t} : call'[u] = call[u]
  BY <1>1, OthersStay
<1>4. Idle.pc = "idle"
  BY DEF Idle
<1>5. file'.regs = param /\ file'.exists = file.exists /\ file' \in [exists : BOOLEAN, regs : {param}]
  BY <1>1 DEF FileInv
<1>6. file.exists
  BY <1>2 DEF FileInv
<1>7. MemoryInv'
  BY <1>1 DEF MemoryInv
<1>8. FileInv'
  BY <1>1, <1>2, <1>5, <1>6 DEF FileInv, SavedRegs
<1>9. CallInv'
  <2>1. call' \in [Threads -> {Idle} \cup Calls]
    BY <1>1 DEF CallInv
  <2> QED
    BY <2>1, <1>1, <1>3, <1>4 DEF CallInv, Busy
<1>10. AloneInv'
  BY <1>3, <1>4 DEF AloneInv, Busy
<1>11. WrittenInv'
  <2>1. \A u \in Threads : call'[u].pc \in {"value", "yaml", "yaml_value", "dump"} /\ call'[u].alone =>
          call'[u] = call[u]
    BY <1>3, <1>4
  <2> QED
    BY <1>0, <2>1, WroteNothing
<1>12. call[t].alone =>
         id \in DOMAIN param /\ param[id] = done /\ Content(id) = done
  <2> SUFFICES ASSUME call[t].alone
               PROVE  id \in DOMAIN param /\ param[id] = done /\ Content(id) = done
    OBVIOUS
  <2>1. /\ reg_list[id] = Packed(call[t]) /\ data_list[id] = g
        /\ id \in DOMAIN param /\ param[id] = Saved(Packed(call[t]), param[id].value)
        /\ param[id].value = data_list[id]
    BY <1>1 DEF WrittenInv, Wrote
  <2> HIDE DEF g
  <2> QED
    BY <2>1 DEF Content
<1>15. ~Refused(done.value)
  <2>1. ~Refused(g)
    BY <1>1, TargetOfCall
  <2> HIDE DEF g
  <2> QED
    BY <2>1 DEF Saved
<1> HIDE DEF done, g
<1>13. call[t].alone => \A u \in Threads \ {t} : Busy(u) => call[u].id # id
  BY <1>2 DEF AloneInv
<1>14. SettledInv'
  <2>1. CASE call[t].alone
    <3>1. /\ DOMAIN settled' = DOMAIN settled \cup {id} /\ settled'[id] = done
          /\ \A i \in DOMAIN settled : i # id => settled'[i] = settled[i]
      BY <2>1, <1>1 DEF Put
    <3>2. \A u \in Threads : call'[u].pc \in {"value", "yaml", "yaml_value", "dump"} =>
            call'[u] = call[u] /\ call[u].id # id
      BY <2>1, <1>3, <1>4, <1>13, BusyCall
    <3>3. \A i \in Ids : Content(i)' = Content(i)
      BY <1>1 DEF Content
    <3> QED
      BY <2>1, <1>1, <1>2, <1>5, <1>12, <1>15, <3>1, <3>2, <3>3 DEF SettledInv
  <2>2. CASE ~call[t].alone
    BY <2>2, <1>1, <1>2, <1>3, <1>4, <1>5 DEF SettledInv, Content
  <2> QED
    BY <2>1, <2>2
<1> QED
  BY <1>7, <1>8, <1>9, <1>10, <1>11, <1>14

LEMMA DumpFailsKeeps ==
  ASSUME IInv, NEW t \in Threads, DumpFails(t)
  PROVE  IInv'
<1> USE DEF IInv
<1> DEFINE c == Answer(t, call[t])
<1>1. /\ UNCHANGED <<reg_list, data_list, param, file, up, settled>> /\ call[t].pc = "dump"
      /\ call' = [call EXCEPT ![t] = c]
  BY DEF DumpFails
<1>0. UNCHANGED <<reg_list, data_list, param>>
  BY <1>1
<1>2. call[t] \in Calls
  BY <1>1, BusyCall
<1>3. call'[t] = c /\ \A u \in Threads \ {t} : call'[u] = call[u]
  BY <1>1, OthersStay
<1>4. \/ c = Idle
      \/ c \in Calls /\ c.pc = "check" /\ c.id = call[t].id /\ c.alone = call[t].alone
  BY <1>2 DEF Answer, Calls, Ops
<1>5. Idle.pc = "idle"
  BY DEF Idle
<1> HIDE DEF c
<1>6. CallInv'
  <2>1. call' \in [Threads -> {Idle} \cup Calls]
    BY <1>1, <1>4 DEF CallInv
  <2>2. up' = "up"
    BY <1>1 DEF CallInv, Busy
  <2> QED
    BY <2>1, <2>2, <1>3, <1>4, <1>5 DEF CallInv, Busy
<1>7. AloneInv'
  BY <1>1, <1>3, <1>4, <1>5 DEF AloneInv, Busy
<1>8. WrittenInv'
  <2>1. \A u \in Threads : call'[u].pc \in {"value", "yaml", "yaml_value", "dump"} /\ call'[u].alone =>
          call'[u] = call[u]
    BY <1>3, <1>4, <1>5
  <2> QED
    BY <1>0, <2>1, WroteNothing
<1>9. SettledInv'
  BY <1>1, <1>3, <1>4, <1>5 DEF SettledInv, Content
<1>10. MemoryInv' /\ FileInv'
  BY <1>1 DEF MemoryInv, FileInv
<1> QED
  BY <1>6, <1>7, <1>8, <1>9, <1>10

LEMMA StepKeeps ==
  ASSUME IInv, [Next]_vars
  PROVE  IInv'
<1>1. CASE UNCHANGED vars
  <2>1. MemoryInv' /\ FileInv'
    BY <1>1 DEF vars, IInv, MemoryInv, FileInv
  <2>2. CallInv' /\ AloneInv'
    BY <1>1 DEF vars, IInv, CallInv, AloneInv, Busy
  <2>3. WrittenInv'
    <3>1. UNCHANGED <<reg_list, data_list, param>> /\ \A t \in Threads : call'[t] = call[t]
      BY <1>1 DEF vars
    <3> QED
      BY <3>1, WroteNothing DEF IInv
  <2>4. SettledInv'
    BY <1>1 DEF vars, IInv, SettledInv, Content
  <2> QED
    BY <2>1, <2>2, <2>3, <2>4 DEF IInv
<1>2. ASSUME NEW t \in Threads, NEW d \in Writes, SetReg(t, d.id, d.comment, d.value)
      PROVE  IInv'
  <2>1. d.id \in CallIds /\ d.comment \in Texts /\ Split(d.value) \in CallValues
    BY DEF CallIds, Texts, CallValues
  <2>2. Begin(t, "set", d.id, d.comment, d.value)
    BY <1>2 DEF SetReg
  <2>3. "set" \in Ops
    BY DEF Ops
  <2> QED
    BY <2>1, <2>2, <2>3, BeginKeeps
<1>3. ASSUME NEW t \in Threads, NEW id \in Deletes, DeleteReg(t, id)
      PROVE  IInv'
  <2>1. id \in CallIds /\ <<>> \in Texts /\ Split(Created(Kind)) \in CallValues
    BY DEF CallIds, Texts, CallValues
  <2>2. Begin(t, "delete", id, <<>>, Created(Kind))
    BY <1>3 DEF DeleteReg
  <2>3. "delete" \in Ops
    BY DEF Ops
  <2> QED
    BY <2>1, <2>2, <2>3, BeginKeeps
<1>4. ASSUME NEW t \in Threads,
             \/ Check(t) \/ PutEntry(t) \/ PutValue(t) \/ PutYaml(t) \/ PutYamlValue(t)
             \/ Dump(t) \/ DumpFails(t)
      PROVE  IInv'
  BY <1>4, CheckKeeps, PutEntryKeeps, PutValueKeeps, PutYamlKeeps, PutYamlValueKeeps,
     DumpKeeps, DumpFailsKeeps
<1>5. CASE Start \/ CreateYaml \/ ReadAllRegDataFromYaml \/ ReadMissing \/ Die
  BY <1>5, StartKeeps, CreateYamlKeeps, ReadKeeps, ReadMissingKeeps, DieKeeps
<1> QED
  BY <1>1, <1>2, <1>3, <1>4, <1>5 DEF Next

\* The inductive invariant of the register file.
THEOREM StoreInvariance == Spec => []IInv
<1>1. Init => IInv
  BY InitInv
<1>2. IInv /\ [Next]_vars => IInv'
  BY StepKeeps
<1> QED
  BY <1>1, <1>2, PTL DEF Spec

\* The types, for every class, all ids and any number of threads.
THEOREM StoreTypeCorrect == Spec => []TypeOK
<1>1. IInv => TypeOK
  BY DEF IInv, TypeOK, MemoryInv, Fine, InParts, FileInv, SavedRegs, CallInv, SettledInv
<1> QED
  BY <1>1, StoreInvariance, PTL

\* What a call alone on its register reported as done lasts: neither a failed dump, nor
\* the calls on other registers, nor the end of the process takes it back.
THEOREM StoreIsDurable == Spec => []Durable
<1>1. IInv => Durable
  BY DEF IInv, Durable, SettledInv
<1> QED
  BY <1>1, StoreInvariance, PTL

\* What is settled is admitted by its class.  In every class but PR so is everything that
\* memory and the file hold, the mixtures included that calls that meet leave behind.
THEOREM StoredInLimit == Spec => []ValuesInLimit
<1>1. ASSUME IInv PROVE ValuesInLimit
  <2>1. \A id \in DOMAIN settled : ~Refused(settled[id].value)
    BY <1>1 DEF IInv, SettledInv
  <2>2. ASSUME Kind # "PR"
        PROVE  /\ \A id \in Ids : ~Refused(data_list[id])
               /\ \A id \in DOMAIN file.regs : ~Refused(file.regs[id].value)
    <3>1. \A f : Fine(f) => ~Refused(f)
      BY <2>2, RefusedIs DEF Fine
    <3> QED
      BY <1>1, <3>1 DEF IInv, MemoryInv, FileInv, SavedRegs
  <2> QED
    BY <2>1, <2>2 DEF ValuesInLimit
<1> QED
  BY <1>1, StoreInvariance, PTL

=============================================================================
