-------------------------- MODULE BasicNestingProofs --------------------------
(***************************************************************************)
(* In tidy programs the frames of selcyclstack are the blocks around the   *)
(* statement and around the pending calls, whatever the program, the depth *)
(* of its blocks and of its calls.                                         *)
(***************************************************************************)
EXTENDS BasicFlowProofs, FiniteSetTheorems

-----------------------------------------------------------------------------
(* Words. *)

LEMMA Words ==
  /\ Openers = {"IF", "FOR", "WHILE", "LOOP", "SELECT"}
  /\ Close["IF"] = "ENDIF" /\ Close["FOR"] = "NEXT" /\ Close["WHILE"] = "WEND"
  /\ Close["LOOP"] = "ENDLOOP" /\ Close["SELECT"] = "ENDSELECT"
BY DEF Openers, Close

\* A closing word closes blocks of one kind and opens none.
LEMMA CloseWords ==
  ASSUME NEW k \in Openers, NEW o \in Openers
  PROVE  /\ Close[k] \notin Openers
         /\ Close[k] = Close[o] => k = o
BY Words

Text(p) == p \in Program /\ BlocksNest(p)

Opens(p, l) == l \in DOMAIN p /\ p[l].op \in Openers

LEMMA Lines ==
  ASSUME NEW p, Text(p)
  PROVE  /\ Len(p) \in Nat /\ DOMAIN p = 1 .. Len(p)
         /\ \A l \in DOMAIN p : Op(p, l) = p[l].op /\ p[l].op \in Ops
         /\ \A l : l \notin DOMAIN p => Op(p, l) = "FINISHED"
<1>1. p \in Seq(Line)
  BY DEF Text, Program
<1>2. \A l \in DOMAIN p : p[l] \in Line
  BY <1>1
<1>3. \A l \in DOMAIN p : p[l].op \in Ops
  BY <1>2 DEF Line
<1> QED BY <1>1, <1>3 DEF Op

LEMMA MinLeast ==
  ASSUME NEW S \in SUBSET Nat, NEW y \in S
  PROVE  Min(S) \in S /\ Min(S) <= y
BY Least DEF Min

LEMMA MaxGreatest ==
  ASSUME NEW n \in Nat, NEW S \in SUBSET (1 .. n), NEW y \in S
  PROVE  Max(S) \in S /\ y <= Max(S)
<1> DEFINE T == {n - x : x \in S}
<1>1. T \in SUBSET Nat /\ T # {}
  <2>1. \A x \in S : n - x \in Nat
    OBVIOUS
  <2> QED BY <2>1
<1>2. \E t \in T : \A z \in T : t <= z
  <2> HIDE DEF T
  <2> QED BY <1>1, Least
<1>3. PICK m \in S : \A z \in S : n - m <= n - z
  BY <1>2
<1>4. \A z \in S : m >= z
  BY <1>3
<1> QED BY <1>4 DEF Max

-----------------------------------------------------------------------------
(* The blocks of a text. *)

\* The end of a block.
LEMMA BlockEnd ==
  ASSUME NEW p, Text(p), NEW k, Opens(p, k)
  PROVE  /\ k \in Nat /\ EndOf(p, k) \in Nat /\ Len(p) \in Nat
         /\ 1 <= k /\ k < EndOf(p, k) /\ EndOf(p, k) <= Len(p)
         /\ Op(p, EndOf(p, k)) = Close[p[k].op]
         /\ Level(p, p[k].op, k + 1, EndOf(p, k)) = 0
         /\ \A m \in Outside(p, {Close[p[k].op]}, p[k].op, k) : EndOf(p, k) <= m
<1> DEFINE S == Outside(p, {Close[p[k].op]}, p[k].op, k)
<1>1. Len(p) \in Nat /\ k \in 1 .. Len(p) /\ Op(p, k) = p[k].op
  BY Lines DEF Opens
<1>2. S \in SUBSET Nat /\ EndOf(p, k) = Min(S)
  BY <1>1 DEF Outside, EndOf
<1>3. S # {}
  BY <1>1 DEF Text, BlocksNest, Opens, Closed
<1>4. Min(S) \in S /\ \A m \in S : Min(S) <= m
  <2> HIDE DEF S
  <2> QED BY <1>2, <1>3, MinLeast
<1>5. /\ Min(S) \in k + 1 .. Len(p) /\ Op(p, Min(S)) = Close[p[k].op]
      /\ Level(p, p[k].op, k + 1, Min(S)) = 0
  <2> DEFINE m == Min(S)
  <2>1. m \in S
    BY <1>4
  <2> HIDE DEF m
  <2> QED BY <2>1 DEF Outside, m
<1>6. EndOf(p, k) \in k + 1 .. Len(p)
  BY <1>2, <1>5
<1>7. EndOf(p, k) \in Nat /\ k < EndOf(p, k) /\ EndOf(p, k) <= Len(p)
  BY <1>1, <1>6
<1>8. \A m \in Outside(p, {Close[p[k].op]}, p[k].op, k) : EndOf(p, k) <= m
  BY <1>2, <1>4
<1>9. Op(p, EndOf(p, k)) = Close[p[k].op] /\ Level(p, p[k].op, k + 1, EndOf(p, k)) = 0
  BY <1>2, <1>5
<1>10. k \in Nat /\ 1 <= k
  BY <1>1
<1> QED
  <2> HIDE DEF S
  <2> QED BY ONLY <1>1, <1>7, <1>8, <1>9, <1>10, Zenon

\* A block inside of another one ends before it.
LEMMA InnerEnd ==
  ASSUME NEW p, Text(p), NEW k, NEW l, Opens(p, k), Opens(p, l), k < l, l < EndOf(p, k)
  PROVE  EndOf(p, l) < EndOf(p, k)
BY DEF Text, BlocksNest, Opens

LEMMA IsHead ==
  ASSUME NEW p, Text(p), NEW l \in Nat, NEW k
  PROVE  k \in Heads(p, l) <=> Opens(p, k) /\ k < l /\ l <= EndOf(p, k)
<1>1. ASSUME Opens(p, k) PROVE Closed(p, k) /\ EndOf(p, k) \in Nat /\ k \in Nat
  <2>1. Closed(p, k)
    BY <1>1 DEF Text, BlocksNest, Opens
  <2> QED BY <1>1, <2>1, BlockEnd, Lines
<1> QED BY <1>1 DEF Heads, Around, Block, Opens

LEMMA HeadsAreLines ==
  ASSUME NEW p, Text(p), NEW l
  PROVE  Heads(p, l) \in SUBSET (1 .. Len(p)) /\ Len(p) \in Nat
BY Lines DEF Heads, Around

\* Behind the line of an opening word there is one block more.
LEMMA BehindOpener ==
  ASSUME NEW p, Text(p), NEW l, Opens(p, l)
  PROVE  Heads(p, l + 1) = Heads(p, l) \cup {l}
<1>1. l \in Nat /\ l + 1 \in Nat /\ l < l + 1 /\ l + 1 <= EndOf(p, l)
  <2>1. l \in Nat /\ EndOf(p, l) \in Nat /\ l < EndOf(p, l)
    BY BlockEnd
  <2> QED BY <2>1
<1>2. ASSUME NEW k, Opens(p, k) PROVE k \in Nat /\ EndOf(p, k) \in Nat /\ EndOf(p, k) # l
  <2>1. k \in Nat /\ EndOf(p, k) \in Nat /\ Op(p, EndOf(p, k)) = Close[p[k].op]
    BY <1>2, BlockEnd, Lines
  <2>2. Close[p[k].op] \notin Openers /\ Op(p, l) \in Openers
    BY <1>2, CloseWords DEF Opens, Op
  <2> QED BY <2>1, <2>2
<1>3. ASSUME NEW k PROVE k \in Heads(p, l + 1) <=> k \in Heads(p, l) \/ k = l
  <2>1. k \in Heads(p, l) <=> Opens(p, k) /\ k < l /\ l <= EndOf(p, k)
    BY <1>1, IsHead
  <2>2. k \in Heads(p, l + 1) <=> Opens(p, k) /\ k < l + 1 /\ l + 1 <= EndOf(p, k)
    BY <1>1, IsHead
  <2> QED BY <1>1, <1>2, <2>1, <2>2
<1> QED BY <1>3

\* Behind that of a word that neither opens nor closes there are the same.
LEMMA BehindPlain ==
  ASSUME NEW p, Text(p), NEW l \in Nat, Op(p, l) \notin Openers,
         \A o \in Openers : Op(p, l) # Close[o]
  PROVE  Heads(p, l + 1) = Heads(p, l)
<1>2. ASSUME NEW k, Opens(p, k)
      PROVE  k \in Nat /\ EndOf(p, k) \in Nat /\ EndOf(p, k) # l /\ k # l
  <2>1. k \in Nat /\ EndOf(p, k) \in Nat /\ Op(p, EndOf(p, k)) = Close[p[k].op]
    BY <1>2, BlockEnd, Lines
  <2>2. p[k].op \in Openers /\ Op(p, k) = p[k].op
    BY <1>2 DEF Opens, Op
  <2> QED BY <2>1, <2>2
<1>3. ASSUME NEW k PROVE k \in Heads(p, l + 1) <=> k \in Heads(p, l)
  <2>1. k \in Heads(p, l) <=> Opens(p, k) /\ k < l /\ l <= EndOf(p, k)
    BY IsHead
  <2>2. k \in Heads(p, l + 1) <=> Opens(p, k) /\ k < l + 1 /\ l + 1 <= EndOf(p, k)
    BY IsHead
  <2> QED BY <1>2, <2>1, <2>2
<1> QED BY <1>3

\* The blocks around an inner block are those around what is in it.
LEMMA Below ==
  ASSUME NEW p, Text(p), NEW m \in Nat, NEW k \in Heads(p, m)
  PROVE  /\ Opens(p, k) /\ k \in Nat /\ k \notin Heads(p, k)
         /\ {x \in Heads(p, m) : x < k} = Heads(p, k)
<1>1. Opens(p, k) /\ k < m /\ m <= EndOf(p, k)
  BY IsHead
<1>2. k \in Nat /\ EndOf(p, k) \in Nat /\ Op(p, k) \in Openers
  BY <1>1, BlockEnd, Lines DEF Opens, Op
<1>3. ASSUME NEW x PROVE x \in Heads(p, m) /\ x < k <=> x \in Heads(p, k)
  <2>1. x \in Heads(p, m) <=> Opens(p, x) /\ x < m /\ m <= EndOf(p, x)
    BY IsHead
  <2>2. x \in Heads(p, k) <=> Opens(p, x) /\ x < k /\ k <= EndOf(p, x)
    BY <1>2, IsHead
  <2>3. ASSUME Opens(p, x)
        PROVE  /\ x \in Nat /\ EndOf(p, x) \in Nat /\ EndOf(p, x) # k
               /\ x < k /\ k < EndOf(p, x) => EndOf(p, k) < EndOf(p, x)
    <3>1. x \in Nat /\ EndOf(p, x) \in Nat /\ Op(p, EndOf(p, x)) = Close[p[x].op]
      BY <2>3, BlockEnd, Lines
    <3>2. Close[p[x].op] \notin Openers
      BY <2>3, CloseWords DEF Opens
    <3> QED BY <1>1, <1>2, <2>3, <3>1, <3>2, InnerEnd
  <2> QED BY <1>1, <1>2, <2>1, <2>2, <2>3
<1>4. k \notin Heads(p, k)
  BY <1>2 DEF Heads
<1> QED BY <1>1, <1>2, <1>3, <1>4

\* They are those around the innermost one, and itself.
LEMMA Innermost ==
  ASSUME NEW p, Text(p), NEW m \in Nat, Heads(p, m) # {}
  PROVE  LET k == Max(Heads(p, m)) IN
         /\ k \in Heads(p, m) /\ \A x \in Heads(p, m) : x <= k
         /\ Heads(p, m) = Heads(p, k) \cup {k}
<1> DEFINE k == Max(Heads(p, m))
<1>1. k \in Heads(p, m) /\ \A x \in Heads(p, m) : x <= k
  BY HeadsAreLines, MaxGreatest
<1>2. {x \in Heads(p, m) : x < k} = Heads(p, k)
  BY <1>1, Below
<1>3. \A x \in Heads(p, m) : x \in Nat
  BY HeadsAreLines
<1> QED
  <2> HIDE DEF k
  <2> QED BY <1>1, <1>2, <1>3 DEF k

LEMMA MaxIs ==
  ASSUME NEW p, Text(p), NEW m \in Nat, NEW k \in Heads(p, m), \A x \in Heads(p, m) : x <= k
  PROVE  Max(Heads(p, m)) = k
<1>1. Max(Heads(p, m)) \in Heads(p, m) /\ k <= Max(Heads(p, m))
  BY HeadsAreLines, MaxGreatest
<1>2. \A x \in Heads(p, m) : x \in Nat
  BY HeadsAreLines
<1> QED BY <1>1, <1>2

\* The end of a block is inside of it and of those around it, and no others.
LEMMA AtEnd ==
  ASSUME NEW p, Text(p), NEW k, Opens(p, k)
  PROVE  LET e == EndOf(p, k) IN
         /\ e \in Nat /\ k \in Heads(p, e) /\ Max(Heads(p, e)) = k
         /\ Heads(p, e) = Heads(p, k) \cup {k}
         /\ Heads(p, e + 1) = Heads(p, k)
<1> DEFINE e == EndOf(p, k)
<1>1. k \in Nat /\ e \in Nat /\ k < e
  BY BlockEnd, Lines
<1>2. k \in Heads(p, e)
  BY <1>1, IsHead
<1>3. ASSUME NEW x \in Heads(p, e) PROVE x <= k
  <2>1. Opens(p, x) /\ x < e /\ e <= EndOf(p, x)
    BY <1>1, IsHead
  <2>2. x \in Nat /\ EndOf(p, x) \in Nat
    BY <2>1, BlockEnd, Lines
  <2>3. ~(k < x)
    BY <1>1, <2>1, <2>2, InnerEnd
  <2> QED BY <1>1, <2>2, <2>3
<1>4. Max(Heads(p, e)) = k
  BY <1>1, <1>2, <1>3, MaxIs
<1>5. Heads(p, e) = Heads(p, k) \cup {k}
  BY <1>1, <1>2, <1>4, Innermost
<1>6. ASSUME NEW x PROVE x \in Heads(p, e + 1) <=> x \in Heads(p, e) /\ x # k
  <2>1. x \in Heads(p, e) <=> Opens(p, x) /\ x < e /\ e <= EndOf(p, x)
    BY <1>1, IsHead
  <2>2. x \in Heads(p, e + 1) <=> Opens(p, x) /\ x < e + 1 /\ e + 1 <= EndOf(p, x)
    BY <1>1, IsHead
  <2>3. ASSUME Opens(p, x), x # k PROVE x # e /\ EndOf(p, x) # e
    <3>1. x \in Nat /\ EndOf(p, x) \in Nat
      BY <2>3, BlockEnd, Lines
    <3>2. Op(p, e) = Close[p[k].op] /\ Op(p, x) \in Openers
      BY <2>3, BlockEnd DEF Opens, Op
    <3>3. Close[p[k].op] \notin Openers
      BY CloseWords DEF Opens
    <3>4. ASSUME EndOf(p, x) = e PROVE FALSE
      <4>1. x < e
        BY <2>3, <3>1, <3>4, BlockEnd, Lines
      <4>2. k < x => FALSE
        BY <1>1, <2>3, <3>1, <3>4, <4>1, InnerEnd
      <4>3. x < k => FALSE
        BY <1>1, <2>3, <3>1, <3>4, InnerEnd
      <4> QED BY <1>1, <2>3, <3>1, <4>2, <4>3
    <3> QED BY <3>2, <3>3, <3>4
  <2>4. Opens(p, x) => x \in Nat /\ EndOf(p, x) \in Nat
    BY BlockEnd, Lines
  <2> QED BY <1>1, <2>1, <2>2, <2>3, <2>4
<1>7. k \notin Heads(p, k)
  BY <1>1, <1>2, Below
<1> QED BY <1>1, <1>2, <1>4, <1>5, <1>6, <1>7

\* A closing word ends the innermost block.
LEMMA AtCloser ==
  ASSUME NEW p, Text(p), NEW l \in DOMAIN p, NEW o \in Openers, p[l].op = Close[o]
  PROVE  LET k == Max(Heads(p, l)) IN
         Heads(p, l) # {} /\ Opens(p, k) /\ EndOf(p, k) = l /\ p[k].op = o
<1>1. PICK k : Opens(p, k) /\ l = EndOf(p, k)
  BY DEF Text, BlocksNest, Opens
<1>2. Max(Heads(p, l)) = k /\ k \in Heads(p, l)
  BY <1>1, AtEnd
<1>3. Close[p[k].op] = Close[o] /\ p[k].op \in Openers
  BY <1>1, BlockEnd DEF Op, Opens
<1> QED BY <1>1, <1>2, <1>3, CloseWords
-----------------------------------------------------------------------------
(* How many blocks of a kind are opened and not closed between two lines. *)

Standing(p, w, l, m) == {k \in l .. m - 1 : Op(p, k) = w}

LEMMA Counted ==
  ASSUME NEW p, NEW w, NEW l \in Nat, NEW m \in Nat
  PROVE  /\ IsFiniteSet(Standing(p, w, l, m))
         /\ Cardinality(Standing(p, w, l, m)) \in Nat
<1>1. IsFiniteSet(l .. m - 1)
  BY FS_Interval
<1> QED BY <1>1, FS_Subset, FS_CardinalityType DEF Standing

LEMMA CountedTwice ==
  ASSUME NEW p, NEW w, NEW a \in Nat, NEW b \in Nat, NEW c \in Nat, a <= b, b <= c
  PROVE  Cardinality(Standing(p, w, a, c))
           = Cardinality(Standing(p, w, a, b)) + Cardinality(Standing(p, w, b, c))
<1> DEFINE A == Standing(p, w, a, b)
           B == Standing(p, w, b, c)
<1>1. A \cup B = Standing(p, w, a, c) /\ A \cap B = {}
  BY DEF Standing
<1>2. IsFiniteSet(A) /\ IsFiniteSet(B) /\ Cardinality(A) \in Nat /\ Cardinality(B) \in Nat
  BY Counted
<1>3. Cardinality(A \cup B) = Cardinality(A) + Cardinality(B) - Cardinality(A \cap B)
  <2> HIDE DEF A, B
  <2> QED BY <1>2, FS_Union
<1>4. Cardinality(A \cap B) = 0
  BY <1>1, FS_EmptySet
<1>5. Cardinality(A \cup B) = Cardinality(A) + Cardinality(B)
  <2> HIDE DEF A, B
  <2> QED BY <1>2, <1>3, <1>4
<1> QED BY <1>1, <1>5

LEMMA CountedOnce ==
  ASSUME NEW p, NEW w, NEW l \in Nat
  PROVE  Cardinality(Standing(p, w, l, l + 1)) = IF Op(p, l) = w THEN 1 ELSE 0
<1>1. CASE Op(p, l) = w
  <2>1. Standing(p, w, l, l + 1) = {l}
    BY <1>1 DEF Standing
  <2> QED BY <1>1, <2>1, FS_Singleton
<1>2. CASE Op(p, l) # w
  <2>1. Standing(p, w, l, l + 1) = {}
    BY <1>2 DEF Standing
  <2> QED BY <1>2, <2>1, FS_EmptySet
<1> QED BY <1>1, <1>2

LEMMA LevelIs ==
  ASSUME NEW p, NEW kind, NEW l \in Nat, NEW m \in Nat
  PROVE  /\ Level(p, kind, l, m) = Cardinality(Standing(p, kind, l, m))
                                    - Cardinality(Standing(p, Close[kind], l, m))
         /\ Level(p, kind, l, m) \in Int
<1>1. Level(p, kind, l, m) = Cardinality(Standing(p, kind, l, m))
                               - Cardinality(Standing(p, Close[kind], l, m))
  BY DEF Level, Standing
<1> QED BY <1>1, Counted

\* Levels add up.
LEMMA LevelSum ==
  ASSUME NEW p, NEW kind, NEW a \in Nat, NEW b \in Nat, NEW c \in Nat, a <= b, b <= c
  PROVE  /\ Level(p, kind, a, c) = Level(p, kind, a, b) + Level(p, kind, b, c)
         /\ Level(p, kind, a, b) \in Int /\ Level(p, kind, b, c) \in Int
BY CountedTwice, LevelIs, Counted

\* One line counts for one at most.
LEMMA LevelOne ==
  ASSUME NEW p, NEW kind \in Openers, NEW l \in Nat
  PROVE  /\ Level(p, kind, l, l) = 0
         /\ Level(p, kind, l, l + 1) = IF Op(p, l) = kind THEN 1
                                       ELSE IF Op(p, l) = Close[kind] THEN -1 ELSE 0
<1>1. kind # Close[kind]
  BY CloseWords
<1>2. Standing(p, kind, l, l) = {} /\ Standing(p, Close[kind], l, l) = {}
  BY DEF Standing
<1>3. Level(p, kind, l, l) = 0
  <2>1. Cardinality({}) = 0
    BY FS_EmptySet
  <2>2. Level(p, kind, l, l) = 0 - 0
    BY <1>2, <2>1, LevelIs
  <2> QED BY <2>2
<1> QED BY <1>1, <1>3, CountedOnce, LevelIs

LEMMA LevelNext ==
  ASSUME NEW p, NEW kind \in Openers, NEW l \in Nat, NEW m \in Nat, l <= m
  PROVE  /\ Level(p, kind, l, m) \in Int
         /\ Level(p, kind, l, m + 1) = Level(p, kind, l, m)
                + (IF Op(p, m) = kind THEN 1 ELSE IF Op(p, m) = Close[kind] THEN -1 ELSE 0)
<1>1. m + 1 \in Nat /\ m <= m + 1
  OBVIOUS
<1>2. Level(p, kind, l, m + 1) = Level(p, kind, l, m) + Level(p, kind, m, m + 1)
  BY <1>1, LevelSum
<1> QED BY <1>2, LevelOne, LevelIs

\* In a block, no more blocks of its kind are closed than opened.
LEMMA LevelInside ==
  ASSUME NEW p, Text(p), NEW k, Opens(p, k), NEW m \in k + 1 .. EndOf(p, k)
  PROVE  Level(p, p[k].op, k + 1, m) >= 0
<1> DEFINE kind == p[k].op
           S == {x \in k + 1 .. EndOf(p, k) : Level(p, kind, k + 1, x) < 0}
<1>1. /\ kind \in Openers /\ k \in Nat /\ EndOf(p, k) \in Nat /\ Len(p) \in Nat
      /\ k < EndOf(p, k) /\ EndOf(p, k) <= Len(p)
      /\ \A x \in Outside(p, {Close[kind]}, kind, k) : EndOf(p, k) <= x
  BY BlockEnd DEF Opens
<1>2. SUFFICES ASSUME S # {} PROVE FALSE
  <2>1. Level(p, kind, k + 1, m) \in Int
    BY <1>1, LevelIs
  <2> QED BY <1>2, <2>1
<1>3. PICK x \in S : \A y \in S : x <= y
  <2>1. S \in SUBSET Nat
    BY <1>1
  <2> QED BY <1>2, <2>1, Least
<1>4. x \in k + 1 .. EndOf(p, k) /\ Level(p, kind, k + 1, x) < 0 /\ x \in Nat
  BY <1>1, <1>3
<1>5. x # k + 1
  BY <1>1, <1>4, LevelOne
<1>6. /\ x - 1 \in k + 1 .. EndOf(p, k) /\ x - 1 \notin S /\ x - 1 \in Nat
      /\ k + 1 \in Nat /\ k + 1 <= x - 1
  BY <1>1, <1>3, <1>4, <1>5
<1>7. /\ Level(p, kind, k + 1, x - 1) >= 0 /\ Level(p, kind, k + 1, x - 1) \in Int
  BY <1>1, <1>6, LevelIs
<1>8. Level(p, kind, k + 1, (x - 1) + 1) = Level(p, kind, k + 1, x - 1)
        + (IF Op(p, x - 1) = kind THEN 1 ELSE IF Op(p, x - 1) = Close[kind] THEN -1 ELSE 0)
  <2> DEFINE y == x - 1
  <2>1. y \in Nat /\ k + 1 \in Nat /\ k + 1 <= y /\ kind \in Openers
    BY <1>1, <1>6
  <2> HIDE DEF y, kind
  <2>2. Level(p, kind, k + 1, y + 1) = Level(p, kind, k + 1, y)
          + (IF Op(p, y) = kind THEN 1 ELSE IF Op(p, y) = Close[kind] THEN -1 ELSE 0)
    BY <2>1, LevelNext
  <2> QED BY <2>2 DEF y
<1>9. Op(p, x - 1) = Close[kind] /\ Level(p, kind, k + 1, x - 1) = 0
  <2>1. (x - 1) + 1 = x
    BY <1>4
  <2> HIDE DEF kind
  <2> QED BY <1>4, <1>7, <1>8, <2>1
<1>10. x - 1 \in Outside(p, {Close[kind]}, kind, k)
  BY <1>1, <1>6, <1>9 DEF Outside
<1> QED BY <1>1, <1>4, <1>10

\* Before the end of a block, at a word of its own and not of an inner block, as many
\* blocks of its kind are closed as opened.
LEMMA LevelOfOwn ==
  ASSUME NEW p, Text(p), NEW l \in Nat, Heads(p, l) # {}
  PROVE  LET k == Max(Heads(p, l)) IN Level(p, p[k].op, k + 1, l) = 0
<1> DEFINE k == Max(Heads(p, l))
           kind == p[k].op
           S == {x \in k + 1 .. l : Level(p, kind, k + 1, x) = 0}
<1>1. k \in Heads(p, l) /\ \A x \in Heads(p, l) : x <= k
  BY Innermost
<1>2. Opens(p, k) /\ k < l /\ l <= EndOf(p, k)
  BY <1>1, IsHead
<1> HIDE DEF k
<1>3. k \in Nat /\ EndOf(p, k) \in Nat /\ kind \in Openers
  BY <1>2, BlockEnd DEF Opens
<1>4. k + 1 \in S
  BY <1>2, <1>3, LevelOne
<1>5. PICK m \in S : \A x \in S : x <= m
  <2>1. S \in SUBSET (1 .. l)
    BY <1>3
  <2>2. Max(S) \in S /\ \A x \in S : x <= Max(S)
    <3> HIDE DEF S
    <3> QED BY <1>4, <2>1, MaxGreatest
  <2> QED BY <2>2
<1>6. m \in Nat /\ k + 1 <= m /\ m <= l /\ Level(p, kind, k + 1, m) = 0
  BY <1>3, <1>5
<1>7. SUFFICES ASSUME m < l PROVE FALSE
  BY <1>6, <1>7 DEF k
<1>8. m + 1 \in Nat /\ Level(p, kind, k + 1, m + 1) >= 0 /\ Level(p, kind, k + 1, m + 1) # 0
  <2>1. m + 1 \in k + 1 .. EndOf(p, k) /\ m + 1 \in k + 1 .. l
    BY <1>2, <1>3, <1>6, <1>7
  <2>2. m + 1 \notin S
    BY <1>5, <1>6
  <2> QED BY <1>2, <1>6, <2>1, <2>2, LevelInside
<1>9. Op(p, m) = kind
  <2>1. Level(p, kind, k + 1, m + 1) = Level(p, kind, k + 1, m)
          + (IF Op(p, m) = kind THEN 1 ELSE IF Op(p, m) = Close[kind] THEN -1 ELSE 0)
    BY <1>3, <1>6, LevelNext
  <2> HIDE DEF kind
  <2> QED BY <1>6, <1>8, <2>1
<1>10. Opens(p, m) /\ p[m].op = kind
  <2>1. Len(p) \in Nat /\ EndOf(p, k) <= Len(p)
    BY <1>2, BlockEnd
  <2>2. m \in DOMAIN p
    BY <1>2, <1>3, <1>6, <1>7, <2>1, Lines
  <2> QED BY <1>3, <1>9, <2>2 DEF Op, Opens
<1>11. m \notin Heads(p, l)
  BY <1>1, <1>3, <1>6
<1>12. /\ EndOf(p, m) \in Nat /\ m < EndOf(p, m) /\ Op(p, EndOf(p, m)) = Close[kind]
       /\ Level(p, kind, m + 1, EndOf(p, m)) = 0
  BY <1>10, BlockEnd
<1>13. EndOf(p, m) < l
  BY <1>7, <1>10, <1>11, <1>12, IsHead
<1>14. EndOf(p, m) + 1 \in S
  <2> DEFINE e == EndOf(p, m)
  <2>1. e \in Nat /\ e + 1 \in Nat /\ m + 1 <= e /\ k + 1 <= m + 1 /\ k + 1 \in Nat
    BY <1>3, <1>6, <1>8, <1>12
  <2>2. Level(p, kind, k + 1, m + 1) = 1
    <3>1. Level(p, kind, k + 1, m + 1) = Level(p, kind, k + 1, m) + 1
      BY <1>3, <1>6, <1>9, LevelNext
    <3> QED BY <1>6, <3>1
  <2>3. Level(p, kind, k + 1, e) = 1
    <3>1. Level(p, kind, k + 1, e) = Level(p, kind, k + 1, m + 1) + Level(p, kind, m + 1, e)
      BY <1>8, <2>1, LevelSum
    <3> QED BY <1>12, <2>2, <3>1
  <2>4. Level(p, kind, k + 1, e + 1) = 0
    <3>1. kind # Close[kind]
      BY <1>3, CloseWords
    <3>2. Level(p, kind, k + 1, e + 1) = Level(p, kind, k + 1, e) + (-1)
      BY <1>3, <1>12, <2>1, <3>1, LevelNext
    <3> QED BY <2>3, <3>2
  <2>5. e + 1 \in k + 1 .. l
    BY <1>6, <1>13, <2>1
  <2> QED BY <2>4, <2>5
<1> QED BY <1>5, <1>6, <1>12, <1>14

\* Where they are as many, and the innermost block is of that kind, it is this one.
LEMMA OwnBlock ==
  ASSUME NEW p, Text(p), NEW k, Opens(p, k), NEW m \in Nat, k < m, m <= EndOf(p, k),
         Level(p, p[k].op, k + 1, m) = 0,
         Op(p, Max(Heads(p, m))) = p[k].op
  PROVE  Max(Heads(p, m)) = k /\ Heads(p, m) = Heads(p, k) \cup {k}
<1> DEFINE j == Max(Heads(p, m))
           kind == p[k].op
<1>1. k \in Heads(p, m)
  BY IsHead
<1>2. j \in Heads(p, m) /\ k <= j /\ Heads(p, m) = Heads(p, j) \cup {j}
  BY <1>1, Innermost
<1>3. Opens(p, j) /\ j < m /\ m <= EndOf(p, j)
  BY <1>2, IsHead
<1>4. Op(p, j) = kind
  OBVIOUS
<1> HIDE DEF j
<1>5. p[j].op = kind /\ kind \in Openers
  BY <1>3, <1>4 DEF Op, Opens
<1>6. /\ j \in Nat /\ k \in Nat /\ EndOf(p, j) \in Nat /\ EndOf(p, k) \in Nat
      /\ k + 1 \in Nat /\ j + 1 \in Nat
  <2>1. j \in Nat /\ EndOf(p, j) \in Nat
    BY <1>3, BlockEnd
  <2>2. k \in Nat /\ EndOf(p, k) \in Nat
    BY BlockEnd
  <2> QED BY <2>1, <2>2
<1>7. ASSUME k < j PROVE FALSE
  <2>1. Level(p, kind, k + 1, j) >= 0
    <3>1. j \in k + 1 .. EndOf(p, k)
      BY <1>3, <1>6, <1>7
    <3> QED BY <3>1, LevelInside
  <2>2. Level(p, kind, k + 1, j + 1) = Level(p, kind, k + 1, j) + 1
    BY <1>4, <1>5, <1>6, <1>7, LevelNext
  <2>3. Level(p, kind, j + 1, m) >= 0
    <3>1. m \in j + 1 .. EndOf(p, j)
      BY <1>3, <1>6
    <3> QED BY <1>3, <1>5, <3>1, LevelInside
  <2>4. Level(p, kind, k + 1, m) = Level(p, kind, k + 1, j + 1) + Level(p, kind, j + 1, m)
    BY <1>3, <1>6, <1>7, LevelSum
  <2>5. Level(p, kind, k + 1, j) \in Int /\ Level(p, kind, j + 1, m) \in Int
    BY <1>6, LevelIs
  <2> QED BY <2>1, <2>2, <2>3, <2>4, <2>5
<1>8. j = k
  BY <1>2, <1>6, <1>7
<1> QED BY <1>2, <1>8 DEF j

-----------------------------------------------------------------------------
(* A stack and the blocks of each activation: entry m of the stack, which has k, is  *)
(* the block b[m] of the activation of[m], and E[i] are those of the activation i.   *)

Mirrors(b, of, k, n, E) ==
  /\ of \in [1 .. k -> 1 .. n]
  /\ \A m \in 1 .. k : b[m] \in E[of[m]]
  /\ \A i \in 1 .. n : \A x \in E[i] : \E m \in 1 .. k : of[m] = i /\ b[m] = x
  /\ \A m, j \in 1 .. k : m < j => of[m] < of[j] \/ (of[m] = of[j] /\ b[m] < b[j])

\* On top is the innermost block y of the last activation.
OnTop(b, of, k, n, E, y) ==
  /\ k \in Nat /\ n \in Nat \ {0} /\ Mirrors(b, of, k, n, E)
  /\ y \in E[n] /\ \A x \in E[n] : x \in Nat /\ x <= y

LEMMA MirrorsTop ==
  ASSUME NEW b, NEW of, NEW k, NEW n, NEW E, NEW y, OnTop(b, of, k, n, E, y)
  PROVE  k \in 1 .. k /\ of[k] = n /\ b[k] = y
<1>0. /\ k \in Nat /\ n \in Nat \ {0} /\ Mirrors(b, of, k, n, E)
      /\ y \in E[n] /\ \A x \in E[n] : x \in Nat /\ x <= y
  BY DEF OnTop
<1> USE <1>0
<1>1. n \in 1 .. n
  OBVIOUS
<1>2. PICK m \in 1 .. k : of[m] = n /\ b[m] = y
  BY <1>1 DEF Mirrors
<1>3. k \in 1 .. k /\ of[k] \in 1 .. n /\ b[k] \in E[of[k]]
  BY <1>2 DEF Mirrors
<1>4. ASSUME m < k PROVE FALSE
  <2>1. of[m] < of[k] \/ (of[m] = of[k] /\ b[m] < b[k])
    BY <1>3, <1>4 DEF Mirrors
  <2>2. of[k] = n /\ y < b[k]
    BY <1>2, <1>3, <2>1
  <2>3. b[k] \in Nat /\ b[k] <= y /\ y \in Nat
    BY <1>3, <2>2
  <2> QED BY <2>2, <2>3
<1>5. m = k
  BY <1>2, <1>4
<1> QED BY <1>2, <1>3, <1>5

\* Entry j of the last activation and what is above it are taken off.
LEMMA MirrorsCut ==
  ASSUME NEW b, NEW of, NEW k \in Nat, NEW n \in Nat \ {0}, NEW E, Mirrors(b, of, k, n, E),
         NEW j \in 1 .. k, of[j] = n,
         \A i \in 1 .. n : E[i] \in SUBSET Nat,
         NEW c, \A m \in 1 .. j - 1 : c[m] = b[m],
         NEW F, \A x : x \in F[n] <=> x \in E[n] /\ x < b[j],
         \A i \in 1 .. n - 1 : F[i] = E[i]
  PROVE  \E on : Mirrors(c, on, j - 1, n, F)
<1> DEFINE new == [m \in 1 .. j - 1 |-> of[m]]
<1>1. new \in [1 .. j - 1 -> 1 .. n] /\ \A m \in 1 .. j - 1 : m \in 1 .. k /\ new[m] = of[m]
  BY DEF Mirrors
<1> HIDE DEF new
<1>2. b[j] \in Nat
  <2>1. b[j] \in E[n] /\ n \in 1 .. n
    BY DEF Mirrors
  <2> QED BY <2>1
<1>3. ASSUME NEW m \in 1 .. j - 1 PROVE c[m] \in F[new[m]]
  <2>1. b[m] \in E[of[m]] /\ of[m] \in 1 .. n /\ c[m] = b[m] /\ new[m] = of[m]
    BY <1>1 DEF Mirrors
  <2>2. CASE of[m] = n
    <3>1. b[m] < b[j]
      BY <1>1, <2>2 DEF Mirrors
    <3> QED BY <2>1, <2>2, <3>1
  <2>3. CASE of[m] # n
    <3>1. of[m] \in 1 .. n - 1
      BY <2>1, <2>3
    <3> QED BY <2>1, <3>1
  <2> QED BY <2>2, <2>3
<1>4. ASSUME NEW i \in 1 .. n, NEW x \in F[i]
      PROVE  \E m \in 1 .. j - 1 : new[m] = i /\ c[m] = x
  <2>1. x \in E[i] /\ (i = n => x < b[j])
    <3>1. i # n => i \in 1 .. n - 1
      OBVIOUS
    <3> QED BY <1>4, <3>1
  <2>2. PICK m \in 1 .. k : of[m] = i /\ b[m] = x
    BY <2>1 DEF Mirrors
  <2>3. b[m] \in Nat /\ m \in Nat /\ j \in Nat
    BY <2>1, <2>2
  <2>4. ~(m = j)
    BY <1>2, <2>1, <2>2, <2>3
  <2>5. ASSUME j < m PROVE FALSE
    <3>1. of[j] < of[m] \/ (of[j] = of[m] /\ b[j] < b[m])
      BY <2>5 DEF Mirrors
    <3> QED BY <1>2, <2>1, <2>2, <2>3, <3>1
  <2>6. m \in 1 .. j - 1
    BY <2>3, <2>4, <2>5
  <2> QED BY <1>1, <2>2, <2>6
<1>5. ASSUME NEW m \in 1 .. j - 1, NEW h \in 1 .. j - 1, m < h
      PROVE  new[m] < new[h] \/ (new[m] = new[h] /\ c[m] < c[h])
  <2>1. of[m] < of[h] \/ (of[m] = of[h] /\ b[m] < b[h])
    BY <1>1, <1>5 DEF Mirrors
  <2> QED BY <1>1, <2>1
<1>6. Mirrors(c, new, j - 1, n, F)
  BY <1>1, <1>3, <1>4, <1>5 DEF Mirrors
<1> QED BY <1>6

\* A block y of the last activation, inside of all of its blocks, is put on top.
PutOn(b, of, k, n, E, y, c, F) ==
  /\ k \in Nat /\ n \in Nat \ {0} /\ Mirrors(b, of, k, n, E)
  /\ y \in Nat /\ \A x \in E[n] : x < y
  /\ c[k + 1] = y /\ \A m \in 1 .. k : c[m] = b[m]
  /\ F[n] = E[n] \cup {y} /\ \A i \in 1 .. n - 1 : F[i] = E[i]

LEMMA MirrorsPush ==
  ASSUME NEW b, NEW of, NEW k, NEW n, NEW E, NEW y, NEW c, NEW F,
         PutOn(b, of, k, n, E, y, c, F)
  PROVE  \E on : Mirrors(c, on, k + 1, n, F)
<1>0. /\ k \in Nat /\ n \in Nat \ {0} /\ Mirrors(b, of, k, n, E)
      /\ y \in Nat /\ \A x \in E[n] : x < y
      /\ c[k + 1] = y /\ \A m \in 1 .. k : c[m] = b[m]
      /\ F[n] = E[n] \cup {y} /\ \A i \in 1 .. n - 1 : F[i] = E[i]
  BY DEF PutOn
<1> USE <1>0
<1> DEFINE new == [m \in 1 .. k + 1 |-> IF m = k + 1 THEN n ELSE of[m]]
<1>1. /\ new \in [1 .. k + 1 -> 1 .. n] /\ new[k + 1] = n
      /\ \A m \in 1 .. k : m \in 1 .. k + 1 /\ new[m] = of[m] /\ of[m] \in 1 .. n
      /\ \A m \in 1 .. k + 1 : m = k + 1 \/ m \in 1 .. k
  <2>1. \A m \in 1 .. k : m # k + 1 /\ m \in 1 .. k + 1 /\ of[m] \in 1 .. n
    BY DEF Mirrors
  <2>2. \A m \in 1 .. k + 1 : m = k + 1 \/ m \in 1 .. k
    OBVIOUS
  <2>3. n \in 1 .. n /\ k + 1 \in 1 .. k + 1
    OBVIOUS
  <2> QED BY <2>1, <2>2, <2>3
<1> HIDE DEF new
<1>2. \A i \in 1 .. n : i = n \/ i \in 1 .. n - 1
  OBVIOUS
<1>3. ASSUME NEW m \in 1 .. k + 1 PROVE c[m] \in F[new[m]]
  <2>1. m \in 1 .. k => b[m] \in E[of[m]]
    BY DEF Mirrors
  <2> QED BY <1>1, <1>2, <2>1
<1>4. ASSUME NEW i \in 1 .. n, NEW x \in F[i]
      PROVE  \E m \in 1 .. k + 1 : new[m] = i /\ c[m] = x
  <2>1. CASE x \in E[i]
    <3>1. PICK m \in 1 .. k : of[m] = i /\ b[m] = x
      BY <2>1 DEF Mirrors
    <3> QED BY <1>1, <3>1
  <2>2. CASE x \notin E[i]
    <3>1. i = n /\ x = y
      BY <1>2, <1>4, <2>2
    <3>2. k + 1 \in 1 .. k + 1
      OBVIOUS
    <3> QED BY <1>1, <3>1, <3>2
  <2> QED BY <2>1, <2>2
<1>5. ASSUME NEW m \in 1 .. k + 1, NEW h \in 1 .. k + 1, m < h
      PROVE  new[m] < new[h] \/ (new[m] = new[h] /\ c[m] < c[h])
  <2>1. m \in 1 .. k
    BY <1>5
  <2>2. CASE h \in 1 .. k
    <3>1. of[m] < of[h] \/ (of[m] = of[h] /\ b[m] < b[h])
      BY <1>5, <2>1, <2>2 DEF Mirrors
    <3> QED BY <1>1, <2>1, <2>2, <3>1
  <2>3. CASE h = k + 1
    <3>1. new[h] = n /\ c[h] = y /\ new[m] \in 1 .. n /\ c[m] = b[m] /\ new[m] = of[m]
      BY <1>1, <2>1, <2>3
    <3>2. of[m] = n => b[m] < y
      BY <2>1 DEF Mirrors
    <3> QED BY <3>1, <3>2
  <2> QED BY <1>1, <2>2, <2>3
<1>6. Mirrors(c, new, k + 1, n, F)
  BY <1>1, <1>3, <1>4, <1>5 DEF Mirrors
<1> QED BY <1>6

LEMMA MirrorsSame ==
  ASSUME NEW b, NEW of, NEW k \in Nat, NEW n \in Nat \ {0}, NEW E, Mirrors(b, of, k, n, E),
         NEW c, \A m \in 1 .. k : c[m] = b[m], NEW F, \A i \in 1 .. n : F[i] = E[i]
  PROVE  Mirrors(c, of, k, n, F)
<1>1. of \in [1 .. k -> 1 .. n] /\ \A m \in 1 .. k : of[m] \in 1 .. n
  BY DEF Mirrors
<1>2. \A m \in 1 .. k : c[m] \in F[of[m]]
  BY <1>1 DEF Mirrors
<1>3. \A i \in 1 .. n : \A x \in F[i] : \E m \in 1 .. k : of[m] = i /\ c[m] = x
  <2>1. ASSUME NEW i \in 1 .. n, NEW x \in F[i]
        PROVE  \E m \in 1 .. k : of[m] = i /\ c[m] = x
    <3>1. x \in E[i]
      OBVIOUS
    <3>2. PICK m \in 1 .. k : of[m] = i /\ b[m] = x
      BY <3>1 DEF Mirrors
    <3> QED BY <3>2
  <2> QED BY <2>1
<1> QED BY <1>1, <1>2, <1>3 DEF Mirrors

\* An activation begins outside of all blocks, and ends there.
LEMMA MirrorsCall ==
  ASSUME NEW b, NEW of, NEW k \in Nat, NEW n \in Nat \ {0}, NEW E, Mirrors(b, of, k, n, E),
         NEW c, \A m \in 1 .. k : c[m] = b[m],
         NEW F, F[n + 1] = {}, \A i \in 1 .. n : F[i] = E[i]
  PROVE  Mirrors(c, of, k, n + 1, F)
<1>1. \A i \in 1 .. n + 1 : i = n + 1 \/ i \in 1 .. n
  OBVIOUS
<1>2. of \in [1 .. k -> 1 .. n + 1] /\ \A m \in 1 .. k : of[m] \in 1 .. n
  BY DEF Mirrors
<1>3. \A m \in 1 .. k : c[m] \in F[of[m]]
  <2>1. ASSUME NEW m \in 1 .. k PROVE c[m] \in F[of[m]]
    <3>1. b[m] \in E[of[m]] /\ F[of[m]] = E[of[m]]
      BY <1>2 DEF Mirrors
    <3> QED BY <3>1
  <2> QED BY <2>1
<1>4. \A i \in 1 .. n + 1 : \A x \in F[i] : \E m \in 1 .. k : of[m] = i /\ c[m] = x
  <2>1. ASSUME NEW i \in 1 .. n + 1, NEW x \in F[i]
        PROVE  \E m \in 1 .. k : of[m] = i /\ c[m] = x
    <3>1. i \in 1 .. n /\ x \in E[i]
      BY <1>1
    <3>2. PICK m \in 1 .. k : of[m] = i /\ b[m] = x
      BY <3>1 DEF Mirrors
    <3> QED BY <3>2
  <2> QED BY <2>1
<1> QED BY <1>2, <1>3, <1>4 DEF Mirrors

LEMMA MirrorsReturn ==
  ASSUME NEW b, NEW of, NEW k \in Nat, NEW n \in Nat \ {0}, NEW E, Mirrors(b, of, k, n, E),
         n # 1, E[n] = {}, NEW c, \A m \in 1 .. k : c[m] = b[m],
         NEW F, \A i \in 1 .. n - 1 : F[i] = E[i]
  PROVE  Mirrors(c, of, k, n - 1, F)
<1>1. \A m \in 1 .. k : of[m] \in 1 .. n - 1
  <2>1. ASSUME NEW m \in 1 .. k PROVE of[m] \in 1 .. n /\ of[m] # n
    BY DEF Mirrors
  <2> QED BY <2>1
<1>2. of \in [1 .. k -> 1 .. n - 1]
  <2>1. of \in [1 .. k -> 1 .. n]
    BY DEF Mirrors
  <2> QED BY <1>1, <2>1
<1>3. \A m \in 1 .. k : c[m] \in F[of[m]]
  BY <1>1 DEF Mirrors
<1>4. \A i \in 1 .. n - 1 : i \in 1 .. n
  OBVIOUS
<1>5. \A i \in 1 .. n - 1 : \A x \in F[i] : \E m \in 1 .. k : of[m] = i /\ c[m] = x
  <2>1. ASSUME NEW i \in 1 .. n - 1, NEW x \in F[i]
        PROVE  \E m \in 1 .. k : of[m] = i /\ c[m] = x
    <3>1. PICK m \in 1 .. k : of[m] = i /\ b[m] = x
      BY <1>4 DEF Mirrors
    <3> QED BY <3>1
  <2> QED BY <2>1
<1> QED BY <1>2, <1>3, <1>5 DEF Mirrors

-----------------------------------------------------------------------------
(* The branches of a tidy program. *)

LEMMA TidyText ==
  ASSUME NEW p \in Program, Tidy(p)
  PROVE  Text(p)
BY DEF Tidy, Text

\* At a word that does not open a block.
LEMMA AroundHeads ==
  ASSUME NEW p, Text(p), NEW l \in Nat, Op(p, l) \notin Openers,
         NEW kinds \in SUBSET Openers
  PROVE  Around(p, kinds, l) = {k \in Heads(p, l) : Op(p, k) \in kinds}
<1>1. ASSUME NEW k \in DOMAIN p, p[k].op \in kinds
      PROVE  Closed(p, k) /\ k \in Nat /\ EndOf(p, k) \in Nat /\ k # l /\ Op(p, k) = p[k].op
  <2>1. Opens(p, k)
    BY <1>1 DEF Opens
  <2>2. Closed(p, k)
    BY <2>1 DEF Text, BlocksNest, Opens
  <2>3. k \in Nat /\ EndOf(p, k) \in Nat
    BY <2>1, BlockEnd
  <2> QED BY <1>1, <2>2, <2>3 DEF Op
<1>2. ASSUME NEW k PROVE k \in Around(p, kinds, l)
                           <=> k \in Heads(p, l) /\ Op(p, k) \in kinds
  <2>1. k \in Heads(p, l) <=> Opens(p, k) /\ k < l /\ l <= EndOf(p, k)
    BY IsHead
  <2>2. k \in Around(p, kinds, l)
          <=> k \in DOMAIN p /\ p[k].op \in kinds /\ Closed(p, k) /\ l \in Block(p, k)
    BY DEF Around
  <2>3. CASE k \in DOMAIN p /\ p[k].op \in kinds
    <3>1. l \in Block(p, k) <=> k < l /\ l <= EndOf(p, k)
      BY <1>1, <2>3 DEF Block
    <3> QED BY <1>1, <2>1, <2>2, <2>3, <3>1 DEF Opens
  <2>4. CASE ~(k \in DOMAIN p /\ p[k].op \in kinds)
    BY <2>1, <2>2, <2>4 DEF Opens, Op
  <2> QED BY <2>3, <2>4
<1> QED BY <1>2

\* The innermost block is of that kind.
LEMMA BelongsTo ==
  ASSUME NEW p, Text(p), NEW l \in Nat, Op(p, l) \notin Openers, NEW kind,
         Belongs(p, l, kind)
  PROVE  LET k == Max(Heads(p, l)) IN
         /\ Heads(p, l) # {} /\ k \in Heads(p, l) /\ Opens(p, k) /\ p[k].op = kind
         /\ Op(p, k) = kind /\ k \in Nat
<1>1. Around(p, Openers, l) = Heads(p, l)
  <2>1. Around(p, Openers, l) = {k \in Heads(p, l) : Op(p, k) \in Openers}
    BY AroundHeads
  <2>2. \A k \in Heads(p, l) : Op(p, k) \in Openers
    BY IsHead DEF Opens, Op
  <2> QED BY <2>1, <2>2
<1>2. Heads(p, l) # {} /\ Op(p, Max(Heads(p, l))) = kind
  BY <1>1 DEF Belongs, Inner
<1>3. Max(Heads(p, l)) \in Heads(p, l)
  BY <1>2, Innermost
<1>4. Opens(p, Max(Heads(p, l))) /\ Max(Heads(p, l)) \in Nat
  BY <1>3, Below
<1> QED BY <1>2, <1>3, <1>4 DEF Op, Opens

\* The IF of an ELSEIF is the innermost block around it.
LEMMA OwnerOfElseif ==
  ASSUME NEW p \in Program, Tidy(p), NEW l \in Nat, Op(p, l) = "ELSEIF"
  PROVE  LET k == Owner(p, l) IN
         /\ k = Max(Heads(p, l)) /\ k \in Heads(p, l) /\ Opens(p, k) /\ p[k].op = "IF"
         /\ Op(p, k) = "IF" /\ k \in Nat
<1>1. Text(p) /\ l \in DOMAIN p /\ p[l].op = "ELSEIF"
  BY TidyText DEF Op
<1>2. Belongs(p, l, "IF") /\ Op(p, l) \notin Openers
  BY <1>1, Words DEF Tidy
<1> DEFINE k == Max(Heads(p, l))
<1>3. /\ Heads(p, l) # {} /\ k \in Heads(p, l) /\ Opens(p, k) /\ p[k].op = "IF"
      /\ Op(p, k) = "IF" /\ k \in Nat
  BY <1>1, <1>2, BelongsTo
<1>4. \A x \in Heads(p, l) : x <= k
  BY <1>1, <1>3, Innermost
<1> DEFINE S == {x \in Around(p, {"IF"}, l) : x < l}
<1>5. k \in S /\ S \subseteq Heads(p, l)
  <2>1. Around(p, {"IF"}, l) = {x \in Heads(p, l) : Op(p, x) \in {"IF"}}
    BY <1>1, <1>2, Words, AroundHeads
  <2>2. k < l
    BY <1>1, <1>3, IsHead
  <2> HIDE DEF k
  <2> QED BY <1>3, <2>1, <2>2
<1>6. Max(S) \in S /\ k <= Max(S)
  <2>1. S \in SUBSET (1 .. Len(p)) /\ Len(p) \in Nat
    BY <1>1, <1>5, HeadsAreLines
  <2> HIDE DEF S, k
  <2> QED BY <1>5, <2>1, MaxGreatest
<1>7. Max(S) = k
  <2>1. Max(S) <= k /\ Max(S) \in Nat
    <3>1. Max(S) \in Heads(p, l)
      BY <1>5, <1>6
    <3> QED BY <1>1, <1>4, <3>1, HeadsAreLines
  <2> QED BY <1>3, <1>6, <2>1
<1>8. Owner(p, l) = Max(S)
  BY DEF Owner, IfOf
<1> QED
  <2> HIDE DEF S, k
  <2> QED BY <1>3, <1>7, <1>8 DEF k

LEMMA OwnerOfOther ==
  ASSUME NEW p, NEW l, Op(p, l) # "ELSEIF"
  PROVE  Owner(p, l) = l
BY DEF Owner

\* An ELSEIF stands behind a jump.
LEMMA OwnerBehind ==
  ASSUME NEW p \in Program, Tidy(p), NEW l \in Nat,
         Op(p, l) \notin {"BREAK", "CONTINUE", "GOTO"}
  PROVE  Owner(p, l + 1) = l + 1
<1>1. CASE l + 1 \in DOMAIN p
  <2>1. p[l + 1].op = "ELSEIF" => Op(p, (l + 1) - 1) \in {"BREAK", "CONTINUE", "GOTO"}
    BY <1>1 DEF Tidy
  <2>2. (l + 1) - 1 = l
    OBVIOUS
  <2> QED BY <1>1, <2>1, <2>2 DEF Owner, Op
<1>2. CASE l + 1 \notin DOMAIN p
  BY <1>2 DEF Owner, Op
<1> QED BY <1>1, <1>2

\* From the head of a block or one of its own words on, the search for a word of its
\* kind outside of inner blocks goes to its end at the latest.
LEMMA SearchInBlock ==
  ASSUME NEW p, Text(p), NEW k, Opens(p, k), NEW l \in Nat,
         \/ l = k
         \/ /\ Heads(p, l) # {} /\ k = Max(Heads(p, l))
            /\ Op(p, l) \notin Openers /\ \A o \in Openers : Op(p, l) # Close[o],
         NEW words, Close[p[k].op] \in words,
         NEW m, m = Min(Outside(p, words, p[k].op, l))
  PROVE  /\ m \in Nat /\ l < m /\ k < m /\ m <= EndOf(p, k) /\ m \in DOMAIN p
         /\ Op(p, m) \in words
         /\ Level(p, p[k].op, k + 1, m) = 0
         /\ Op(p, m) = Close[p[k].op] => m = EndOf(p, k)
<1> DEFINE kind == p[k].op
<1>1. /\ k \in Nat /\ EndOf(p, k) \in Nat /\ Len(p) \in Nat /\ kind \in Openers
      /\ 1 <= k /\ k < EndOf(p, k) /\ EndOf(p, k) <= Len(p)
      /\ Op(p, EndOf(p, k)) = Close[kind]
      /\ Level(p, kind, k + 1, EndOf(p, k)) = 0
      /\ \A x \in Outside(p, {Close[kind]}, kind, k) : EndOf(p, k) <= x
  BY BlockEnd DEF Opens
<1> HIDE DEF kind
<1>2. k <= l /\ l < EndOf(p, k)
  <2>1. CASE l = k
    BY <1>1, <2>1
  <2>2. CASE l # k
    <3>1. k \in Heads(p, l) /\ Op(p, l) # Close[kind]
      BY <1>1, <2>2, Innermost
    <3>2. k < l /\ l <= EndOf(p, k)
      BY <3>1, IsHead
    <3> QED BY <1>1, <3>1, <3>2
  <2> QED BY <2>1, <2>2
<1>3. Level(p, kind, k + 1, l + 1) = 0
  <2>1. CASE l = k
    BY <1>1, <2>1, LevelOne
  <2>2. CASE l # k
    <3>1. Level(p, kind, k + 1, l) = 0
      BY <2>2, LevelOfOwn DEF kind
    <3>2. Op(p, l) # kind /\ Op(p, l) # Close[kind]
      BY <1>1, <2>2
    <3>3. k + 1 <= l /\ k + 1 \in Nat
      BY <1>1, <1>2, <2>2
    <3>4. Level(p, kind, k + 1, l + 1) = Level(p, kind, k + 1, l)
            + (IF Op(p, l) = kind THEN 1 ELSE IF Op(p, l) = Close[kind] THEN -1 ELSE 0)
      <4>1. kind \in Openers
        BY <1>1
      <4> QED BY <3>3, <4>1, LevelNext
    <3> QED BY <3>1, <3>2, <3>4
  <2> QED BY <2>1, <2>2
<1>4. ASSUME NEW x \in Nat, l < x
      PROVE  Level(p, kind, k + 1, x) = Level(p, kind, l + 1, x)
  <2>1. k + 1 \in Nat /\ l + 1 \in Nat /\ k + 1 <= l + 1 /\ l + 1 <= x
    BY <1>1, <1>2, <1>4
  <2>2. /\ Level(p, kind, k + 1, x) = Level(p, kind, k + 1, l + 1) + Level(p, kind, l + 1, x)
        /\ Level(p, kind, l + 1, x) \in Int
    BY <2>1, LevelSum
  <2> QED BY <1>3, <2>2
<1> DEFINE S == Outside(p, words, kind, l)
<1>5. EndOf(p, k) \in S
  <2>1. Level(p, kind, l + 1, EndOf(p, k)) = 0
    BY <1>1, <1>2, <1>4
  <2>2. EndOf(p, k) \in l + 1 .. Len(p) /\ Op(p, EndOf(p, k)) \in words
    BY <1>1, <1>2 DEF kind
  <2> QED BY <2>1, <2>2 DEF Outside
<1>6. S \in SUBSET Nat /\ m = Min(S)
  BY <1>1 DEF Outside, kind
<1>7. m \in S /\ m <= EndOf(p, k)
  <2> HIDE DEF S
  <2> QED BY <1>5, <1>6, MinLeast
<1>8. /\ m \in l + 1 .. Len(p) /\ Op(p, m) \in words /\ Level(p, kind, l + 1, m) = 0
  BY <1>7 DEF Outside
<1>9. m \in Nat /\ l < m /\ k < m /\ m <= Len(p) /\ 1 <= m
  BY <1>1, <1>2, <1>8
<1>10. Level(p, kind, k + 1, m) = 0
  BY <1>4, <1>8, <1>9
<1>11. ASSUME Op(p, m) = Close[kind] PROVE m = EndOf(p, k)
  <2>1. m \in Outside(p, {Close[kind]}, kind, k)
    BY <1>1, <1>9, <1>10, <1>11 DEF Outside
  <2> QED BY <1>1, <1>7, <1>9, <2>1
<1>12. m \in DOMAIN p
  BY <1>1, <1>9, Lines
<1> QED BY <1>7, <1>8, <1>9, <1>10, <1>11, <1>12 DEF kind

-----------------------------------------------------------------------------
(* The stack and the blocks of a running program. *)

BlockLines == [m \in DOMAIN selcyclstack |-> Owner(p_buf, selcyclstack[m].line)]

Blocks == [i \in 1 .. gosub_tos |-> Entered(i)]

Matches(of) == Mirrors(BlockLines, of, Len(selcyclstack), gosub_tos, Blocks)

\* At a statement of a tidy program.
Ready == IInv /\ Tidy(p_buf) /\ fate = "run" /\ err = 0 /\ FramesMatch

LEMMA ReadyFacts ==
  ASSUME Ready
  PROVE  /\ p_buf \in Program /\ Text(p_buf) /\ prog \in Nat \ {0}
         /\ gosub_tos \in Nat \ {0} /\ gosub_tos < SUB_NEST
         /\ Len(selcyclstack) \in Nat /\ DOMAIN selcyclstack = 1 .. Len(selcyclstack)
<1>1. p_buf \in Program /\ prog \in Nat \ {0} /\ gosub_tos \in Nat
      /\ selcyclstack \in Seq(Frame) /\ Len(running) \in Nat
  BY NestAssumption DEF Ready, IInv, TypeOK
<1>2. gosub_tos # 0 /\ gosub_tos < SUB_NEST
  BY <1>1 DEF Ready, IInv, ReturnsFind
<1> QED BY <1>1, <1>2, TidyText DEF Ready

Pictures(b, of, k, n, E) ==
  /\ of \in [1 .. k -> 1 .. n]
  /\ \A i \in 1 .. n : {b[m] : m \in {h \in 1 .. k : of[h] = i}} = E[i]
  /\ \A m, h \in 1 .. k : m < h => of[m] < of[h] \/ (of[m] = of[h] /\ b[m] < b[h])

LEMMA Pictured ==
  ASSUME NEW k \in Nat, NEW b, NEW n, NEW E, NEW of
  PROVE  Pictures(b, of, k, n, E) <=> Mirrors(b, of, k, n, E)
<1>1. ASSUME Pictures(b, of, k, n, E), NEW m \in 1 .. k
      PROVE  b[m] \in E[of[m]]
  <2>1. of[m] \in 1 .. n
    BY <1>1 DEF Pictures
  <2>2. b[m] \in {b[j] : j \in {h \in 1 .. k : of[h] = of[m]}}
    OBVIOUS
  <2> QED BY <1>1, <2>1, <2>2 DEF Pictures
<1>2. ASSUME Pictures(b, of, k, n, E), NEW i \in 1 .. n, NEW x \in E[i]
      PROVE  \E m \in 1 .. k : of[m] = i /\ b[m] = x
  <2>1. x \in {b[m] : m \in {h \in 1 .. k : of[h] = i}}
    BY <1>2 DEF Pictures
  <2> QED BY <2>1
<1>3. ASSUME Mirrors(b, of, k, n, E), NEW i \in 1 .. n
      PROVE  {b[m] : m \in {h \in 1 .. k : of[h] = i}} = E[i]
  <2>1. ASSUME NEW x \in E[i] PROVE x \in {b[m] : m \in {h \in 1 .. k : of[h] = i}}
    <3>1. PICK m \in 1 .. k : of[m] = i /\ b[m] = x
      BY <1>3, <2>1 DEF Mirrors
    <3> QED BY <3>1
  <2>2. ASSUME NEW m \in 1 .. k, of[m] = i PROVE b[m] \in E[i]
    BY <1>3, <2>2 DEF Mirrors
  <2>3. ASSUME NEW x PROVE x \in {b[m] : m \in {h \in 1 .. k : of[h] = i}} <=> x \in E[i]
    BY <2>1, <2>2
  <2> QED BY <2>3
<1>4. Pictures(b, of, k, n, E) => Mirrors(b, of, k, n, E)
  BY <1>1, <1>2 DEF Pictures, Mirrors
<1>5. Mirrors(b, of, k, n, E) => Pictures(b, of, k, n, E)
  BY <1>3 DEF Pictures, Mirrors
<1> QED BY <1>4, <1>5

LEMMA Unfold ==
  ASSUME Ready
  PROVE  \E of : Matches(of)
<1>1. /\ gosub_tos \in Nat \ {0} /\ Len(selcyclstack) \in Nat
      /\ DOMAIN selcyclstack = 1 .. Len(selcyclstack)
  BY ReadyFacts
<1>2. PICK of \in [DOMAIN selcyclstack -> 1 .. gosub_tos] :
        /\ \A i \in 1 .. gosub_tos :
             {BlockLines[m] : m \in {h \in DOMAIN selcyclstack : of[h] = i}} = Blocks[i]
        /\ \A m, h \in DOMAIN selcyclstack :
             m < h => of[m] < of[h] \/ (of[m] = of[h] /\ BlockLines[m] < BlockLines[h])
  BY DEF Ready, FramesMatch, BlockLines, Blocks
<1>3. Pictures(BlockLines, of, Len(selcyclstack), gosub_tos, Blocks)
  BY <1>1, <1>2 DEF Pictures
<1> QED BY <1>1, <1>3, Pictured DEF Matches

LEMMA Fold ==
  ASSUME selcyclstack' \in Seq(Frame), NEW of, Matches(of)'
  PROVE  FramesMatch'
<1>1. Len(selcyclstack') \in Nat /\ DOMAIN selcyclstack' = 1 .. Len(selcyclstack')
  OBVIOUS
<1>2. Pictures(BlockLines', of, Len(selcyclstack'), gosub_tos', Blocks')
  BY <1>1, Pictured DEF Matches
<1>3. of \in [DOMAIN selcyclstack' -> 1 .. gosub_tos']
  BY <1>1, <1>2 DEF Pictures
<1>4. ASSUME NEW i \in 1 .. gosub_tos'
      PROVE  {Owner(p_buf', selcyclstack'[m].line) :
                m \in {h \in DOMAIN selcyclstack' : of[h] = i}} = Entered(i)'
  <2>1. Blocks'[i] = Entered(i)'
    BY DEF Blocks
  <2>2. \A m \in DOMAIN selcyclstack' : BlockLines'[m] = Owner(p_buf', selcyclstack'[m].line)
    BY DEF BlockLines
  <2>3. {BlockLines'[m] : m \in {h \in DOMAIN selcyclstack' : of[h] = i}}
          = {Owner(p_buf', selcyclstack'[m].line) :
                m \in {h \in DOMAIN selcyclstack' : of[h] = i}}
    BY <2>2
  <2> QED BY <1>1, <1>2, <2>1, <2>3 DEF Pictures
<1>5. \A m, h \in DOMAIN selcyclstack' :
        m < h => \/ of[m] < of[h]
                 \/ /\ of[m] = of[h]
                    /\ Owner(p_buf', selcyclstack'[m].line)
                         < Owner(p_buf', selcyclstack'[h].line)
  BY <1>1, <1>2 DEF Pictures, BlockLines
<1> QED BY <1>3, <1>4, <1>5 DEF FramesMatch

\* A frame is of the kind of its block.
LEMMA FrameKind ==
  ASSUME Ready, NEW m \in DOMAIN selcyclstack
  PROVE  /\ selcyclstack[m] \in Frame
         /\ BlockLines[m] = Owner(p_buf, selcyclstack[m].line) /\ BlockLines[m] \in Nat
         /\ Op(p_buf, BlockLines[m]) = selcyclstack[m].kind
         /\ selcyclstack[m].kind # "IF" => BlockLines[m] = selcyclstack[m].line
<1> DEFINE f == selcyclstack[m]
<1>1. f \in Frame /\ f.line \in Nat \ {0} /\ f.kind \in Openers
  BY FrameLine DEF Ready, Frame
<1>2. Op(p_buf, f.line) = f.kind \/ (f.kind = "IF" /\ Op(p_buf, f.line) = "ELSEIF")
  BY DEF Ready, IInv, FramesSound
<1>3. BlockLines[m] = Owner(p_buf, f.line)
  BY DEF BlockLines
<1> HIDE DEF f
<1>4. CASE Op(p_buf, f.line) = "ELSEIF"
  <2>1. f.kind = "IF"
    BY <1>1, <1>2, <1>4, Words
  <2>2. Op(p_buf, Owner(p_buf, f.line)) = "IF" /\ Owner(p_buf, f.line) \in Nat
    BY <1>1, <1>4, ReadyFacts, OwnerOfElseif DEF Ready
  <2> QED BY <1>1, <1>3, <2>1, <2>2 DEF f
<1>5. CASE Op(p_buf, f.line) # "ELSEIF"
  BY <1>1, <1>2, <1>3, <1>5, OwnerOfOther DEF f
<1> QED BY <1>4, <1>5

LEMMA OwnerLine ==
  ASSUME Ready
  PROVE  Owner(p_buf, prog) \in Nat
<1>1. CASE Op(p_buf, prog) = "ELSEIF"
  BY <1>1, ReadyFacts, OwnerOfElseif DEF Ready
<1>2. CASE Op(p_buf, prog) # "ELSEIF"
  BY <1>2, ReadyFacts, OwnerOfOther
<1> QED BY <1>1, <1>2

LEMMA BlocksNow ==
  ASSUME Ready
  PROVE  /\ Blocks[gosub_tos] = Heads(p_buf, Owner(p_buf, prog))
         /\ \A i \in 1 .. gosub_tos : Blocks[i] \in SUBSET Nat
<1>1. gosub_tos \in 1 .. gosub_tos /\ ~(gosub_tos < gosub_tos)
  BY ReadyFacts
<1>2. Blocks[gosub_tos] = Heads(p_buf, Owner(p_buf, prog))
  BY <1>1 DEF Blocks, Entered
<1>3. ASSUME NEW i \in 1 .. gosub_tos PROVE Blocks[i] \in SUBSET Nat
  <2>1. PICK l : Blocks[i] = Heads(p_buf, l)
    BY DEF Blocks, Entered
  <2> QED BY <2>1, ReadyFacts, HeadsAreLines
<1> QED BY <1>2, <1>3

LEMMA BlocksNext ==
  ASSUME Ready, UNCHANGED <<p_buf, stacks>>
  PROVE  /\ \A i \in 1 .. gosub_tos - 1 : Blocks'[i] = Blocks[i]
         /\ Blocks'[gosub_tos] = Heads(p_buf, Owner(p_buf, prog'))
         /\ gosub_tos' = gosub_tos
<1>1. /\ gosub_tos \in Nat \ {0} /\ gosub_tos' = gosub_tos /\ gosub_stack' = gosub_stack
      /\ p_buf' = p_buf
  BY ReadyFacts DEF stacks
<1>2. ASSUME NEW i \in 1 .. gosub_tos - 1 PROVE Blocks'[i] = Blocks[i]
  <2>1. i \in 1 .. gosub_tos /\ i < gosub_tos
    BY <1>1
  <2>2. Blocks[i] = Heads(p_buf, CallLine(i + 1))
    BY <2>1 DEF Blocks, Entered
  <2>3. Blocks'[i] = Heads(p_buf', CallLine(i + 1)')
    BY <1>1, <2>1 DEF Blocks, Entered
  <2>4. CallLine(i + 1)' = CallLine(i + 1)
    BY <1>1 DEF CallLine
  <2> QED BY <1>1, <2>2, <2>3, <2>4
<1>3. Blocks'[gosub_tos] = Heads(p_buf, Owner(p_buf, prog'))
  <2>1. gosub_tos \in 1 .. gosub_tos /\ ~(gosub_tos < gosub_tos)
    BY <1>1
  <2> QED BY <1>1, <2>1 DEF Blocks, Entered
<1> QED BY <1>1, <1>2, <1>3

LEMMA SameKept ==
  ASSUME Ready, IInv', UNCHANGED <<p_buf, stacks, selcyclstack>>,
         Heads(p_buf, Owner(p_buf, prog')) = Heads(p_buf, Owner(p_buf, prog))
  PROVE  FramesMatch'
<1>1. PICK of : Matches(of)
  BY Unfold
<1>2. /\ gosub_tos \in Nat \ {0} /\ Len(selcyclstack) \in Nat
      /\ DOMAIN selcyclstack = 1 .. Len(selcyclstack)
  BY ReadyFacts
<1>3. /\ \A i \in 1 .. gosub_tos - 1 : Blocks'[i] = Blocks[i]
      /\ Blocks'[gosub_tos] = Blocks[gosub_tos] /\ gosub_tos' = gosub_tos
  BY BlocksNext, BlocksNow
<1>4. \A i \in 1 .. gosub_tos : Blocks'[i] = Blocks[i]
  <2>1. \A i \in 1 .. gosub_tos : i = gosub_tos \/ i \in 1 .. gosub_tos - 1
    BY <1>2
  <2> QED BY <1>3, <2>1
<1>5. \A m \in 1 .. Len(selcyclstack) : BlockLines'[m] = BlockLines[m]
  BY <1>2 DEF BlockLines
<1>6. Mirrors(BlockLines', of, Len(selcyclstack), gosub_tos, Blocks')
  BY <1>1, <1>2, <1>4, <1>5, MirrorsSame DEF Matches
<1>7. Matches(of)'
  BY <1>3, <1>6 DEF Matches
<1> QED BY <1>7, Fold DEF IInv, TypeOK

LEMMA PushKept ==
  ASSUME Ready, IInv', UNCHANGED <<p_buf, stacks>>, NEW kind, Push(kind), fate' = "run",
         Heads(p_buf, Owner(p_buf, prog'))
           = Heads(p_buf, Owner(p_buf, prog)) \cup {Owner(p_buf, prog)}
  PROVE  FramesMatch'
<1> DEFINE k == Len(selcyclstack)
           y == Owner(p_buf, prog)
<1>1. PICK of : Matches(of)
  BY Unfold
<1>2. /\ gosub_tos \in Nat \ {0} /\ k \in Nat /\ DOMAIN selcyclstack = 1 .. k
      /\ selcyclstack \in Seq(Frame)
  BY ReadyFacts DEF Ready, IInv, TypeOK
<1>3. /\ \A i \in 1 .. gosub_tos - 1 : Blocks'[i] = Blocks[i]
      /\ Blocks'[gosub_tos] = Blocks[gosub_tos] \cup {y} /\ gosub_tos' = gosub_tos
  BY BlocksNext, BlocksNow
<1>4. selcyclstack' = Append(selcyclstack, [kind |-> kind, line |-> prog])
  BY DEF Push, Ready
<1>5. /\ Len(selcyclstack') = k + 1 /\ selcyclstack'[k + 1] = [kind |-> kind, line |-> prog]
      /\ DOMAIN selcyclstack' = 1 .. k + 1
      /\ \A m \in 1 .. k : selcyclstack'[m] = selcyclstack[m]
  <2>1. selcyclstack' \in Seq(Frame)
    BY DEF IInv, TypeOK
  <2> QED BY <1>2, <1>4, <2>1
<1>6. BlockLines'[k + 1] = y /\ \A m \in 1 .. k : BlockLines'[m] = BlockLines[m]
  <2>1. k + 1 \in 1 .. k + 1 /\ \A m \in 1 .. k : m \in 1 .. k + 1
    BY <1>2
  <2> QED BY <1>2, <1>5, <2>1 DEF BlockLines
<1>7. y \in Nat /\ \A x \in Blocks[gosub_tos] : x < y
  BY BlocksNow, OwnerLine DEF Heads
<1>8. PICK on : Mirrors(BlockLines', on, k + 1, gosub_tos, Blocks')
  <2> HIDE DEF k, y
  <2>1. Mirrors(BlockLines, of, k, gosub_tos, Blocks)
    BY <1>1 DEF Matches, k
  <2> DEFINE b == BlockLines  c == BlockLines'  n == gosub_tos  E == Blocks  F == Blocks'
  <2>2. /\ Mirrors(b, of, k, n, E) /\ n \in Nat \ {0} /\ k \in Nat /\ y \in Nat
        /\ \A x \in E[n] : x < y
        /\ c[k + 1] = y /\ \A m \in 1 .. k : c[m] = b[m]
        /\ F[n] = E[n] \cup {y} /\ \A i \in 1 .. n - 1 : F[i] = E[i]
    BY <1>2, <1>3, <1>6, <1>7, <2>1
  <2> HIDE DEF b, c, n, E, F
  <2>3. PutOn(b, of, k, n, E, y, c, F)
    BY <2>2 DEF PutOn
  <2>4. \E on : Mirrors(c, on, k + 1, n, F)
    BY <2>3, MirrorsPush
  <2> QED BY <2>4 DEF c, n, F
<1>9. Matches(on)'
  BY <1>3, <1>5, <1>8 DEF Matches
<1> QED BY <1>9, Fold DEF IInv, TypeOK

LEMMA CutKept ==
  ASSUME Ready, IInv', UNCHANGED <<p_buf, stacks>>,
         NEW of, Matches(of), NEW j \in DOMAIN selcyclstack, of[j] = gosub_tos,
         selcyclstack' = SubSeq(selcyclstack, 1, j - 1),
         Heads(p_buf, Owner(p_buf, prog'))
           = {x \in Heads(p_buf, Owner(p_buf, prog)) : x < BlockLines[j]}
  PROVE  FramesMatch'
<1> DEFINE k == Len(selcyclstack)
<1>2. /\ gosub_tos \in Nat \ {0} /\ k \in Nat /\ DOMAIN selcyclstack = 1 .. k
      /\ selcyclstack \in Seq(Frame)
  BY ReadyFacts DEF Ready, IInv, TypeOK
<1>3. /\ \A i \in 1 .. gosub_tos - 1 : Blocks'[i] = Blocks[i]
      /\ Blocks'[gosub_tos] = {x \in Blocks[gosub_tos] : x < BlockLines[j]}
      /\ gosub_tos' = gosub_tos
      /\ \A i \in 1 .. gosub_tos : Blocks[i] \in SUBSET Nat
  BY BlocksNext, BlocksNow
<1>5. /\ Len(selcyclstack') = j - 1 /\ DOMAIN selcyclstack' = 1 .. j - 1
      /\ \A m \in 1 .. j - 1 : m \in 1 .. k /\ selcyclstack'[m] = selcyclstack[m]
  BY <1>2, SubSeqProperties
<1>6. \A m \in 1 .. j - 1 : BlockLines'[m] = BlockLines[m]
  BY <1>2, <1>5 DEF BlockLines
<1>8. PICK on : Mirrors(BlockLines', on, j - 1, gosub_tos, Blocks')
  <2> HIDE DEF k
  <2>1. Mirrors(BlockLines, of, k, gosub_tos, Blocks) /\ j \in 1 .. k
    BY <1>2 DEF Matches, k
  <2> DEFINE b == BlockLines  c == BlockLines'  n == gosub_tos  E == Blocks  F == Blocks'
  <2>2. /\ Mirrors(b, of, k, n, E) /\ n \in Nat \ {0} /\ k \in Nat
        /\ j \in 1 .. k /\ of[j] = n
        /\ \A i \in 1 .. n : E[i] \in SUBSET Nat
        /\ \A m \in 1 .. j - 1 : c[m] = b[m]
        /\ \A x : x \in F[n] <=> x \in E[n] /\ x < b[j]
        /\ \A i \in 1 .. n - 1 : F[i] = E[i]
    BY <1>2, <1>3, <1>6, <2>1
  <2> HIDE DEF b, c, n, E, F
  <2>3. \E on : Mirrors(c, on, j - 1, n, F)
    BY ONLY <2>2, MirrorsCut
  <2> QED BY <2>3 DEF c, n, F
<1>9. Matches(on)'
  BY <1>3, <1>5, <1>8 DEF Matches
<1> QED BY <1>9, Fold DEF IInv, TypeOK

\* The frame on top is of the innermost block around the statement.
LEMMA TopIs ==
  ASSUME Ready, Op(p_buf, prog) # "ELSEIF", Heads(p_buf, prog) # {}
  PROVE  LET k == Max(Heads(p_buf, prog)) IN
         /\ k \in Heads(p_buf, prog) /\ Opens(p_buf, k) /\ k \in Nat
         /\ selcyclstack # <<>> /\ Len(selcyclstack) \in DOMAIN selcyclstack
         /\ Popped = selcyclstack[Len(selcyclstack)]
         /\ Popped.kind = Op(p_buf, k)
         /\ Popped.kind # "IF" => Popped.line = k
         /\ BlockLines[Len(selcyclstack)] = k
         /\ \A of : Matches(of) => of[Len(selcyclstack)] = gosub_tos
<1> DEFINE k == Max(Heads(p_buf, prog))
           n == Len(selcyclstack)
<1>1. /\ Text(p_buf) /\ prog \in Nat /\ gosub_tos \in Nat \ {0}
      /\ n \in Nat /\ DOMAIN selcyclstack = 1 .. n
  BY ReadyFacts
<1>2. k \in Heads(p_buf, prog) /\ \A x \in Heads(p_buf, prog) : x <= k
  BY <1>1, Innermost
<1>3. Opens(p_buf, k) /\ k \in Nat
  BY <1>1, <1>2, Below
<1>4. Blocks[gosub_tos] = Heads(p_buf, prog)
  BY BlocksNow, OwnerOfOther
<1> HIDE DEF k
<1>5. ASSUME NEW of, Matches(of)
      PROVE  n \in 1 .. n /\ of[n] = gosub_tos /\ BlockLines[n] = k
  <2>1. Mirrors(BlockLines, of, n, gosub_tos, Blocks)
    BY <1>5 DEF Matches
  <2>2. \A x \in Blocks[gosub_tos] : x \in Nat /\ x <= k
    BY <1>1, <1>2, <1>4, HeadsAreLines
  <2>3. k \in Blocks[gosub_tos]
    BY <1>2, <1>4
  <2> DEFINE b == BlockLines  t == gosub_tos  E == Blocks
  <2>4. /\ n \in Nat /\ t \in Nat \ {0} /\ Mirrors(b, of, n, t, E) /\ k \in E[t]
        /\ \A x \in E[t] : x \in Nat /\ x <= k
    BY <1>1, <2>1, <2>2, <2>3
  <2> HIDE DEF n, b, t, E
  <2>5. OnTop(b, of, n, t, E, k)
    BY <2>4 DEF OnTop
  <2>6. n \in 1 .. n /\ of[n] = t /\ b[n] = k
    BY <2>5, MirrorsTop
  <2> QED BY <2>6 DEF b, t
<1>6. n \in 1 .. n /\ BlockLines[n] = k
  BY <1>5, Unfold
<1>7. /\ selcyclstack[n] \in Frame /\ Op(p_buf, k) = selcyclstack[n].kind
      /\ selcyclstack[n].kind # "IF" => k = selcyclstack[n].line
  BY <1>1, <1>6, FrameKind
<1>8. selcyclstack # <<>> /\ Popped = selcyclstack[n]
  <2>1. selcyclstack # <<>>
    BY <1>1, <1>6
  <2> QED BY <2>1 DEF Popped, Last
<1> QED BY <1>1, <1>2, <1>3, <1>5, <1>6, <1>7, <1>8 DEF k

\* When it is taken off, the blocks around the innermost one remain.
LEMMA LeaveKept ==
  ASSUME Ready, IInv', UNCHANGED <<p_buf, stacks>>,
         Op(p_buf, prog) # "ELSEIF", Heads(p_buf, prog) # {}, selcyclstack' = Rest,
         Heads(p_buf, Owner(p_buf, prog')) = Heads(p_buf, Max(Heads(p_buf, prog)))
  PROVE  FramesMatch'
<1> DEFINE k == Max(Heads(p_buf, prog))
           n == Len(selcyclstack)
<1>1. PICK of : Matches(of)
  BY Unfold
<1>2. /\ k \in Heads(p_buf, prog) /\ selcyclstack # <<>> /\ n \in DOMAIN selcyclstack
      /\ BlockLines[n] = k /\ of[n] = gosub_tos
  BY <1>1, TopIs
<1>3. selcyclstack' = SubSeq(selcyclstack, 1, n - 1)
  BY <1>2 DEF Rest, Front
<1>4. Heads(p_buf, Owner(p_buf, prog'))
        = {x \in Heads(p_buf, Owner(p_buf, prog)) : x < BlockLines[n]}
  <2>1. Owner(p_buf, prog) = prog /\ Text(p_buf) /\ prog \in Nat
    BY OwnerOfOther, ReadyFacts
  <2>2. {x \in Heads(p_buf, prog) : x < k} = Heads(p_buf, k)
    BY <1>2, <2>1, Below
  <2> QED BY <1>2, <2>1, <2>2
<1> HIDE DEF k, n
<1> QED BY <1>1, <1>2, <1>3, <1>4, CutKept

\* The frame BREAK and CONTINUE find is of the innermost cycle around them.
LEMMA CycleIs ==
  ASSUME Ready, Op(p_buf, prog) # "ELSEIF", Op(p_buf, prog) \notin Openers,
         Around(p_buf, Cycles, prog) # {}
  PROVE  LET c == Inner(p_buf, Cycles, prog) IN
         /\ c \in Heads(p_buf, prog) /\ Opens(p_buf, c) /\ c \in Nat
         /\ CycleIndex # 0 /\ CycleIndex \in DOMAIN selcyclstack
         /\ Cycle = selcyclstack[CycleIndex] /\ Cycle.line = c /\ Cycle.kind = Op(p_buf, c)
         /\ BlockLines[CycleIndex] = c
         /\ \A of : Matches(of) => of[CycleIndex] = gosub_tos
<1> DEFINE c == Inner(p_buf, Cycles, prog)
           n == Len(selcyclstack)
           A == Around(p_buf, Cycles, prog)
           S == {i \in DOMAIN selcyclstack : selcyclstack[i].kind # "IF"}
<1>1. /\ Text(p_buf) /\ prog \in Nat /\ gosub_tos \in Nat \ {0}
      /\ n \in Nat /\ DOMAIN selcyclstack = 1 .. n
  BY ReadyFacts
<1>2. A = {x \in Heads(p_buf, prog) : Op(p_buf, x) \in Cycles}
  BY <1>1, AroundHeads DEF Cycles
<1>3. c \in A /\ \A x \in A : x <= c
  <2>1. A \in SUBSET (1 .. Len(p_buf)) /\ Len(p_buf) \in Nat
    BY <1>1, <1>2, HeadsAreLines
  <2> HIDE DEF A
  <2> QED BY <2>1, MaxGreatest DEF Inner, A
<1> HIDE DEF c, A
<1>4. c \in Heads(p_buf, prog) /\ Op(p_buf, c) \in Cycles /\ Opens(p_buf, c) /\ c \in Nat
  BY <1>1, <1>2, <1>3, Below
<1>5. Blocks[gosub_tos] = Heads(p_buf, prog) /\ gosub_tos \in 1 .. gosub_tos
  BY <1>1, BlocksNow, OwnerOfOther
<1>6. ASSUME NEW of, Matches(of)
      PROVE  /\ CycleIndex \in 1 .. n /\ selcyclstack[CycleIndex].kind # "IF"
             /\ of[CycleIndex] = gosub_tos /\ BlockLines[CycleIndex] = c
  <2>1. Mirrors(BlockLines, of, n, gosub_tos, Blocks)
    BY <1>6 DEF Matches
  <2>2. PICK m \in 1 .. n : of[m] = gosub_tos /\ BlockLines[m] = c
    BY <1>4, <1>5, <2>1 DEF Mirrors
  <2>3. selcyclstack[m].kind # "IF"
    <3>1. selcyclstack[m].kind = Op(p_buf, c)
      BY <1>1, <2>2, FrameKind
    <3> QED BY <1>4, <3>1 DEF Cycles
  <2> DEFINE j == CycleIndex
  <2>4. j \in S /\ m <= j
    <3>1. m \in S /\ S \in SUBSET (1 .. n)
      BY <1>1, <2>2, <2>3
    <3>2. j = Max(S)
      BY <3>1 DEF CycleIndex
    <3> HIDE DEF S, j
    <3> QED BY <1>1, <3>1, <3>2, MaxGreatest
  <2>5. j \in 1 .. n /\ selcyclstack[j].kind # "IF"
    BY <1>1, <2>4
  <2>6. m < j => FALSE
    <3> SUFFICES ASSUME m < j PROVE FALSE
      OBVIOUS
    <3> HIDE DEF j
    <3>1. of[m] < of[j] \/ (of[m] = of[j] /\ BlockLines[m] < BlockLines[j])
      BY <2>1, <2>2, <2>5 DEF Mirrors
    <3>2. of[j] \in 1 .. gosub_tos /\ BlockLines[j] \in Blocks[of[j]]
      BY <2>1, <2>5 DEF Mirrors
    <3>3. of[j] = gosub_tos /\ c < BlockLines[j]
      BY <1>1, <2>2, <3>1, <3>2
    <3>4. BlockLines[j] \in A
      <4>1. selcyclstack[j] \in Frame /\ Op(p_buf, BlockLines[j]) = selcyclstack[j].kind
        BY <1>1, <2>5, FrameKind
      <4>2. Op(p_buf, BlockLines[j]) \in Cycles
        BY <2>5, <4>1 DEF Frame, Cycles
      <4> QED BY <1>2, <1>5, <3>2, <3>3, <4>2
    <3>5. BlockLines[j] \in Nat
      BY <1>1, <2>5, FrameKind
    <3> QED BY <1>3, <1>4, <3>3, <3>4, <3>5
  <2>7. m = j
    <3> HIDE DEF j
    <3> QED BY <2>2, <2>4, <2>5, <2>6
  <2> QED BY <2>2, <2>5, <2>7
<1>7. /\ CycleIndex \in 1 .. n /\ selcyclstack[CycleIndex].kind # "IF"
      /\ BlockLines[CycleIndex] = c
  BY <1>6, Unfold
<1>8. CycleIndex # 0 /\ Cycle = selcyclstack[CycleIndex]
  <2>1. CycleIndex # 0
    BY <1>1, <1>7
  <2> QED BY <2>1 DEF Cycle
<1>9. /\ Op(p_buf, c) = selcyclstack[CycleIndex].kind
      /\ c = selcyclstack[CycleIndex].line
  BY <1>1, <1>7, FrameKind
<1> QED BY <1>1, <1>4, <1>6, <1>7, <1>8, <1>9 DEF c

\* The frames below it: the blocks around the cycle.
LEMMA OuterKept ==
  ASSUME Ready, IInv', UNCHANGED <<p_buf, stacks>>,
         Op(p_buf, prog) # "ELSEIF", Op(p_buf, prog) \notin Openers,
         Around(p_buf, Cycles, prog) # {}, selcyclstack' = Outer,
         Heads(p_buf, Owner(p_buf, prog')) = Heads(p_buf, Inner(p_buf, Cycles, prog))
  PROVE  FramesMatch'
<1> DEFINE c == Inner(p_buf, Cycles, prog)
           j == CycleIndex
<1>1. PICK of : Matches(of)
  BY Unfold
<1>2. /\ c \in Heads(p_buf, prog) /\ j \in DOMAIN selcyclstack
      /\ BlockLines[j] = c /\ of[j] = gosub_tos
  BY <1>1, CycleIs
<1>3. selcyclstack' = SubSeq(selcyclstack, 1, j - 1)
  BY DEF Outer
<1>4. Heads(p_buf, Owner(p_buf, prog'))
        = {x \in Heads(p_buf, Owner(p_buf, prog)) : x < BlockLines[j]}
  <2>1. Owner(p_buf, prog) = prog /\ Text(p_buf) /\ prog \in Nat
    BY OwnerOfOther, ReadyFacts
  <2>2. {x \in Heads(p_buf, prog) : x < c} = Heads(p_buf, c)
    BY <1>2, <2>1, Below
  <2> QED BY <1>2, <2>1, <2>2
<1> HIDE DEF c, j
<1> QED BY <1>1, <1>2, <1>3, <1>4, CutKept

\* With it: those around what is in the cycle.
LEMMA AgainKept ==
  ASSUME Ready, IInv', UNCHANGED <<p_buf, stacks>>,
         Op(p_buf, prog) # "ELSEIF", Op(p_buf, prog) \notin Openers,
         Around(p_buf, Cycles, prog) # {}, selcyclstack' = Append(Outer, Cycle),
         Heads(p_buf, Owner(p_buf, prog'))
           = Heads(p_buf, Inner(p_buf, Cycles, prog)) \cup {Inner(p_buf, Cycles, prog)}
  PROVE  FramesMatch'
<1> DEFINE c == Inner(p_buf, Cycles, prog)
           j == CycleIndex
           k == Len(selcyclstack)
<1>1. PICK of : Matches(of)
  BY Unfold
<1>2. /\ c \in Heads(p_buf, prog) /\ j \in DOMAIN selcyclstack /\ Cycle = selcyclstack[j]
      /\ BlockLines[j] = c /\ of[j] = gosub_tos /\ c \in Nat
  BY <1>1, CycleIs
<1>3. /\ gosub_tos \in Nat \ {0} /\ k \in Nat /\ DOMAIN selcyclstack = 1 .. k
      /\ selcyclstack \in Seq(Frame) /\ Text(p_buf) /\ prog \in Nat
  BY ReadyFacts DEF Ready, IInv, TypeOK
<1>4. /\ Len(Outer) = j - 1 /\ Outer \in Seq(Frame)
      /\ \A m \in 1 .. j - 1 : m \in 1 .. k /\ Outer[m] = selcyclstack[m]
  BY <1>2, <1>3, SubSeqProperties DEF Outer
<1>5. /\ Len(selcyclstack') = j /\ DOMAIN selcyclstack' = 1 .. j
      /\ \A m \in 1 .. j : m \in 1 .. k /\ selcyclstack'[m] = selcyclstack[m]
  <2> HIDE DEF j
  <2>1. Cycle \in Frame /\ j \in 1 .. k
    BY <1>2, <1>3, FrameKind
  <2>2. /\ Len(selcyclstack') = (j - 1) + 1 /\ selcyclstack' \in Seq(Frame)
        /\ \A m \in 1 .. j - 1 : selcyclstack'[m] = Outer[m]
        /\ selcyclstack'[(j - 1) + 1] = Cycle
    <3> HIDE DEF Outer, Cycle
    <3> QED BY <1>4, <2>1, AppendProperties
  <2>3. (j - 1) + 1 = j /\ \A m \in 1 .. j : m = j \/ m \in 1 .. j - 1
    BY <2>1
  <2> QED BY <1>2, <1>3, <1>4, <2>1, <2>2, <2>3
<1>6. \A m \in 1 .. j : BlockLines'[m] = BlockLines[m]
  BY <1>3, <1>5 DEF BlockLines
<1>7. /\ \A i \in 1 .. gosub_tos - 1 : Blocks'[i] = Blocks[i]
      /\ Blocks'[gosub_tos] = Heads(p_buf, c) \cup {c} /\ gosub_tos' = gosub_tos
      /\ Blocks[gosub_tos] = Heads(p_buf, prog)
      /\ \A i \in 1 .. gosub_tos : Blocks[i] \in SUBSET Nat
  BY BlocksNext, BlocksNow, OwnerOfOther
<1>8. /\ \A x : x \in Heads(p_buf, c) <=> x \in Heads(p_buf, prog) /\ x < c
      /\ \A x \in Heads(p_buf, c) : x < c
  <2>1. {x \in Heads(p_buf, prog) : x < c} = Heads(p_buf, c)
    BY <1>2, <1>3, Below
  <2> QED BY <2>1
<1> HIDE DEF c, j, k
<1> DEFINE G == [i \in 1 .. gosub_tos |-> IF i = gosub_tos THEN Heads(p_buf, c) ELSE Blocks[i]]
           n == gosub_tos
<1>9. /\ G[n] = Heads(p_buf, c) /\ \A i \in 1 .. n - 1 : G[i] = Blocks[i]
  BY <1>3
<1>10. j \in 1 .. k /\ Mirrors(BlockLines, of, k, n, Blocks)
  BY <1>1, <1>2, <1>3 DEF Matches, k
<1> HIDE DEF G
<1>11. PICK cut : Mirrors(BlockLines, cut, j - 1, n, G)
  <2>1. /\ n \in Nat \ {0} /\ k \in Nat /\ of[j] = n
        /\ \A i \in 1 .. n : Blocks[i] \in SUBSET Nat
        /\ \A x : x \in G[n] <=> x \in Blocks[n] /\ x < BlockLines[j]
    BY <1>2, <1>3, <1>7, <1>8, <1>9
  <2> HIDE DEF n
  <2> QED BY ONLY <1>9, <1>10, <2>1, MirrorsCut
<1>12. \E on : Mirrors(BlockLines', on, (j - 1) + 1, n, Blocks')
  <2>1. /\ j - 1 \in Nat /\ (j - 1) + 1 = j /\ n \in Nat \ {0}
        /\ \A m \in 1 .. j - 1 : m \in 1 .. j
    BY <1>3, <1>10
  <2>2. /\ j - 1 \in Nat /\ n \in Nat \ {0} /\ c \in Nat
        /\ \A x \in G[n] : x < c
        /\ BlockLines'[(j - 1) + 1] = c
        /\ \A m \in 1 .. j - 1 : BlockLines'[m] = BlockLines[m]
        /\ Blocks'[n] = G[n] \cup {c} /\ \A i \in 1 .. n - 1 : Blocks'[i] = G[i]
    <3>1. j \in 1 .. j
      BY <1>10
    <3> QED BY <1>2, <1>6, <1>7, <1>8, <1>9, <2>1, <3>1
  <2> DEFINE h == j - 1  b == BlockLines  d == BlockLines'  F == Blocks'
  <2>3. /\ h \in Nat /\ n \in Nat \ {0} /\ c \in Nat /\ Mirrors(b, cut, h, n, G)
        /\ \A x \in G[n] : x < c
        /\ d[h + 1] = c /\ \A m \in 1 .. h : d[m] = b[m]
        /\ F[n] = G[n] \cup {c} /\ \A i \in 1 .. n - 1 : F[i] = G[i]
    BY <1>11, <2>2
  <2> HIDE DEF n, h, b, d, F
  <2>4. PutOn(b, cut, h, n, G, c, d, F)
    BY <2>3 DEF PutOn
  <2>5. \E on : Mirrors(d, on, h + 1, n, F)
    BY <2>4, MirrorsPush
  <2> QED BY <2>5 DEF h, d, F
<1>13. PICK on : Mirrors(BlockLines', on, j, n, Blocks')
  <2>1. (j - 1) + 1 = j
    BY <1>3, <1>10
  <2> QED BY <1>12, <2>1
<1>14. Matches(on)'
  BY <1>5, <1>7, <1>13 DEF Matches
<1> QED BY <1>14, Fold DEF IInv, TypeOK

-----------------------------------------------------------------------------
(* Which blocks are around the line a statement goes to. *)

LEMMA HeadLine ==
  ASSUME NEW p \in Program, Tidy(p), NEW l, Opens(p, l)
  PROVE  /\ Owner(p, l) = l /\ Op(p, l) \in Openers /\ l \in Nat
         /\ Heads(p, Owner(p, l + 1)) = Heads(p, l) \cup {l}
<1>1. Text(p) /\ Op(p, l) \in Openers /\ l \in Nat
  <2>1. Text(p)
    BY TidyText
  <2> QED BY <2>1, BlockEnd DEF Op, Opens
<1>2. Op(p, l) \notin {"BREAK", "CONTINUE", "GOTO", "ELSEIF"}
  BY <1>1, Words
<1> QED BY <1>1, <1>2, OwnerOfOther, OwnerBehind, BehindOpener

LEMMA EndLine ==
  ASSUME NEW p \in Program, Tidy(p), NEW k, Opens(p, k)
  PROVE  Heads(p, Owner(p, EndOf(p, k) + 1)) = Heads(p, k)
<1>1. Text(p) /\ p[k].op \in Openers
  BY TidyText DEF Opens
<1>2. EndOf(p, k) \in Nat /\ Op(p, EndOf(p, k)) = Close[p[k].op]
  BY <1>1, BlockEnd
<1>3. Op(p, EndOf(p, k)) \notin {"BREAK", "CONTINUE", "GOTO"}
  BY <1>1, <1>2, Words
<1> QED BY <1>1, <1>2, <1>3, OwnerBehind, AtEnd

PlainWords == Ops \ (Openers \cup {Close[o] : o \in Openers})

LEMMA PlainLine ==
  ASSUME NEW p \in Program, Tidy(p), NEW l \in Nat, Op(p, l) \in PlainWords
  PROVE  /\ Heads(p, l + 1) = Heads(p, l)
         /\ Op(p, l) \notin {"BREAK", "CONTINUE", "GOTO"}
              => Heads(p, Owner(p, l + 1)) = Heads(p, l)
<1>1. Text(p) /\ Op(p, l) \notin Openers /\ \A o \in Openers : Op(p, l) # Close[o]
  BY TidyText DEF PlainWords
<1> QED BY <1>1, OwnerBehind, BehindPlain

LEMMA Plain ==
  /\ {"ELSE", "ELSEIF", "BREAK", "CONTINUE", "CASE", "DEFAULT", "GOTO", "CALL", "GOSUB",
      "RETURN", "ENDSUB", "END", "SUB", "STMT"} \subseteq PlainWords
  /\ {"IF", "FOR", "WHILE", "LOOP", "SELECT"} \subseteq Openers
BY Words DEF PlainWords, Ops

\* Where a false IF or ELSEIF, and an ELSE, go: to a branch of the same choice, or behind it.
LEMMA BranchEnd ==
  ASSUME NEW p \in Program, Tidy(p), NEW l \in Nat, Op(p, l) \in {"IF", "ELSEIF", "ELSE"},
         NEW m, m = Min(Outside(p, {"ELSE", "ELSEIF", "ENDIF"}, "IF", l))
  PROVE  \E k :
           /\ Opens(p, k) /\ k <= l /\ l <= EndOf(p, k) /\ k < m /\ m <= EndOf(p, k)
           /\ m \in Nat /\ k \in Nat
           /\ Op(p, l) # "ELSE" => Owner(p, l) = k
           /\ Op(p, l) = "ELSE" => Heads(p, l) # {} /\ k = Max(Heads(p, l))
           /\ Op(p, m) = "ENDIF" => m = EndOf(p, k)
                                    /\ Heads(p, Owner(p, m + 1)) = Heads(p, k)
           /\ Op(p, m) = "ELSE" => Heads(p, Owner(p, m + 1)) = Heads(p, k) \cup {k}
           /\ Op(p, m) = "ELSEIF" => Owner(p, m) = k
<1>1. Text(p) /\ l \in DOMAIN p /\ p[l].op = Op(p, l)
  BY TidyText DEF Op
<1>2. PICK k : /\ Opens(p, k) /\ p[k].op = "IF"
               /\ Op(p, l) = "IF" => k = l
               /\ Op(p, l) # "IF" => /\ Heads(p, l) # {} /\ k = Max(Heads(p, l))
                                    /\ k \in Heads(p, l) /\ Op(p, l) \in PlainWords
  <2>1. CASE Op(p, l) = "IF"
    BY <1>1, <2>1, Words DEF Opens
  <2>2. CASE Op(p, l) # "IF"
    <3>1. Belongs(p, l, "IF") /\ Op(p, l) \in PlainWords
      BY <1>1, <2>2, Plain DEF Tidy
    <3> QED BY <1>1, <2>2, <3>1, BelongsTo DEF PlainWords
  <2> QED BY <2>1, <2>2
<1>3. k \in Nat /\ EndOf(p, k) \in Nat /\ k < EndOf(p, k) /\ Close[p[k].op] = "ENDIF"
  BY <1>1, <1>2, BlockEnd, Words
<1>4. k <= l /\ l <= EndOf(p, k)
  BY <1>1, <1>2, <1>3, IsHead
<1>5. /\ m \in Nat /\ l < m /\ k < m /\ m <= EndOf(p, k)
      /\ Op(p, m) \in {"ELSE", "ELSEIF", "ENDIF"}
      /\ Level(p, p[k].op, k + 1, m) = 0
      /\ Op(p, m) = "ENDIF" => m = EndOf(p, k)
  <2>1. \/ l = k
        \/ /\ Heads(p, l) # {} /\ k = Max(Heads(p, l))
           /\ Op(p, l) \notin Openers /\ \A o \in Openers : Op(p, l) # Close[o]
    BY <1>2 DEF PlainWords
  <2>2. Close[p[k].op] \in {"ELSE", "ELSEIF", "ENDIF"}
    BY <1>3
  <2> DEFINE words == {"ELSE", "ELSEIF", "ENDIF"}
  <2>3. m = Min(Outside(p, words, p[k].op, l)) /\ Close[p[k].op] \in words
    BY <1>2, <2>2
  <2> HIDE DEF words
  <2>4. /\ m \in Nat /\ l < m /\ k < m /\ m <= EndOf(p, k) /\ Op(p, m) \in words
        /\ Level(p, p[k].op, k + 1, m) = 0
        /\ Op(p, m) = Close[p[k].op] => m = EndOf(p, k)
    <3>1. CASE l = k
      BY <1>1, <1>2, <2>3, <3>1, SearchInBlock
    <3>2. CASE l # k
      BY <1>1, <1>2, <2>1, <2>3, <3>2, SearchInBlock
    <3> QED BY <3>1, <3>2
  <2> QED BY <1>3, <2>4 DEF words
<1>6. Op(p, l) # "ELSE" => Owner(p, l) = k
  <2>1. CASE Op(p, l) = "IF"
    BY <1>2, <2>1, OwnerOfOther
  <2>2. CASE Op(p, l) = "ELSEIF"
    BY <1>2, <2>2, OwnerOfElseif
  <2> QED BY <2>1, <2>2
<1>7. ASSUME Op(p, m) \in {"ELSE", "ELSEIF"}
      PROVE  /\ Max(Heads(p, m)) = k /\ Heads(p, m) = Heads(p, k) \cup {k}
             /\ Op(p, m) \in PlainWords
  <2>1. m \in DOMAIN p /\ p[m].op = Op(p, m)
    BY <1>7 DEF Op
  <2>2. Belongs(p, m, "IF") /\ Op(p, m) \in PlainWords
    BY <1>7, <2>1, Plain DEF Tidy
  <2>3. Op(p, Max(Heads(p, m))) = "IF"
    BY <1>1, <1>5, <2>2, BelongsTo DEF PlainWords
  <2> QED BY <1>1, <1>2, <1>5, <2>2, <2>3, OwnBlock
<1>8. Op(p, m) = "ENDIF" => Heads(p, Owner(p, m + 1)) = Heads(p, k)
  BY <1>2, <1>5, EndLine
<1>9. Op(p, m) = "ELSE" => Heads(p, Owner(p, m + 1)) = Heads(p, k) \cup {k}
  BY <1>5, <1>7, PlainLine
<1>10. Op(p, m) = "ELSEIF" => Owner(p, m) = k
  BY <1>5, <1>7, OwnerOfElseif
<1>11. Op(p, l) = "ELSE" => Heads(p, l) # {} /\ k = Max(Heads(p, l))
  BY <1>2
<1> QED BY <1>2, <1>3, <1>4, <1>5, <1>6, <1>8, <1>9, <1>10, <1>11

\* Where a CASE that does not match goes: to the next one of the same choice.
LEMMA CaseEnd ==
  ASSUME NEW p \in Program, Tidy(p), NEW l \in Nat, Op(p, l) = "CASE",
         NEW m, m = Min(Outside(p, {"CASE", "DEFAULT", "ENDSELECT"}, "SELECT", l))
  PROVE  /\ m \in Nat /\ Op(p, m) \in {"CASE", "DEFAULT"}
         /\ Heads(p, Owner(p, m)) = Heads(p, l)
         /\ \E k : Opens(p, k) /\ k <= l /\ l <= EndOf(p, k) /\ k < m /\ m <= EndOf(p, k)
<1>1. Text(p) /\ l \in DOMAIN p /\ p[l].op = "CASE" /\ Op(p, l) \in PlainWords
  BY TidyText, Plain DEF Op
<1> DEFINE k == Max(Heads(p, l))
<1>2. /\ Opens(p, k) /\ p[k].op = "SELECT" /\ Heads(p, l) # {} /\ k \in Heads(p, l)
      /\ Heads(p, l) = Heads(p, k) \cup {k}
  <2>1. Belongs(p, l, "SELECT")
    BY <1>1 DEF Tidy
  <2> QED BY <1>1, <2>1, BelongsTo, Innermost DEF PlainWords
<1>3. Op(p, m) # "ENDSELECT"
  BY <1>1 DEF Tidy
<1>4. k \in Nat /\ EndOf(p, k) \in Nat /\ k < EndOf(p, k) /\ Close[p[k].op] = "ENDSELECT"
  BY <1>1, <1>2, BlockEnd, Words
<1>5. k <= l /\ l <= EndOf(p, k)
  BY <1>1, <1>2, <1>4, IsHead
<1>6. /\ m \in Nat /\ l < m /\ k < m /\ m <= EndOf(p, k) /\ m \in DOMAIN p
      /\ Op(p, m) \in {"CASE", "DEFAULT", "ENDSELECT"}
      /\ Level(p, p[k].op, k + 1, m) = 0
  <2>1. /\ Heads(p, l) # {} /\ k = Max(Heads(p, l))
        /\ Op(p, l) \notin Openers /\ \A o \in Openers : Op(p, l) # Close[o]
    BY <1>1, <1>2 DEF PlainWords
  <2>2. Close[p[k].op] \in {"CASE", "DEFAULT", "ENDSELECT"}
    BY <1>4
  <2> DEFINE words == {"CASE", "DEFAULT", "ENDSELECT"}
  <2>3. m = Min(Outside(p, words, p[k].op, l)) /\ Close[p[k].op] \in words
    BY <1>2, <2>2
  <2> HIDE DEF words, k
  <2>4. /\ m \in Nat /\ l < m /\ k < m /\ m <= EndOf(p, k) /\ m \in DOMAIN p
        /\ Op(p, m) \in words /\ Level(p, p[k].op, k + 1, m) = 0
    <3>1. Text(p) /\ Opens(p, k)
      BY <1>1, <1>2
    <3> QED BY ONLY <3>1, <2>1, <2>3, l \in Nat, SearchInBlock
  <2> QED BY <2>4 DEF words
<1>7. Op(p, m) \in {"CASE", "DEFAULT"} /\ Op(p, m) \in PlainWords /\ p[m].op = Op(p, m)
  <2>1. Op(p, m) \in {"CASE", "DEFAULT"}
    BY <1>3, <1>6
  <2> QED BY <1>6, <2>1, Plain DEF Op
<1>8. Op(p, Max(Heads(p, m))) = "SELECT"
  <2>1. Belongs(p, m, "SELECT")
    BY <1>6, <1>7 DEF Tidy
  <2> QED BY <1>1, <1>6, <1>7, <2>1, BelongsTo DEF PlainWords
<1>9. Heads(p, m) = Heads(p, k) \cup {k}
  <2> HIDE DEF k
  <2> QED BY <1>1, <1>2, <1>6, <1>8, OwnBlock
<1>10. Owner(p, m) = m
  BY <1>7, OwnerOfOther
<1> HIDE DEF k
<1> QED BY <1>2, <1>5, <1>6, <1>7, <1>9, <1>10

-----------------------------------------------------------------------------
(* The statements that stay in their activation. *)

\* The next line, or a line in a block around the statement or behind it.
Near ==
  \/ prog' = prog + 1
  \/ \E k : /\ Opens(p_buf, k) /\ k <= prog /\ prog <= EndOf(p_buf, k)
           /\ k < prog' /\ prog' <= EndOf(p_buf, k) + 1

Kept == fate' = "run" /\ err' = 0 => FramesMatch' /\ Near

LEMMA AtWord ==
  ASSUME Ready, NEW op \in Ops, Reads(op)
  PROVE  /\ Op(p_buf, prog) = op /\ prog \in DOMAIN p_buf /\ prog \in Nat \ {0}
         /\ p_buf[prog].op = op /\ (op \in Openers => Opens(p_buf, prog))
<1>1. op # "FINISHED"
  BY DEF Ops, Openers, Close
<1>2. prog \in DOMAIN p_buf /\ p_buf[prog].op = op /\ prog \in Nat \ {0}
  BY <1>1, ReadLine DEF Ready
<1> QED BY <1>2 DEF Op, Opens

LEMMA StopKept ==
  ASSUME \/ \E n \in 1 .. 19 : Error(n)
         \/ \E how \in {"hung", "exited", "overrun"} : Lost(how)
  PROVE  Kept
BY DEF Kept, Error, Lost

\* A jump in, out of or behind a block around the statement.
LEMMA NearBlock ==
  ASSUME NEW k, Opens(p_buf, k), Text(p_buf), k <= prog, prog <= EndOf(p_buf, k),
         \/ prog' = k + 1 \/ prog' = EndOf(p_buf, k) + 1
  PROVE  Near
<1>1. k \in Nat /\ EndOf(p_buf, k) \in Nat /\ k < EndOf(p_buf, k)
  BY BlockEnd
<1> QED BY <1>1 DEF Near

\* The frame of the block whose head is read.
LEMMA HeadKept ==
  ASSUME Ready, IInv', NEW kind, prog' = prog + 1, UNCHANGED <<p_buf, stacks>>,
         Push(kind), Opens(p_buf, prog)
  PROVE  Kept
<1>1. Heads(p_buf, Owner(p_buf, prog'))
        = Heads(p_buf, Owner(p_buf, prog)) \cup {Owner(p_buf, prog)}
  BY ReadyFacts, HeadLine DEF Ready
<1>2. fate' = "run" => FramesMatch'
  BY <1>1, PushKept
<1> QED BY <1>2 DEF Kept, Near

LEMMA ConditionKept ==
  ASSUME Ready, IInv', NEW op \in {"IF", "ELSEIF"}, Reads(op), ExecCondition
  PROVE  Kept
<1> DEFINE m == Min(BranchEnds)
<1>1. /\ Op(p_buf, prog) = op /\ prog \in Nat /\ p_buf \in Program /\ Tidy(p_buf)
      /\ Text(p_buf) /\ op \notin {"BREAK", "CONTINUE", "GOTO"}
  BY ReadyFacts DEF Ready, Reads
<1>2. PICK k :
        /\ Opens(p_buf, k) /\ k <= prog /\ prog <= EndOf(p_buf, k)
        /\ k < m /\ m <= EndOf(p_buf, k)
        /\ m \in Nat /\ k \in Nat
        /\ Owner(p_buf, prog) = k
        /\ Op(p_buf, m) = "ENDIF" => Heads(p_buf, Owner(p_buf, m + 1)) = Heads(p_buf, k)
        /\ Op(p_buf, m) = "ELSE"
             => Heads(p_buf, Owner(p_buf, m + 1)) = Heads(p_buf, k) \cup {k}
        /\ Op(p_buf, m) = "ELSEIF" => Owner(p_buf, m) = k
  BY <1>1, BranchEnd DEF BranchEnds
<1>3. EndOf(p_buf, k) \in Nat
  BY <1>1, <1>2, BlockEnd
<1>4. CASE NextLine /\ Push("IF")
  <2>1. Heads(p_buf, Owner(p_buf, prog + 1)) = Heads(p_buf, k) \cup {k}
    <3>1. CASE op = "IF"
      <4>1. Opens(p_buf, prog)
        BY <1>1, <3>1, Words DEF Opens, Op
      <4>2. Owner(p_buf, prog) = prog
        BY <1>1, <3>1, OwnerOfOther
      <4> QED BY <1>1, <1>2, <4>1, <4>2, HeadLine
    <3>2. CASE op = "ELSEIF"
      <4>1. k = Max(Heads(p_buf, prog)) /\ Heads(p_buf, prog) # {}
        BY <1>1, <1>2, <3>2, OwnerOfElseif
      <4>2. Heads(p_buf, prog) = Heads(p_buf, k) \cup {k}
        BY <1>1, <4>1, Innermost
      <4>3. Heads(p_buf, Owner(p_buf, prog + 1)) = Heads(p_buf, prog)
        BY <1>1, <3>2, Plain, PlainLine
      <4> QED BY <4>2, <4>3
    <3> QED BY <3>1, <3>2
  <2>2. prog' = prog + 1 /\ UNCHANGED <<p_buf, stacks>>
    BY <1>4 DEF NextLine, Goto
  <2>3. fate' = "run" => FramesMatch'
    BY <1>2, <1>4, <2>1, <2>2, PushKept
  <2> QED BY <2>2, <2>3 DEF Kept, Near
<1>5. CASE Lost("hung")
  BY <1>5, StopKept
<1>6. CASE Op(p_buf, m) = "ELSE" /\ Goto(m + 1) /\ Push("IF")
  <2>1. prog' = m + 1 /\ UNCHANGED <<p_buf, stacks>>
    BY <1>6 DEF Goto
  <2>2. fate' = "run" => FramesMatch'
    BY <1>2, <1>6, <2>1, PushKept
  <2>3. Near
    BY <1>2, <1>3, <2>1 DEF Near
  <2> QED BY <2>2, <2>3 DEF Kept
<1>7. CASE Op(p_buf, m) = "ELSEIF" /\ Goto(m) /\ UNCHANGED <<selcyclstack, fate>>
  <2>1. prog' = m /\ UNCHANGED <<p_buf, stacks, selcyclstack>>
    BY <1>7 DEF Goto
  <2>2. FramesMatch'
    BY <1>2, <1>7, <2>1, SameKept
  <2>3. Near
    BY <1>2, <1>3, <2>1 DEF Near
  <2> QED BY <2>2, <2>3 DEF Kept
<1>8. CASE Op(p_buf, m) = "ENDIF" /\ Goto(m + 1) /\ UNCHANGED <<selcyclstack, fate>>
  <2>1. prog' = m + 1 /\ UNCHANGED <<p_buf, stacks, selcyclstack>>
    BY <1>8 DEF Goto
  <2>2. FramesMatch'
    BY <1>2, <1>8, <2>1, SameKept
  <2>3. Near
    BY <1>2, <1>3, <2>1 DEF Near
  <2> QED BY <2>2, <2>3 DEF Kept
<1> HIDE DEF m
<1> QED BY <1>4, <1>5, <1>6, <1>7, <1>8 DEF ExecCondition, m

\* Behind the block whose frame is on top.
LEMMA LeftKept ==
  ASSUME Ready, IInv', NEW kind, NEW l, Leave(kind, l),
         Op(p_buf, prog) # "ELSEIF", Heads(p_buf, prog) # {},
         l = EndOf(p_buf, Max(Heads(p_buf, prog))) + 1
  PROVE  Kept
<1> DEFINE k == Max(Heads(p_buf, prog))
<1>1. /\ k \in Heads(p_buf, prog) /\ Opens(p_buf, k) /\ p_buf \in Program /\ Tidy(p_buf)
      /\ Text(p_buf) /\ prog \in Nat
  BY TopIs, ReadyFacts DEF Ready
<1>2. CASE Error(4)
  BY <1>2, StopKept
<1>3. CASE Goto(l) /\ selcyclstack' = Rest /\ UNCHANGED fate
  <2>1. prog' = l /\ UNCHANGED <<p_buf, stacks>>
    BY <1>3 DEF Goto
  <2>2. Heads(p_buf, Owner(p_buf, prog')) = Heads(p_buf, k)
    BY <1>1, <2>1, EndLine
  <2>3. FramesMatch'
    BY <1>3, <2>1, <2>2, LeaveKept
  <2>4. Near
    <3>1. k < prog /\ prog <= EndOf(p_buf, k) /\ k \in Nat
      BY <1>1, IsHead, BlockEnd
    <3> HIDE DEF k
    <3> QED BY <1>1, <2>1, <3>1, NearBlock DEF k
  <2> QED BY <2>3, <2>4 DEF Kept
<1> QED BY <1>2, <1>3 DEF Leave

LEMMA ElseKept ==
  ASSUME Ready, IInv', ExecElse \/ ExecEndif \/ ExecEndSelect
  PROVE  Kept
<1>1. p_buf \in Program /\ Tidy(p_buf) /\ Text(p_buf) /\ prog \in Nat
  BY ReadyFacts DEF Ready
<1>2. CASE ExecElse
  <2> DEFINE m == Min(BranchEnds)
  <2>1. Op(p_buf, prog) = "ELSE"
    BY <1>2 DEF ExecElse, Reads
  <2>2. CASE Op(p_buf, m) = "ENDIF" /\ Leave("IF", m + 1)
    <3>1. Heads(p_buf, prog) # {} /\ m = EndOf(p_buf, Max(Heads(p_buf, prog)))
      BY <1>1, <2>1, <2>2, BranchEnd DEF BranchEnds
    <3> QED BY <2>1, <2>2, <3>1, LeftKept
  <2>3. CASE Lost("hung") \/ Error(1)
    BY <2>3, StopKept
  <2> QED BY <1>2, <2>2, <2>3 DEF ExecElse
<1>3. ASSUME NEW kind \in {"IF", "SELECT"}, Reads(Close[kind]), Leave(kind, prog + 1)
      PROVE  Kept
  <2>1. kind \in Openers /\ Close[kind] \in Ops
    BY Words DEF Ops
  <2>2. prog \in DOMAIN p_buf /\ p_buf[prog].op = Close[kind] /\ Op(p_buf, prog) = Close[kind]
    <3> DEFINE op == Close[kind]
    <3>1. op \in Ops /\ Reads(op)
      BY <1>3, <2>1
    <3> HIDE DEF op
    <3>2. prog \in DOMAIN p_buf /\ p_buf[prog].op = op /\ Op(p_buf, prog) = op
      BY <3>1, AtWord
    <3> QED BY <3>2 DEF op
  <2>3. Heads(p_buf, prog) # {} /\ EndOf(p_buf, Max(Heads(p_buf, prog))) = prog
    BY <1>1, <2>1, <2>2, AtCloser
  <2>4. Op(p_buf, prog) # "ELSEIF"
    BY <2>1, <2>2, Words
  <2> QED BY <1>3, <2>3, <2>4, LeftKept
<1>4. CASE ExecEndif \/ ExecEndSelect
  BY <1>3, <1>4, Words DEF ExecEndif, ExecEndSelect
<1> QED BY <1>2, <1>4

\* At a closing word, the innermost block is of its kind.
LEMMA AtClose ==
  ASSUME Ready, NEW kind \in Openers, Reads(Close[kind])
  PROVE  LET k == Max(Heads(p_buf, prog)) IN
         /\ Op(p_buf, prog) # "ELSEIF" /\ Heads(p_buf, prog) # {}
         /\ Opens(p_buf, k) /\ p_buf[k].op = kind /\ EndOf(p_buf, k) = prog
         /\ k \in Nat /\ k < prog /\ Heads(p_buf, prog) = Heads(p_buf, k) \cup {k}
         /\ Popped.kind = kind /\ (kind # "IF" => Popped.line = k)
<1> DEFINE op == Close[kind]
           k == Max(Heads(p_buf, prog))
<1>1. p_buf \in Program /\ Tidy(p_buf) /\ Text(p_buf) /\ prog \in Nat
  BY ReadyFacts DEF Ready
<1>2. op \in Ops /\ Reads(op) /\ op # "ELSEIF"
  BY Words DEF Ops
<1>3. prog \in DOMAIN p_buf /\ p_buf[prog].op = op /\ Op(p_buf, prog) = op
  <2> HIDE DEF op
  <2> QED BY <1>2, AtWord
<1>4. Heads(p_buf, prog) # {} /\ Opens(p_buf, k) /\ EndOf(p_buf, k) = prog /\ p_buf[k].op = kind
  BY <1>1, <1>3, AtCloser
<1>5. k \in Heads(p_buf, prog) /\ Heads(p_buf, prog) = Heads(p_buf, k) \cup {k}
  BY <1>1, <1>4, Innermost
<1>6. Popped.kind = Op(p_buf, k) /\ (Popped.kind # "IF" => Popped.line = k) /\ k \in Nat
  BY <1>2, <1>3, <1>4, TopIs
<1>7. Op(p_buf, k) = kind
  BY <1>4 DEF Op, Opens
<1>8. k < prog
  BY <1>1, <1>5, IsHead
<1> HIDE DEF k, op
<1> QED BY <1>2, <1>3, <1>4, <1>5, <1>6, <1>7, <1>8 DEF k

\* The end of a cycle goes on in it, or behind it without its frame.
LEMMA CloseKept ==
  ASSUME Ready, IInv', NEW kind \in Openers, Reads(Close[kind]), UNCHANGED <<p_buf, stacks>>,
         \/ prog' = Max(Heads(p_buf, prog)) + 1 /\ UNCHANGED selcyclstack
         \/ prog' = prog + 1 /\ selcyclstack' = Rest
  PROVE  Kept
<1> DEFINE k == Max(Heads(p_buf, prog))
<1>1. p_buf \in Program /\ Tidy(p_buf) /\ Text(p_buf) /\ prog \in Nat
  BY ReadyFacts DEF Ready
<1>2. /\ Op(p_buf, prog) # "ELSEIF" /\ Heads(p_buf, prog) # {}
      /\ Opens(p_buf, k) /\ EndOf(p_buf, k) = prog
      /\ k \in Nat /\ k < prog /\ Heads(p_buf, prog) = Heads(p_buf, k) \cup {k}
  BY AtClose
<1>3. CASE prog' = k + 1 /\ UNCHANGED selcyclstack
  <2>1. Heads(p_buf, Owner(p_buf, prog')) = Heads(p_buf, k) \cup {k}
    BY <1>1, <1>2, <1>3, HeadLine
  <2>2. Owner(p_buf, prog) = prog
    BY <1>2, OwnerOfOther
  <2>3. FramesMatch'
    BY <1>2, <1>3, <2>1, <2>2, SameKept
  <2>4. Near
    <3> HIDE DEF k
    <3> QED BY <1>1, <1>2, <1>3, NearBlock
  <2> QED BY <2>3, <2>4 DEF Kept
<1>4. CASE prog' = prog + 1 /\ selcyclstack' = Rest
  <2>1. Heads(p_buf, Owner(p_buf, prog')) = Heads(p_buf, k)
    BY <1>1, <1>2, <1>4, EndLine
  <2>2. FramesMatch'
    BY <1>2, <1>4, <2>1, LeaveKept
  <2> QED BY <1>4, <2>2 DEF Kept, Near
<1> QED BY <1>3, <1>4

LEMMA NextKept ==
  ASSUME Ready, IInv', NEW kind \in {"FOR", "LOOP"}, ExecNext(kind)
  PROVE  Kept
<1>1. Reads(Close[kind]) /\ kind \in Openers
  BY Words DEF ExecNext
<1>2. Popped.kind = kind /\ Popped.line = Max(Heads(p_buf, prog))
  BY <1>1, AtClose
<1>3. /\ UNCHANGED <<p_buf, stacks>>
      /\ \/ prog' = Popped.line + 1 /\ UNCHANGED selcyclstack
         \/ prog' = prog + 1 /\ selcyclstack' = Rest
  BY <1>2 DEF ExecNext
<1> QED BY <1>1, <1>2, <1>3, CloseKept

\* Behind the WEND of a WHILE.
LEMMA SkipTo ==
  ASSUME NEW lines, NEW rest, Skip(lines, rest)
  PROVE  \/ Lost("hung")
         \/ /\ lines # {} /\ prog' = Min(lines) + 1 /\ selcyclstack' = rest
            /\ UNCHANGED <<p_buf, stacks>> /\ fate' = fate
BY DEF Skip, Goto

LEMMA WhileKept ==
  ASSUME Ready, IInv', ExecWhile \/ ExecWend
  PROVE  Kept
<1>1. p_buf \in Program /\ Tidy(p_buf) /\ Text(p_buf) /\ prog \in Nat
  BY ReadyFacts DEF Ready
<1>2. "WHILE" \in Openers /\ Close["WHILE"] = "WEND" /\ "WHILE" \in Ops
  BY Words DEF Ops
<1>3. CASE ExecWhile
  <2>1. Opens(p_buf, prog) /\ Op(p_buf, prog) = "WHILE"
    BY <1>2, <1>3, AtWord DEF ExecWhile
  <2>2. CASE NextLine /\ Push("WHILE")
    BY <2>1, <2>2, HeadKept DEF NextLine, Goto
  <2>3. CASE Skip(Outside(p_buf, {"WEND"}, "WHILE", prog), selcyclstack)
    <3> DEFINE lines == Outside(p_buf, {"WEND"}, "WHILE", prog)
    <3>1. CASE Lost("hung")
      BY <3>1, StopKept
    <3>2. CASE prog' = Min(lines) + 1 /\ selcyclstack' = selcyclstack /\ UNCHANGED <<p_buf, stacks>>
      <4>1. Min(lines) = EndOf(p_buf, prog)
        BY <1>2, <2>1 DEF EndOf
      <4>2. Heads(p_buf, Owner(p_buf, prog')) = Heads(p_buf, prog) /\ Owner(p_buf, prog) = prog
        BY <1>1, <2>1, <3>2, <4>1, EndLine, HeadLine
      <4>3. FramesMatch'
        BY <3>2, <4>2, SameKept
      <4>4. prog <= EndOf(p_buf, prog)
        <5>1. EndOf(p_buf, prog) \in Nat /\ prog < EndOf(p_buf, prog)
          BY <1>1, <2>1, BlockEnd
        <5> QED BY <1>1, <5>1
      <4>5. Near
        BY <1>1, <2>1, <3>2, <4>1, <4>4, NearBlock
      <4> QED BY <4>3, <4>5 DEF Kept
    <3> HIDE DEF lines
    <3> QED BY <2>3, <3>1, <3>2, SkipTo DEF lines
  <2> QED BY <1>3, <2>2, <2>3 DEF ExecWhile
<1>4. CASE ExecWend
  <2> DEFINE k == Max(Heads(p_buf, prog))
  <2>1. Reads(Close["WHILE"])
    BY <1>2, <1>4 DEF ExecWend
  <2>2. /\ Popped.kind = "WHILE" /\ Popped.line = k /\ Opens(p_buf, k)
        /\ p_buf[k].op = "WHILE" /\ EndOf(p_buf, k) = prog
    BY <1>2, <2>1, AtClose
  <2>3. CASE Goto(k + 1) /\ UNCHANGED <<selcyclstack, fate>>
    BY <1>2, <2>1, <2>3, CloseKept DEF Goto
  <2>4. CASE Skip(Outside(p_buf, {"WEND"}, "WHILE", k), Rest)
    <3> DEFINE lines == Outside(p_buf, {"WEND"}, "WHILE", k)
    <3>1. CASE Lost("hung")
      BY <3>1, StopKept
    <3>2. CASE prog' = Min(lines) + 1 /\ selcyclstack' = Rest /\ UNCHANGED <<p_buf, stacks>>
      <4>1. Op(p_buf, k) = "WHILE"
        BY <2>2 DEF Op, Opens
      <4>2. Min(lines) = prog
        BY <1>2, <2>2, <4>1 DEF EndOf
      <4> QED BY <1>2, <2>1, <3>2, <4>2, CloseKept
    <3> HIDE DEF lines
    <3> QED BY <2>4, <3>1, <3>2, SkipTo DEF lines
  <2> HIDE DEF k
  <2> QED BY <1>4, <2>2, <2>3, <2>4 DEF ExecWend
<1> QED BY <1>3, <1>4

\* The next line, with the same blocks around it.
LEMMA PlainKept ==
  ASSUME Ready, IInv', NEW op \in PlainWords, Reads(op),
         op \notin {"BREAK", "CONTINUE", "GOTO", "ELSEIF"},
         NextLine, UNCHANGED selcyclstack
  PROVE  Kept
<1>1. /\ p_buf \in Program /\ Tidy(p_buf) /\ prog \in Nat /\ Op(p_buf, prog) = op
  BY ReadyFacts DEF Ready, Reads
<1>2. prog' = prog + 1 /\ UNCHANGED <<p_buf, stacks>>
  BY DEF NextLine, Goto
<1>3. Heads(p_buf, Owner(p_buf, prog')) = Heads(p_buf, prog) /\ Owner(p_buf, prog) = prog
  BY <1>1, <1>2, PlainLine, OwnerOfOther
<1>4. FramesMatch'
  BY <1>2, <1>3, SameKept
<1> QED BY <1>2, <1>4 DEF Kept, Near

LEMMA SelectKept ==
  ASSUME Ready, IInv', ExecSelect \/ ExecCase
  PROVE  Kept
<1>1. p_buf \in Program /\ Tidy(p_buf) /\ Text(p_buf) /\ prog \in Nat
  BY ReadyFacts DEF Ready
<1>2. CASE ExecSelect
  <2>1. "SELECT" \in Openers /\ "SELECT" \in Ops
    BY Words DEF Ops
  <2>2. Opens(p_buf, prog)
    BY <1>2, <2>1, AtWord DEF ExecSelect
  <2> QED BY <1>2, <2>2, HeadKept DEF ExecSelect, NextLine, Goto
<1>3. CASE ExecCase
  <2>1. Reads("CASE") /\ Op(p_buf, prog) = "CASE" /\ "CASE" \in PlainWords
    BY <1>3, Plain DEF ExecCase, Reads
  <2>2. CASE Error(4) \/ Lost("hung") \/ Lost("exited")
    BY <2>2, StopKept
  <2>3. CASE NextLine /\ UNCHANGED <<selcyclstack, fate>>
    BY <2>1, <2>3, PlainKept
  <2>4. CASE SkipCase
    <3> DEFINE last == Behind(p_buf, {"END", "ENDSUB"}, prog)
               own == Outside(p_buf, {"CASE", "DEFAULT", "ENDSELECT"}, "SELECT", prog)
               ends == last \cup own
               m == Min(ends)
    <3>1. \/ Error(4) \/ Lost("hung") \/ Lost("exited")
          \/ /\ ends # {} /\ m \notin last
             /\ Goto(IF Op(p_buf, m) = "ENDSELECT" THEN m + 1 ELSE m)
             /\ UNCHANGED <<selcyclstack, fate>>
      BY <2>4 DEF SkipCase
    <3>2. CASE /\ ends # {} /\ m \notin last
               /\ Goto(IF Op(p_buf, m) = "ENDSELECT" THEN m + 1 ELSE m)
               /\ UNCHANGED <<selcyclstack, fate>>
      <4>1. m = Min(own)
        <5>1. last \in SUBSET Nat /\ own \in SUBSET Nat
          BY <1>1, Forwards
        <5> HIDE DEF last, own
        <5>2. ends \in SUBSET Nat
          BY <5>1
        <5>3. m \in ends
          BY <3>2, <5>2, MinIn
        <5>4. m \in own /\ m \in Nat
          BY <3>2, <5>1, <5>3
        <5>5. Min(own) \in own /\ Min(own) <= m
          BY <5>1, <5>4, MinLeast
        <5>6. m <= Min(own)
          BY <5>2, <5>5, MinLeast
        <5>7. Min(own) \in Nat
          BY <5>1, <5>5
        <5> HIDE DEF ends, m
        <5> QED BY <5>4, <5>5, <5>6, <5>7
      <4>2. /\ m \in Nat /\ Op(p_buf, m) \in {"CASE", "DEFAULT"}
            /\ Heads(p_buf, Owner(p_buf, m)) = Heads(p_buf, prog)
            /\ \E k : /\ Opens(p_buf, k) /\ k <= prog /\ prog <= EndOf(p_buf, k)
                     /\ k < m /\ m <= EndOf(p_buf, k)
        BY <1>1, <2>1, <4>1, CaseEnd
      <4> HIDE DEF m, ends, last, own
      <4>3. prog' = m /\ UNCHANGED <<p_buf, stacks, selcyclstack>>
        BY <3>2, <4>2 DEF Goto
      <4>4. FramesMatch'
        BY <2>1, <4>2, <4>3, OwnerOfOther, SameKept
      <4>5. Near
        <5>1. PICK k : /\ Opens(p_buf, k) /\ k <= prog /\ prog <= EndOf(p_buf, k)
                       /\ k < m /\ m <= EndOf(p_buf, k)
          BY <4>2
        <5>2. EndOf(p_buf, k) \in Nat
          BY <1>1, <5>1, BlockEnd
        <5>3. m <= EndOf(p_buf, k) + 1
          BY <4>2, <5>1, <5>2
        <5> QED BY <4>3, <5>1, <5>3 DEF Near
      <4> QED BY <4>4, <4>5 DEF Kept
    <3> HIDE DEF last, ends, m, own
    <3> QED BY <2>2, <3>1, <3>2
  <2> QED BY <1>3, <2>2, <2>3, <2>4 DEF ExecCase
<1> QED BY <1>2, <1>3

\* The cycle a BREAK or CONTINUE is in.
LEMMA InCycle ==
  ASSUME Ready, NEW word \in {"BREAK", "CONTINUE"}, Reads(word)
  PROVE  LET c == Inner(p_buf, Cycles, prog) IN
         /\ Op(p_buf, prog) = word /\ Op(p_buf, prog) # "ELSEIF" /\ Op(p_buf, prog) \notin Openers
         /\ Around(p_buf, Cycles, prog) # {}
         /\ c \in Heads(p_buf, prog) /\ Opens(p_buf, c) /\ c \in Nat /\ EndOf(p_buf, c) \in Nat
         /\ c < prog /\ prog < EndOf(p_buf, c) /\ EndOf(p_buf, c) <= Len(p_buf)
         /\ Op(p_buf, EndOf(p_buf, c)) = Close[Op(p_buf, c)]
         /\ Op(p_buf, c) \in Cycles /\ Cycle.kind = Op(p_buf, c) /\ Cycle.line = c
         /\ word = "BREAK" /\ Op(p_buf, c) # "LOOP" => EndsFirst(p_buf, c, prog)
         /\ word = "CONTINUE" => /\ Op(p_buf, c) \in {"FOR", "WHILE"}
                                /\ EndsFirst(p_buf, c, c)
<1> DEFINE c == Inner(p_buf, Cycles, prog)
<1>1. p_buf \in Program /\ Tidy(p_buf) /\ Text(p_buf) /\ prog \in Nat
  BY ReadyFacts DEF Ready
<1>2. word \in PlainWords /\ word \in Ops
  BY Plain DEF PlainWords
<1>3. prog \in DOMAIN p_buf /\ p_buf[prog].op = word /\ Op(p_buf, prog) = word
  BY <1>2, AtWord
<1>4. /\ Op(p_buf, prog) # "ELSEIF" /\ Op(p_buf, prog) \notin Openers
      /\ \A o \in Openers : Op(p_buf, prog) # Close[o]
  BY <1>2, <1>3 DEF PlainWords
<1>5. /\ Around(p_buf, Cycles, prog) # {}
      /\ word = "BREAK" /\ Op(p_buf, c) # "LOOP" => EndsFirst(p_buf, c, prog)
      /\ word = "CONTINUE" => Op(p_buf, c) \in {"FOR", "WHILE"} /\ EndsFirst(p_buf, c, c)
  BY <1>1, <1>3 DEF Tidy
<1>6. /\ c \in Heads(p_buf, prog) /\ Opens(p_buf, c) /\ c \in Nat
      /\ CycleIndex \in DOMAIN selcyclstack /\ Cycle = selcyclstack[CycleIndex]
      /\ Cycle.kind = Op(p_buf, c) /\ Cycle.line = c
  BY <1>4, <1>5, CycleIs
<1>7. /\ EndOf(p_buf, c) \in Nat /\ EndOf(p_buf, c) <= Len(p_buf)
      /\ Op(p_buf, EndOf(p_buf, c)) = Close[p_buf[c].op] /\ p_buf[c].op = Op(p_buf, c)
      /\ Op(p_buf, c) \in Openers
  BY <1>1, <1>6, BlockEnd DEF Op, Opens
<1>8. c < prog /\ prog <= EndOf(p_buf, c)
  BY <1>1, <1>6, IsHead
<1>9. prog < EndOf(p_buf, c)
  BY <1>1, <1>4, <1>7, <1>8
<1>10. Op(p_buf, c) \in Cycles
  <2> DEFINE A == Around(p_buf, Cycles, prog)
  <2>1. A = {x \in Heads(p_buf, prog) : Op(p_buf, x) \in Cycles}
    BY <1>1, <1>4, AroundHeads DEF Cycles
  <2>2. A \in SUBSET (1 .. Len(p_buf)) /\ Len(p_buf) \in Nat
    BY <1>1, <2>1, HeadsAreLines
  <2>3. c \in A
    <3> HIDE DEF A
    <3> QED BY <1>5, <2>2, MaxGreatest DEF Inner, A
  <2> QED BY <2>1, <2>3
<1> HIDE DEF c
<1> QED BY <1>3, <1>4, <1>5, <1>6, <1>7, <1>8, <1>9, <1>10 DEF c

LEMMA OutKept ==
  ASSUME Ready, IInv', NEW word \in {"BREAK", "CONTINUE"}, Reads(word),
         UNCHANGED <<p_buf, stacks>>,
         \/ /\ prog' = EndOf(p_buf, Inner(p_buf, Cycles, prog)) + 1 /\ selcyclstack' = Outer
         \/ /\ prog' = Inner(p_buf, Cycles, prog) + 1
            /\ selcyclstack' = Append(Outer, Cycle)
  PROVE  Kept
<1> DEFINE c == Inner(p_buf, Cycles, prog)
<1>1. p_buf \in Program /\ Tidy(p_buf) /\ Text(p_buf) /\ prog \in Nat
  BY ReadyFacts DEF Ready
<1>2. /\ Op(p_buf, prog) # "ELSEIF" /\ Op(p_buf, prog) \notin Openers
      /\ Around(p_buf, Cycles, prog) # {} /\ Opens(p_buf, c) /\ c \in Nat
      /\ c < prog /\ prog < EndOf(p_buf, c) /\ EndOf(p_buf, c) \in Nat
  BY InCycle
<1>3. Near
  <2> HIDE DEF c
  <2>1. c <= prog /\ prog <= EndOf(p_buf, c)
    BY <1>1, <1>2
  <2> QED BY <1>1, <1>2, <2>1, NearBlock DEF c
<1>4. CASE prog' = EndOf(p_buf, c) + 1 /\ selcyclstack' = Outer
  <2>1. Heads(p_buf, Owner(p_buf, prog')) = Heads(p_buf, c)
    BY <1>1, <1>2, <1>4, EndLine
  <2>2. FramesMatch'
    BY <1>2, <1>4, <2>1, OuterKept
  <2> QED BY <1>3, <2>2 DEF Kept
<1>5. CASE prog' = c + 1 /\ selcyclstack' = Append(Outer, Cycle)
  <2>1. Heads(p_buf, Owner(p_buf, prog')) = Heads(p_buf, c) \cup {c}
    BY <1>1, <1>2, <1>5, HeadLine
  <2>2. FramesMatch'
    BY <1>2, <1>5, <2>1, AgainKept
  <2> QED BY <1>3, <2>2 DEF Kept
<1> QED BY <1>4, <1>5

LEMMA ContinueKept ==
  ASSUME Ready, IInv', ExecContinue
  PROVE  Kept
<1> DEFINE c == Inner(p_buf, Cycles, prog)
           again == Goto(Cycle.line + 1) /\ selcyclstack' = Append(Outer, Cycle) /\ UNCHANGED fate
<1>1. Reads("CONTINUE") /\ p_buf \in Program /\ Text(p_buf) /\ prog \in Nat
  BY ReadyFacts DEF ExecContinue
<1>2. /\ Op(p_buf, c) \in {"FOR", "WHILE"} /\ EndsFirst(p_buf, c, c)
      /\ Cycle.kind = Op(p_buf, c) /\ Cycle.line = c /\ c \in Nat
      /\ c < prog /\ prog < EndOf(p_buf, c) /\ EndOf(p_buf, c) \in Nat
      /\ EndOf(p_buf, c) <= Len(p_buf) /\ Op(p_buf, EndOf(p_buf, c)) = Close[Op(p_buf, c)]
  BY <1>1, InCycle
<1> HIDE DEF c
<1>3. \/ again
      \/ Cycle.kind = "FOR" /\ Skip(Behind(p_buf, {"NEXT"}, prog), Outer)
      \/ Cycle.kind = "WHILE" /\ Skip(Behind(p_buf, {"WEND"}, Cycle.line), Outer)
  <2>1. Cycle.kind \in {"FOR", "WHILE"} /\ ExecContinue
    BY <1>2
  <2>2. CASE Cycle.kind = "FOR"
    BY <2>1, <2>2, Zenon DEF ExecContinue
  <2>3. CASE Cycle.kind = "WHILE"
    BY <2>1, <2>3, Zenon DEF ExecContinue
  <2> QED BY <2>1, <2>2, <2>3
<1>4. CASE again
  BY <1>1, <1>2, <1>4, OutKept DEF Goto, c
<1>5. ASSUME NEW lines, Skip(lines, Outer), Min(lines) = EndOf(p_buf, c)
      PROVE  Kept
  <2>1. CASE Lost("hung")
    BY <2>1, StopKept
  <2>2. CASE prog' = Min(lines) + 1 /\ selcyclstack' = Outer /\ UNCHANGED <<p_buf, stacks>>
    BY <1>1, <1>5, <2>2, OutKept DEF c
  <2> QED BY <1>5, <2>1, <2>2, SkipTo
<1>6. CASE Cycle.kind = "WHILE" /\ Skip(Behind(p_buf, {"WEND"}, Cycle.line), Outer)
  <2>1. Min(Behind(p_buf, {"WEND"}, Cycle.line)) = EndOf(p_buf, c)
    BY <1>2, <1>6, Words DEF EndsFirst
  <2> QED BY <1>5, <1>6, <2>1
<1>7. CASE Cycle.kind = "FOR" /\ Skip(Behind(p_buf, {"NEXT"}, prog), Outer)
  <2> DEFINE S == Behind(p_buf, {"NEXT"}, prog)
             T == Behind(p_buf, {"NEXT"}, c)
             e == EndOf(p_buf, c)
  <2>1. Min(T) = e /\ Op(p_buf, e) = "NEXT"
    BY <1>2, <1>7, Words DEF EndsFirst
  <2>2. e \in S
    BY <1>1, <1>2, <2>1 DEF Behind
  <2>3. S \subseteq T
    BY <1>1, <1>2 DEF Behind
  <2>4. S \in SUBSET Nat /\ T \in SUBSET Nat
    BY <1>1, <1>2, Forwards
  <2>5. Min(S) \in S /\ Min(S) <= e
    <3> HIDE DEF S, e
    <3> QED BY <2>2, <2>4, MinLeast
  <2>6. e <= Min(S)
    <3> HIDE DEF S, T, e
    <3> QED BY <2>1, <2>3, <2>4, <2>5, MinLeast
  <2>7. Min(S) \in Nat
    BY <2>4, <2>5
  <2>8. Min(S) = e
    <3> HIDE DEF S
    <3> QED BY <1>2, <2>5, <2>6, <2>7
  <2> HIDE DEF S
  <2> QED BY <1>5, <1>7, <2>8 DEF S
<1> HIDE DEF again
<1> QED BY <1>3, <1>4, <1>6, <1>7

LEMMA BreakKept ==
  ASSUME Ready, IInv', ExecBreak
  PROVE  Kept
<1> DEFINE c == Inner(p_buf, Cycles, prog)
<1>1. Reads("BREAK") /\ p_buf \in Program /\ Text(p_buf) /\ prog \in Nat
  BY ReadyFacts DEF ExecBreak
<1>2. /\ Op(p_buf, c) # "LOOP" => EndsFirst(p_buf, c, prog)
      /\ Cycle.kind = Op(p_buf, c)
  BY <1>1, InCycle
<1> HIDE DEF c
<1>3. ASSUME NEW lines, Skip(lines, Outer), Min(lines) = EndOf(p_buf, c)
      PROVE  Kept
  <2>1. CASE Lost("hung")
    BY <2>1, StopKept
  <2>2. CASE prog' = Min(lines) + 1 /\ selcyclstack' = Outer /\ UNCHANGED <<p_buf, stacks>>
    BY <1>1, <1>3, <2>2, OutKept DEF c
  <2> QED BY <1>3, <2>1, <2>2, SkipTo
<1>4. CASE Cycle.kind \in {"FOR", "WHILE"}
  <2>1. Skip(Behind(p_buf, {Close[Cycle.kind]}, prog), Outer)
    BY <1>4 DEF ExecBreak
  <2>2. Min(Behind(p_buf, {Close[Cycle.kind]}, prog)) = EndOf(p_buf, c)
    BY <1>2, <1>4 DEF EndsFirst
  <2> QED BY <1>3, <2>1, <2>2
<1>5. CASE Cycle.kind = "SELECT"
  <2> DEFINE ends == Behind(p_buf, {"END", "ENDSUB", "ENDSELECT"}, prog)
             own == Behind(p_buf, {"ENDSELECT"}, prog)
  <2>1. \/ Error(4)
        \/ (ends # {} => Op(p_buf, Min(ends)) = "ENDSELECT") /\ Skip(ends, Outer)
    BY <1>5 DEF ExecBreak
  <2>2. Min(own) = EndOf(p_buf, c)
    BY <1>2, <1>5, Words DEF EndsFirst
  <2>3. CASE (ends # {} => Op(p_buf, Min(ends)) = "ENDSELECT") /\ Skip(ends, Outer)
    <3>1. CASE ends = {}
      BY <2>3, <3>1, StopKept DEF Skip
    <3>2. CASE ends # {}
      <4>1. own \subseteq ends /\ ends \in SUBSET Nat
        BY <1>1, Forwards DEF Behind
      <4>2. Min(ends) \in ends
        <5> HIDE DEF ends
        <5> QED BY <3>2, <4>1, MinIn
      <4>3. Min(ends) \in own
        <5> DEFINE m == Min(ends)
        <5>1. m \in ends /\ Op(p_buf, m) = "ENDSELECT"
          BY <2>3, <3>2, <4>2
        <5> HIDE DEF m
        <5>2. m \in own
          BY <5>1 DEF Behind
        <5> QED BY <5>2 DEF m
      <4> HIDE DEF own, ends
      <4>4. Min(own) \in own /\ Min(own) <= Min(ends)
        BY <4>1, <4>3, MinLeast
      <4>5. Min(ends) <= Min(own)
        BY <4>1, <4>4, MinLeast
      <4>6. Min(own) \in Nat /\ Min(ends) \in Nat
        BY <4>1, <4>2, <4>4
      <4>7. Min(ends) = Min(own)
        BY <4>4, <4>5, <4>6
      <4> QED BY <1>3, <2>2, <2>3, <4>7
    <3> HIDE DEF ends
    <3> QED BY <3>1, <3>2
  <2>4. CASE Error(4)
    BY <2>4, StopKept
  <2> HIDE DEF ends
  <2> QED BY <2>1, <2>3, <2>4
<1>6. CASE Cycle.kind \notin {"FOR", "WHILE", "SELECT"}
  <2>1. Lost("hung")
    BY <1>6 DEF ExecBreak
  <2> QED BY <2>1, StopKept
<1> QED BY <1>4, <1>5, <1>6

LEMMA ForKept ==
  ASSUME Ready, IInv', NEW kind \in {"FOR", "LOOP"}, ExecFor(kind)
  PROVE  Kept
<1>1. kind \in Openers /\ kind \in Ops /\ Reads(kind)
  BY Words DEF Ops, ExecFor
<1>2. Opens(p_buf, prog)
  BY <1>1, AtWord
<1>3. prog' = prog + 1 /\ UNCHANGED <<p_buf, stacks>> /\ Push(kind)
  BY DEF ExecFor
<1> QED BY <1>2, <1>3, HeadKept

\* The statements that neither call, return, end nor jump.
Stay ==
  \/ ExecIf \/ ExecElseif \/ ExecElse \/ ExecEndif
  \/ ExecFor("FOR") \/ ExecFor("LOOP") \/ ExecNext("FOR") \/ ExecNext("LOOP")
  \/ ExecWhile \/ ExecWend \/ ExecContinue \/ ExecBreak
  \/ ExecSelect \/ ExecCase \/ ExecEndSelect \/ ExecPlain

LEMMA StayKept ==
  ASSUME Ready, IInv', Stay
  PROVE  Kept
<1>1. CASE ExecIf \/ ExecElseif
  BY <1>1, ConditionKept DEF ExecIf, ExecElseif
<1>2. CASE ExecElse \/ ExecEndif \/ ExecEndSelect
  BY <1>2, ElseKept
<1>3. CASE ExecFor("FOR") \/ ExecFor("LOOP")
  BY <1>3, ForKept
<1>4. CASE ExecNext("FOR") \/ ExecNext("LOOP")
  BY <1>4, NextKept
<1>5. CASE ExecPlain
  <2>1. PICK op \in {"STMT", "SUB", "DEFAULT"} : Reads(op)
    BY <1>5 DEF ExecPlain
  <2>2. op \in PlainWords /\ op \notin {"BREAK", "CONTINUE", "GOTO", "ELSEIF"}
    BY <2>1, Plain
  <2>3. NextLine /\ UNCHANGED selcyclstack
    BY <1>5 DEF ExecPlain
  <2> QED BY <2>1, <2>2, <2>3, PlainKept
<1> QED BY <1>1, <1>2, <1>3, <1>4, <1>5, WhileKept, ContinueKept, BreakKept, SelectKept DEF Stay

LEMMA StaySame ==
  ASSUME Stay
  PROVE  UNCHANGED <<p_buf, stacks, running>> /\ Op(p_buf, prog) # "ENDSUB"
<1>1. ASSUME NEW l \in {prog + 1, Popped.line + 1, Cycle.line + 1} PROVE Goto(l) => UNCHANGED <<p_buf, stacks, running>>
  BY DEF Goto
<1>2. NextLine => UNCHANGED <<p_buf, stacks, running>>
  BY DEF NextLine, Goto
<1>3. ASSUME NEW n PROVE Error(n) => UNCHANGED <<p_buf, stacks, running>>
  BY DEF Error
<1>4. ASSUME NEW how PROVE Lost(how) => UNCHANGED <<p_buf, stacks, running>>
  BY DEF Lost
<1>5. ASSUME NEW lines, NEW rest PROVE Skip(lines, rest) => UNCHANGED <<p_buf, stacks, running>>
  BY <1>4 DEF Skip, Goto
<1>6. ASSUME NEW kind, NEW l PROVE Leave(kind, l) => UNCHANGED <<p_buf, stacks, running>>
  BY <1>3 DEF Leave, Goto
<1>7. CASE ExecIf \/ ExecElseif
  BY <1>7, <1>2, <1>4 DEF ExecIf, ExecElseif, ExecCondition, Reads, Goto
<1>8. CASE ExecElse \/ ExecEndif \/ ExecEndSelect
  BY <1>8, <1>3, <1>4, <1>6 DEF ExecElse, ExecEndif, ExecEndSelect, Reads
<1>9. CASE ExecFor("FOR") \/ ExecFor("LOOP")
  BY <1>9 DEF ExecFor, Reads
<1>10. CASE ExecNext("FOR") \/ ExecNext("LOOP")
  BY <1>10, <1>3, Words DEF ExecNext, Reads
<1>11. CASE ExecWhile \/ ExecWend
  BY <1>11, <1>1, <1>2, <1>3, <1>5 DEF ExecWhile, ExecWend, Reads
<1>12. CASE ExecContinue
  <2>1. Op(p_buf, prog) # "ENDSUB"
    BY <1>12 DEF ExecContinue, Reads
  <2>2. CASE Cycle.kind = "FOR"
    <3>1. \/ Goto(Cycle.line + 1) \/ Skip(Behind(p_buf, {"NEXT"}, prog), Outer)
      BY <1>12, <2>2, Zenon DEF ExecContinue
    <3> QED BY <1>1, <1>5, <2>1, <3>1
  <2>3. CASE Cycle.kind = "WHILE"
    <3>1. \/ Goto(Cycle.line + 1) \/ Skip(Behind(p_buf, {"WEND"}, Cycle.line), Outer)
      BY <1>12, <2>3, Zenon DEF ExecContinue
    <3> QED BY <1>1, <1>5, <2>1, <3>1
  <2>4. CASE Cycle.kind \notin {"FOR", "WHILE"}
    <3>1. Error(11) \/ NextLine
      BY <1>12, <2>4 DEF ExecContinue
    <3> QED BY <1>2, <1>3, <2>1, <3>1
  <2> QED BY <2>2, <2>3, <2>4
<1>13. CASE ExecBreak
  <2>1. Op(p_buf, prog) # "ENDSUB"
    BY <1>13 DEF ExecBreak, Reads
  <2>2. \/ \E lines : Skip(lines, Outer)
        \/ Error(4) \/ Lost("hung")
    <3>1. CASE Cycle.kind \in {"FOR", "WHILE"}
      <4>1. Skip(Behind(p_buf, {Close[Cycle.kind]}, prog), Outer)
        BY <1>13, <3>1 DEF ExecBreak
      <4> QED BY <4>1
    <3>2. CASE Cycle.kind = "SELECT"
      <4>1. Error(4) \/ Skip(Behind(p_buf, {"END", "ENDSUB", "ENDSELECT"}, prog), Outer)
        BY <1>13, <3>2 DEF ExecBreak
      <4> QED BY <4>1
    <3>3. CASE Cycle.kind \notin {"FOR", "WHILE", "SELECT"}
      BY <1>13, <3>3 DEF ExecBreak
    <3> QED BY <3>1, <3>2, <3>3
  <2> QED BY <1>3, <1>4, <1>5, <2>1, <2>2
<1>14. CASE ExecSelect \/ ExecCase
  <2>1. Op(p_buf, prog) # "ENDSUB"
    BY <1>14 DEF ExecSelect, ExecCase, Reads
  <2>2. \/ NextLine \/ \E n : Error(n)
        \/ \E how : Lost(how)
        \/ \E l : Goto(l)
    <3>1. SkipCase => \/ \E n : Error(n)
                      \/ \E how : Lost(how)
                      \/ \E l : Goto(l)
      BY DEF SkipCase
    <3> QED BY <1>14, <3>1 DEF ExecSelect, ExecCase
  <2>3. ASSUME NEW l, Goto(l) PROVE UNCHANGED <<p_buf, stacks, running>>
    BY <2>3 DEF Goto
  <2> QED BY <1>2, <1>3, <1>4, <2>1, <2>2, <2>3
<1>15. CASE ExecPlain
  BY <1>2, <1>15 DEF ExecPlain, Reads
<1> QED BY <1>7, <1>8, <1>9, <1>10, <1>11, <1>12, <1>13, <1>14, <1>15 DEF Stay

-----------------------------------------------------------------------------
(* Main and the lines that are called. *)

\* The pending calls.
CallsKept ==
  \A i \in 2 .. gosub_tos :
    /\ gosub_stack[i].rest /\ gosub_stack[i].line \in Nat
    /\ Op(p_buf, gosub_stack[i].line) \in {"CALL", "GOSUB"}

\* Line e ends main: it does not leave its lines, and no call is on its way into them.
Parted(e) ==
  /\ e \in DOMAIN p_buf /\ p_buf[e].op = "ENDSUB"
  /\ \A l \in DOMAIN p_buf :
       /\ p_buf[l].op = "GOTO" => l < e /\ p_buf[l].to <= e
       /\ p_buf[l].op \in {"CALL", "GOSUB"} /\ p_buf[l].to # 0 => p_buf[l].to > e
  /\ gosub_tos = 1 => prog <= e
  /\ gosub_tos # 1 => prog > e /\ gosub_stack[2].line < e
  /\ \A i \in 3 .. gosub_tos : gosub_stack[i].line > e

GotoApart == (\A l \in DOMAIN p_buf : p_buf[l].op # "GOTO") \/ \E e : Parted(e)

LEMMA StayApart ==
  ASSUME Ready, IInv', CallsKept, GotoApart, Near, UNCHANGED <<p_buf, stacks>>,
         Op(p_buf, prog) # "ENDSUB"
  PROVE  CallsKept' /\ GotoApart'
<1>1. p_buf \in Program /\ Text(p_buf) /\ prog \in Nat \ {0} /\ Tidy(p_buf)
  BY ReadyFacts DEF Ready
<1>2. p_buf' = p_buf /\ gosub_tos' = gosub_tos /\ gosub_stack' = gosub_stack
  BY DEF stacks
<1>3. CallsKept'
  BY <1>2 DEF CallsKept
<1>4. ASSUME NEW e, Parted(e) PROVE Parted(e)'
  <2>1. e \in DOMAIN p_buf /\ p_buf[e].op = "ENDSUB" /\ e \in Nat /\ Op(p_buf, e) = "ENDSUB"
    BY <1>1, <1>4, Lines DEF Parted
  <2>2. Heads(p_buf, e) = {}
    <3>1. Around(p_buf, Openers, e) = {}
      BY <1>1, <2>1 DEF Tidy
    <3>2. Op(p_buf, e) \notin Openers
      BY <2>1, Words
    <3>3. Around(p_buf, Openers, e) = {k \in Heads(p_buf, e) : Op(p_buf, k) \in Openers}
      BY <1>1, <2>1, <3>2, AroundHeads
    <3>4. \A k \in Heads(p_buf, e) : Op(p_buf, k) \in Openers
      BY <1>1, <2>1, IsHead DEF Opens, Op
    <3> QED BY <3>1, <3>3, <3>4
  <2>3. prog # e
    BY <2>1
  <2>4. (prog <= e => prog' <= e) /\ (prog > e => prog' > e)
    <3>1. CASE prog' = prog + 1
      BY <1>1, <2>1, <2>3, <3>1
    <3>2. ASSUME NEW k, Opens(p_buf, k), k <= prog, prog <= EndOf(p_buf, k),
                 k < prog', prog' <= EndOf(p_buf, k) + 1
          PROVE  (prog <= e => prog' <= e) /\ (prog > e => prog' > e)
      <4>1. k \in Nat /\ EndOf(p_buf, k) \in Nat
        BY <1>1, <3>2, BlockEnd
      <4>2. ~(k < e /\ e <= EndOf(p_buf, k))
        BY <1>1, <2>1, <2>2, <3>2, IsHead
      <4>3. k # e
        BY <2>1, <3>2, Words DEF Opens
      <4>4. prog' \in Nat
        BY DEF IInv, TypeOK
      <4> QED BY <1>1, <2>1, <2>3, <3>2, <4>1, <4>2, <4>3, <4>4
    <3> QED BY <3>1, <3>2 DEF Near
  <2>5. /\ gosub_tos = 1 => prog <= e
        /\ gosub_tos # 1 => prog > e /\ gosub_stack[2].line < e
    BY <1>4 DEF Parted
  <2>6. /\ gosub_tos' = 1 => prog' <= e
        /\ gosub_tos' # 1 => prog' > e /\ gosub_stack'[2].line < e
    BY <1>2, <2>4, <2>5
  <2> QED BY <1>2, <1>4, <2>6 DEF Parted
<1> QED BY <1>2, <1>3, <1>4 DEF GotoApart

\* A line outside of all blocks, as the target of a jump or call is.
LEMMA NoBlocks ==
  ASSUME NEW p \in Program, Tidy(p), NEW l \in Nat, Around(p, Openers, l) = {}
  PROVE  /\ Heads(p, l) = {} /\ Owner(p, l) = l /\ Op(p, l) # "ELSEIF"
         /\ Heads(p, Owner(p, Entry(p, l))) = {}
<1>1. Text(p)
  BY TidyText
<1>2. Op(p, l) \notin Openers
  <2>1. SUFFICES ASSUME Op(p, l) \in Openers PROVE FALSE
    OBVIOUS
  <2>2. Opens(p, l)
    BY <2>1, Words DEF Opens, Op
  <2>3. l < EndOf(p, l) /\ EndOf(p, l) \in Nat
    BY <1>1, <2>2, BlockEnd
  <2>4. Closed(p, l) /\ l \in Block(p, l)
    BY <1>1, <2>2, <2>3 DEF Text, BlocksNest, Opens, Block
  <2> QED BY <2>2, <2>4 DEF Around, Opens
<1>3. Heads(p, l) = {}
  <2>1. Around(p, Openers, l) = {k \in Heads(p, l) : Op(p, k) \in Openers}
    BY <1>1, <1>2, AroundHeads
  <2>2. \A k \in Heads(p, l) : Op(p, k) \in Openers
    BY <1>1, IsHead DEF Opens, Op
  <2> QED BY <2>1, <2>2
<1>4. Op(p, l) # "ELSEIF"
  BY DEF Tidy, Op, Belongs
<1>5. Owner(p, l) = l
  BY <1>4, OwnerOfOther
<1>6. Heads(p, Owner(p, Entry(p, l))) = {}
  <2>1. CASE Op(p, l) = "SUB"
    <3>1. Entry(p, l) = l + 1 /\ Op(p, l) \in PlainWords
      BY <2>1, Plain DEF Entry
    <3>2. Heads(p, Owner(p, l + 1)) = Heads(p, l)
      BY <2>1, <3>1, PlainLine
    <3> QED BY <1>3, <3>1, <3>2
  <2>2. CASE Op(p, l) # "SUB"
    BY <1>3, <1>5, <2>2 DEF Entry
  <2> QED BY <2>1, <2>2
<1> QED BY <1>3, <1>4, <1>5, <1>6

\* What a step keeps at a statement of a tidy program.
Guarded == FramesMatch /\ CallsKept /\ GotoApart

LEMMA GotoKept ==
  ASSUME Ready, IInv', CallsKept, GotoApart, ExecGoto, fate' = "run", err' = 0
  PROVE  Guarded'
<1> DEFINE target == p_buf[prog].to
<1>1. p_buf \in Program /\ Tidy(p_buf) /\ Text(p_buf) /\ gosub_tos \in Nat
  BY ReadyFacts DEF Ready
<1>2. prog \in DOMAIN p_buf /\ p_buf[prog].op = "GOTO" /\ Op(p_buf, prog) = "GOTO"
  <2>1. "GOTO" \in Ops /\ Reads("GOTO")
    BY DEF Ops, ExecGoto
  <2> QED BY <2>1, AtWord
<1>3. target # 0 /\ Goto(target) /\ selcyclstack' = <<>>
  BY DEF ExecGoto, Error, Lost, Ready
<1>4. target \in Nat
  BY <1>1, <1>2 DEF Program
<1>5. PICK e : Parted(e)
  BY <1>2 DEF GotoApart
<1>6. prog < e /\ target <= e /\ e \in Nat
  BY <1>1, <1>2, <1>5, Lines DEF Parted
<1>7. gosub_tos = 1
  <2>1. prog \in Nat
    BY ReadyFacts
  <2>2. gosub_tos # 1 => prog > e
    BY <1>5 DEF Parted
  <2> QED BY <1>6, <2>1, <2>2
<1>8. /\ p_buf' = p_buf /\ prog' = target /\ gosub_tos' = gosub_tos
      /\ gosub_stack' = gosub_stack
  BY <1>3 DEF Goto, stacks
<1>9. FramesMatch'
  <2>1. Heads(p_buf, Owner(p_buf, target)) = {}
    <3>1. Around(p_buf, Openers, target) = {}
      BY <1>1, <1>2, <1>3 DEF Tidy
    <3> QED BY <1>1, <1>4, <3>1, NoBlocks
  <2>2. gosub_tos' = 1 /\ Blocks'[1] = {}
    <3>1. 1 \in 1 .. gosub_tos' /\ ~(1 < gosub_tos')
      BY <1>7, <1>8
    <3> QED BY <1>7, <1>8, <2>1, <3>1 DEF Blocks, Entered
  <2> DEFINE of == [m \in 1 .. 0 |-> 1]
  <2>3. of \in [1 .. 0 -> 1 .. 1]
    OBVIOUS
  <2>4. \A i \in 1 .. 1 : Blocks'[i] = {}
    BY <2>2
  <2> HIDE DEF of
  <2>5. Mirrors(BlockLines', of, 0, 1, Blocks')
    BY <2>3, <2>4 DEF Mirrors
  <2>6. Len(selcyclstack') = 0
    BY <1>3
  <2>7. Matches(of)'
    BY <2>2, <2>5, <2>6 DEF Matches
  <2> QED BY <2>7, Fold DEF IInv, TypeOK
<1>10. CallsKept'
  BY <1>8 DEF CallsKept
<1>11. GotoApart'
  BY <1>5, <1>6, <1>7, <1>8 DEF GotoApart, Parted
<1> QED BY <1>9, <1>10, <1>11 DEF Guarded

LEMMA CallKept ==
  ASSUME Ready, IInv', CallsKept, GotoApart, ExecCall \/ Gosub, fate' = "run", err' = 0
  PROVE  Guarded'
<1> DEFINE to == p_buf[prog].to
<1>1. /\ p_buf \in Program /\ Tidy(p_buf) /\ Text(p_buf) /\ gosub_tos \in Nat \ {0}
      /\ prog \in Nat \ {0} /\ Len(selcyclstack) \in Nat
      /\ DOMAIN selcyclstack = 1 .. Len(selcyclstack) /\ gosub_tos < SUB_NEST
      /\ err = 0 /\ fate = "run"
  BY ReadyFacts DEF Ready
<1>2. /\ prog \in DOMAIN p_buf /\ p_buf[prog].op \in {"CALL", "GOSUB"}
      /\ Op(p_buf, prog) \in {"CALL", "GOSUB"} /\ (p_buf[prog].op = "CALL" => p_buf[prog].parens)
  <2>1. "CALL" \in Ops /\ "GOSUB" \in Ops /\ (Reads("CALL") \/ Reads("GOSUB"))
    BY DEF Ops, ExecCall, Gosub
  <2>2. /\ prog \in DOMAIN p_buf /\ p_buf[prog].op \in {"CALL", "GOSUB"}
        /\ Op(p_buf, prog) \in {"CALL", "GOSUB"}
    BY <2>1, AtWord
  <2> QED BY <1>1, <2>2 DEF Tidy
<1>3. to # 0 /\ Enter(RestOf(prog))
  <2>1. CASE ExecCall
    BY <1>1, <1>2, <2>1 DEF ExecCall, Reads, Op, Error
  <2>2. CASE Gosub
    BY <1>1, <2>2 DEF Gosub, Error
  <2> QED BY <2>1, <2>2
<1>4. to \in Nat /\ to \in DOMAIN p_buf
  BY <1>1, <1>2, <1>3 DEF Program
<1>5. /\ p_buf' = p_buf /\ selcyclstack' = selcyclstack /\ gosub_tos' = gosub_tos + 1
      /\ prog' = Entry(p_buf, to)
      /\ gosub_stack' = [gosub_stack EXCEPT ![gosub_tos + 1] = RestOf(prog)]
      /\ gosub_tos + 1 # SUB_NEST
  BY <1>3 DEF Enter, GosubPush
<1>6. /\ gosub_stack'[gosub_tos + 1] = RestOf(prog)
      /\ \A i \in 1 .. gosub_tos : gosub_stack'[i] = gosub_stack[i]
  <2>1. gosub_stack \in [1 .. SUB_NEST - 1 -> Place] /\ SUB_NEST \in Nat
    BY NestAssumption DEF Ready, IInv, TypeOK
  <2>2. gosub_tos + 1 \in 1 .. SUB_NEST - 1
    BY <1>1, <1>5, <2>1
  <2> QED BY <1>1, <1>5, <2>1, <2>2
<1>7. Owner(p_buf, prog) = prog
  BY <1>2, OwnerOfOther
<1>8. ASSUME NEW i, i = gosub_tos + 1 PROVE CallLine(i)' = prog
  BY <1>5, <1>6, <1>8 DEF CallLine, RestOf
<1>9. FramesMatch'
  <2>1. PICK of : Matches(of)
    BY Unfold
  <2>2. \A i \in 1 .. gosub_tos : Blocks'[i] = Blocks[i]
    <3>1. ASSUME NEW i \in 1 .. gosub_tos, i # gosub_tos PROVE Blocks'[i] = Blocks[i]
      <4>1. i \in 1 .. gosub_tos' /\ i < gosub_tos' /\ i < gosub_tos /\ i + 1 \in 1 .. gosub_tos
        BY <1>1, <1>5, <3>1
      <4>2. CallLine(i + 1)' = CallLine(i + 1)
        BY <1>6, <4>1 DEF CallLine
      <4>3. Blocks'[i] = Heads(p_buf', CallLine(i + 1)')
        BY <4>1 DEF Blocks, Entered
      <4>4. Blocks[i] = Heads(p_buf, CallLine(i + 1))
        BY <4>1 DEF Blocks, Entered
      <4> QED BY <1>5, <4>2, <4>3, <4>4
    <3>2. ASSUME NEW i, i = gosub_tos PROVE Blocks'[i] = Blocks[i]
      <4>1. i \in 1 .. gosub_tos' /\ i < gosub_tos'
        BY <1>1, <1>5, <3>2
      <4>2. Blocks'[i] = Heads(p_buf', CallLine(i + 1)')
        BY <4>1 DEF Blocks, Entered
      <4>3. Blocks[i] = Heads(p_buf, Owner(p_buf, prog))
        BY <3>2, BlocksNow
      <4> QED BY <1>5, <1>7, <1>8, <3>2, <4>2, <4>3
    <3> QED BY <3>1, <3>2
  <2>3. Blocks'[gosub_tos + 1] = {}
    <3>1. gosub_tos + 1 \in 1 .. gosub_tos' /\ ~(gosub_tos + 1 < gosub_tos')
      BY <1>1, <1>5
    <3>2. Blocks'[gosub_tos + 1] = Heads(p_buf', Owner(p_buf', prog'))
      BY <3>1 DEF Blocks, Entered
    <3>3. Around(p_buf, Openers, to) = {}
      BY <1>1, <1>2, <1>3 DEF Tidy
    <3>4. Heads(p_buf, Owner(p_buf, Entry(p_buf, to))) = {}
      BY <1>1, <1>4, <3>3, NoBlocks
    <3> QED BY <1>5, <3>2, <3>4
  <2>4. \A m \in 1 .. Len(selcyclstack) : BlockLines'[m] = BlockLines[m]
    BY <1>1, <1>5 DEF BlockLines
  <2>5. Mirrors(BlockLines', of, Len(selcyclstack), gosub_tos + 1, Blocks')
    <3> DEFINE b == BlockLines  c == BlockLines'  n == gosub_tos  E == Blocks  F == Blocks'
               k == Len(selcyclstack)
    <3>1. /\ Mirrors(b, of, k, n, E) /\ n \in Nat \ {0} /\ k \in Nat
          /\ \A m \in 1 .. k : c[m] = b[m]
          /\ F[n + 1] = {} /\ \A i \in 1 .. n : F[i] = E[i]
      BY <1>1, <2>1, <2>2, <2>3, <2>4 DEF Matches
    <3> HIDE DEF b, c, n, E, F, k
    <3>2. Mirrors(c, of, k, n + 1, F)
      BY ONLY <3>1, MirrorsCall
    <3> QED BY <3>2 DEF c, n, F, k
  <2>6. Matches(of)'
    BY <1>5, <2>5 DEF Matches
  <2> QED BY <2>6, Fold DEF IInv, TypeOK
<1>10. CallsKept'
  <2>1. ASSUME NEW i \in 2 .. gosub_tos + 1
        PROVE  /\ gosub_stack'[i].rest /\ gosub_stack'[i].line \in Nat
               /\ Op(p_buf, gosub_stack'[i].line) \in {"CALL", "GOSUB"}
    <3>1. CASE i = gosub_tos + 1
      BY <1>1, <1>2, <1>6, <3>1 DEF RestOf
    <3>2. CASE i # gosub_tos + 1
      <4>1. i \in 2 .. gosub_tos /\ i \in 1 .. gosub_tos
        BY <1>1, <3>2
      <4> QED BY <1>6, <4>1 DEF CallsKept
    <3> QED BY <3>1, <3>2
  <2> QED BY <1>5, <2>1 DEF CallsKept
<1>11. ASSUME NEW e, Parted(e) PROVE Parted(e)'
  <2>1. e \in Nat /\ to > e /\ prog # e
    BY <1>1, <1>2, <1>3, <1>11, Lines DEF Parted
  <2>2. prog' > e
    BY <1>4, <1>5, <2>1 DEF Entry
  <2>3. gosub_stack'[2].line < e /\ \A i \in 3 .. gosub_tos + 1 : gosub_stack'[i].line > e
    <3>1. CASE gosub_tos = 1
      <4>1. prog <= e /\ gosub_stack'[2].line = prog
        BY <1>6, <1>11, <3>1 DEF Parted, RestOf
      <4>2. \A i \in 3 .. gosub_tos + 1 : FALSE
        BY <3>1
      <4> QED BY <1>1, <2>1, <4>1, <4>2
    <3>2. CASE gosub_tos # 1
      <4>1. prog > e /\ gosub_stack[2].line < e
            /\ \A i \in 3 .. gosub_tos : gosub_stack[i].line > e
        BY <1>11, <3>2 DEF Parted
      <4>2. 2 \in 1 .. gosub_tos
        BY <1>1, <3>2
      <4>3. ASSUME NEW i \in 3 .. gosub_tos + 1 PROVE gosub_stack'[i].line > e
        <5>1. CASE i = gosub_tos + 1
          BY <1>6, <4>1, <5>1 DEF RestOf
        <5>2. CASE i # gosub_tos + 1
          <6>1. i \in 3 .. gosub_tos /\ i \in 1 .. gosub_tos
            BY <1>1, <5>2
          <6> QED BY <1>6, <4>1, <6>1
        <5> QED BY <5>1, <5>2
      <4> QED BY <1>6, <4>1, <4>2, <4>3
    <3> QED BY <3>1, <3>2
  <2>4. gosub_tos' # 1
    BY <1>1, <1>5
  <2> QED BY <1>5, <1>11, <2>2, <2>3, <2>4 DEF Parted
<1> QED BY <1>5, <1>9, <1>10, <1>11 DEF Guarded, GotoApart

LEMMA ReturnKept ==
  ASSUME Ready, IInv', CallsKept, GotoApart, Greturn, fate' = "run", err' = 0
  PROVE  Guarded'
<1> DEFINE line == gosub_stack[gosub_tos].line
<1>1. /\ p_buf \in Program /\ Tidy(p_buf) /\ Text(p_buf) /\ gosub_tos \in Nat \ {0}
      /\ prog \in Nat \ {0} /\ Len(selcyclstack) \in Nat
      /\ DOMAIN selcyclstack = 1 .. Len(selcyclstack)
  BY ReadyFacts DEF Ready
<1>2. /\ prog \in DOMAIN p_buf /\ p_buf[prog].op \in {"RETURN", "ENDSUB"}
      /\ Op(p_buf, prog) \in {"RETURN", "ENDSUB"}
  <2>1. "RETURN" \in Ops /\ "ENDSUB" \in Ops /\ (Reads("RETURN") \/ Reads("ENDSUB"))
    BY DEF Ops, Greturn
  <2> QED BY <2>1, AtWord
<1>3. gosub_tos # 1
  <2>1. Len(running) # 1
    BY DEF Greturn, LeaveActivation
  <2>2. Len(running) \in Nat /\ 1 <= Len(running) /\ Len(running) <= gosub_tos
    BY DEF Ready, IInv, TypeOK, ReturnsFind
  <2>3. gosub_tos \in Nat
    BY <1>1
  <2> DEFINE n == Len(running)
  <2>4. n # 1 /\ n \in Nat /\ 1 <= n /\ n <= gosub_tos
    BY <2>1, <2>2
  <2> HIDE DEF n
  <2> QED BY <2>3, <2>4
<1>4. gosub_tos \in 2 .. gosub_tos
  BY <1>1, <1>3
<1>5. line \in Nat /\ Op(p_buf, line) \in {"CALL", "GOSUB"} /\ gosub_stack[gosub_tos].rest
  BY <1>4 DEF CallsKept
<1>6. /\ p_buf' = p_buf /\ selcyclstack' = selcyclstack /\ gosub_tos' = gosub_tos - 1
      /\ gosub_stack' = gosub_stack /\ prog' = line + 1
  BY <1>1, <1>5 DEF Greturn
<1>7. Heads(p_buf, Owner(p_buf, prog')) = Heads(p_buf, line)
  <2>1. Op(p_buf, line) \in PlainWords /\ Op(p_buf, line) \notin {"BREAK", "CONTINUE", "GOTO"}
    BY <1>5, Plain
  <2> QED BY <1>1, <1>5, <1>6, <2>1, PlainLine
<1>8. Blocks[gosub_tos] = {}
  <2>1. Around(p_buf, Openers, prog) = {}
    BY <1>1, <1>2 DEF Tidy
  <2> QED BY <1>1, <2>1, NoBlocks, BlocksNow
<1>9. \A i \in 1 .. gosub_tos - 1 : Blocks'[i] = Blocks[i]
  <2>1. ASSUME NEW i \in 1 .. gosub_tos - 1, i # gosub_tos - 1 PROVE Blocks'[i] = Blocks[i]
    <3>1. i \in 1 .. gosub_tos' /\ i < gosub_tos' /\ i \in 1 .. gosub_tos /\ i < gosub_tos
      BY <1>1, <1>6, <2>1
    <3>2. Blocks'[i] = Heads(p_buf', CallLine(i + 1)')
      BY <3>1 DEF Blocks, Entered
    <3>3. Blocks[i] = Heads(p_buf, CallLine(i + 1))
      BY <3>1 DEF Blocks, Entered
    <3>4. CallLine(i + 1)' = CallLine(i + 1)
      BY <1>6 DEF CallLine
    <3> QED BY <1>6, <3>2, <3>3, <3>4
  <2>2. Blocks'[gosub_tos - 1] = Blocks[gosub_tos - 1]
    <3> DEFINE i == gosub_tos - 1
    <3>1. /\ i \in 1 .. gosub_tos' /\ ~(i < gosub_tos') /\ i \in 1 .. gosub_tos /\ i < gosub_tos
          /\ i + 1 = gosub_tos
      BY <1>1, <1>3, <1>6
    <3> HIDE DEF i
    <3>2. Blocks'[i] = Heads(p_buf', Owner(p_buf', prog'))
      BY <3>1 DEF Blocks, Entered
    <3>3. Blocks[i] = Heads(p_buf, CallLine(i + 1))
      BY <3>1 DEF Blocks, Entered
    <3>4. CallLine(i + 1) = line
      BY <1>5, <3>1 DEF CallLine
    <3>5. Blocks'[i] = Blocks[i]
      BY <1>6, <1>7, <3>2, <3>3, <3>4
    <3> QED BY <3>5 DEF i
  <2> QED BY <2>1, <2>2
<1>10. FramesMatch'
  <2>1. PICK of : Matches(of)
    BY Unfold
  <2>2. \A m \in 1 .. Len(selcyclstack) : BlockLines'[m] = BlockLines[m]
    BY <1>1, <1>6 DEF BlockLines
  <2>3. Mirrors(BlockLines', of, Len(selcyclstack), gosub_tos - 1, Blocks')
    <3> DEFINE b == BlockLines  c == BlockLines'  n == gosub_tos  E == Blocks  F == Blocks'
               k == Len(selcyclstack)
    <3>1. /\ Mirrors(b, of, k, n, E) /\ n \in Nat \ {0} /\ k \in Nat /\ n # 1 /\ E[n] = {}
          /\ \A m \in 1 .. k : c[m] = b[m]
          /\ \A i \in 1 .. n - 1 : F[i] = E[i]
      BY <1>1, <1>3, <1>8, <1>9, <2>1, <2>2 DEF Matches
    <3> HIDE DEF b, c, n, E, F, k
    <3>2. Mirrors(c, of, k, n - 1, F)
      BY ONLY <3>1, MirrorsReturn
    <3> QED BY <3>2 DEF c, n, F, k
  <2>4. Matches(of)'
    BY <1>6, <2>3 DEF Matches
  <2> QED BY <2>4, Fold DEF IInv, TypeOK
<1>11. CallsKept'
  <2>1. \A i \in 2 .. gosub_tos - 1 : i \in 2 .. gosub_tos
    BY <1>1
  <2> QED BY <1>6, <2>1 DEF CallsKept
<1>12. ASSUME NEW e, Parted(e) PROVE Parted(e)'
  <2>1. e \in Nat
    BY <1>1, <1>12, Lines DEF Parted
  <2>2. \A i \in 3 .. gosub_tos - 1 : i \in 3 .. gosub_tos
    BY <1>1
  <2>3. gosub_tos - 1 = 1 => line < e
    <3>1. gosub_tos # 1 => gosub_stack[2].line < e
      BY <1>12 DEF Parted
    <3>2. gosub_tos - 1 = 1 => gosub_tos = 2
      BY <1>1
    <3> QED BY <1>3, <3>1, <3>2
  <2>4. gosub_tos - 1 # 1 => line > e
    <3>1. gosub_tos - 1 # 1 => gosub_tos \in 3 .. gosub_tos
      BY <1>1, <1>3
    <3> QED BY <1>12, <3>1 DEF Parted
  <2>5. (gosub_tos - 1 = 1 => line + 1 <= e) /\ (gosub_tos - 1 # 1 => line + 1 > e)
    BY <1>5, <2>1, <2>3, <2>4
  <2> QED BY <1>3, <1>6, <1>12, <2>2, <2>5 DEF Parted
<1> QED BY <1>6, <1>10, <1>11, <1>12 DEF Guarded, GotoApart

LEMMA EndKept ==
  ASSUME Ready, IInv', CallsKept, GotoApart, ExecEnd, fate' = "run", err' = 0
  PROVE  Guarded'
<1>1. p_buf \in Program /\ Tidy(p_buf) /\ prog \in Nat /\ Op(p_buf, prog) = "END"
  BY ReadyFacts DEF Ready, ExecEnd, Reads
<1>2. prog' = prog + 1 /\ UNCHANGED <<p_buf, stacks, selcyclstack>>
  BY DEF ExecEnd
<1>3. Heads(p_buf, Owner(p_buf, prog')) = Heads(p_buf, prog) /\ Owner(p_buf, prog) = prog
  <2>1. Op(p_buf, prog) \in PlainWords /\ Op(p_buf, prog) \notin {"BREAK", "CONTINUE", "GOTO"}
    BY <1>1, Plain
  <2> QED BY <1>1, <1>2, <2>1, PlainLine, OwnerOfOther
<1>4. FramesMatch'
  BY <1>2, <1>3, SameKept
<1>5. CallsKept' /\ GotoApart'
  <2>1. Near /\ Op(p_buf, prog) # "ENDSUB"
    BY <1>1, <1>2 DEF Near
  <2> QED BY <1>2, <2>1, StayApart
<1> QED BY <1>4, <1>5 DEF Guarded

-----------------------------------------------------------------------------
(* The theorem. *)

\* The inductive invariant.
NestInv ==
  /\ IInv /\ Tidy(p_buf) /\ GotoInMain(p_buf)
  /\ fate = "run" /\ err = 0 => Guarded

LEMMA NestInit ==
  ASSUME Init, \A p \in Programs : Tidy(p) /\ GotoInMain(p)
  PROVE  NestInv
<1>1. IInv
  BY FlowInit
<1>2. p_buf \in Program /\ Tidy(p_buf) /\ GotoInMain(p_buf)
  BY TextAssumption DEF Init
<1>3. prog = Entry(p_buf, 1) /\ selcyclstack = <<>> /\ gosub_tos = 1
  BY DEF Init
<1>4. Heads(p_buf, 1) = {} /\ Op(p_buf, 1) # "ELSEIF"
  <2>1. Text(p_buf)
    BY <1>2, TidyText
  <2>2. Heads(p_buf, 1) = {}
    <3>1. Heads(p_buf, 1) \in SUBSET (1 .. Len(p_buf)) /\ Len(p_buf) \in Nat
      BY <2>1, HeadsAreLines
    <3>2. \A k \in Heads(p_buf, 1) : k < 1
      BY DEF Heads
    <3> QED BY <3>1, <3>2
  <2>3. Op(p_buf, 1) # "ELSEIF"
    BY <1>2, <2>2, OwnerOfElseif
  <2> QED BY <2>2, <2>3
<1>5. /\ Heads(p_buf, Owner(p_buf, prog)) = {}
      /\ prog = 1 \/ (prog = 2 /\ Op(p_buf, 1) = "SUB")
  <2>1. CASE Op(p_buf, 1) = "SUB"
    <3>1. prog = 2 /\ 1 \in Nat /\ 1 + 1 = 2 /\ Op(p_buf, 1) \in PlainWords
      BY <1>3, <2>1, Plain DEF Entry
    <3>2. Heads(p_buf, Owner(p_buf, 1 + 1)) = Heads(p_buf, 1)
      BY <1>2, <2>1, <3>1, PlainLine
    <3> QED BY <1>4, <2>1, <3>1, <3>2
  <2>2. CASE Op(p_buf, 1) # "SUB"
    BY <1>3, <1>4, <2>2, OwnerOfOther DEF Entry
  <2> QED BY <2>1, <2>2
<1>6. FramesMatch
  <2> DEFINE of == [m \in {} |-> 1]
  <2>1. DOMAIN selcyclstack = {} /\ of \in [DOMAIN selcyclstack -> 1 .. gosub_tos]
    BY <1>3
  <2>2. \A i \in 1 .. gosub_tos : Entered(i) = {}
    BY <1>3, <1>5 DEF Entered
  <2>3. \A i \in 1 .. gosub_tos :
          {Owner(p_buf, selcyclstack[n].line) :
             n \in {m \in DOMAIN selcyclstack : of[m] = i}} = Entered(i)
    BY <2>1, <2>2
  <2> QED BY <2>1, <2>3 DEF FramesMatch
<1>7. CallsKept
  BY <1>3 DEF CallsKept
<1>8. GotoApart
  <2>1. CASE \A l \in DOMAIN p_buf : p_buf[l].op # "GOTO"
    BY <2>1 DEF GotoApart
  <2>2. ASSUME NEW e \in DOMAIN p_buf, p_buf[e].op = "ENDSUB",
               \A l \in DOMAIN p_buf :
                 /\ p_buf[l].op = "GOTO" => l < e /\ p_buf[l].to <= e
                 /\ p_buf[l].op \in {"CALL", "GOSUB"} /\ p_buf[l].to # 0 => p_buf[l].to > e
        PROVE  Parted(e)
    <3>1. e \in 1 .. Len(p_buf) /\ Len(p_buf) \in Nat
      BY <1>2, TidyText, Lines
    <3>2. Op(p_buf, 1) = "SUB" => e # 1
      BY <2>2 DEF Op
    <3>3. prog <= e
      BY <1>5, <3>1, <3>2
    <3>4. \A i \in 3 .. gosub_tos : FALSE
      BY <1>3
    <3> QED BY <1>3, <2>2, <3>3, <3>4 DEF Parted
  <2> QED BY <1>2, <2>1, <2>2 DEF GotoInMain, GotoApart
<1> QED BY <1>1, <1>2, <1>6, <1>7, <1>8 DEF NestInv, Guarded

\* The text is never changed.
LEMMA TextStays ==
  ASSUME [Next]_state
  PROVE  p_buf' = p_buf
<1>1. CASE Stay
  BY <1>1, StaySame
<1>2. CASE ExecGoto \/ ExecCall \/ Gosub \/ Greturn \/ ExecEnd \/ Unwind \/ Stopped
  BY <1>2 DEF ExecGoto, ExecCall, Gosub, Greturn, ExecEnd, Unwind, Stopped, Error, Lost,
              Goto, Enter, state
<1>3. CASE UNCHANGED state
  BY <1>3 DEF state
<1> QED BY <1>1, <1>2, <1>3 DEF Next, Exec, Stay

LEMMA Executes ==
  ASSUME Exec
  PROVE  fate = "run" /\ err = 0
BY DEF Exec, ExecIf, ExecElseif, ExecElse, ExecEndif, ExecFor, ExecNext, ExecWhile, ExecWend,
       ExecContinue, ExecBreak, ExecSelect, ExecCase, ExecEndSelect, ExecGoto, ExecCall, Gosub,
       Greturn, ExecEnd, ExecPlain, Reads

LEMMA NestStep ==
  ASSUME NestInv, [Next]_state
  PROVE  NestInv'
<1>1. IInv /\ IInv'
  BY FlowStep DEF NestInv
<1>2. CASE Next
  <2>1. p_buf' = p_buf
    BY TextStays
  <2>2. ASSUME fate' = "run", err' = 0 PROVE Guarded'
    <3>1. CASE Stopped
      BY <2>2, <3>1 DEF Stopped, state
    <3>2. CASE Unwind
      BY <2>2, <3>2 DEF Unwind
    <3>3. CASE Exec
      <4>1. Ready /\ CallsKept /\ GotoApart
        <5>1. fate = "run" /\ err = 0
          BY <3>3, Executes
        <5> QED BY <5>1 DEF NestInv, Ready, Guarded
      <4>2. CASE Stay
        <5>1. FramesMatch' /\ Near
          BY <1>1, <2>2, <4>1, <4>2, StayKept DEF Kept
        <5> QED BY <1>1, <4>1, <4>2, <5>1, StaySame, StayApart DEF Guarded
      <4>3. CASE ExecGoto
        BY <1>1, <2>2, <4>1, <4>3, GotoKept
      <4>4. CASE ExecCall \/ Gosub
        BY <1>1, <2>2, <4>1, <4>4, CallKept
      <4>5. CASE Greturn
        BY <1>1, <2>2, <4>1, <4>5, ReturnKept
      <4>6. CASE ExecEnd
        BY <1>1, <2>2, <4>1, <4>6, EndKept
      <4> QED BY <3>3, <4>2, <4>3, <4>4, <4>5, <4>6 DEF Exec, Stay
    <3> QED BY <1>2, <3>1, <3>2, <3>3 DEF Next
  <2> QED BY <1>1, <2>1, <2>2 DEF NestInv
<1>3. CASE UNCHANGED state
  BY <1>1, <1>3 DEF NestInv, Guarded, FramesMatch, Entered, CallLine, CallsKept, GotoApart,
     Parted, state, stacks
<1> QED BY <1>2, <1>3

\* In every tidy program in which no called line jumps: at every statement, whatever the
\* conditions were and however deep calls and blocks are, selcyclstack holds the blocks
\* around the pending calls and around the statement, outermost first, and no others.
\* So NEXT, WEND, END IF and END SELECT find the frame of the block they end on top, and
\* BREAK and CONTINUE that of the innermost cycle.
THEOREM FramesAreBlocks ==
  ASSUME \A p \in Programs : Tidy(p) /\ GotoInMain(p)
  PROVE  Spec => []FramesMatch
<1>1. Init => NestInv
  BY NestInit
<1>2. NestInv /\ [Next]_state => NestInv'
  BY NestStep
<1>3. NestInv => FramesMatch
  BY DEF NestInv, Guarded, FramesMatch
<1> QED BY <1>1, <1>2, <1>3, PTL DEF Spec
=============================================================================
