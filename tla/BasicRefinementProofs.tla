------------------------ MODULE BasicRefinementProofs ------------------------
(***************************************************************************)
(* The statements go where structured BASIC says: BasicFlow implements     *)
(* StructuredBasic, step by step, for every program that keeps clear of    *)
(* what the code does in another way.                                      *)
(***************************************************************************)
EXTENDS BasicNestingProofs

-----------------------------------------------------------------------------
(* Both modules read a text in the same way. *)

LEMMA SameOp ==
  ASSUME NEW p, NEW l
  PROVE  Structured!Op(p, l) = Op(p, l) /\ Structured!Entry(p, l) = Entry(p, l)
BY DEF Structured!Op, Op, Structured!Entry, Entry

LEMMA SameSets ==
  ASSUME NEW S, NEW s
  PROVE  /\ Structured!Max(S) = Max(S) /\ Structured!Min(S) = Min(S)
         /\ Structured!Last(s) = Last(s) /\ Structured!Front(s) = Front(s)
BY DEF Structured!Max, Max, Structured!Min, Min, Structured!Last, Last, Structured!Front, Front

LEMMA SameCardinality ==
  ASSUME NEW S
  PROVE  Structured!Cardinality(S) = Cardinality(S)
BY DEF Structured!Cardinality, Cardinality

LEMMA SameLevel ==
  ASSUME NEW p, NEW kind, NEW l, NEW m
  PROVE  Structured!Level(p, kind, l, m) = Level(p, kind, l, m)
<1>1. \A w : {k \in l .. m - 1 : Structured!Op(p, k) = w} = {k \in l .. m - 1 : Op(p, k) = w}
  BY SameOp
<1>2. Structured!Close = Close
  BY DEF Structured!Close, Close
<1>3. /\ Structured!Level(p, kind, l, m)
           = Cardinality({k \in l .. m - 1 : Structured!Op(p, k) = kind})
               - Cardinality({k \in l .. m - 1 : Structured!Op(p, k) = Close[kind]})
      /\ Level(p, kind, l, m)
           = Cardinality({k \in l .. m - 1 : Op(p, k) = kind})
               - Cardinality({k \in l .. m - 1 : Op(p, k) = Close[kind]})
  BY <1>2, SameCardinality DEF Structured!Level, Level
<1> QED BY <1>1, <1>3, Zenon

LEMMA SameOutside ==
  ASSUME NEW p, NEW words, NEW kind, NEW l
  PROVE  Structured!Outside(p, words, kind, l) = Outside(p, words, kind, l)
<1>1. \A m : Structured!Op(p, m) = Op(p, m)
             /\ Structured!Level(p, kind, l + 1, m) = Level(p, kind, l + 1, m)
  BY SameOp, SameLevel
<1>2. \A m : m \in Structured!Outside(p, words, kind, l) <=> m \in Outside(p, words, kind, l)
  BY <1>1, Zenon DEF Structured!Outside, Outside
<1>3. /\ Structured!Outside(p, words, kind, l)
           = {m \in l + 1 .. Len(p) : m \in Structured!Outside(p, words, kind, l)}
      /\ Outside(p, words, kind, l)
           = {m \in l + 1 .. Len(p) : m \in Outside(p, words, kind, l)}
  BY DEF Structured!Outside, Outside
<1> QED BY <1>2, <1>3

LEMMA SameEnd ==
  ASSUME NEW p, NEW l
  PROVE  /\ Structured!EndOf(p, l) = EndOf(p, l)
         /\ Structured!Closed(p, l) = Closed(p, l)
         /\ Structured!Block(p, l) = Block(p, l)
<1>1. Structured!Close = Close /\ Structured!Op(p, l) = Op(p, l)
  BY SameOp DEF Structured!Close, Close
<1>2. Structured!EndOf(p, l) = EndOf(p, l)
  BY <1>1, SameOutside, SameSets, Zenon DEF Structured!EndOf, EndOf
<1>3. Structured!Closed(p, l) = Closed(p, l)
  BY <1>1, SameOutside, Zenon DEF Structured!Closed, Closed
<1>4. Structured!Block(p, l) = Block(p, l)
  BY <1>2, Zenon DEF Structured!Block, Block
<1> QED BY <1>2, <1>3, <1>4

LEMMA SameAround ==
  ASSUME NEW p, NEW kinds, NEW l
  PROVE  Structured!Around(p, kinds, l) = Around(p, kinds, l)
<1>1. \A k : Structured!Closed(p, k) = Closed(p, k) /\ Structured!Block(p, k) = Block(p, k)
  BY SameEnd
<1>2. \A k : k \in Structured!Around(p, kinds, l) <=> k \in Around(p, kinds, l)
  BY <1>1, Zenon DEF Structured!Around, Around
<1>3. /\ Structured!Around(p, kinds, l)
           = {k \in DOMAIN p : k \in Structured!Around(p, kinds, l)}
      /\ Around(p, kinds, l) = {k \in DOMAIN p : k \in Around(p, kinds, l)}
  BY DEF Structured!Around, Around
<1> QED BY <1>2, <1>3

-----------------------------------------------------------------------------
(* The members of a finite set of numbers in their order. *)

Rank(C, m) == Cardinality({j \in C : j <= m})

LEMMA NthOf ==
  ASSUME NEW n \in Nat, NEW C \in SUBSET (1 .. n)
  PROVE  /\ IsFiniteSet(C) /\ Cardinality(C) \in Nat
         /\ \A m \in C : Rank(C, m) \in 1 .. Cardinality(C) /\ Nth(C, Rank(C, m)) = m
         /\ \A i \in 1 .. Cardinality(C) : Nth(C, i) \in C /\ Rank(C, Nth(C, i)) = i
<1>1. IsFiniteSet(C) /\ Cardinality(C) \in Nat
  <2>1. IsFiniteSet(1 .. n)
    BY FS_Interval
  <2> QED BY <2>1, FS_Subset, FS_CardinalityType
<1>2. \A m \in C : /\ IsFiniteSet({j \in C : j <= m}) /\ Rank(C, m) \in Nat
                   /\ Rank(C, m) <= Cardinality(C) /\ Rank(C, m) # 0
  <2> TAKE m \in C
  <2> DEFINE S == {j \in C : j <= m}
  <2>1. S \in SUBSET C /\ m \in S
    OBVIOUS
  <2>2. IsFiniteSet(S) /\ Cardinality(S) <= Cardinality(C) /\ Cardinality(S) \in Nat
    BY <1>1, <2>1, FS_Subset, FS_CardinalityType
  <2>3. Cardinality(S) # 0
    BY <2>1, <2>2, FS_EmptySet
  <2> QED BY <2>2, <2>3 DEF Rank
<1>3. ASSUME NEW j \in C, NEW m \in C, j < m PROVE Rank(C, j) < Rank(C, m)
  <2> DEFINE S == {x \in C : x <= j}
             T == {x \in C : x <= m}
  <2>0. j \in Nat /\ m \in Nat /\ C \in SUBSET Nat /\ j < m
    BY <1>3
  <2>1. IsFiniteSet(T) /\ S \in SUBSET T /\ m \in T /\ m \notin S
    <3>1. IsFiniteSet(T)
      BY <1>2
    <3>2. \A x \in C : x <= j => x <= m
      BY <2>0
    <3>3. m \in T /\ m \notin S
      BY <2>0
    <3> QED BY <3>1, <3>2, <3>3
  <2>2. Cardinality(S) <= Cardinality(T) /\ Cardinality(S) # Cardinality(T)
    BY <2>1, FS_Subset
  <2>3. Rank(C, j) = Cardinality(S) /\ Rank(C, m) = Cardinality(T)
    BY DEF Rank
  <2>4. Rank(C, j) \in Nat /\ Rank(C, m) \in Nat
    BY <1>2
  <2> HIDE DEF S, T
  <2> QED BY <2>2, <2>3, <2>4
<1>4. ASSUME NEW j \in C, NEW m \in C, Rank(C, j) = Rank(C, m) PROVE j = m
  <2>1. j \in Nat /\ m \in Nat
    OBVIOUS
  <2>2. Rank(C, j) \in Nat /\ Rank(C, m) \in Nat
    BY <1>2
  <2>3. ~(j < m) /\ ~(m < j)
    BY <1>3, <1>4, <2>2
  <2> QED BY <2>1, <2>3
<1>5. \A m \in C : Nth(C, Rank(C, m)) = m
  <2> TAKE m \in C
  <2> DEFINE r == Rank(C, m)
  <2>1. m \in C /\ Rank(C, m) = r
    OBVIOUS
  <2>2. \A x \in C : Rank(C, x) = r => x = m
    BY <1>4
  <2>3. Nth(C, r) = CHOOSE x \in C : Rank(C, x) = r
    BY DEF Nth, Rank
  <2> HIDE DEF r
  <2>4. Nth(C, r) = m
    BY <2>1, <2>2, <2>3
  <2> QED BY <2>1, <2>4
<1>6. \A m \in C : Rank(C, m) \in 1 .. Cardinality(C)
  <2> TAKE m \in C
  <2> DEFINE r == Rank(C, m)
             c == Cardinality(C)
  <2>1. r \in Nat /\ r <= c /\ r # 0 /\ c \in Nat
    BY <1>1, <1>2
  <2> HIDE DEF r, c
  <2>2. r \in 1 .. c
    BY <2>1
  <2> QED BY <2>2 DEF r, c
<1>7. \A i \in 1 .. Cardinality(C) : \E m \in C : Rank(C, m) = i
  <2> DEFINE f == [m \in C |-> Rank(C, m)]
             N == 1 .. Cardinality(C)
  <2>1. f \in [C -> N]
    BY <1>6
  <2>2. \A a, b \in C : f[a] = f[b] => a = b
    BY <1>4
  <2>3. f \in Injection(C, N)
    BY <2>1, <2>2 DEF Injection, IsInjective
  <2>4. IsFiniteSet(N) /\ Cardinality(N) = Cardinality(C)
    BY <1>1, FS_Interval
  <2>5. f \in Surjection(C, N)
    BY <2>3, <2>4, FS_Injection
  <2> QED BY <2>5 DEF Surjection
<1>8. \A i \in 1 .. Cardinality(C) : Nth(C, i) \in C /\ Rank(C, Nth(C, i)) = i
  <2> TAKE i \in 1 .. Cardinality(C)
  <2>1. PICK m \in C : Rank(C, m) = i
    BY <1>7
  <2>2. Nth(C, i) = m
    BY <1>5, <2>1
  <2> QED BY <2>1, <2>2
<1> QED BY <1>1, <1>5, <1>6, <1>8

\* One member more, greater than all others.
LEMMA NthMore ==
  ASSUME NEW n \in Nat, NEW C \in SUBSET (1 .. n), NEW k \in 1 .. n, \A m \in C : m < k
  PROVE  /\ Cardinality(C \cup {k}) = Cardinality(C) + 1
         /\ Nth(C \cup {k}, Cardinality(C) + 1) = k
         /\ \A i \in 1 .. Cardinality(C) : Nth(C \cup {k}, i) = Nth(C, i)
<1> DEFINE D == C \cup {k}
<1>1. D \in SUBSET (1 .. n) /\ k \notin C /\ k \in D /\ \A m \in D : m <= k
  <2>1. k \in Nat /\ ~(k < k) /\ C \in SUBSET Nat
    OBVIOUS
  <2> QED BY <2>1
<1>2. Cardinality(D) = Cardinality(C) + 1 /\ Cardinality(C) \in Nat
  BY <1>1, NthOf, FS_AddElement
<1>3. Rank(D, k) = Cardinality(D)
  <2>1. {j \in D : j <= k} = D
    <3> HIDE DEF D
    <3> QED BY <1>1
  <2> QED BY <2>1 DEF Rank
<1>4. \A m \in C : Rank(D, m) = Rank(C, m)
  <2> TAKE m \in C
  <2>1. ~(k <= m)
    OBVIOUS
  <2>2. {j \in D : j <= m} = {j \in C : j <= m}
    BY <2>1
  <2> QED BY <2>2 DEF Rank
<1>5. \A m \in D : Nth(D, Rank(D, m)) = m
  <2> HIDE DEF D
  <2> QED BY <1>1, NthOf
<1>6. \A i \in 1 .. Cardinality(C) : Nth(C, i) \in C /\ Rank(C, Nth(C, i)) = i
  BY NthOf
<1>7. \A i \in 1 .. Cardinality(C) : Nth(D, i) = Nth(C, i)
  BY <1>4, <1>5, <1>6
<1> QED BY <1>1, <1>2, <1>3, <1>5, <1>7

\* What a selection of a sequence holds.
Selected(C, g) == [i \in 1 .. Cardinality(C) |-> g[Nth(C, i)]]

LEMMA SelectedSame ==
  ASSUME NEW n \in Nat, NEW C \in SUBSET (1 .. n), NEW g, NEW h, \A m \in C : g[m] = h[m]
  PROVE  Selected(C, g) = Selected(C, h)
BY NthOf DEF Selected

LEMMA SelectedSeq ==
  ASSUME NEW n \in Nat, NEW C \in SUBSET (1 .. n), NEW g
  PROVE  /\ Selected(C, g) \in Seq({g[m] : m \in C}) /\ Len(Selected(C, g)) = Cardinality(C)
         /\ Cardinality(C) \in Nat
<1>1. Cardinality(C) \in Nat /\ \A i \in 1 .. Cardinality(C) : Nth(C, i) \in C
  BY NthOf
<1>2. Selected(C, g) \in [1 .. Cardinality(C) -> {g[m] : m \in C}]
  BY <1>1 DEF Selected
<1> QED BY <1>1, <1>2

\* One more is selected, behind all others.
OneMore(n, C, k, g, h) ==
  /\ n \in Nat /\ C \in SUBSET (1 .. n) /\ k \in 1 .. n
  /\ \A m \in C : m < k /\ g[m] = h[m]

IsLonger(C, k, g, h) == Selected(C \cup {k}, h) = Append(Selected(C, g), h[k])

LEMMA SelectedMore ==
  ASSUME NEW n, NEW C, NEW k, NEW g, NEW h, OneMore(n, C, k, g, h)
  PROVE  IsLonger(C, k, g, h)
<1> DEFINE D == C \cup {k}
           u == Selected(C, g)
           U == {g[m] : m \in C} \cup {h[k]}
           t == Append(u, h[k])
           c == Cardinality(C)
<1> USE DEF OneMore
<1>0. /\ Cardinality(C) \in Nat
      /\ \A i \in 1 .. Cardinality(C) : Nth(C, i) \in C
  BY NthOf
<1>1. c \in Nat /\ Cardinality(D) = c + 1 /\ Nth(D, c + 1) = k
  BY <1>0, NthMore
<1>2. \A i \in 1 .. c : Nth(D, i) = Nth(C, i) /\ Nth(C, i) \in C
  <2>1. \A i \in 1 .. Cardinality(C) : Nth(C \cup {k}, i) = Nth(C, i)
    BY NthMore
  <2> QED BY <1>0, <2>1
<1>3. u \in Seq(U) /\ Len(u) = c /\ h[k] \in U
  <2>1. u \in Seq({g[m] : m \in C}) /\ Len(u) = c
    BY SelectedSeq
  <2> QED BY <2>1
<1>4. /\ t \in Seq(U) /\ Len(t) = c + 1 /\ t[c + 1] = h[k]
      /\ \A i \in 1 .. c : t[i] = u[i]
  <2> HIDE DEF u, U, c
  <2> QED BY <1>1, <1>3
<1>5. \A i \in 1 .. c : u[i] = g[Nth(C, i)]
  BY DEF Selected
<1>6. Selected(D, h) = [i \in 1 .. c + 1 |-> h[Nth(D, i)]]
  <2> HIDE DEF D, c
  <2> QED BY <1>1 DEF Selected
<1>7. \A i \in 1 .. c + 1 : t[i] = h[Nth(D, i)]
  <2> TAKE i \in 1 .. c + 1
  <2>1. i = c + 1 \/ i \in 1 .. c
    <3> HIDE DEF c
    <3> QED BY <1>1
  <2> HIDE DEF t, u, D, c
  <2> QED BY <1>1, <1>2, <1>4, <1>5, <2>1
<1>8. t = [i \in 1 .. c + 1 |-> t[i]]
  <2> HIDE DEF t, u, U, c
  <2> QED BY <1>1, <1>4
<1>9. Selected(D, h) = t
  <2> HIDE DEF D, t, c
  <2> QED BY <1>6, <1>7, <1>8
<1> QED BY <1>9 DEF IsLonger

-----------------------------------------------------------------------------
(* The running loops: what a change of selcyclstack and of the variables   *)
(* does to them.                                                           *)

LoopAt == [m \in DOMAIN selcyclstack |-> LoopOf(selcyclstack[m])]

LEMMA LoopsAre ==
  /\ TypeOK => /\ Loops = Selected(Counting, LoopAt)
               /\ Len(selcyclstack) \in Nat /\ Counting \in SUBSET (1 .. Len(selcyclstack))
  /\ TypeOK' => /\ Loops' = Selected(Counting', LoopAt')
                /\ Len(selcyclstack') \in Nat
                /\ Counting' \in SUBSET (1 .. Len(selcyclstack'))
<1>1. ASSUME TypeOK
      PROVE  /\ Loops = Selected(Counting, LoopAt)
             /\ Len(selcyclstack) \in Nat /\ Counting \in SUBSET (1 .. Len(selcyclstack))
  <2>1. Len(selcyclstack) \in Nat /\ DOMAIN selcyclstack = 1 .. Len(selcyclstack)
    BY <1>1 DEF TypeOK
  <2>2. Counting \in SUBSET (1 .. Len(selcyclstack))
    BY <2>1 DEF Counting
  <2>3. \A i \in 1 .. Cardinality(Counting) : Nth(Counting, i) \in Counting
    BY <2>1, <2>2, NthOf
  <2>4. \A i \in 1 .. Cardinality(Counting) :
          LoopAt[Nth(Counting, i)] = LoopOf(selcyclstack[Nth(Counting, i)])
    BY <2>1, <2>2, <2>3 DEF LoopAt
  <2> QED BY <2>1, <2>2, <2>4 DEF Loops, Selected
<1>2. ASSUME TypeOK'
      PROVE  /\ Loops' = Selected(Counting', LoopAt')
             /\ Len(selcyclstack') \in Nat
             /\ Counting' \in SUBSET (1 .. Len(selcyclstack'))
  <2>1. Len(selcyclstack') \in Nat /\ DOMAIN selcyclstack' = 1 .. Len(selcyclstack')
    BY <1>2 DEF TypeOK
  <2>2. Counting' \in SUBSET (1 .. Len(selcyclstack'))
    BY <2>1 DEF Counting
  <2>3. \A i \in 1 .. Cardinality(Counting') : Nth(Counting', i) \in Counting'
    BY <2>1, <2>2, NthOf
  <2>4. \A i \in 1 .. Cardinality(Counting') :
          LoopAt'[Nth(Counting', i)] = LoopOf(selcyclstack[Nth(Counting, i)])'
    BY <2>1, <2>2, <2>3 DEF LoopAt
  <2> QED BY <2>1, <2>2, <2>4 DEF Loops, Selected
<1> QED BY <1>1, <1>2

\* A frame that stays, and whose variable does, stands for the same loop.
LEMMA SameLoop ==
  ASSUME NEW m \in DOMAIN selcyclstack, m \in DOMAIN selcyclstack', p_buf' = p_buf,
         selcyclstack'[m] = selcyclstack[m],
         vars'[p_buf[selcyclstack[m].line].var] = vars[p_buf[selcyclstack[m].line].var]
  PROVE  LoopAt'[m] = LoopAt[m]
BY DEF LoopAt, LoopOf

LEMMA LoopsKept ==
  ASSUME TypeOK, TypeOK', Counting' = Counting, \A m \in Counting : LoopAt'[m] = LoopAt[m]
  PROVE  Loops' = Loops
<1>1. Selected(Counting, LoopAt) = Selected(Counting, LoopAt')
  <2> DEFINE g == LoopAt
             h == LoopAt'
             C == Counting
             n == Len(selcyclstack)
  <2>1. n \in Nat /\ C \in SUBSET (1 .. n) /\ \A m \in C : g[m] = h[m]
    BY LoopsAre
  <2> HIDE DEF g, h, C, n
  <2>2. Selected(C, g) = Selected(C, h)
    BY <2>1, SelectedSame
  <2> QED BY <2>2 DEF g, h, C
<1> QED BY <1>1, LoopsAre

LEMMA LoopsPut ==
  ASSUME TypeOK, TypeOK', NEW k \in DOMAIN selcyclstack', \A m \in Counting : m < k,
         Counting' = Counting \cup {k}, \A m \in Counting : LoopAt'[m] = LoopAt[m]
  PROVE  Loops' = Append(Loops, LoopAt'[k])
<1> DEFINE g == LoopAt
           h == LoopAt'
           C == Counting
           n == Len(selcyclstack')
<1>1. /\ n \in Nat /\ C \in SUBSET (1 .. n) /\ k \in 1 .. n
      /\ \A m \in C : m < k /\ g[m] = h[m]
  <2>1. n \in Nat /\ Counting' \in SUBSET (1 .. n) /\ C \subseteq Counting'
    BY LoopsAre
  <2>2. DOMAIN selcyclstack' = 1 .. n
    BY DEF TypeOK
  <2> QED BY <2>1, <2>2
<1>2. Loops = Selected(C, g) /\ Loops' = Selected(C \cup {k}, h)
  BY LoopsAre
<1> HIDE DEF g, h, C, n
<1>3. Selected(C \cup {k}, h) = Append(Selected(C, g), h[k])
  <2>1. OneMore(n, C, k, g, h)
    BY <1>1 DEF OneMore
  <2>2. IsLonger(C, k, g, h)
    BY <2>1, SelectedMore
  <2> QED BY <2>2 DEF IsLonger
<1> QED BY <1>2, <1>3 DEF h

\* The innermost loop is the last one.
Innermore(k) == k \in Counting /\ \A m \in Counting : m <= k

LEMMA LoopsTop ==
  ASSUME TypeOK, NEW k, Innermore(k)
  PROVE  LET C == Counting \ {k} IN
         /\ Loops = Append(Selected(C, LoopAt), LoopAt[k])
         /\ Front(Loops) = Selected(C, LoopAt) /\ Last(Loops) = LoopAt[k]
         /\ Len(selcyclstack) \in Nat /\ C \in SUBSET (1 .. Len(selcyclstack))
<1> DEFINE g == LoopAt
           C == Counting \ {k}
           n == Len(selcyclstack)
           u == Selected(C, g)
           U == {g[m] : m \in C} \cup {g[k]}
<1>1. n \in Nat /\ C \in SUBSET (1 .. n) /\ k \in 1 .. n /\ Counting = C \cup {k}
  BY LoopsAre DEF Innermore
<1>2. \A m \in C : m < k
  <2>1. \A m \in C : m <= k /\ m # k
    BY DEF Innermore
  <2> HIDE DEF C, n
  <2> QED BY <1>1, <2>1
<1>3. Loops = Append(u, g[k])
  <2>1. Loops = Selected(C \cup {k}, g)
    BY <1>1, LoopsAre
  <2> HIDE DEF g, C, n
  <2>2. OneMore(n, C, k, g, g)
    BY <1>1, <1>2 DEF OneMore
  <2>3. Selected(C \cup {k}, g) = Append(Selected(C, g), g[k])
    <3>1. IsLonger(C, k, g, g)
      BY <2>2, SelectedMore
    <3> QED BY <3>1 DEF IsLonger
  <2> QED BY <2>1, <2>3 DEF u
<1>4. u \in Seq(U) /\ g[k] \in U
  <2> HIDE DEF g, C, n
  <2>1. u \in Seq({g[m] : m \in C})
    BY <1>1, SelectedSeq
  <2> HIDE DEF u
  <2> QED BY <2>1 DEF U
<1>5. Front(Append(u, g[k])) = u /\ Last(Append(u, g[k])) = g[k]
  <2> HIDE DEF u, U, g
  <2> QED BY <1>4 DEF Front, Last
<1> QED BY <1>1, <1>3, <1>5

LEMMA LoopsCut ==
  ASSUME TypeOK, TypeOK', NEW k, Innermore(k), Counting' = Counting \ {k},
         \A m \in Counting \ {k} : LoopAt'[m] = LoopAt[m]
  PROVE  Loops' = Front(Loops) /\ Last(Loops) = LoopAt[k]
<1> DEFINE g == LoopAt
           h == LoopAt'
           C == Counting \ {k}
           n == Len(selcyclstack)
<1>1. /\ Front(Loops) = Selected(C, g) /\ Last(Loops) = LoopAt[k]
      /\ n \in Nat /\ C \in SUBSET (1 .. n) /\ \A m \in C : g[m] = h[m]
  BY LoopsTop
<1>2. Loops' = Selected(C, h)
  BY LoopsAre
<1> HIDE DEF g, h, C, n
<1>3. Selected(C, g) = Selected(C, h)
  BY <1>1, SelectedSame
<1> QED BY <1>1, <1>2, <1>3

LEMMA LoopsCount ==
  ASSUME TypeOK, TypeOK', NEW k, Innermore(k), Counting' = Counting,
         \A m \in Counting \ {k} : LoopAt'[m] = LoopAt[m]
  PROVE  Loops' = Append(Front(Loops), LoopAt'[k]) /\ Last(Loops) = LoopAt[k]
<1> DEFINE g == LoopAt
           h == LoopAt'
           C == Counting \ {k}
           n == Len(selcyclstack)
<1>1. /\ Front(Loops) = Selected(C, g) /\ Last(Loops) = LoopAt[k]
      /\ n \in Nat /\ C \in SUBSET (1 .. n) /\ \A m \in C : g[m] = h[m]
  BY LoopsTop
<1>2. k \in 1 .. n /\ \A m \in C : m < k
  <2>1. k \in 1 .. n /\ \A m \in C : m <= k /\ m # k
    BY LoopsAre DEF Innermore
  <2> HIDE DEF C, n
  <2> QED BY <1>1, <2>1
<1>3. Loops' = Selected(C \cup {k}, h)
  BY LoopsAre DEF Innermore
<1> HIDE DEF g, h, C, n
<1>4. Selected(C \cup {k}, h) = Append(Selected(C, g), h[k])
  <2>1. OneMore(n, C, k, g, h)
    BY <1>1, <1>2 DEF OneMore
  <2>2. IsLonger(C, k, g, h)
    BY <2>1, SelectedMore
  <2> QED BY <2>2 DEF IsLonger
<1> QED BY <1>1, <1>3, <1>4 DEF h

LEMMA LoopsSame ==
  ASSUME UNCHANGED <<p_buf, selcyclstack, vars>>
  PROVE  Loops' = Loops
BY DEF Loops, Counting, LoopOf

\* A frame that is put on or taken off and does not count.
LEMMA PushPlain ==
  ASSUME TypeOK, TypeOK', NEW kind, kind \notin {"FOR", "LOOP"}, Push(kind), fate' = "run",
         UNCHANGED <<p_buf, vars>>
  PROVE  Loops' = Loops
<1>1. selcyclstack' = Append(selcyclstack, [kind |-> kind, line |-> prog])
  BY DEF Push
<1> DEFINE n == Len(selcyclstack)
           f == [kind |-> kind, line |-> prog]
<1>2. selcyclstack \in Seq(Frame) /\ selcyclstack' \in Seq(Frame) /\ f.kind = kind
  BY DEF TypeOK
<1>3. /\ n \in Nat /\ DOMAIN selcyclstack = 1 .. n /\ DOMAIN selcyclstack' = 1 .. n + 1
      /\ selcyclstack'[n + 1] = f /\ \A m \in 1 .. n : selcyclstack'[m] = selcyclstack[m]
  <2> DEFINE T == Frame \cup {f}
  <2>1. selcyclstack \in Seq(T) /\ f \in T /\ selcyclstack' = Append(selcyclstack, f)
    BY <1>1, <1>2
  <2> HIDE DEF f, T
  <2> QED BY <2>1
<1> HIDE DEF n, f
<1>4. \A m : m \in Counting' <=> m \in Counting
  <2> TAKE m
  <2>1. m \in 1 .. n + 1 <=> m \in 1 .. n \/ m = n + 1
    BY <1>3
  <2> QED BY <1>2, <1>3, <2>1 DEF Counting
<1>5. Counting' = Counting
  BY <1>4
<1>6. \A m \in Counting : LoopAt'[m] = LoopAt[m]
  <2> TAKE m \in Counting
  <2>1. m \in DOMAIN selcyclstack /\ m \in DOMAIN selcyclstack'
    BY <1>5 DEF Counting
  <2> QED BY <1>3, <2>1, SameLoop
<1> QED BY <1>5, <1>6, LoopsKept

\* The first j - 1 frames, and those behind them, do not count.
LEMMA CutPlain ==
  ASSUME TypeOK, TypeOK', NEW j \in DOMAIN selcyclstack,
         selcyclstack' = SubSeq(selcyclstack, 1, j - 1),
         \A m \in DOMAIN selcyclstack : m >= j => selcyclstack[m].kind \notin {"FOR", "LOOP"},
         UNCHANGED <<p_buf, vars>>
  PROVE  Loops' = Loops
<1> DEFINE n == Len(selcyclstack)
<1>1. selcyclstack \in Seq(Frame)
  BY DEF TypeOK
<1>2. /\ n \in Nat /\ j \in 1 .. n /\ DOMAIN selcyclstack = 1 .. n
      /\ DOMAIN selcyclstack' = 1 .. j - 1
      /\ \A m \in 1 .. j - 1 : selcyclstack'[m] = selcyclstack[m]
  BY <1>1
<1> HIDE DEF n
<1>3. \A m \in DOMAIN selcyclstack : m \in 1 .. j - 1 <=> ~(m >= j)
  BY <1>2
<1>4. \A m : m \in Counting' <=> m \in Counting
  <2> TAKE m
  <2>1. m \in 1 .. j - 1 => m \in 1 .. n
    BY <1>2
  <2> QED BY <1>2, <1>3, <2>1 DEF Counting
<1>5. Counting' = Counting
  BY <1>4
<1>6. \A m \in Counting : LoopAt'[m] = LoopAt[m]
  <2> TAKE m \in Counting
  <2>1. m \in DOMAIN selcyclstack /\ m \in DOMAIN selcyclstack'
    BY <1>5 DEF Counting
  <2> QED BY <1>2, <2>1, SameLoop
<1> QED BY <1>5, <1>6, LoopsKept

\* The innermost loop is left.
LEMMA CutLoop ==
  ASSUME TypeOK, TypeOK', NEW j, Innermore(j), p_buf' = p_buf,
         selcyclstack' = SubSeq(selcyclstack, 1, j - 1),
         \A m \in Counting \ {j} : vars'[p_buf[selcyclstack[m].line].var]
                                   = vars[p_buf[selcyclstack[m].line].var]
  PROVE  Loops' = Front(Loops) /\ Last(Loops) = LoopAt[j]
<1> DEFINE n == Len(selcyclstack)
<1>1. selcyclstack \in Seq(Frame) /\ j \in DOMAIN selcyclstack
  BY DEF TypeOK, Innermore, Counting
<1>2. /\ n \in Nat /\ j \in 1 .. n /\ DOMAIN selcyclstack = 1 .. n
      /\ DOMAIN selcyclstack' = 1 .. j - 1
      /\ \A m \in 1 .. j - 1 : selcyclstack'[m] = selcyclstack[m]
  BY <1>1
<1> HIDE DEF n
<1>3. \A m \in Counting : m \in 1 .. n /\ (m = j \/ m \in 1 .. j - 1)
  <2>1. \A m \in Counting : m \in 1 .. n /\ m <= j
    BY <1>2 DEF Innermore, Counting
  <2> QED BY <1>2, <2>1
<1>4. \A m \in 1 .. j - 1 : m \in 1 .. n /\ m # j
  BY <1>2
<1>5. \A m : m \in Counting' <=> m \in Counting /\ m # j
  <2> TAKE m
  <2> QED BY <1>2, <1>3, <1>4 DEF Counting
<1>6. Counting' = Counting \ {j}
  BY <1>5
<1>7. \A m \in Counting \ {j} : LoopAt'[m] = LoopAt[m]
  <2> TAKE m \in Counting \ {j}
  <2>1. m \in DOMAIN selcyclstack /\ m \in 1 .. j - 1
    BY <1>2, <1>3
  <2> QED BY <1>2, <2>1, SameLoop
<1> QED BY <1>6, <1>7, LoopsCut

\* The stack as it is, but for what variables do to the innermost loop.
LEMMA SameStack ==
  ASSUME TypeOK, TypeOK', NEW j, Innermore(j), p_buf' = p_buf, selcyclstack' = selcyclstack,
         \A m \in Counting \ {j} : vars'[p_buf[selcyclstack[m].line].var]
                                   = vars[p_buf[selcyclstack[m].line].var]
  PROVE  Loops' = Append(Front(Loops), LoopAt'[j]) /\ Last(Loops) = LoopAt[j]
<1>1. Counting' = Counting
  BY DEF Counting
<1>2. \A m \in Counting \ {j} : LoopAt'[m] = LoopAt[m]
  <2> TAKE m \in Counting \ {j}
  <2>1. m \in DOMAIN selcyclstack
    BY DEF Counting
  <2> QED BY <2>1, SameLoop
<1> QED BY <1>1, <1>2, LoopsCount

\* A loop is entered.
LEMMA PushLoop ==
  ASSUME TypeOK, TypeOK', NEW kind \in {"FOR", "LOOP"}, Push(kind), fate' = "run",
         p_buf' = p_buf,
         \A m \in Counting : vars'[p_buf[selcyclstack[m].line].var]
                             = vars[p_buf[selcyclstack[m].line].var]
  PROVE  Loops' = Append(Loops, [line |-> prog, count |-> vars'[p_buf[prog].var]])
<1>1. selcyclstack' = Append(selcyclstack, [kind |-> kind, line |-> prog])
  BY DEF Push
<1> DEFINE n == Len(selcyclstack)
           f == [kind |-> kind, line |-> prog]
<1>2. selcyclstack \in Seq(Frame) /\ selcyclstack' \in Seq(Frame)
      /\ f.kind = kind /\ f.line = prog
  BY DEF TypeOK
<1>3. /\ n \in Nat /\ DOMAIN selcyclstack = 1 .. n /\ DOMAIN selcyclstack' = 1 .. n + 1
      /\ selcyclstack'[n + 1] = f /\ \A m \in 1 .. n : selcyclstack'[m] = selcyclstack[m]
  <2> DEFINE T == Frame \cup {f}
  <2>1. selcyclstack \in Seq(T) /\ f \in T /\ selcyclstack' = Append(selcyclstack, f)
    BY <1>1, <1>2
  <2> HIDE DEF f, T
  <2> QED BY <2>1
<1> HIDE DEF n, f
<1>4. \A m : m \in Counting' <=> m \in Counting \cup {n + 1}
  <2> TAKE m
  <2>1. m \in 1 .. n + 1 <=> m \in 1 .. n \/ m = n + 1
    BY <1>3
  <2>2. ~(n + 1 \in 1 .. n)
    BY <1>3
  <2> QED BY <1>2, <1>3, <2>1, <2>2 DEF Counting
<1>5. Counting' = Counting \cup {n + 1} /\ n + 1 \in DOMAIN selcyclstack'
  BY <1>3, <1>4
<1>6. \A m \in Counting : LoopAt'[m] = LoopAt[m] /\ m < n + 1
  <2> TAKE m \in Counting
  <2>1. m \in DOMAIN selcyclstack /\ m \in 1 .. n
    BY <1>3 DEF Counting
  <2>2. m \in DOMAIN selcyclstack' /\ m < n + 1
    BY <1>3, <2>1
  <2> QED BY <1>3, <2>1, <2>2, SameLoop
<1>7. Loops' = Append(Loops, LoopAt'[n + 1])
  <2> DEFINE k == n + 1
  <2>1. /\ k \in DOMAIN selcyclstack' /\ \A m \in Counting : m < k
        /\ Counting' = Counting \cup {k} /\ \A m \in Counting : LoopAt'[m] = LoopAt[m]
    BY <1>5, <1>6
  <2> HIDE DEF k
  <2>2. Loops' = Append(Loops, LoopAt'[k])
    BY <2>1, LoopsPut
  <2> QED BY <2>2 DEF k
<1>8. LoopAt'[n + 1] = [line |-> prog, count |-> vars'[p_buf[prog].var]]
  BY <1>2, <1>3 DEF LoopAt, LoopOf
<1> QED BY <1>7, <1>8

\* What BREAK and CONTINUE find, and what a pop leaves.
LEMMA PoppedIs ==
  ASSUME TypeOK, selcyclstack # <<>>
  PROVE  LET n == Len(selcyclstack) IN
         /\ n \in DOMAIN selcyclstack /\ DOMAIN selcyclstack = 1 .. n /\ n \in Nat
         /\ Popped = selcyclstack[n] /\ Rest = SubSeq(selcyclstack, 1, n - 1)
BY DEF TypeOK, Popped, Rest, Last, Front

LEMMA CycleFrame ==
  ASSUME TypeOK, CycleIndex # 0
  PROVE  LET n == Len(selcyclstack) IN
         /\ CycleIndex \in DOMAIN selcyclstack /\ DOMAIN selcyclstack = 1 .. n /\ n \in Nat
         /\ Cycle = selcyclstack[CycleIndex]
         /\ Outer = SubSeq(selcyclstack, 1, CycleIndex - 1)
         /\ \A m \in DOMAIN selcyclstack : m > CycleIndex => selcyclstack[m].kind = "IF"
<1> DEFINE n == Len(selcyclstack)
           S == {i \in DOMAIN selcyclstack : selcyclstack[i].kind # "IF"}
<1>1. n \in Nat /\ DOMAIN selcyclstack = 1 .. n
  BY DEF TypeOK
<1>2. S \in SUBSET (1 .. n)
  BY <1>1
<1>3. CycleIndex = Max(S) /\ S # {}
  BY DEF CycleIndex
<1>4. Max(S) \in S /\ \A y \in S : y <= Max(S)
  <2> HIDE DEF S, n
  <2> QED BY <1>1, <1>2, <1>3, MaxGreatest
<1>5. \A m \in DOMAIN selcyclstack : m > CycleIndex => selcyclstack[m].kind = "IF"
  <2> TAKE m \in DOMAIN selcyclstack
  <2>1. CycleIndex \in 1 .. n /\ m \in 1 .. n
    BY <1>1, <1>2, <1>3, <1>4
  <2>2. m \in S => m <= CycleIndex
    BY <1>3, <1>4
  <2>3. m \notin S => selcyclstack[m].kind = "IF"
    OBVIOUS
  <2> HIDE DEF S, n
  <2> QED BY <2>1, <2>2, <2>3, <1>1
<1> QED BY <1>1, <1>3, <1>4, <1>5 DEF Cycle, Outer

\* The frames of the IFs around a CONTINUE are taken off, that of its WHILE stays.
LEMMA AgainPlain ==
  ASSUME TypeOK, TypeOK', CycleIndex # 0, Cycle.kind \notin {"FOR", "LOOP"},
         selcyclstack' = Append(Outer, Cycle), UNCHANGED <<p_buf, vars>>
  PROVE  Loops' = Loops
<1> DEFINE n == Len(selcyclstack)
           c == CycleIndex
<1>1. /\ c \in 1 .. n /\ DOMAIN selcyclstack = 1 .. n /\ n \in Nat
      /\ Cycle = selcyclstack[c] /\ Outer = SubSeq(selcyclstack, 1, c - 1)
      /\ \A m \in 1 .. n : m > c => selcyclstack[m].kind = "IF"
  BY CycleFrame
<1>2. selcyclstack \in Seq(Frame)
  BY DEF TypeOK
<1> HIDE DEF c, n
<1>3. Outer \in Seq(Frame) /\ Len(Outer) = c - 1
      /\ \A m \in 1 .. c - 1 : Outer[m] = selcyclstack[m]
  BY <1>1, <1>2 DEF n
<1>4. Cycle \in Frame
  BY <1>1, <1>2
<1>5. /\ DOMAIN selcyclstack' = 1 .. c
      /\ \A m \in 1 .. c : selcyclstack'[m] = selcyclstack[m]
  <2>1. Len(selcyclstack') = c /\ selcyclstack' \in Seq(Frame) /\ selcyclstack'[c] = Cycle
        /\ \A m \in 1 .. c - 1 : selcyclstack'[m] = Outer[m]
    BY <1>1, <1>3, <1>4
  <2>2. \A m \in 1 .. c : m = c \/ m \in 1 .. c - 1
    BY <1>1
  <2> QED BY <1>1, <1>3, <2>1, <2>2
<1>6. \A m \in 1 .. n : m \in 1 .. c \/ m > c
  BY <1>1
<1>7. \A m : m \in Counting' <=> m \in Counting
  <2> TAKE m
  <2>1. m \in 1 .. c => m \in 1 .. n
    BY <1>1
  <2> QED BY <1>1, <1>5, <1>6, <2>1 DEF Counting
<1>8. Counting' = Counting
  BY <1>7
<1>9. \A m \in Counting : LoopAt'[m] = LoopAt[m]
  <2> TAKE m \in Counting
  <2>1. m \in DOMAIN selcyclstack /\ m \in DOMAIN selcyclstack'
    BY <1>8 DEF Counting
  <2> QED BY <1>5, <2>1, SameLoop
<1> QED BY <1>8, <1>9, LoopsKept

-----------------------------------------------------------------------------
(* Steps. *)

\* At a statement of a program that keeps clear of what Tidy and Straight exclude.
Sure ==
  /\ Ready /\ CallsKept /\ GotoApart /\ Straight(p_buf)
  /\ prog \in DOMAIN p_buf /\ Len(running) = gosub_tos

\* No stack is full.
WithinLimits == fate # "overrun" /\ err # 12

\* No two running loops count with the same variable.
CountersApart ==
  \A m, n \in Counting :
    m # n => p_buf[selcyclstack[m].line].var # p_buf[selcyclstack[n].line].var

\* A step of structured BASIC, or none, and no error.
Right == [Structured!Next]_(Structured!vars) /\ err' = 0

LEMMA SureFacts ==
  ASSUME Sure
  PROVE  /\ p_buf \in Program /\ Tidy(p_buf) /\ Text(p_buf) /\ TypeOK
         /\ prog \in Nat /\ prog \in DOMAIN p_buf /\ fate = "run" /\ err = 0
         /\ At = Owner(p_buf, prog)
BY ReadyFacts DEF Sure, Ready, IInv, At

LEMMA Stands ==
  ASSUME Sure, NEW op \in Ops \ {"ELSEIF"}, Reads(op)
  PROVE  /\ At = prog /\ Op(p_buf, prog) = op /\ p_buf[prog].op = op /\ Structured!Is(op)
         /\ Op(p_buf, prog) # "ELSEIF"
<1>1. Op(p_buf, prog) = op /\ p_buf[prog].op = op
  BY AtWord DEF Sure
<1>2. At = prog
  BY <1>1, SureFacts, OwnerOfOther
<1> QED BY <1>1, <1>2, SureFacts, SameOp DEF Structured!Is

LEMMA StandsStill ==
  ASSUME fate = "run", fate' # "over", UNCHANGED <<p_buf, prog, selcyclstack, stacks, vars>>
  PROVE  Structured!vars' = Structured!vars
<1>1. At' = At
  BY DEF At
<1>2. Loops' = Loops
  BY LoopsSame
<1>3. Calls' = Calls
  BY DEF Calls, CallLine, stacks
<1> QED BY <1>1, <1>2, <1>3 DEF Structured!vars

LEMMA LostRight ==
  ASSUME Sure, NEW how \in {"hung", "exited", "overrun"}, Lost(how)
  PROVE  Right
BY SureFacts, StandsStill DEF Lost, Right

LEMMA GoesTo ==
  ASSUME Sure, fate' = "run", UNCHANGED <<p_buf, stacks>>,
         NEW l, prog' = l, Owner(p_buf, l) = l
  PROVE  Structured!Go(l) /\ At' = l /\ Calls' = Calls
<1>1. At' = l
  BY DEF At
<1>2. Calls' = Calls
  BY DEF Calls, CallLine, stacks
<1> QED BY <1>1, <1>2, SureFacts DEF Structured!Go

LEMMA JumpsTo ==
  ASSUME Sure, fate' = "run", UNCHANGED <<p_buf, stacks>>,
         NEW l, prog' = l, Owner(p_buf, l) = l, Loops' = Loops
  PROVE  Structured!Jump(l)
BY GoesTo DEF Structured!Jump

LEMMA Reading ==
  ASSUME NEW k, NEW kinds
  PROVE  /\ Structured!After(k) = EndOf(p_buf, k) + 1
         /\ Structured!Innermost(kinds) = Max(Around(p_buf, kinds, At))
<1>1. Structured!After(k) = EndOf(p_buf, k) + 1
  BY SameEnd DEF Structured!After
<1>2. Structured!Innermost(kinds) = Max(Around(p_buf, kinds, At))
  BY SameAround, SameSets DEF Structured!Innermost
<1> QED BY <1>1, <1>2

\* The innermost block of some kinds is the last one that was entered.
LEMMA InnermostOf ==
  ASSUME NEW p, Text(p), NEW l \in Nat, Op(p, l) \notin Openers, NEW kinds \in SUBSET Openers,
         NEW k \in Heads(p, l), Op(p, k) \in kinds,
         \A x \in Heads(p, l) : Op(p, x) \in kinds => x <= k
  PROVE  Max(Around(p, kinds, l)) = k
<1> DEFINE S == Around(p, kinds, l)
<1>1. S = {x \in Heads(p, l) : Op(p, x) \in kinds}
  BY AroundHeads
<1>2. Len(p) \in Nat /\ S \in SUBSET (1 .. Len(p)) /\ k \in S /\ \A x \in S : x <= k
  BY <1>1, HeadsAreLines
<1> HIDE DEF S
<1>3. Max(S) \in S /\ k <= Max(S)
  BY <1>2, MaxGreatest
<1>4. Max(S) <= k /\ S \in SUBSET Nat
  <2>1. Max(S) <= k
    BY <1>2, <1>3
  <2>2. \A n \in Nat : (1 .. n) \subseteq Nat
    OBVIOUS
  <2> QED BY <1>2, <2>1, <2>2
<1>5. Max(S) = k
  <2> DEFINE x == Max(S)
  <2>1. x \in Nat /\ k \in Nat /\ x <= k /\ k <= x
    BY <1>2, <1>3, <1>4
  <2> HIDE DEF x
  <2> QED BY <2>1 DEF x
<1> QED BY <1>5 DEF S

\* Behind the head or the end of a block no ELSEIF stands.
LEMMA OwnersBehind ==
  ASSUME NEW p \in Program, Tidy(p), NEW k, Opens(p, k)
  PROVE  /\ Owner(p, k + 1) = k + 1
         /\ EndOf(p, k) \in Nat /\ Owner(p, EndOf(p, k) + 1) = EndOf(p, k) + 1
<1>1. Text(p) /\ k \in Nat /\ EndOf(p, k) \in Nat /\ Op(p, EndOf(p, k)) = Close[p[k].op]
  BY TidyText, BlockEnd
<1>2. Op(p, k) \in Openers
  BY DEF Opens, Op
<1>3. Op(p, k) \notin {"BREAK", "CONTINUE", "GOTO"}
      /\ Op(p, EndOf(p, k)) \notin {"BREAK", "CONTINUE", "GOTO"}
  <2>1. p[k].op \in {"IF", "FOR", "WHILE", "LOOP", "SELECT"}
    BY Words DEF Opens
  <2>2. Op(p, k) = p[k].op
    BY DEF Opens, Op
  <2>3. Close[p[k].op] \in {"ENDIF", "NEXT", "WEND", "ENDLOOP", "ENDSELECT"}
    BY <2>1, Words
  <2> QED BY <1>1, <2>1, <2>2, <2>3
<1> QED BY <1>1, <1>3, OwnerBehind

\* What the end of a block is called.
LEMMA EndWord ==
  ASSUME NEW p, Text(p), NEW k, Opens(p, k), NEW kind, p[k].op = kind, NEW word, word = Close[kind]
  PROVE  Op(p, EndOf(p, k)) = word
<1>1. Op(p, EndOf(p, k)) = Close[p[k].op]
  BY BlockEnd
<1> QED BY <1>1

\* A word that neither opens nor closes a block of a kind does not change the level.
LEMMA LevelSkips ==
  ASSUME NEW p, NEW kind \in Openers, NEW l \in Nat, NEW m \in Nat, l <= m,
         Op(p, m) # kind, Op(p, m) # Close[kind], Level(p, kind, l, m) = 0,
         NEW x \in Nat, m < x
  PROVE  Level(p, kind, l, x) = Level(p, kind, m + 1, x)
<1> DEFINE n == m + 1
<1>1. Level(p, kind, l, n) = 0
  <2>1. Level(p, kind, l, m + 1) = Level(p, kind, l, m)
          + (IF Op(p, m) = kind THEN 1 ELSE IF Op(p, m) = Close[kind] THEN -1 ELSE 0)
    BY LevelNext
  <2> QED BY <2>1
<1>2. n \in Nat /\ l <= n /\ n <= x
  OBVIOUS
<1> HIDE DEF n
<1>3. Level(p, kind, l, x) = Level(p, kind, l, n) + Level(p, kind, n, x)
      /\ Level(p, kind, n, x) \in Int
  BY <1>2, LevelSum
<1>4. Level(p, kind, l, x) = Level(p, kind, n, x)
  BY <1>1, <1>3
<1> QED BY <1>4 DEF n

-----------------------------------------------------------------------------
(* IF, ELSEIF, ELSE. *)

LEMMA BranchesAre ==
  ASSUME NEW k, NEW m
  PROVE  /\ m \in Structured!Branches(k)
              <=> /\ m \in k + 1 .. Len(p_buf) /\ Op(p_buf, m) \in {"ELSE", "ELSEIF"}
                  /\ Level(p_buf, "IF", k + 1, m) = 0 /\ m < EndOf(p_buf, k)
         /\ Structured!HasElse(k) => \E x \in Structured!Branches(k) : Op(p_buf, x) = "ELSE"
<1>1. m \in Structured!Branches(k)
        <=> m \in Outside(p_buf, {"ELSE", "ELSEIF"}, "IF", k) /\ m < EndOf(p_buf, k)
  BY SameOutside, SameEnd DEF Structured!Branches
<1>2. Structured!HasElse(k) => \E x \in Structured!Branches(k) : Op(p_buf, x) = "ELSE"
  BY SameOp DEF Structured!HasElse
<1> QED BY <1>1, <1>2 DEF Outside

LEMMA IfGoes ==
  ASSUME Structured!Is("IF"), NEW b, Structured!Jump(b + 1),
         \/ b = At
         \/ b \in Structured!Branches(At)
         \/ ~Structured!HasElse(At) /\ b = EndOf(p_buf, At)
  PROVE  Structured!Next
<1>1. b = EndOf(p_buf, At) <=> b = Structured!EndOf(p_buf, At)
  BY SameEnd
<1>2. Structured!If
  BY <1>1, Zenon DEF Structured!If
<1> QED BY <1>2 DEF Structured!Next

LEMMA IfRight ==
  ASSUME Sure, IInv', WithinLimits', NEW op \in {"IF", "ELSEIF"}, Reads(op), ExecCondition
  PROVE  Right
<1> DEFINE k == Owner(p_buf, prog)
<1>0. /\ p_buf \in Program /\ Tidy(p_buf) /\ Text(p_buf) /\ TypeOK /\ TypeOK'
      /\ prog \in Nat /\ fate = "run" /\ err = 0 /\ At = k /\ Op(p_buf, prog) = op
      /\ prog \in DOMAIN p_buf /\ Len(p_buf) \in Nat /\ DOMAIN p_buf = 1 .. Len(p_buf)
  BY SureFacts, Lines DEF IInv, Reads
<1>1. /\ Opens(p_buf, k) /\ p_buf[k].op = "IF" /\ Op(p_buf, k) = "IF" /\ k \in Nat
      /\ op = "IF" => prog = k
      /\ op = "ELSEIF" => k = Max(Heads(p_buf, prog)) /\ k \in Heads(p_buf, prog)
  <2>1. CASE op = "IF"
    <3>1. k = prog
      BY <1>0, <2>1, OwnerOfOther
    <3> QED BY <1>0, <2>1, <3>1, Words DEF Opens, Op
  <2>2. CASE op = "ELSEIF"
    BY <1>0, <2>2, OwnerOfElseif
  <2> QED BY <2>1, <2>2
<1>2. Structured!Is("IF")
  BY <1>0, <1>1, SameOp DEF Structured!Is
<1>3. k \in Nat /\ EndOf(p_buf, k) \in Nat /\ k < EndOf(p_buf, k)
      /\ k <= prog /\ prog < EndOf(p_buf, k)
  <2>1. /\ k \in Nat /\ EndOf(p_buf, k) \in Nat /\ k < EndOf(p_buf, k)
        /\ Op(p_buf, EndOf(p_buf, k)) = "ENDIF"
    <3>1. Close["IF"] = "ENDIF"
      BY Words
    <3> HIDE DEF k
    <3>2. Op(p_buf, EndOf(p_buf, k)) = "ENDIF"
      BY <1>0, <1>1, <3>1, EndWord
    <3> QED BY <1>0, <1>1, <3>2, BlockEnd
  <2>2. CASE op = "IF"
    BY <1>0, <1>1, <2>1, <2>2
  <2>3. CASE op = "ELSEIF"
    <3>1. k < prog /\ prog <= EndOf(p_buf, k)
      BY <1>0, <1>1, <2>3, IsHead
    <3>2. prog # EndOf(p_buf, k)
      BY <1>0, <2>1, <2>3
    <3> HIDE DEF k
    <3> QED BY <1>0, <2>1, <3>1, <3>2
  <2> QED BY <2>2, <2>3
<1>4. \A x \in Nat : x >= prog + 1 =>
        Level(p_buf, "IF", k + 1, x) = Level(p_buf, "IF", prog + 1, x)
  <2>1. CASE op = "IF"
    BY <1>1, <2>1
  <2>2. CASE op = "ELSEIF"
    <3>1. Level(p_buf, "IF", k + 1, prog) = 0
      BY <1>0, <1>1, <2>2, LevelOfOwn
    <3>2. k + 1 <= prog /\ k + 1 \in Nat /\ prog + 1 \in Nat
      BY <1>0, <1>1, <1>3, <2>2
    <3>3. "IF" \in Openers /\ Close["IF"] = "ENDIF"
      BY Words
    <3>4. ASSUME NEW x \in Nat, x >= prog + 1
          PROVE  Level(p_buf, "IF", k + 1, x) = Level(p_buf, "IF", prog + 1, x)
      <4> DEFINE a == k + 1
      <4>1. a \in Nat /\ a <= prog /\ Level(p_buf, "IF", a, prog) = 0 /\ prog < x
        BY <1>0, <3>1, <3>2, <3>4
      <4>2. Op(p_buf, prog) # "IF" /\ Op(p_buf, prog) # Close["IF"]
        BY <1>0, <2>2, <3>3
      <4> HIDE DEF a
      <4>3. Level(p_buf, "IF", a, x) = Level(p_buf, "IF", prog + 1, x)
        BY <1>0, <3>3, <4>1, <4>2, LevelSkips
      <4> QED BY <4>3 DEF a
    <3> QED BY <3>4
  <2> QED BY <2>1, <2>2
<1>5. op = "ELSEIF" => prog \in Structured!Branches(k)
  <2> SUFFICES ASSUME op = "ELSEIF" PROVE prog \in Structured!Branches(k)
    OBVIOUS
  <2>1. Level(p_buf, "IF", k + 1, prog) = 0 /\ k < prog
    <3>1. Level(p_buf, "IF", k + 1, prog) = 0
      BY <1>0, <1>1, LevelOfOwn
    <3>2. k < prog
      BY <1>0, <1>1, IsHead
    <3> QED BY <3>1, <3>2
  <2>2. prog \in k + 1 .. Len(p_buf)
    BY <1>0, <1>3, <2>1
  <2> QED BY <1>0, <1>3, <2>1, <2>2, BranchesAre
<1>6. CASE NextLine /\ Push("IF")
  <2>1. fate' = "run" /\ prog' = prog + 1 /\ UNCHANGED <<p_buf, stacks, vars>> /\ err' = 0
    BY <1>0, <1>6 DEF NextLine, Goto, Push, WithinLimits
  <2>2. Loops' = Loops
    BY <1>0, <1>6, <2>1, PushPlain
  <2>3. Owner(p_buf, prog + 1) = prog + 1
    BY <1>0, OwnerBehind
  <2>4. Structured!Jump(prog + 1)
    BY <2>1, <2>2, <2>3, JumpsTo
  <2>5. Structured!Next
    BY <1>0, <1>1, <1>2, <1>5, <2>4, IfGoes
  <2> QED BY <2>1, <2>5 DEF Right
<1>7. CASE Lost("hung")
  BY <1>7, LostRight
<1>8. CASE BranchEnds # {} /\ ~Lost("hung") /\ ~(NextLine /\ Push("IF"))
  <2> DEFINE m == Min(BranchEnds)
  <2>1. \/ Op(p_buf, m) = "ELSE" /\ Goto(m + 1) /\ Push("IF")
        \/ Op(p_buf, m) = "ELSEIF" /\ Goto(m) /\ UNCHANGED <<selcyclstack, fate>>
        \/ Op(p_buf, m) = "ENDIF" /\ Goto(m + 1) /\ UNCHANGED <<selcyclstack, fate>>
    BY <1>8 DEF ExecCondition
  <2>2. m \in BranchEnds /\ \A x \in BranchEnds : m <= x
    <3>1. BranchEnds \in SUBSET Nat
      BY <1>0 DEF BranchEnds, Outside
    <3> QED BY <1>8, <3>1, MinLeast
  <2>3. /\ m \in prog + 1 .. Len(p_buf) /\ Level(p_buf, "IF", prog + 1, m) = 0
        /\ Op(p_buf, m) \in {"ELSE", "ELSEIF", "ENDIF"} /\ m \in Nat /\ m >= prog + 1
    <3> HIDE DEF m
    <3> QED BY <1>0, <2>2 DEF BranchEnds, Outside
  <2>4. /\ m <= EndOf(p_buf, k)
        /\ Op(p_buf, m) = "ENDIF" => m = EndOf(p_buf, k)
        /\ Op(p_buf, m) = "ELSEIF" => Owner(p_buf, m) = k
    <3>1. Op(p_buf, prog) \in {"IF", "ELSEIF", "ELSE"} /\ Op(p_buf, prog) # "ELSE"
      BY <1>0
    <3>2. m = Min(Outside(p_buf, {"ELSE", "ELSEIF", "ENDIF"}, "IF", prog))
      BY DEF BranchEnds
    <3> HIDE DEF m
    <3> QED BY <1>0, <3>1, <3>2, BranchEnd
  <2>5. Op(p_buf, m) # "ENDIF" => m < EndOf(p_buf, k)
    <3>1. Op(p_buf, EndOf(p_buf, k)) = "ENDIF"
      <4>1. Close["IF"] = "ENDIF"
        BY Words
      <4> HIDE DEF k
      <4> QED BY <1>0, <1>1, <4>1, EndWord
    <3> HIDE DEF m, k
    <3> QED BY <1>3, <2>3, <2>4, <3>1
  <2>6. Level(p_buf, "IF", k + 1, m) = 0
    BY <1>4, <2>3
  <2> HIDE DEF m
  <2>7. UNCHANGED <<p_buf, stacks, vars>> /\ err' = 0 /\ fate' = "run"
    BY <1>0, <2>1 DEF Goto, Push, WithinLimits
  <2>8. CASE Op(p_buf, m) = "ELSE"
    <3>1. prog' = m + 1 /\ Push("IF")
      BY <2>1, <2>8 DEF Goto
    <3>2. Loops' = Loops
      BY <1>0, <2>7, <3>1, PushPlain
    <3>3. Owner(p_buf, m + 1) = m + 1
      BY <1>0, <2>3, <2>8, OwnerBehind
    <3>4. Structured!Jump(m + 1)
      BY <2>7, <3>1, <3>2, <3>3, JumpsTo
    <3>5. m \in Structured!Branches(k)
      <4>1. m \in k + 1 .. Len(p_buf)
        BY <1>0, <1>3, <2>3
      <4> QED BY <2>5, <2>6, <2>8, <4>1, BranchesAre
    <3>6. Structured!Next
      BY <1>0, <1>2, <3>4, <3>5, IfGoes
    <3> QED BY <2>7, <3>6 DEF Right
  <2>9. CASE Op(p_buf, m) = "ELSEIF"
    <3>1. prog' = m /\ UNCHANGED <<selcyclstack, fate>>
      BY <2>1, <2>9 DEF Goto
    <3>2. At' = At
      BY <1>0, <2>4, <2>7, <2>9, <3>1 DEF At
    <3>3. Loops' = Loops
      BY <2>7, <3>1, LoopsSame
    <3>4. Calls' = Calls
      BY <2>7 DEF Calls, CallLine, stacks
    <3>5. Structured!vars' = Structured!vars
      BY <2>7, <3>1, <3>2, <3>3, <3>4 DEF Structured!vars
    <3> QED BY <2>7, <3>5 DEF Right
  <2>10. CASE Op(p_buf, m) = "ENDIF"
    <3>1. prog' = m + 1 /\ UNCHANGED <<selcyclstack, fate>> /\ m = EndOf(p_buf, k)
      BY <2>1, <2>4, <2>10 DEF Goto
    <3>2. Loops' = Loops
      BY <2>7, <3>1, LoopsSame
    <3>3. Owner(p_buf, m + 1) = m + 1
      BY <1>0, <2>3, <2>10, OwnerBehind
    <3>4. Structured!Jump(m + 1)
      BY <2>7, <3>1, <3>2, <3>3, JumpsTo
    <3>5. ~Structured!HasElse(k)
      <4> SUFFICES ASSUME NEW h \in Structured!Branches(k), Op(p_buf, h) = "ELSE" PROVE FALSE
        BY BranchesAre
      <4>1. /\ h \in k + 1 .. Len(p_buf) /\ Level(p_buf, "IF", k + 1, h) = 0
            /\ h < EndOf(p_buf, k) /\ h \in Nat /\ h \in DOMAIN p_buf
        BY <1>0, <1>3, BranchesAre
      <4>2. h # prog
        BY <1>0
      <4>3. CASE h > prog
        <5>1. h \in prog + 1 .. Len(p_buf) /\ Level(p_buf, "IF", prog + 1, h) = 0
          <6>1. h >= prog + 1
            BY <1>0, <4>1, <4>3
          <6> QED BY <1>0, <1>4, <4>1, <6>1
        <5>2. h \in BranchEnds
          BY <5>1 DEF BranchEnds, Outside
        <5> HIDE DEF k
        <5> QED BY <1>3, <2>2, <2>3, <3>1, <4>1, <5>2 DEF m
      <4>4. CASE h < prog
        <5> DEFINE S == Outside(p_buf, {"ELSE", "ELSEIF", "ENDIF"}, "IF", h)
                   y == Min(S)
        <5>1. op = "ELSEIF" /\ k < prog
          <6>1. k < h
            BY <1>3, <4>1
          <6>2. k # prog
            BY <1>0, <1>3, <4>1, <4>4, <6>1
          <6> HIDE DEF k
          <6> QED BY <1>0, <1>1, <1>3, <6>2
        <5>2. \A x \in Nat : x >= h + 1 =>
                Level(p_buf, "IF", h + 1, x) = Level(p_buf, "IF", k + 1, x)
          <6> TAKE x \in Nat
          <6> HAVE x >= h + 1
          <6> DEFINE a == k + 1
          <6>1. a \in Nat /\ a <= h /\ Level(p_buf, "IF", a, h) = 0 /\ h < x
            BY <1>3, <4>1
          <6>2. "IF" \in Openers /\ Op(p_buf, h) # "IF" /\ Op(p_buf, h) # Close["IF"]
            BY Words
          <6> HIDE DEF a
          <6>3. Level(p_buf, "IF", a, x) = Level(p_buf, "IF", h + 1, x)
            BY <4>1, <6>1, <6>2, LevelSkips
          <6> QED BY <6>3 DEF a
        <5>3. S \in SUBSET Nat
          BY <4>1 DEF Outside
        <5>4. prog \in S
          <6>1. prog \in h + 1 .. Len(p_buf) /\ prog >= h + 1
            BY <1>0, <4>1, <4>4
          <6>2. Level(p_buf, "IF", k + 1, prog) = 0
            BY <1>0, <1>1, <5>1, LevelOfOwn
          <6>3. Level(p_buf, "IF", h + 1, prog) = 0
            BY <1>0, <5>2, <6>1, <6>2
          <6> QED BY <1>0, <5>1, <6>1, <6>3 DEF Outside
        <5>5. y \in S /\ y <= prog
          <6> HIDE DEF S
          <6> QED BY <5>3, <5>4, MinLeast
        <5>6. Op(p_buf, y) = "ENDIF"
          <6>1. p_buf[h].op = "ELSE"
            BY <4>1, <1>0 DEF Op
          <6> QED BY <4>1, <6>1 DEF Straight, Sure
        <5>7. y \in h + 1 .. Len(p_buf) /\ Level(p_buf, "IF", h + 1, y) = 0
          <6> HIDE DEF y
          <6> QED BY <5>5 DEF Outside
        <5> HIDE DEF y, S
        <5>8. y \in k + 1 .. Len(p_buf) /\ Level(p_buf, "IF", k + 1, y) = 0
          <6>1. y \in Nat /\ y >= h + 1 /\ y \in k + 1 .. Len(p_buf)
            BY <1>0, <1>3, <4>1, <5>7
          <6> QED BY <5>2, <5>7, <6>1
        <5>9. y \in Outside(p_buf, {Close[p_buf[k].op]}, p_buf[k].op, k)
          BY <1>1, <5>6, <5>8, Words DEF Outside
        <5>10. EndOf(p_buf, k) <= y
          BY <1>0, <1>1, <5>9, BlockEnd
        <5> HIDE DEF k
        <5> QED BY <1>0, <1>3, <5>5, <5>7, <5>10
      <4> HIDE DEF k
      <4> QED BY <1>0, <4>1, <4>2, <4>3, <4>4
    <3>6. Structured!Next
      BY <1>0, <1>2, <3>1, <3>4, <3>5, IfGoes
    <3> QED BY <2>7, <3>6 DEF Right
  <2> QED BY <2>1, <2>8, <2>9, <2>10
<1> QED BY <1>6, <1>7, <1>8 DEF ExecCondition

\* The frame on top is taken off and does not count.
LEMMA LeavePlain ==
  ASSUME TypeOK, TypeOK', selcyclstack # <<>>, Popped.kind \notin {"FOR", "LOOP"},
         selcyclstack' = Rest, UNCHANGED <<p_buf, vars>>
  PROVE  Loops' = Loops
<1> DEFINE n == Len(selcyclstack)
<1>1. /\ n \in DOMAIN selcyclstack /\ DOMAIN selcyclstack = 1 .. n /\ n \in Nat
      /\ Popped = selcyclstack[n] /\ Rest = SubSeq(selcyclstack, 1, n - 1)
  BY PoppedIs
<1>2. \A m \in DOMAIN selcyclstack : m >= n => m = n
  <2> HIDE DEF n
  <2> QED BY <1>1
<1> HIDE DEF n
<1> QED BY <1>1, <1>2, CutPlain

\* At a word of a block that opens none, this block is the innermost one.
LEMMA InnermostTop ==
  ASSUME Sure, Op(p_buf, prog) \notin Openers, Op(p_buf, prog) # "ELSEIF",
         Heads(p_buf, prog) # {}, NEW kinds \in SUBSET Openers,
         NEW k, k = Max(Heads(p_buf, prog)), Op(p_buf, k) \in kinds
  PROVE  Structured!Innermost(kinds) = k
<1>1. Text(p_buf) /\ prog \in Nat /\ At = prog
  BY SureFacts, OwnerOfOther
<1>2. k \in Heads(p_buf, prog) /\ \A x \in Heads(p_buf, prog) : x <= k
  BY <1>1, Innermost
<1>3. Max(Around(p_buf, kinds, prog)) = k
  BY <1>1, <1>2, InnermostOf
<1> QED BY <1>1, <1>3, Reading

LEMMA ElseRight ==
  ASSUME Sure, IInv', ExecElse
  PROVE  Right
<1> DEFINE k == Max(Heads(p_buf, prog))
           m == Min(BranchEnds)
<1>0. /\ p_buf \in Program /\ Tidy(p_buf) /\ Text(p_buf) /\ TypeOK /\ TypeOK'
      /\ prog \in Nat /\ fate = "run" /\ err = 0 /\ prog \in DOMAIN p_buf /\ Ready
  BY SureFacts DEF IInv, Sure
<1>1. /\ At = prog /\ Op(p_buf, prog) = "ELSE" /\ p_buf[prog].op = "ELSE"
      /\ Structured!Is("ELSE")
  <2>1. Reads("ELSE") /\ "ELSE" \in Ops \ {"ELSEIF"}
    BY DEF ExecElse, Ops
  <2> QED BY <2>1, Stands
<1>2. /\ Heads(p_buf, prog) # {} /\ Opens(p_buf, k) /\ p_buf[k].op = "IF"
      /\ Op(p_buf, k) = "IF" /\ k \in Nat /\ Op(p_buf, prog) \notin Openers
  <2>1. Op(p_buf, prog) \notin Openers
    BY <1>1, Words
  <2>2. Belongs(p_buf, prog, "IF")
    BY <1>0, <1>1 DEF Tidy
  <2> QED BY <1>0, <2>1, <2>2, BelongsTo
<1>3. CASE Lost("hung")
  BY <1>3, LostRight
<1>4. CASE ~Lost("hung")
  <2>1. m = Min(Outside(p_buf, {"ELSE", "ELSEIF", "ENDIF"}, "IF", prog))
    BY DEF BranchEnds
  <2>2. Op(p_buf, m) = "ENDIF"
    BY <1>0, <1>1, <2>1 DEF Sure, Straight
  <2>3. m = EndOf(p_buf, k)
    <3> HIDE DEF m
    <3>1. Op(p_buf, prog) \in {"IF", "ELSEIF", "ELSE"}
      BY <1>1
    <3> QED BY <1>0, <1>1, <2>1, <2>2, <3>1, BranchEnd
  <2>4. Leave("IF", m + 1)
    BY <1>4, <2>2 DEF ExecElse
  <2>5. Popped.kind = "IF" /\ selcyclstack # <<>>
    BY <1>0, <1>1, <1>2, TopIs
  <2>6. /\ prog' = EndOf(p_buf, k) + 1 /\ selcyclstack' = Rest
        /\ UNCHANGED <<p_buf, err, stacks, vars, fate>>
    BY <2>3, <2>4, <2>5 DEF Leave, Goto
  <2>7. Loops' = Loops
    BY <1>0, <2>5, <2>6, LeavePlain
  <2>8. Structured!Innermost({"IF"}) = k
    <3> HIDE DEF k
    <3>1. {"IF"} \in SUBSET Openers /\ Op(p_buf, k) \in {"IF"}
      BY <1>2, Words
    <3> QED BY <1>1, <1>2, <3>1, InnermostTop DEF k
  <2> HIDE DEF k, m
  <2>9. Owner(p_buf, EndOf(p_buf, k) + 1) = EndOf(p_buf, k) + 1
    BY <1>0, <1>2, OwnersBehind
  <2>10. Structured!Jump(EndOf(p_buf, k) + 1)
    BY <1>0, <2>6, <2>7, <2>9, JumpsTo
  <2>11. Structured!EndBranch
    BY <1>1, <2>8, <2>10, Reading DEF Structured!EndBranch
  <2> QED BY <1>0, <2>6, <2>11 DEF Right, Structured!Next
<1> QED BY <1>3, <1>4

\* The next line, with the loops as they are.
LEMMA NextRight ==
  ASSUME Sure, NEW op \in {"STMT", "SUB", "ENDIF", "SELECT", "DEFAULT", "ENDSELECT"},
         Reads(op), fate' = "run", UNCHANGED <<p_buf, stacks, err>>, prog' = prog + 1,
         Loops' = Loops
  PROVE  Right
<1>0. p_buf \in Program /\ Tidy(p_buf) /\ prog \in Nat /\ err = 0
  BY SureFacts
<1>1. At = prog /\ Op(p_buf, prog) = op /\ Structured!Is(op)
  <2>1. op \in Ops \ {"ELSEIF"}
    BY Words DEF Ops
  <2> QED BY <2>1, Stands
<1>2. Owner(p_buf, prog + 1) = prog + 1
  BY <1>0, <1>1, OwnerBehind
<1>3. Structured!Jump(prog + 1)
  BY <1>2, JumpsTo
<1>4. Structured!Plain
  BY <1>1, <1>3 DEF Structured!Plain
<1> QED BY <1>0, <1>4 DEF Right, Structured!Next

LEMMA CloseRight ==
  ASSUME Sure, IInv', ExecEndif \/ ExecEndSelect
  PROVE  Right
<1>0. TypeOK /\ TypeOK' /\ Ready /\ fate = "run"
  BY SureFacts DEF IInv, Sure
<1>1. ASSUME NEW kind \in {"IF", "SELECT"}, NEW op \in {"ENDIF", "ENDSELECT"}, Close[kind] = op,
             Reads(op), Leave(kind, prog + 1)
      PROVE  Right
  <2>1. kind \in Openers
    BY Words
  <2>2. Popped.kind = kind /\ Heads(p_buf, prog) # {} /\ Op(p_buf, prog) # "ELSEIF"
    BY <1>0, <1>1, <2>1, AtClose
  <2>3. selcyclstack # <<>>
    BY <1>0, <2>2, TopIs
  <2>4. prog' = prog + 1 /\ selcyclstack' = Rest /\ UNCHANGED <<p_buf, err, stacks, vars, fate>>
    BY <1>1, <2>2 DEF Leave, Goto
  <2>5. Loops' = Loops
    BY <1>0, <2>2, <2>3, <2>4, LeavePlain
  <2> QED BY <1>0, <1>1, <2>4, <2>5, NextRight
<1>2. CASE ExecEndif
  BY <1>1, <1>2, Words DEF ExecEndif
<1>3. CASE ExecEndSelect
  BY <1>1, <1>3, Words DEF ExecEndSelect
<1> QED BY <1>2, <1>3

LEMMA SelectRight ==
  ASSUME Sure, IInv', WithinLimits', ExecSelect
  PROVE  Right
<1>0. TypeOK /\ TypeOK' /\ fate = "run"
  BY SureFacts DEF IInv
<1>1. /\ Reads("SELECT") /\ fate' = "run" /\ UNCHANGED <<p_buf, stacks, err, vars>>
      /\ prog' = prog + 1 /\ Push("SELECT")
  BY <1>0 DEF ExecSelect, NextLine, Goto, Push, WithinLimits
<1>2. Loops' = Loops
  BY <1>0, <1>1, PushPlain
<1> QED BY <1>1, <1>2, NextRight

LEMMA PlainRight ==
  ASSUME Sure, ExecPlain
  PROVE  Right
<1>1. PICK op \in {"STMT", "SUB", "DEFAULT"} : Reads(op)
  BY DEF ExecPlain
<1>2. prog' = prog + 1 /\ UNCHANGED <<p_buf, err, stacks, vars, selcyclstack, fate>>
  BY DEF ExecPlain, NextLine, Goto
<1>3. Loops' = Loops /\ fate' = "run"
  BY <1>2, LoopsSame, SureFacts
<1> QED BY <1>1, <1>2, <1>3, NextRight

-----------------------------------------------------------------------------
(* Loops that count. *)

\* The variables the running loops count with.
LEMMA Counters ==
  ASSUME IInv, NEW m \in Counting
  PROVE  /\ selcyclstack[m].line \in DOMAIN p_buf /\ p_buf[selcyclstack[m].line].var \in Vars
         /\ m \in DOMAIN selcyclstack
<1>1. m \in DOMAIN selcyclstack
  BY DEF Counting
<1>2. selcyclstack[m].line \in DOMAIN p_buf
  BY <1>1 DEF IInv, FramesSound
<1>3. p_buf \in Seq(Line)
  BY DEF IInv, TypeOK, Program
<1>4. p_buf[selcyclstack[m].line] \in Line
  BY <1>2, <1>3
<1> QED BY <1>1, <1>2, <1>4 DEF Line

\* Giving one variable a value.
LEMMA OneVariable ==
  ASSUME vars \in [Vars -> Int], NEW v \in Vars, NEW x, vars' = [vars EXCEPT ![v] = x]
  PROVE  vars'[v] = x /\ \A u \in Vars : u # v => vars'[u] = vars[u]
OBVIOUS

LEMMA ForRight ==
  ASSUME Sure, IInv', WithinLimits', CountersApart', NEW kind \in {"FOR", "LOOP"}, ExecFor(kind)
  PROVE  Right
<1> DEFINE v == p_buf[prog].var
           n == Len(selcyclstack)
<1>0. /\ p_buf \in Program /\ Tidy(p_buf) /\ Text(p_buf) /\ TypeOK /\ TypeOK'
      /\ prog \in Nat /\ fate = "run" /\ err = 0 /\ prog \in DOMAIN p_buf /\ IInv
  BY SureFacts DEF IInv, Sure, Ready
<1>1. /\ At = prog /\ Op(p_buf, prog) = kind /\ p_buf[prog].op = kind /\ Structured!Is(kind)
  <2>1. Reads(kind) /\ kind \in Ops \ {"ELSEIF"}
    BY Words DEF ExecFor, Ops
  <2> QED BY <2>1, Stands
<1>2. /\ vars' = [vars EXCEPT ![v] = p_buf[prog].first] /\ prog' = prog + 1 /\ Push(kind)
      /\ UNCHANGED <<p_buf, err, stacks>> /\ fate' = "run"
  BY <1>0 DEF ExecFor, Push, WithinLimits
<1>3. v \in Vars
  <2>1. p_buf \in Seq(Line)
    BY <1>0 DEF Program
  <2>2. p_buf[prog] \in Line
    BY <1>0, <2>1
  <2> QED BY <2>2 DEF Line
<1>4. vars'[v] = p_buf[prog].first /\ \A u \in Vars : u # v => vars'[u] = vars[u]
  <2> DEFINE x == p_buf[prog].first
  <2>1. vars \in [Vars -> Int] /\ vars' = [vars EXCEPT ![v] = x]
    BY <1>0, <1>2 DEF TypeOK
  <2> HIDE DEF v, x
  <2>2. vars'[v] = x /\ \A u \in Vars : u # v => vars'[u] = vars[u]
    BY <1>3, <2>1, OneVariable
  <2> QED BY <2>2 DEF x
<1>5. /\ n \in Nat /\ DOMAIN selcyclstack = 1 .. n /\ DOMAIN selcyclstack' = 1 .. n + 1
      /\ selcyclstack'[n + 1].kind = kind /\ selcyclstack'[n + 1].line = prog
      /\ \A m \in 1 .. n : selcyclstack'[m] = selcyclstack[m]
  <2> DEFINE f == [kind |-> kind, line |-> prog]
             T == Frame \cup {f}
  <2>1. selcyclstack \in Seq(T) /\ f \in T /\ selcyclstack' = Append(selcyclstack, f)
    BY <1>0, <1>2 DEF Push, TypeOK
  <2>2. f.kind = kind /\ f.line = prog
    OBVIOUS
  <2> HIDE DEF f, T
  <2> QED BY <2>1, <2>2
<1> HIDE DEF v
<1>6. ASSUME NEW m \in Counting
      PROVE  vars'[p_buf[selcyclstack[m].line].var] = vars[p_buf[selcyclstack[m].line].var]
  <2> DEFINE u == p_buf[selcyclstack[m].line].var
             k == n + 1
  <2>1. m \in 1 .. n /\ u \in Vars /\ selcyclstack[m].kind \in {"FOR", "LOOP"}
    BY <1>0, <1>5, Counters DEF Counting
  <2>2. m # k /\ k \in 1 .. n + 1 /\ m \in 1 .. n + 1
    BY <1>5, <2>1
  <2> HIDE DEF n
  <2>3. m \in Counting' /\ k \in Counting'
    BY <1>5, <2>1, <2>2 DEF Counting
  <2>4. p_buf'[selcyclstack'[m].line].var # p_buf'[selcyclstack'[k].line].var
    <3> HIDE DEF k
    <3> QED BY <2>2, <2>3 DEF CountersApart
  <2>5. u # v
    BY <1>2, <1>5, <2>1, <2>4 DEF v
  <2> QED BY <1>4, <2>1, <2>5
<1>7. Loops' = Append(Loops, [line |-> prog, count |-> vars'[p_buf[prog].var]])
  BY <1>0, <1>2, <1>6, PushLoop
<1>8. Loops' = Append(Loops, [line |-> At, count |-> p_buf[At].first])
  BY <1>1, <1>4, <1>7 DEF v
<1>9. p_buf[At].first <= p_buf[At].last
  BY <1>0, <1>1 DEF Sure, Straight
<1>10. ~(p_buf[At].first > p_buf[At].last)
  <2> DEFINE a == p_buf[At].first  b == p_buf[At].last
  <2>1. a \in Int /\ b \in Int /\ a <= b
    <3>1. p_buf \in Seq(Line)
      BY <1>0 DEF Program
    <3>2. p_buf[prog] \in Line
      BY <1>0, <3>1
    <3> QED BY <1>1, <1>9, <3>2 DEF Line
  <2> HIDE DEF a, b
  <2>2. ~(a > b)
    BY <2>1
  <2> QED BY <2>2 DEF a, b
<1>11. Structured!Go(At + 1)
  <2>1. Owner(p_buf, prog + 1) = prog + 1
    <3>1. Op(p_buf, prog) \notin {"BREAK", "CONTINUE", "GOTO"}
      BY <1>1
    <3> QED BY <1>0, <3>1, OwnerBehind
  <2> QED BY <1>1, <1>2, <2>1, GoesTo
<1>12. Structured!Enter
  BY <1>1, <1>8, <1>10, <1>11 DEF Structured!Enter
<1> QED BY <1>0, <1>2, <1>12 DEF Right, Structured!Next

\* The end of a counted loop.
LEMMA CountRight ==
  ASSUME Sure, IInv', CountersApart, NEW kind \in {"FOR", "LOOP"}, ExecNext(kind)
  PROVE  Right
<1> DEFINE k == Max(Heads(p_buf, prog))
           n == Len(selcyclstack)
           v == p_buf[k].var
           value == vars[v] + 1
<1>0. /\ p_buf \in Program /\ Tidy(p_buf) /\ Text(p_buf) /\ TypeOK /\ TypeOK'
      /\ prog \in Nat /\ fate = "run" /\ err = 0 /\ prog \in DOMAIN p_buf /\ IInv /\ Ready
  BY SureFacts DEF IInv, Sure, Ready
<1>1. /\ At = prog /\ Op(p_buf, prog) \in {"NEXT", "ENDLOOP"}
      /\ Structured!Is("NEXT") \/ Structured!Is("ENDLOOP")
  <2>1. Reads(Close[kind]) /\ Close[kind] \in {"NEXT", "ENDLOOP"}
    BY Words DEF ExecNext
  <2>2. \A op \in {"NEXT", "ENDLOOP"} : op \in Ops \ {"ELSEIF"}
    BY Words DEF Ops
  <2>3. \A op \in {"NEXT", "ENDLOOP"} : Reads(op) => At = prog /\ Op(p_buf, prog) = op /\ Structured!Is(op)
    BY <2>2, Stands
  <2> QED BY <2>1, <2>3
<1>2. /\ Op(p_buf, prog) # "ELSEIF" /\ Heads(p_buf, prog) # {}
      /\ Opens(p_buf, k) /\ p_buf[k].op = kind /\ EndOf(p_buf, k) = prog
      /\ k \in Nat /\ Popped.kind = kind /\ Popped.line = k
  <2>1. kind \in Openers /\ Reads(Close[kind]) /\ kind # "IF"
    BY Words DEF ExecNext
  <2> QED BY <1>0, <2>1, AtClose
<1>3. /\ n \in DOMAIN selcyclstack /\ DOMAIN selcyclstack = 1 .. n /\ n \in Nat
      /\ Popped = selcyclstack[n] /\ Rest = SubSeq(selcyclstack, 1, n - 1)
  <2>1. selcyclstack # <<>>
    BY <1>0, <1>2, TopIs
  <2> QED BY <1>0, <2>1, PoppedIs
<1> HIDE DEF k, n
<1>4. Innermore(n)
  <2>1. n \in Counting
    BY <1>2, <1>3 DEF Counting
  <2>2. \A m \in Counting : m \in 1 .. n
    BY <1>3 DEF Counting
  <2> QED BY <1>3, <2>1, <2>2 DEF Innermore
<1>5. v \in Vars
  BY <1>0, <1>2, <1>3, <1>4, Counters DEF Innermore
<1>6. /\ vars' = [vars EXCEPT ![v] = value]
      /\ \/ value > p_buf[k].last /\ prog' = prog + 1 /\ selcyclstack' = Rest
         \/ ~(value > p_buf[k].last) /\ prog' = k + 1 /\ UNCHANGED selcyclstack
      /\ UNCHANGED <<p_buf, err, stacks, fate>>
  BY <1>2 DEF ExecNext
<1>7. vars'[v] = value /\ \A u \in Vars : u # v => vars'[u] = vars[u]
  <2>1. vars \in [Vars -> Int]
    BY <1>0 DEF TypeOK
  <2> HIDE DEF v, value
  <2> QED BY <1>5, <1>6, <2>1, OneVariable
<1>8. ASSUME NEW m \in Counting \ {n}
      PROVE  vars'[p_buf[selcyclstack[m].line].var] = vars[p_buf[selcyclstack[m].line].var]
  <2> DEFINE u == p_buf[selcyclstack[m].line].var
  <2>1. u \in Vars
    BY <1>0, Counters
  <2>2. u # v
    BY <1>2, <1>3, <1>4 DEF CountersApart, Innermore
  <2> QED BY <1>7, <2>1, <2>2
<1>9. /\ LoopAt[n] = [line |-> k, count |-> vars[v]]
  BY <1>2, <1>3 DEF LoopAt, LoopOf
<1>10. Structured!Innermost({"FOR", "LOOP"}) = k
  <2>1. {"FOR", "LOOP"} \in SUBSET Openers /\ Op(p_buf, k) \in {"FOR", "LOOP"}
        /\ Op(p_buf, prog) \notin Openers
    BY <1>1, <1>2, Words DEF Op, Opens
  <2> QED BY <1>2, <2>1, InnermostTop DEF k
<1>11. Owner(p_buf, k + 1) = k + 1 /\ Owner(p_buf, EndOf(p_buf, k) + 1) = EndOf(p_buf, k) + 1
  BY <1>0, <1>2, OwnersBehind
<1>12. CASE value > p_buf[k].last /\ prog' = prog + 1 /\ selcyclstack' = Rest
  <2>1. Loops' = Front(Loops) /\ Last(Loops) = LoopAt[n]
    BY <1>0, <1>3, <1>4, <1>6, <1>8, <1>12, CutLoop
  <2>2. Structured!Last(Loops).count + 1 = value /\ Structured!Front(Loops) = Loops'
    <3>1. Structured!Last(Loops) = Last(Loops) /\ Structured!Front(Loops) = Front(Loops)
      BY SameSets
    <3>2. Structured!Last(Loops).count = vars[v]
      BY <1>9, <2>1, <3>1
    <3> QED BY <2>1, <3>1, <3>2
  <2>3. Structured!Go(EndOf(p_buf, k) + 1)
    BY <1>0, <1>2, <1>6, <1>11, <1>12, GoesTo
  <2>4. Structured!Go(Structured!After(k))
    BY <2>3, Reading
  <2>5. Structured!Repeat(k)
    BY <1>12, <2>2, <2>4 DEF Structured!Repeat
  <2> QED BY <1>0, <1>1, <1>6, <1>10, <2>5 DEF Structured!EndCount, Right, Structured!Next
<1>13. CASE ~(value > p_buf[k].last) /\ prog' = k + 1 /\ UNCHANGED selcyclstack
  <2>1. Loops' = Append(Front(Loops), LoopAt'[n]) /\ Last(Loops) = LoopAt[n]
    BY <1>0, <1>4, <1>6, <1>8, <1>13, SameStack
  <2>2. LoopAt'[n] = [line |-> k, count |-> value]
    BY <1>2, <1>3, <1>6, <1>7, <1>13 DEF LoopAt, LoopOf
  <2>3. /\ Structured!Last(Loops).count + 1 = value
        /\ Loops' = Append(Structured!Front(Loops), [line |-> k, count |-> value])
    <3>1. Structured!Last(Loops) = Last(Loops) /\ Structured!Front(Loops) = Front(Loops)
      BY SameSets
    <3>2. Structured!Last(Loops).count = vars[v]
      BY <1>9, <2>1, <3>1
    <3> QED BY <2>1, <2>2, <3>1, <3>2
  <2>4. Structured!Go(k + 1)
    BY <1>0, <1>2, <1>6, <1>11, <1>13, GoesTo
  <2>5. Structured!Repeat(k)
    BY <1>13, <2>3, <2>4 DEF Structured!Repeat
  <2> QED BY <1>0, <1>1, <1>6, <1>10, <2>5 DEF Structured!EndCount, Right, Structured!Next
<1> QED BY <1>6, <1>12, <1>13

-----------------------------------------------------------------------------
(* Loops that test. *)

\* Into a block, or behind it.
LEMMA BlockJump ==
  ASSUME Sure, fate' = "run", UNCHANGED <<p_buf, stacks>>, Loops' = Loops,
         NEW k, Opens(p_buf, k)
  PROVE  /\ prog' = k + 1 => Structured!Jump(k + 1)
         /\ prog' = EndOf(p_buf, k) + 1 => Structured!Jump(Structured!After(k))
<1>1. p_buf \in Program /\ Tidy(p_buf)
  BY SureFacts
<1>2. Owner(p_buf, k + 1) = k + 1 /\ Owner(p_buf, EndOf(p_buf, k) + 1) = EndOf(p_buf, k) + 1
  BY <1>1, OwnersBehind
<1>3. prog' = k + 1 => Structured!Jump(k + 1)
  BY <1>2, JumpsTo
<1>4. prog' = EndOf(p_buf, k) + 1 => Structured!Jump(EndOf(p_buf, k) + 1)
  BY <1>2, JumpsTo
<1> QED BY <1>3, <1>4, Reading

LEMMA WhileRight ==
  ASSUME Sure, IInv', WithinLimits', ExecWhile
  PROVE  Right
<1>0. /\ p_buf \in Program /\ Tidy(p_buf) /\ Text(p_buf) /\ TypeOK /\ TypeOK'
      /\ prog \in Nat /\ fate = "run" /\ err = 0 /\ prog \in DOMAIN p_buf
  BY SureFacts DEF IInv
<1>1. /\ At = prog /\ Op(p_buf, prog) = "WHILE" /\ Structured!Is("WHILE")
      /\ Opens(p_buf, prog)
  <2>1. Reads("WHILE") /\ "WHILE" \in Ops \ {"ELSEIF"} /\ "WHILE" \in Openers
    BY Words DEF ExecWhile, Ops
  <2>2. At = prog /\ Op(p_buf, prog) = "WHILE" /\ p_buf[prog].op = "WHILE" /\ Structured!Is("WHILE")
    BY <2>1, Stands
  <2> QED BY <1>0, <2>1, <2>2 DEF Opens
<1> DEFINE lines == Outside(p_buf, {"WEND"}, "WHILE", prog)
<1>2. Min(lines) = EndOf(p_buf, prog)
  BY <1>1, Words DEF EndOf
<1>3. CASE NextLine /\ Push("WHILE")
  <2>1. /\ fate' = "run" /\ UNCHANGED <<p_buf, stacks, vars>> /\ prog' = prog + 1 /\ err' = 0
    BY <1>0, <1>3 DEF NextLine, Goto, Push, WithinLimits
  <2>2. Loops' = Loops
    BY <1>0, <1>3, <2>1, PushPlain
  <2>3. Structured!Jump(prog + 1)
    BY <1>1, <2>1, <2>2, BlockJump
  <2> QED BY <1>1, <2>1, <2>3 DEF Structured!EnterWhile, Structured!While, Right, Structured!Next
<1>4. CASE Lost("hung")
  BY <1>4, LostRight
<1>5. CASE ~Lost("hung") /\ Skip(lines, selcyclstack)
  <2>1. /\ fate' = "run" /\ UNCHANGED <<p_buf, stacks, vars, selcyclstack>> /\ err' = 0
        /\ prog' = EndOf(p_buf, prog) + 1
    BY <1>0, <1>2, <1>5 DEF Skip, Goto
  <2>2. Loops' = Loops
    BY <2>1, LoopsSame
  <2>3. Structured!Jump(Structured!After(prog))
    BY <1>1, <2>1, <2>2, BlockJump
  <2> QED BY <1>1, <2>1, <2>3 DEF Structured!EnterWhile, Structured!While, Right, Structured!Next
<1> QED BY <1>3, <1>4, <1>5 DEF ExecWhile

LEMMA WendRight ==
  ASSUME Sure, IInv', ExecWend
  PROVE  Right
<1> DEFINE k == Max(Heads(p_buf, prog))
           lines == Outside(p_buf, {"WEND"}, "WHILE", k)
<1>0. /\ p_buf \in Program /\ Tidy(p_buf) /\ Text(p_buf) /\ TypeOK /\ TypeOK'
      /\ prog \in Nat /\ fate = "run" /\ err = 0 /\ prog \in DOMAIN p_buf /\ Ready
  BY SureFacts DEF IInv, Sure
<1>1. /\ At = prog /\ Op(p_buf, prog) = "WEND" /\ Structured!Is("WEND") /\ Reads("WEND")
  <2>1. Reads("WEND") /\ "WEND" \in Ops \ {"ELSEIF"}
    BY Words DEF ExecWend, Ops
  <2> QED BY <2>1, Stands
<1>2. /\ Op(p_buf, prog) # "ELSEIF" /\ Heads(p_buf, prog) # {}
      /\ Opens(p_buf, k) /\ p_buf[k].op = "WHILE" /\ Op(p_buf, k) = "WHILE"
      /\ k \in Nat /\ Popped.kind = "WHILE" /\ Popped.line = k
  <2>1. "WHILE" \in Openers /\ Reads(Close["WHILE"]) /\ "WHILE" # "IF"
    BY <1>1, Words
  <2>2. /\ Op(p_buf, prog) # "ELSEIF" /\ Heads(p_buf, prog) # {}
        /\ Opens(p_buf, k) /\ p_buf[k].op = "WHILE"
        /\ k \in Nat /\ Popped.kind = "WHILE" /\ Popped.line = k
    BY <1>0, <2>1, AtClose
  <2> QED BY <2>2 DEF Op, Opens
<1>3. selcyclstack # <<>>
  BY <1>0, <1>2, TopIs
<1> HIDE DEF k
<1>4. Structured!Innermost({"WHILE"}) = k
  <2>1. {"WHILE"} \in SUBSET Openers /\ Op(p_buf, k) \in {"WHILE"} /\ Op(p_buf, prog) \notin Openers
    BY <1>1, <1>2, Words
  <2> QED BY <1>2, <2>1, InnermostTop DEF k
<1>5. Min(lines) = EndOf(p_buf, k)
  BY <1>2, Words DEF EndOf
<1>6. ASSUME Structured!While(k), err' = 0 PROVE Right
  BY <1>1, <1>4, <1>6 DEF Structured!EndWhile, Right, Structured!Next
<1>7. CASE Lost("hung")
  BY <1>7, LostRight
<1>8. CASE Goto(k + 1) /\ UNCHANGED <<selcyclstack, fate>>
  <2>1. /\ fate' = "run" /\ UNCHANGED <<p_buf, stacks, vars, selcyclstack>> /\ err' = 0
        /\ prog' = k + 1
    BY <1>0, <1>8 DEF Goto
  <2>2. Loops' = Loops
    BY <2>1, LoopsSame
  <2>3. Structured!Jump(k + 1)
    BY <1>2, <2>1, <2>2, BlockJump
  <2> QED BY <1>6, <2>1, <2>3 DEF Structured!While
<1>9. CASE ~Lost("hung") /\ Skip(lines, Rest)
  <2>1. /\ fate' = "run" /\ UNCHANGED <<p_buf, stacks, vars>> /\ err' = 0
        /\ prog' = EndOf(p_buf, k) + 1 /\ selcyclstack' = Rest
    BY <1>0, <1>5, <1>9 DEF Skip, Goto
  <2>2. Loops' = Loops
    BY <1>0, <1>2, <1>3, <2>1, LeavePlain
  <2>3. Structured!Jump(Structured!After(k))
    BY <1>2, <2>1, <2>2, BlockJump
  <2> QED BY <1>6, <2>1, <2>3 DEF Structured!While
<1> QED BY <1>2, <1>7, <1>8, <1>9 DEF ExecWend

\* BREAK and CONTINUE leave or repeat the innermost cycle.
LEMMA InnermostCycle ==
  ASSUME Sure, Op(p_buf, prog) \notin Openers, Op(p_buf, prog) # "ELSEIF",
         NEW kinds \in SUBSET Cycles, NEW c, c = Inner(p_buf, Cycles, prog),
         c \in Heads(p_buf, prog), Op(p_buf, c) \in kinds
  PROVE  Structured!Innermost(kinds) = c
<1> DEFINE S == Around(p_buf, Cycles, prog)
<1>1. Text(p_buf) /\ prog \in Nat /\ At = prog
  BY SureFacts, OwnerOfOther
<1>2. Cycles \in SUBSET Openers
  BY DEF Cycles
<1>3. S = {x \in Heads(p_buf, prog) : Op(p_buf, x) \in Cycles}
  BY <1>1, <1>2, AroundHeads
<1>4. S \in SUBSET (1 .. Len(p_buf)) /\ Len(p_buf) \in Nat
  BY <1>1, <1>3, HeadsAreLines
<1>5. \A x \in S : x <= c
  <2> HIDE DEF S
  <2> QED BY <1>4, MaxGreatest DEF Inner, S
<1>6. \A x \in Heads(p_buf, prog) : Op(p_buf, x) \in kinds => x <= c
  BY <1>3, <1>5
<1>7. Max(Around(p_buf, kinds, prog)) = c
  BY <1>1, <1>2, <1>6, InnermostOf
<1> QED BY <1>1, <1>7, Reading

\* CONTINUE, in a WHILE.
LEMMA ContinueRight ==
  ASSUME Sure, IInv', ExecContinue
  PROVE  Right
<1> DEFINE c == Inner(p_buf, Cycles, prog)
           lines == Behind(p_buf, {"WEND"}, c)
<1>0. /\ p_buf \in Program /\ Tidy(p_buf) /\ Text(p_buf) /\ TypeOK /\ TypeOK'
      /\ prog \in Nat /\ fate = "run" /\ err = 0 /\ prog \in DOMAIN p_buf /\ Ready
  BY SureFacts DEF IInv, Sure
<1>1. /\ At = prog /\ Op(p_buf, prog) = "CONTINUE" /\ Structured!Is("CONTINUE")
      /\ Reads("CONTINUE") /\ p_buf[prog].op = "CONTINUE"
  <2>1. Reads("CONTINUE") /\ "CONTINUE" \in Ops \ {"ELSEIF"}
    BY Words DEF ExecContinue, Ops
  <2> QED BY <2>1, Stands
<1>2. /\ Op(p_buf, prog) # "ELSEIF" /\ Op(p_buf, prog) \notin Openers
      /\ Around(p_buf, Cycles, prog) # {}
      /\ c \in Heads(p_buf, prog) /\ Opens(p_buf, c) /\ c \in Nat
      /\ Op(p_buf, c) = "WHILE" /\ Cycle.kind = "WHILE" /\ Cycle.line = c
      /\ EndsFirst(p_buf, c, c)
  <2>1. Op(p_buf, c) = "WHILE"
    BY <1>0, <1>1 DEF Sure, Straight
  <2> HIDE DEF c
  <2> QED BY <1>0, <1>1, <2>1, InCycle DEF c
<1>3. CycleIndex # 0
  BY <1>0, <1>2, CycleIs
<1>4. Min(lines) = EndOf(p_buf, c)
  BY <1>2, Words DEF EndsFirst
<1>5. Structured!Innermost({"FOR", "LOOP", "WHILE"}) = c
  <2>1. {"FOR", "LOOP", "WHILE"} \in SUBSET Cycles /\ Op(p_buf, c) \in {"FOR", "LOOP", "WHILE"}
    BY <1>2, Words DEF Cycles
  <2> HIDE DEF c
  <2> QED BY <1>2, <2>1, InnermostCycle DEF c
<1> HIDE DEF c
<1>6. ASSUME Structured!While(c), err' = 0 PROVE Right
  <2>1. Structured!Op(p_buf, c) = "WHILE"
    BY <1>2, SameOp
  <2>2. Structured!Continue
    BY <1>1, <1>5, <1>6, <2>1 DEF Structured!Continue
  <2> QED BY <1>6, <2>2 DEF Right, Structured!Next
<1>7. CASE Lost("hung")
  BY <1>7, LostRight
<1>8. CASE Goto(c + 1) /\ selcyclstack' = Append(Outer, Cycle) /\ UNCHANGED fate
  <2>1. /\ fate' = "run" /\ UNCHANGED <<p_buf, stacks, vars>> /\ err' = 0
        /\ prog' = c + 1 /\ selcyclstack' = Append(Outer, Cycle)
    BY <1>0, <1>8 DEF Goto
  <2>2. Loops' = Loops
    BY <1>0, <1>2, <1>3, <2>1, AgainPlain
  <2>3. Structured!Jump(c + 1)
    BY <1>2, <2>1, <2>2, BlockJump
  <2> QED BY <1>6, <2>1, <2>3 DEF Structured!While
<1>9. CASE ~Lost("hung") /\ Skip(lines, Outer)
  <2>1. /\ fate' = "run" /\ UNCHANGED <<p_buf, stacks, vars>> /\ err' = 0
        /\ prog' = EndOf(p_buf, c) + 1 /\ selcyclstack' = Outer
    BY <1>0, <1>4, <1>9 DEF Skip, Goto
  <2>2. Loops' = Loops
    <3> DEFINE j == CycleIndex
               n == Len(selcyclstack)
    <3>1. /\ j \in DOMAIN selcyclstack /\ Outer = SubSeq(selcyclstack, 1, j - 1)
          /\ selcyclstack[j].kind = "WHILE" /\ DOMAIN selcyclstack = 1 .. n /\ n \in Nat
          /\ \A m \in DOMAIN selcyclstack : m > j => selcyclstack[m].kind = "IF"
      BY <1>0, <1>2, <1>3, CycleFrame
    <3> HIDE DEF j, n
    <3>2. \A m \in DOMAIN selcyclstack : m >= j => m = j \/ m > j
      BY <3>1
    <3>3. \A m \in DOMAIN selcyclstack : m >= j => selcyclstack[m].kind \notin {"FOR", "LOOP"}
      BY <3>1, <3>2
    <3> QED BY <1>0, <2>1, <3>1, <3>3, CutPlain
  <2>3. Structured!Jump(Structured!After(c))
    BY <1>2, <2>1, <2>2, BlockJump
  <2> QED BY <1>6, <2>1, <2>3 DEF Structured!While
<1>10. \/ Goto(c + 1) /\ selcyclstack' = Append(Outer, Cycle) /\ UNCHANGED fate
       \/ Skip(lines, Outer)
  BY <1>2, Zenon DEF ExecContinue
<1> QED BY <1>7, <1>8, <1>9, <1>10

-----------------------------------------------------------------------------
(* BREAK and CASE. *)

\* In a SELECT stands no end of anything else.
LEMMA NoEndInside ==
  ASSUME NEW p \in Program, Tidy(p), Straight(p), NEW c, Opens(p, c), p[c].op = "SELECT",
         NEW m \in Nat, c < m, m <= EndOf(p, c)
  PROVE  Op(p, m) \notin {"END", "ENDSUB"}
<1> SUFFICES ASSUME Op(p, m) \in {"END", "ENDSUB"} PROVE FALSE
  OBVIOUS
<1>1. Text(p) /\ c \in Nat
  BY TidyText, BlockEnd
<1>2. c \in Heads(p, m)
  BY <1>1, IsHead
<1>3. Op(p, c) = "SELECT" /\ "SELECT" \in Openers /\ {"SELECT"} \in SUBSET Openers
      /\ Openers \in SUBSET Openers /\ Op(p, m) \notin Openers
  BY Words DEF Op, Opens
<1>4. m \in DOMAIN p /\ p[m].op = Op(p, m)
  BY DEF Op
<1>5. c \in Around(p, {"SELECT"}, m)
  <2>1. Around(p, {"SELECT"}, m) = {x \in Heads(p, m) : Op(p, x) \in {"SELECT"}}
    BY <1>1, <1>3, AroundHeads
  <2> QED BY <1>2, <1>3, <2>1
<1>6. c \in Around(p, Openers, m)
  <2>1. Around(p, Openers, m) = {x \in Heads(p, m) : Op(p, x) \in Openers}
    BY <1>1, <1>3, AroundHeads
  <2> QED BY <1>2, <1>3, <2>1
<1>7. Op(p, m) # "END"
  BY <1>4, <1>5 DEF Straight
<1>8. Op(p, m) # "ENDSUB"
  BY <1>4, <1>6 DEF Tidy
<1> QED BY <1>7, <1>8

LEMMA BreakRight ==
  ASSUME Sure, IInv', ExecBreak
  PROVE  Right
<1> DEFINE c == Inner(p_buf, Cycles, prog)
           e == EndOf(p_buf, c)
           j == CycleIndex
           n == Len(selcyclstack)
           kinds == {"FOR", "LOOP", "WHILE", "SELECT"}
<1>0. /\ p_buf \in Program /\ Tidy(p_buf) /\ Text(p_buf) /\ TypeOK /\ TypeOK'
      /\ prog \in Nat /\ fate = "run" /\ err = 0 /\ prog \in DOMAIN p_buf /\ Ready
      /\ Straight(p_buf)
  BY SureFacts DEF IInv, Sure
<1>1. /\ At = prog /\ Op(p_buf, prog) = "BREAK" /\ Structured!Is("BREAK")
      /\ Reads("BREAK") /\ p_buf[prog].op = "BREAK"
  <2>1. Reads("BREAK") /\ "BREAK" \in Ops \ {"ELSEIF"}
    BY Words DEF ExecBreak, Ops
  <2> QED BY <2>1, Stands
<1>2. /\ Op(p_buf, prog) # "ELSEIF" /\ Op(p_buf, prog) \notin Openers
      /\ Around(p_buf, Cycles, prog) # {}
      /\ c \in Heads(p_buf, prog) /\ Opens(p_buf, c) /\ c \in Nat /\ e \in Nat
      /\ c < prog /\ prog < e /\ e <= Len(p_buf)
      /\ Op(p_buf, e) = Close[Op(p_buf, c)]
      /\ Op(p_buf, c) \in {"FOR", "WHILE", "SELECT"}
      /\ Cycle.kind = Op(p_buf, c) /\ Cycle.line = c
      /\ EndsFirst(p_buf, c, prog)
  <2>1. Op(p_buf, c) # "LOOP"
    BY <1>0, <1>1 DEF Straight
  <2>2. Cycles = {"FOR", "WHILE", "LOOP", "SELECT"}
    BY Words DEF Cycles
  <2> HIDE DEF c
  <2> QED BY <1>0, <1>1, <2>1, <2>2, InCycle DEF c
<1>3. j # 0
  BY <1>0, <1>2, CycleIs
<1>4. /\ j \in DOMAIN selcyclstack /\ Outer = SubSeq(selcyclstack, 1, j - 1)
      /\ selcyclstack[j].kind = Op(p_buf, c) /\ DOMAIN selcyclstack = 1 .. n /\ n \in Nat
      /\ \A m \in DOMAIN selcyclstack : m > j => selcyclstack[m].kind = "IF"
  BY <1>0, <1>2, <1>3, CycleFrame
<1>5. Structured!Innermost(kinds) = c
  <2>1. kinds \in SUBSET Cycles /\ Op(p_buf, c) \in kinds
    BY <1>2, Words DEF Cycles
  <2> HIDE DEF c, kinds
  <2> QED BY <1>2, <2>1, InnermostCycle DEF c
<1> HIDE DEF c, e, j, n
<1>6. ASSUME NEW lines, ~Lost("hung"), Skip(lines, Outer), Min(lines) = e
      PROVE  Right
  <2>1. /\ fate' = "run" /\ UNCHANGED <<p_buf, stacks, vars>> /\ err' = 0
        /\ prog' = e + 1 /\ selcyclstack' = Outer
    BY <1>0, <1>6 DEF Skip, Goto
  <2>2. Loops' = IF Op(p_buf, c) \in {"FOR", "LOOP"} THEN Front(Loops) ELSE Loops
    <3>1. CASE Op(p_buf, c) = "FOR"
      <4>1. Innermore(j)
        <5>1. j \in Counting
          BY <1>4, <3>1 DEF Counting
        <5>2. \A m \in Counting : m \in 1 .. n /\ ~(m > j)
          BY <1>4 DEF Counting
        <5> QED BY <1>4, <5>1, <5>2 DEF Innermore
      <4>2. Loops' = Front(Loops)
        BY <1>0, <1>4, <2>1, <4>1, CutLoop
      <4> QED BY <3>1, <4>2
    <3>2. CASE Op(p_buf, c) # "FOR"
      <4>1. \A m \in DOMAIN selcyclstack : m >= j => m = j \/ m > j
        BY <1>4
      <4>2. \A m \in DOMAIN selcyclstack : m >= j => selcyclstack[m].kind \notin {"FOR", "LOOP"}
        BY <1>2, <1>4, <3>2, <4>1
      <4>3. Loops' = Loops
        BY <1>0, <1>4, <2>1, <4>2, CutPlain
      <4> QED BY <1>2, <3>2, <4>3
    <3> QED BY <3>1, <3>2
  <2>3. Loops' = IF Structured!Op(p_buf, c) \in {"FOR", "LOOP"}
                 THEN Structured!Front(Loops) ELSE Loops
    BY <2>2, SameOp, SameSets
  <2>4. Structured!Go(Structured!After(c))
    <3>1. Owner(p_buf, EndOf(p_buf, c) + 1) = EndOf(p_buf, c) + 1
      BY <1>0, <1>2, OwnersBehind
    <3>2. Structured!Go(EndOf(p_buf, c) + 1)
      BY <2>1, <3>1, GoesTo DEF e
    <3> QED BY <3>2, Reading
  <2>5. Structured!Break
    BY <1>1, <1>5, <2>3, <2>4 DEF Structured!Break
  <2> QED BY <2>1, <2>5 DEF Right, Structured!Next
<1>7. CASE Lost("hung")
  BY <1>7, LostRight
<1>8. CASE Cycle.kind \in {"FOR", "WHILE"} /\ ~Lost("hung")
  <2>1. Skip(Behind(p_buf, {Close[Cycle.kind]}, prog), Outer)
    BY <1>8 DEF ExecBreak
  <2>2. Min(Behind(p_buf, {Close[Cycle.kind]}, prog)) = e
    BY <1>2, <1>8 DEF EndsFirst, e
  <2> QED BY <1>6, <1>8, <2>1, <2>2
<1>9. CASE Cycle.kind = "SELECT" /\ ~Lost("hung")
  <2> DEFINE ends == Behind(p_buf, {"END", "ENDSUB", "ENDSELECT"}, prog)
             own == Behind(p_buf, {"ENDSELECT"}, prog)
             m == Min(ends)
  <2>1. \/ ends # {} /\ Op(p_buf, m) # "ENDSELECT" /\ Error(4)
        \/ Skip(ends, Outer)
    BY <1>9 DEF ExecBreak
  <2>2. Min(own) = e /\ Op(p_buf, e) = "ENDSELECT"
    BY <1>2, <1>9, Words DEF EndsFirst, e
  <2>3. own \subseteq ends /\ ends \in SUBSET Nat /\ own \in SUBSET Nat
    BY <1>0, Forwards DEF Behind
  <2>4. e \in own /\ e \in ends
    <3>1. e \in prog + 1 .. Len(p_buf)
      BY <1>0, <1>2, Lines
    <3> QED BY <2>2, <2>3, <3>1 DEF Behind
  <2>5. m \in ends /\ m <= e
    <3> HIDE DEF ends
    <3> QED BY <2>3, <2>4, MinLeast
  <2>6. m \in prog + 1 .. Len(p_buf) /\ Op(p_buf, m) \in {"END", "ENDSUB", "ENDSELECT"}
    <3> HIDE DEF m
    <3> QED BY <2>5 DEF Behind
  <2>7. Op(p_buf, m) = "ENDSELECT"
    <3>1. m \in Nat /\ c < m
      <4> HIDE DEF m
      <4> QED BY <1>0, <1>2, <2>6
    <3>2. p_buf[c].op = "SELECT"
      BY <1>2, <1>9 DEF Opens, Op
    <3> HIDE DEF m
    <3>3. Op(p_buf, m) \notin {"END", "ENDSUB"}
      BY <1>0, <1>2, <2>5, <3>1, <3>2, NoEndInside DEF e
    <3> QED BY <2>6, <3>3
  <2>8. m = e
    <3> HIDE DEF m
    <3>1. m \in own /\ m \in Nat
      BY <1>0, <2>6, <2>7 DEF Behind
    <3> HIDE DEF own
    <3>2. e <= m
      BY <2>2, <2>3, <3>1, MinLeast
    <3> QED BY <1>2, <2>5, <3>1, <3>2
  <2> HIDE DEF ends
  <2> QED BY <1>6, <1>9, <2>1, <2>7, <2>8 DEF m
<1> QED BY <1>2, <1>7, <1>8, <1>9

LEMMA CaseRight ==
  ASSUME Sure, IInv', ExecCase
  PROVE  Right
<1> DEFINE k == Max(Heads(p_buf, prog))
           last == Behind(p_buf, {"END", "ENDSUB"}, prog)
           words == {"CASE", "DEFAULT", "ENDSELECT"}
           own == Outside(p_buf, words, "SELECT", prog)
           ends == last \cup own
           m == Min(ends)
           next == Min(own)
<1>0. /\ p_buf \in Program /\ Tidy(p_buf) /\ Text(p_buf)
      /\ prog \in Nat /\ fate = "run" /\ err = 0 /\ prog \in DOMAIN p_buf /\ Ready
      /\ Straight(p_buf)
  BY SureFacts DEF Sure
<1>1. /\ At = prog /\ Op(p_buf, prog) = "CASE" /\ Structured!Is("CASE")
      /\ Reads("CASE") /\ p_buf[prog].op = "CASE" /\ Op(p_buf, prog) # "ELSEIF"
  <2>1. Reads("CASE") /\ "CASE" \in Ops \ {"ELSEIF"}
    BY Words DEF ExecCase, Ops
  <2> QED BY <2>1, Stands
<1>2. /\ Heads(p_buf, prog) # {} /\ k \in Heads(p_buf, prog) /\ Opens(p_buf, k)
      /\ p_buf[k].op = "SELECT" /\ Op(p_buf, k) = "SELECT" /\ k \in Nat
      /\ Op(p_buf, prog) \notin Openers /\ \A o \in Openers : Op(p_buf, prog) # Close[o]
  <2>1. Op(p_buf, prog) \notin Openers /\ \A o \in Openers : Op(p_buf, prog) # Close[o]
    BY <1>1, Words
  <2>2. Belongs(p_buf, prog, "SELECT")
    BY <1>0, <1>1 DEF Tidy
  <2> QED BY <1>0, <2>1, <2>2, BelongsTo
<1>3. Popped.kind = "SELECT"
  BY <1>0, <1>1, <1>2, TopIs
<1>4. /\ next \in Nat /\ prog < next /\ k < next /\ next <= EndOf(p_buf, k)
      /\ next \in DOMAIN p_buf /\ Op(p_buf, next) \in {"CASE", "DEFAULT"}
      /\ Level(p_buf, "SELECT", k + 1, next) = 0
  <2>1. Op(p_buf, next) \in {"CASE", "DEFAULT"}
    BY <1>0, <1>1, CaseEnd
  <2>2. Close[p_buf[k].op] \in words
    BY <1>2, Words
  <2>3. next = Min(Outside(p_buf, words, p_buf[k].op, prog))
    BY <1>2
  <2>4. \/ prog = k
        \/ /\ Heads(p_buf, prog) # {} /\ k = Max(Heads(p_buf, prog))
           /\ Op(p_buf, prog) \notin Openers /\ \A o \in Openers : Op(p_buf, prog) # Close[o]
    BY <1>2
  <2> HIDE DEF k, words, next
  <2>5. /\ next \in Nat /\ prog < next /\ k < next /\ next <= EndOf(p_buf, k)
        /\ next \in DOMAIN p_buf /\ Level(p_buf, p_buf[k].op, k + 1, next) = 0
    BY <1>0, <1>2, <2>2, <2>3, <2>4, SearchInBlock
  <2> QED BY <1>2, <2>1, <2>5
<1>5. next \in own
  <2>1. Level(p_buf, "SELECT", k + 1, prog) = 0 /\ k < prog
    <3>1. Level(p_buf, p_buf[k].op, k + 1, prog) = 0
      BY <1>0, <1>2, LevelOfOwn
    <3>2. k < prog
      BY <1>0, <1>2, IsHead
    <3> QED BY <1>2, <3>1, <3>2
  <2>2. "SELECT" \in Openers /\ Op(p_buf, prog) # "SELECT" /\ Op(p_buf, prog) # Close["SELECT"]
    BY <1>1, Words
  <2> DEFINE a == k + 1
  <2>3. a \in Nat /\ a <= prog /\ Level(p_buf, "SELECT", a, prog) = 0
        /\ Level(p_buf, "SELECT", a, next) = 0
    BY <1>0, <1>2, <1>4, <2>1
  <2> HIDE DEF a, k, next
  <2>4. Level(p_buf, "SELECT", prog + 1, next) = 0
    BY <1>0, <1>4, <2>2, <2>3, LevelSkips
  <2>5. next \in prog + 1 .. Len(p_buf)
    BY <1>0, <1>4, Lines
  <2> QED BY <1>4, <2>4, <2>5 DEF Outside
<1>6. ends \in SUBSET Nat /\ own \in SUBSET Nat /\ last \in SUBSET Nat
  <2>1. last \in SUBSET Nat /\ own \in SUBSET Nat
    BY <1>0, Forwards
  <2> HIDE DEF last, own
  <2> QED BY <2>1
<1>7. m \in ends /\ m <= next
  <2> HIDE DEF ends, next
  <2>1. next \in ends
    BY <1>5 DEF ends
  <2> QED BY <1>6, <2>1, MinLeast
<1>8. m \notin last
  <2> SUFFICES ASSUME m \in last PROVE FALSE
    OBVIOUS
  <2>1. m \in prog + 1 .. Len(p_buf) /\ Op(p_buf, m) \in {"END", "ENDSUB"}
    <3> HIDE DEF m
    <3> QED BY DEF Behind
  <2>2. k < prog
    BY <1>0, <1>2, IsHead
  <2>3. EndOf(p_buf, k) \in Nat
    BY <1>0, <1>2, BlockEnd
  <2>4. m \in Nat
    <3> HIDE DEF m
    <3> QED BY <1>0, <2>1
  <2> HIDE DEF m, k, next
  <2>5. k < m /\ m <= EndOf(p_buf, k)
    BY <1>0, <1>2, <1>4, <1>7, <2>1, <2>2, <2>3, <2>4
  <2> QED BY <1>0, <1>2, <2>1, <2>4, <2>5, NoEndInside
<1>9. m = next
  <2>1. m \in own
    BY <1>7, <1>8
  <2> HIDE DEF own, ends, m
  <2>2. next <= m
    BY <1>6, <2>1, MinLeast
  <2>3. m \in Nat
    BY <1>6, <2>1
  <2> HIDE DEF next
  <2> QED BY <1>4, <1>7, <2>2, <2>3
<1>10. CASE NextLine /\ UNCHANGED <<selcyclstack, fate>>
  <2>1. /\ fate' = "run" /\ UNCHANGED <<p_buf, stacks, vars, selcyclstack>> /\ err' = 0
        /\ prog' = prog + 1
    BY <1>0, <1>10 DEF NextLine, Goto
  <2>2. Loops' = Loops
    BY <2>1, LoopsSame
  <2>3. Owner(p_buf, prog + 1) = prog + 1
    BY <1>0, <1>1, OwnerBehind
  <2>4. Structured!Jump(prog + 1)
    BY <2>1, <2>2, <2>3, JumpsTo
  <2> QED BY <1>1, <2>1, <2>4 DEF Structured!Case, Right, Structured!Next
<1>11. CASE SkipCase
  <2>1. \/ Lost("hung") \/ Lost("exited")
        \/ Goto(IF Op(p_buf, m) = "ENDSELECT" THEN m + 1 ELSE m) /\ UNCHANGED <<selcyclstack, fate>>
    BY <1>8, <1>11 DEF SkipCase
  <2>2. CASE Lost("hung") \/ Lost("exited")
    BY <2>2, LostRight
  <2>3. CASE /\ Goto(IF Op(p_buf, m) = "ENDSELECT" THEN m + 1 ELSE m)
             /\ UNCHANGED <<selcyclstack, fate>>
    <3>1. Op(p_buf, next) # "ENDSELECT" /\ Op(p_buf, next) # "ELSEIF"
      BY <1>4
    <3>2. /\ fate' = "run" /\ UNCHANGED <<p_buf, stacks, vars, selcyclstack>> /\ err' = 0
          /\ prog' = next
      <4> HIDE DEF m, next
      <4> QED BY <1>0, <1>9, <2>3, <3>1 DEF Goto
    <3>3. Loops' = Loops
      BY <3>2, LoopsSame
    <3>4. Structured!Jump(next)
      BY <3>1, <3>2, <3>3, OwnerOfOther, JumpsTo
    <3>5. /\ next = Structured!Min(Structured!Outside(p_buf, words, "SELECT", At))
          /\ Structured!Op(p_buf, next) # "ENDSELECT"
      BY <1>1, <3>1, SameOutside, SameSets, SameOp
    <3> HIDE DEF next
    <3>6. Structured!Case
      BY <1>1, <3>4, <3>5 DEF Structured!Case
    <3> QED BY <3>2, <3>6 DEF Right, Structured!Next
  <2> HIDE DEF m
  <2> QED BY <2>1, <2>2, <2>3
<1> QED BY <1>3, <1>10, <1>11 DEF ExecCase

-----------------------------------------------------------------------------
(* Jumps, calls and returns. *)

\* In the first activation, frames stand for blocks one to one.
LEMMA OneToOne ==
  ASSUME NEW b, NEW of, NEW k \in Nat, NEW E, Mirrors(b, of, k, 1, E), E[1] \in SUBSET Nat,
         NEW C \in SUBSET (1 .. k), NEW D \in SUBSET E[1], \A m \in 1 .. k : m \in C <=> b[m] \in D
  PROVE  Cardinality(C) = Cardinality(D)
<1> DEFINE f == [m \in C |-> b[m]]
<1>1. /\ \A m \in 1 .. k : of[m] = 1 /\ b[m] \in E[1]
      /\ \A x \in E[1] : \E m \in 1 .. k : b[m] = x
      /\ \A m, j \in 1 .. k : m < j => of[m] < of[j] \/ (of[m] = of[j] /\ b[m] < b[j])
  <2>1. \A m \in 1 .. k : of[m] \in 1 .. 1 /\ b[m] \in E[of[m]]
    BY DEF Mirrors
  <2>2. \A m \in 1 .. k : of[m] = 1
    BY <2>1
  <2>3. \A m \in 1 .. k : b[m] \in E[1]
    BY <2>1, <2>2
  <2>4. \A x \in E[1] : \E m \in 1 .. k : b[m] = x
    <3>1. 1 \in 1 .. 1
      OBVIOUS
    <3> QED BY <3>1 DEF Mirrors
  <2>5. \A m, j \in 1 .. k : m < j => of[m] < of[j] \/ (of[m] = of[j] /\ b[m] < b[j])
    BY DEF Mirrors
  <2> QED BY <2>2, <2>3, <2>4, <2>5
<1>2. \A m, j \in 1 .. k : m < j => b[m] < b[j]
  BY <1>1
<1>3. \A m, j \in 1 .. k : b[m] = b[j] => m = j
  <2> TAKE m, j \in 1 .. k
  <2> DEFINE x == b[m]  y == b[j]
  <2>1. x \in Nat /\ y \in Nat /\ (m < j => x < y) /\ (j < m => y < x)
    BY <1>1, <1>2
  <2>2. m \in Int /\ j \in Int
    OBVIOUS
  <2> HIDE DEF x, y
  <2>3. x = y => m = j
    BY <2>1, <2>2
  <2> QED BY <2>3 DEF x, y
<1>4. f \in [C -> D]
  OBVIOUS
<1>5. \A a, c \in C : f[a] = f[c] => a = c
  BY <1>3
<1>6. \A x \in D : \E m \in C : f[m] = x
  BY <1>1
<1>7. f \in Bijection(C, D)
  BY <1>4, <1>5, <1>6 DEF Bijection, Injection, Surjection, IsInjective
<1>8. IsFiniteSet(C)
  <2>1. IsFiniteSet(1 .. k)
    BY FS_Interval
  <2> QED BY <2>1, FS_Subset
<1> QED BY <1>7, <1>8, FS_Bijection DEF ExistsBijection

\* The stack of main holds the counting loops around the statement, and no others.
LEMMA LoopsAround ==
  ASSUME Sure, gosub_tos = 1, Op(p_buf, prog) \notin Openers, Op(p_buf, prog) # "ELSEIF"
  PROVE  Len(Loops) = Cardinality(Around(p_buf, {"FOR", "LOOP"}, prog))
<1> DEFINE D == Around(p_buf, {"FOR", "LOOP"}, prog)
           n == Len(selcyclstack)
<1>0. Text(p_buf) /\ prog \in Nat /\ TypeOK /\ Ready
  BY SureFacts DEF Sure
<1>1. D = {x \in Heads(p_buf, prog) : Op(p_buf, x) \in {"FOR", "LOOP"}}
  <2>1. {"FOR", "LOOP"} \in SUBSET Openers
    BY Words
  <2> QED BY <1>0, <2>1, AroundHeads
<1>2. Blocks[1] = Heads(p_buf, prog) /\ Blocks[1] \in SUBSET Nat
  <2>1. Blocks[gosub_tos] = Heads(p_buf, Owner(p_buf, prog)) /\ 1 \in 1 .. 1
        /\ \A i \in 1 .. gosub_tos : Blocks[i] \in SUBSET Nat
    BY <1>0, BlocksNow
  <2>2. Owner(p_buf, prog) = prog
    BY OwnerOfOther
  <2> QED BY <2>1, <2>2
<1>3. PICK of : Mirrors(BlockLines, of, n, 1, Blocks)
  BY <1>0, Unfold DEF Matches
<1>4. n \in Nat /\ DOMAIN selcyclstack = 1 .. n /\ Counting \in SUBSET (1 .. n)
  BY <1>0, LoopsAre, ReadyFacts
<1>5. ASSUME NEW m \in 1 .. n PROVE m \in Counting <=> BlockLines[m] \in D
  <2>1. Op(p_buf, BlockLines[m]) = selcyclstack[m].kind
    BY <1>0, <1>4, FrameKind
  <2>2. BlockLines[m] \in Blocks[1]
    <3>1. of[m] \in 1 .. 1 /\ BlockLines[m] \in Blocks[of[m]]
      BY <1>3 DEF Mirrors
    <3> QED BY <3>1
  <2> QED BY <1>1, <1>2, <1>4, <2>1, <2>2 DEF Counting
<1>6. Cardinality(Counting) = Cardinality(D)
  <2> DEFINE b == BlockLines  E == Blocks  C == Counting
  <2>1. /\ Mirrors(b, of, n, 1, E) /\ E[1] \in SUBSET Nat /\ n \in Nat
        /\ C \in SUBSET (1 .. n) /\ D \in SUBSET E[1] /\ \A m \in 1 .. n : m \in C <=> b[m] \in D
    BY <1>1, <1>2, <1>3, <1>4, <1>5
  <2> HIDE DEF b, E, C, D, n
  <2>2. Cardinality(C) = Cardinality(D)
    BY <2>1, OneToOne
  <2> QED BY <2>2 DEF C
<1>7. Len(Loops) = Cardinality(Counting)
  <2> DEFINE g == LoopAt  C == Counting
  <2>1. Loops = Selected(C, g) /\ n \in Nat /\ C \in SUBSET (1 .. n)
    BY <1>0, LoopsAre
  <2> HIDE DEF g, C, n
  <2>2. Len(Selected(C, g)) = Cardinality(C)
    BY <2>1, SelectedSeq
  <2> QED BY <2>1, <2>2 DEF C
<1> QED BY <1>6, <1>7

LEMMA LoopsSeq ==
  ASSUME TypeOK
  PROVE  Len(Loops) \in Nat /\ Loops = SubSeq(Loops, 1, Len(Loops))
<1> DEFINE g == LoopAt  C == Counting  n == Len(selcyclstack)  U == {g[m] : m \in C}
<1>1. Loops = Selected(C, g) /\ n \in Nat /\ C \in SUBSET (1 .. n)
  BY LoopsAre
<1> HIDE DEF g, C, n
<1>2. Selected(C, g) \in Seq(U)
  BY <1>1, SelectedSeq
<1>3. Loops \in Seq(U)
  BY <1>1, <1>2
<1> HIDE DEF U
<1> QED BY <1>3

\* Outside of all blocks, and so of all blocks of some kinds.
LEMMA NoneAround ==
  ASSUME NEW p, NEW l, Around(p, Openers, l) = {}, NEW kinds \in SUBSET Openers
  PROVE  Around(p, kinds, l) = {}
BY DEF Around

LEMMA GotoRight ==
  ASSUME Sure, IInv', ExecGoto
  PROVE  Right
<1> DEFINE target == p_buf[prog].to
           kinds == {"FOR", "LOOP"}
<1>0. /\ p_buf \in Program /\ Tidy(p_buf) /\ Text(p_buf) /\ TypeOK /\ TypeOK'
      /\ prog \in Nat /\ fate = "run" /\ err = 0 /\ prog \in DOMAIN p_buf
      /\ Straight(p_buf) /\ GotoApart /\ gosub_tos \in Nat
  BY SureFacts, ReadyFacts DEF IInv, Sure
<1>1. /\ At = prog /\ Op(p_buf, prog) = "GOTO" /\ p_buf[prog].op = "GOTO"
      /\ Structured!Is("GOTO") /\ Op(p_buf, prog) \notin Openers /\ Op(p_buf, prog) # "ELSEIF"
  <2>1. Reads("GOTO") /\ "GOTO" \in Ops \ {"ELSEIF"}
    BY DEF ExecGoto, Ops
  <2>2. /\ At = prog /\ Op(p_buf, prog) = "GOTO" /\ p_buf[prog].op = "GOTO"
        /\ Structured!Is("GOTO")
    BY <2>1, Stands
  <2> QED BY <2>2, Words
<1>2. target # 0 /\ target \in Nat
  BY <1>0, <1>1 DEF Straight, Program
<1>3. Around(p_buf, Openers, target) = {} /\ Owner(p_buf, target) = target
  <2>1. Around(p_buf, Openers, target) = {}
    BY <1>0, <1>1, <1>2 DEF Tidy
  <2> HIDE DEF target
  <2> QED BY <1>0, <1>2, <2>1, NoBlocks
<1>4. gosub_tos = 1
  <2>1. PICK e : Parted(e)
    BY <1>0, <1>1 DEF GotoApart
  <2>2. prog < e /\ e \in Nat
    BY <1>0, <1>1, <2>1, Lines DEF Parted
  <2>3. gosub_tos # 1 => prog > e
    BY <2>1 DEF Parted
  <2> QED BY <1>0, <2>2, <2>3
<1>5. CASE Lost("hung") \/ Lost("exited")
  BY <1>5, LostRight
<1>6. CASE ~(Lost("hung") \/ Lost("exited"))
  <2>1. /\ prog' = target /\ selcyclstack' = <<>> /\ fate' = "run"
        /\ UNCHANGED <<p_buf, err, stacks, vars>>
    BY <1>0, <1>2, <1>6 DEF ExecGoto, Goto
  <2>2. Loops' = <<>>
    <3>1. Counting' = {}
      BY <2>1 DEF Counting
    <3>2. Cardinality({}) = 0
      BY FS_EmptySet
    <3>3. Loops' = [i \in 1 .. Cardinality(Counting') |-> LoopOf(selcyclstack[Nth(Counting, i)])']
      BY DEF Loops
    <3>4. 1 .. Cardinality(Counting') = {}
      BY <3>1, <3>2
    <3> QED BY <3>3, <3>4
  <2>3. Structured!Go(target)
    BY <1>0, <1>3, <2>1, GoesTo
  <2>4. Around(p_buf, kinds, target) = {}
    BY <1>3, NoneAround, Words
  <2>5. Len(Loops) = Cardinality(Around(p_buf, kinds, prog))
    BY <1>1, <1>4, LoopsAround
  <2>6. /\ Structured!Cardinality(Structured!Around(p_buf, kinds, At)
                                   \ Structured!Around(p_buf, kinds, p_buf[At].to))
             = Cardinality(Around(p_buf, kinds, prog))
    BY <1>1, <2>4, SameAround, SameCardinality
  <2>7. Len(Loops) \in Nat
    BY <1>0, LoopsSeq
  <2>8. Loops' = SubSeq(Loops, 1, Len(Loops) - Len(Loops))
    <3>1. Len(Loops) - Len(Loops) = 0
      BY <2>7
    <3>2. SubSeq(Loops, 1, 0) = <<>>
      OBVIOUS
    <3> QED BY <2>2, <3>1, <3>2
  <2>9. Structured!Goto
    BY <1>1, <2>3, <2>5, <2>6, <2>8 DEF Structured!Goto
  <2> QED BY <1>0, <2>1, <2>9 DEF Right, Structured!Next
<1> QED BY <1>5, <1>6

LEMMA CallRight ==
  ASSUME Sure, IInv', WithinLimits', ExecCall \/ Gosub
  PROVE  Right
<1> DEFINE to == p_buf[prog].to
<1>0. /\ p_buf \in Program /\ Tidy(p_buf) /\ Text(p_buf) /\ TypeOK /\ TypeOK'
      /\ prog \in Nat /\ fate = "run" /\ err = 0 /\ prog \in DOMAIN p_buf
      /\ Straight(p_buf) /\ gosub_tos \in Nat \ {0} /\ gosub_tos < SUB_NEST
  BY SureFacts, ReadyFacts DEF IInv, Sure
<1>1. /\ At = prog /\ p_buf[prog].op \in {"CALL", "GOSUB"} /\ Op(p_buf, prog) = p_buf[prog].op
      /\ Structured!Is("CALL") \/ Structured!Is("GOSUB")
      /\ ExecCall => p_buf[prog].op = "CALL"
  <2>1. \A op \in {"CALL", "GOSUB"} : Reads(op) =>
          /\ At = prog /\ Op(p_buf, prog) = op /\ p_buf[prog].op = op /\ Structured!Is(op)
    <3>1. \A op \in {"CALL", "GOSUB"} : op \in Ops \ {"ELSEIF"}
      BY DEF Ops
    <3> QED BY <3>1, Stands
  <2>2. (ExecCall => Reads("CALL")) /\ (Gosub => Reads("GOSUB"))
    BY DEF ExecCall, Gosub
  <2> QED BY <2>1, <2>2
<1>2. to # 0 /\ to \in Nat
  BY <1>0, <1>1 DEF Straight, Program
<1>3. Enter(RestOf(prog))
  <2>1. CASE ExecCall
    <3>1. p_buf[prog].parens
      BY <1>0, <1>1, <2>1 DEF Tidy
    <3> QED BY <1>2, <2>1, <3>1 DEF ExecCall
  <2>2. CASE Gosub
    BY <1>2, <2>2 DEF Gosub
  <2> QED BY <2>1, <2>2
<1>4. /\ p_buf' = p_buf /\ selcyclstack' = selcyclstack /\ gosub_tos' = gosub_tos + 1
      /\ vars' = vars /\ fate' = "run" /\ err' = 0 /\ prog' = Entry(p_buf, to)
      /\ gosub_stack' = [gosub_stack EXCEPT ![gosub_tos + 1] = RestOf(prog)]
      /\ gosub_tos + 1 # SUB_NEST
  BY <1>0, <1>3 DEF Enter, GosubPush, WithinLimits
<1>5. /\ gosub_stack'[gosub_tos + 1] = RestOf(prog)
      /\ \A i \in 1 .. gosub_tos : gosub_stack'[i] = gosub_stack[i]
  <2>1. gosub_stack \in [1 .. SUB_NEST - 1 -> Place] /\ SUB_NEST \in Nat
    BY <1>0, NestAssumption DEF TypeOK
  <2>2. gosub_tos + 1 \in 1 .. SUB_NEST - 1
    BY <1>0, <1>4, <2>1
  <2> QED BY <1>0, <1>4, <2>1, <2>2
<1>6. At' = Structured!Entry(p_buf, to)
  <2>1. Around(p_buf, Openers, to) = {}
    BY <1>0, <1>1, <1>2 DEF Tidy
  <2>2. Owner(p_buf, to) = to
    BY <1>0, <1>2, <2>1, NoBlocks
  <2>3. Op(p_buf, to) = "SUB" => Owner(p_buf, to + 1) = to + 1
    BY <1>0, <1>2, OwnerBehind
  <2>4. Owner(p_buf, Entry(p_buf, to)) = Entry(p_buf, to)
    BY <2>2, <2>3 DEF Entry
  <2>5. At' = Owner(p_buf', prog')
    BY <1>4 DEF At
  <2> QED BY <1>4, <2>4, <2>5, SameOp
<1>7. Loops' = Loops
  BY <1>4, LoopsSame
<1>8. Calls' = Append(Calls, prog + 1)
  <2> DEFINE n == gosub_tos - 1
             F(i) == CallLine(i + 1) + 1
             C == [i \in 1 .. n |-> F(i)]
             U == {F(i) : i \in 1 .. n} \cup {prog + 1}
             A == Append(C, prog + 1)
  <2>1. n \in Nat /\ n + 1 = gosub_tos /\ gosub_tos' - 1 = n + 1
    BY <1>0, <1>4
  <2> HIDE DEF n
  <2>2. C \in Seq(U) /\ Len(C) = n /\ prog + 1 \in U
    <3>1. C \in [1 .. n -> U] /\ prog + 1 \in U
      OBVIOUS
    <3> HIDE DEF U, F
    <3> QED BY <2>1, <3>1
  <2>3. /\ A \in Seq(U) /\ Len(A) = n + 1 /\ A[n + 1] = prog + 1
        /\ \A i \in 1 .. n : A[i] = C[i]
    <3> HIDE DEF C, U
    <3> QED BY <2>1, <2>2
  <2>4. \A i \in 1 .. n : C[i] = F(i)
    <3> HIDE DEF F
    <3> QED OBVIOUS
  <2>5. Calls' = [i \in 1 .. n + 1 |-> CallLine(i + 1)' + 1]
    BY <2>1 DEF Calls
  <2>6. \A i \in 1 .. n : CallLine(i + 1)' = CallLine(i + 1)
    <3> TAKE i \in 1 .. n
    <3>1. i + 1 \in 1 .. gosub_tos
      BY <2>1
    <3> QED BY <1>5, <3>1 DEF CallLine
  <2>7. ASSUME NEW i, i = n + 1 PROVE CallLine(i + 1)' = prog
    <3> DEFINE k == i + 1
    <3>1. k = gosub_tos + 1
      BY <2>1, <2>7
    <3> HIDE DEF k
    <3>2. CallLine(k)' = prog
      BY <1>5, <3>1 DEF CallLine, RestOf
    <3> QED BY <3>2 DEF k
  <2>8. \A i \in 1 .. n + 1 : CallLine(i + 1)' + 1 = A[i]
    <3> TAKE i \in 1 .. n + 1
    <3> HIDE DEF A, C
    <3>1. CASE i = n + 1
      BY <2>3, <2>7, <3>1
    <3>2. CASE i # n + 1
      <4>1. i \in 1 .. n
        BY <2>1, <3>2
      <4> QED BY <2>3, <2>4, <2>6, <4>1
    <3> QED BY <3>1, <3>2
  <2>9. A = [i \in 1 .. n + 1 |-> A[i]]
    <3> HIDE DEF A
    <3> QED BY <2>1, <2>3
  <2>10. Calls' = A
    <3> HIDE DEF A
    <3> QED BY <2>5, <2>8, <2>9
  <2>11. Calls = C
    BY DEF Calls, n
  <2> HIDE DEF C
  <2> QED BY <2>10, <2>11
<1>9. Structured!Call
  BY <1>1, <1>0, <1>4, <1>6, <1>7, <1>8 DEF Structured!Call
<1> QED BY <1>4, <1>9 DEF Right, Structured!Next

\* The last place to return to is taken off.
LEMMA CallsFront ==
  ASSUME gosub_tos \in Nat \ {0, 1}, gosub_tos' = gosub_tos - 1, gosub_stack' = gosub_stack
  PROVE  /\ Calls # <<>> /\ Last(Calls) = CallLine(gosub_tos) + 1 /\ Calls' = Front(Calls)
<1> DEFINE n == gosub_tos - 2
           F(i) == CallLine(i + 1) + 1
           C == [i \in 1 .. n + 1 |-> F(i)]
           U == {F(i) : i \in 1 .. n + 1}
<1>1. n \in Nat /\ n + 1 = gosub_tos - 1 /\ gosub_tos' - 1 = n /\ n + 1 + 1 = gosub_tos
  OBVIOUS
<1>2. Calls = C
  BY <1>1 DEF Calls
<1>3. Calls' = [i \in 1 .. n |-> F(i)]
  BY <1>1 DEF Calls, CallLine
<1>4. F(n + 1) = CallLine(gosub_tos) + 1
  BY <1>1
<1> HIDE DEF n, F
<1>5. C \in Seq(U) /\ Len(C) = n + 1
  <2>1. C \in [1 .. n + 1 -> U]
    OBVIOUS
  <2> HIDE DEF U
  <2> QED BY <1>1, <2>1
<1>6. C # <<>> /\ C[n + 1] = F(n + 1) /\ \A i \in 1 .. n : C[i] = F(i)
  <2>1. n + 1 \in 1 .. n + 1 /\ \A i \in 1 .. n : i \in 1 .. n + 1
    BY <1>1
  <2> QED BY <1>5, <2>1
<1> HIDE DEF C, U
<1>7. Last(C) = F(n + 1)
  BY <1>5, <1>6 DEF Last
<1>8. Front(C) = [i \in 1 .. n |-> C[i]]
  BY <1>1, <1>5 DEF Front
<1>9. Front(C) = [i \in 1 .. n |-> F(i)]
  BY <1>6, <1>8
<1> QED BY <1>2, <1>3, <1>4, <1>6, <1>7, <1>9

LEMMA CallsNone ==
  /\ gosub_tos = 1 => Calls = <<>>
  /\ gosub_tos' = 0 => Calls' = <<>>
<1>1. ASSUME gosub_tos = 1 PROVE Calls = <<>>
  <2>1. 1 .. gosub_tos - 1 = {}
    BY <1>1
  <2> QED BY <2>1 DEF Calls
<1>2. ASSUME gosub_tos' = 0 PROVE Calls' = <<>>
  <2>1. 1 .. gosub_tos' - 1 = {}
    BY <1>2
  <2> QED BY <2>1 DEF Calls
<1> QED BY <1>1, <1>2

LEMMA ReturnRight ==
  ASSUME Sure, IInv', Greturn
  PROVE  Right
<1>0. /\ p_buf \in Program /\ Tidy(p_buf) /\ Text(p_buf) /\ TypeOK
      /\ prog \in Nat /\ fate = "run" /\ err = 0 /\ prog \in DOMAIN p_buf
      /\ gosub_tos \in Nat \ {0} /\ CallsKept /\ Len(running) = gosub_tos
  BY SureFacts, ReadyFacts DEF Sure
<1>1. /\ At = prog /\ p_buf[prog].op \in {"RETURN", "ENDSUB"}
      /\ Structured!Is("RETURN") \/ Structured!Is("ENDSUB")
  <2>1. \A op \in {"RETURN", "ENDSUB"} : Reads(op) =>
          /\ At = prog /\ p_buf[prog].op = op /\ Structured!Is(op)
    <3>1. \A op \in {"RETURN", "ENDSUB"} : op \in Ops \ {"ELSEIF"}
      BY DEF Ops
    <3> QED BY <3>1, Stands
  <2> QED BY <2>1 DEF Greturn
<1>2. /\ UNCHANGED <<p_buf, selcyclstack, gosub_stack, vars, err>>
      /\ gosub_tos' = gosub_tos - 1
      /\ fate' = IF gosub_tos = 1 THEN "over" ELSE "run"
  BY <1>0 DEF Greturn, LeaveActivation
<1>3. Loops' = Loops
  BY <1>2, LoopsSame
<1>4. Structured!Cardinality(Structured!Around(p_buf, {"FOR", "LOOP"}, At)) = 0
  <2>1. Around(p_buf, Openers, prog) = {}
    BY <1>0, <1>1 DEF Tidy
  <2>2. Around(p_buf, {"FOR", "LOOP"}, prog) = {}
    BY <2>1, NoneAround, Words
  <2>3. Cardinality({}) = 0
    BY FS_EmptySet
  <2> QED BY <1>1, <2>2, <2>3, SameAround, SameCardinality
<1>5. Loops' = SubSeq(Loops, 1, Len(Loops) - 0)
  <2>1. Len(Loops) \in Nat /\ Loops = SubSeq(Loops, 1, Len(Loops))
    BY <1>0, LoopsSeq
  <2>2. Len(Loops) - 0 = Len(Loops)
    BY <2>1
  <2> QED BY <1>3, <2>1, <2>2
<1>6. CASE gosub_tos = 1
  <2>1. fate' = "over" /\ gosub_tos' = 0
    BY <1>2, <1>6
  <2>2. Calls = <<>> /\ Calls' = <<>>
    BY <1>6, <2>1, CallsNone
  <2>3. At' = 0
    BY <2>1 DEF At
  <2>4. Structured!Return
    BY <1>1, <1>2, <1>4, <1>5, <2>1, <2>2, <2>3 DEF Structured!Return
  <2> QED BY <1>0, <1>2, <2>4 DEF Right, Structured!Next
<1>7. CASE gosub_tos # 1
  <2> DEFINE line == gosub_stack[gosub_tos].line
  <2>1. /\ gosub_stack[gosub_tos].rest /\ line \in Nat /\ Op(p_buf, line) \in {"CALL", "GOSUB"}
    <3>1. gosub_tos \in 2 .. gosub_tos
      BY <1>0, <1>7
    <3> QED BY <1>0, <3>1 DEF CallsKept
  <2>2. prog' = line + 1 /\ fate' = "run"
    BY <1>0, <1>2, <1>7, <2>1 DEF Greturn
  <2>3. CallLine(gosub_tos) = line
    BY <2>1 DEF CallLine
  <2>4. Owner(p_buf, line + 1) = line + 1
    <3> HIDE DEF line
    <3> QED BY <1>0, <2>1, OwnerBehind
  <2>5. At' = line + 1
    BY <1>2, <2>2, <2>4 DEF At
  <2>6. Calls # <<>> /\ Last(Calls) = line + 1 /\ Calls' = Front(Calls)
    BY <1>0, <1>2, <1>7, <2>3, CallsFront
  <2>7. Calls # <<>> /\ Structured!Last(Calls) = line + 1 /\ Calls' = Structured!Front(Calls)
    BY <2>6, SameSets
  <2>8. Structured!Return
    BY <1>0, <1>1, <1>2, <1>4, <1>5, <2>2, <2>5, <2>7 DEF Structured!Return
  <2> QED BY <1>0, <1>2, <2>8 DEF Right, Structured!Next
<1> QED BY <1>6, <1>7

LEMMA EndRight ==
  ASSUME Sure, ExecEnd, gosub_tos = 1
  PROVE  Right
<1>0. fate = "run" /\ err = 0 /\ Len(running) = 1
  BY SureFacts DEF Sure
<1>1. At = prog /\ Structured!Is("END")
  <2>1. Reads("END") /\ "END" \in Ops \ {"ELSEIF"}
    BY DEF ExecEnd, Ops
  <2> QED BY <2>1, Stands
<1>2. fate' = "over" /\ UNCHANGED <<p_buf, err, selcyclstack, stacks, vars>>
  BY <1>0 DEF ExecEnd, LeaveActivation
<1>3. Loops' = Loops /\ At' = 0
  BY <1>2, LoopsSame DEF At
<1>4. Calls' = Calls
  BY <1>2 DEF Calls, CallLine, stacks
<1>5. Structured!End
  BY <1>1, <1>2, <1>3, <1>4 DEF Structured!End
<1> QED BY <1>0, <1>2, <1>5 DEF Right, Structured!Next

\* Each statement does what structured BASIC does.
LEMMA ExecRight ==
  ASSUME Sure, IInv', WithinLimits', CountersApart, Exec,
         fate' = "run" /\ err' = 0 => CountersApart',
         Op(p_buf, prog) = "END" => gosub_tos = 1
  PROVE  Right
<1>1. CASE ExecIf \/ ExecElseif
  BY <1>1, IfRight DEF ExecIf, ExecElseif
<1>2. CASE ExecEndif \/ ExecEndSelect
  BY <1>2, CloseRight
<1>3. CASE ExecFor("FOR") \/ ExecFor("LOOP")
  <2>1. fate' = "run" /\ err' = 0
    BY <1>3, SureFacts DEF ExecFor, Push, WithinLimits
  <2> QED BY <1>3, <2>1, ForRight
<1>4. CASE ExecNext("FOR") \/ ExecNext("LOOP")
  BY <1>4, CountRight
<1>5. CASE ExecCall \/ Gosub
  BY <1>5, CallRight
<1>6. CASE ExecEnd
  BY <1>6, EndRight DEF ExecEnd, Reads
<1> QED BY <1>1, <1>2, <1>3, <1>4, <1>5, <1>6, ElseRight, WhileRight, WendRight,
           ContinueRight, BreakRight, SelectRight, CaseRight, GotoRight, ReturnRight, PlainRight
    DEF Exec

-----------------------------------------------------------------------------
(* Where calls lead to. *)

\* Where a pending call led to, and where the i-th activation stands.
Target(i) == p_buf[gosub_stack[i].line].to

Here(i) == IF i = gosub_tos THEN prog ELSE gosub_stack[i + 1].line

\* Calls lead forwards: an activation stands behind the line its call led to, and this one
\* behind those the calls before led to.
Deeper ==
  /\ \A i \in 2 .. gosub_tos : Target(i) <= Here(i)
  /\ \A i, j \in 2 .. gosub_tos : i < j => Target(i) <= Target(j)

\* At a statement of a program that keeps clear.
Clear ==
  /\ prog \in DOMAIN p_buf /\ Len(running) = gosub_tos /\ Deeper

\* The lines that are called.
LEMMA Targets ==
  ASSUME p_buf \in Program, Tidy(p_buf), Straight(p_buf), CallsKept, NEW i \in 2 .. gosub_tos
  PROVE  LET l == gosub_stack[i].line IN
         /\ l \in Nat /\ Called(p_buf, l) /\ Target(i) \in DOMAIN p_buf /\ Target(i) \in Nat
         /\ Heads(p_buf, Target(i)) = {} /\ Around(p_buf, Openers, Target(i)) = {}
         /\ Op(p_buf, l) \notin Openers /\ Op(p_buf, l) # "ELSEIF"
<1> DEFINE l == gosub_stack[i].line
<1>1. l \in Nat /\ Op(p_buf, l) \in {"CALL", "GOSUB"}
  BY DEF CallsKept
<1>2. l \in DOMAIN p_buf /\ p_buf[l].op \in {"CALL", "GOSUB"}
  BY <1>1 DEF Op
<1> HIDE DEF l
<1>3. p_buf[l].to # 0 /\ p_buf[l].to \in 0 .. Len(p_buf) /\ Len(p_buf) \in Nat
      /\ DOMAIN p_buf = 1 .. Len(p_buf)
  BY <1>2 DEF Straight, Program
<1>4. Around(p_buf, Openers, p_buf[l].to) = {}
  BY <1>2, <1>3 DEF Tidy
<1>5. p_buf[l].to \in DOMAIN p_buf /\ p_buf[l].to \in Nat
  BY <1>3
<1>6. Heads(p_buf, p_buf[l].to) = {}
  BY <1>4, <1>5, NoBlocks
<1>7. Op(p_buf, l) \notin Openers /\ Op(p_buf, l) # "ELSEIF"
  BY <1>1, Words
<1> QED BY <1>1, <1>2, <1>4, <1>5, <1>6, <1>7 DEF Called, Target, l

\* No block leads out of the lines that are called.
LEMMA BlockBehind ==
  ASSUME NEW p, Text(p), NEW t \in Nat, Around(p, Openers, t) = {}, NEW k, Opens(p, k),
         NEW l \in Nat, k <= l, l <= EndOf(p, k), t <= l
  PROVE  t < k
<1>1. k \in Nat /\ EndOf(p, k) \in Nat
  BY BlockEnd
<1>2. ~(k <= t /\ t <= EndOf(p, k))
  <2> SUFFICES ASSUME k <= t, t <= EndOf(p, k) PROVE FALSE
    OBVIOUS
  <2>1. k \in DOMAIN p /\ p[k].op \in Openers /\ Closed(p, k)
    BY DEF Opens, Text, BlocksNest
  <2>2. t \in Block(p, k)
    BY <1>1 DEF Block
  <2> QED BY <2>1, <2>2 DEF Around
<1> QED BY <1>1, <1>2

\* Two frames: those of an inner and an outer block, or of different activations.
LEMMA CountersOf ==
  ASSUME Ready, CallsKept, Straight(p_buf), Apart(p_buf), Deeper,
         NEW m \in Counting, NEW n \in Counting, m < n
  PROVE  p_buf[selcyclstack[m].line].var # p_buf[selcyclstack[n].line].var
<1> DEFINE k == selcyclstack[m].line
           l == selcyclstack[n].line
           s == Len(selcyclstack)
           line(i) == IF i < gosub_tos THEN gosub_stack[i + 1].line ELSE prog
<1>0. /\ p_buf \in Program /\ Tidy(p_buf) /\ Text(p_buf) /\ gosub_tos \in Nat \ {0}
      /\ prog \in Nat /\ s \in Nat /\ DOMAIN selcyclstack = 1 .. s
  BY ReadyFacts DEF Ready
<1>1. m \in 1 .. s /\ n \in 1 .. s /\ m \in DOMAIN selcyclstack /\ n \in DOMAIN selcyclstack
  BY <1>0 DEF Counting
<1>2. /\ BlockLines[m] = k /\ BlockLines[n] = l /\ k \in Nat /\ l \in Nat
      /\ Counts(p_buf, k) /\ Counts(p_buf, l) /\ Opens(p_buf, k) /\ Opens(p_buf, l)
  <2>1. \A x \in {m, n} :
          /\ BlockLines[x] = selcyclstack[x].line /\ BlockLines[x] \in Nat
          /\ Op(p_buf, BlockLines[x]) \in {"FOR", "LOOP"}
    <3> TAKE x \in {m, n}
    <3>1. x \in DOMAIN selcyclstack /\ selcyclstack[x].kind \in {"FOR", "LOOP"}
      BY <1>1 DEF Counting
    <3> QED BY <3>1, FrameKind
  <2>2. \A x : Op(p_buf, x) \in {"FOR", "LOOP"} => Counts(p_buf, x) /\ Opens(p_buf, x)
    BY Words DEF Op, Counts, Opens
  <2> QED BY <2>1, <2>2
<1>3. PICK of : Mirrors(BlockLines, of, s, gosub_tos, Blocks)
  BY Unfold DEF Matches
<1> DEFINE i == of[m]
           j == of[n]
<1>4. /\ i \in 1 .. gosub_tos /\ j \in 1 .. gosub_tos /\ k \in Blocks[i] /\ l \in Blocks[j]
      /\ i < j \/ (i = j /\ k < l)
  <2>1. of \in [1 .. s -> 1 .. gosub_tos]
    BY <1>3 DEF Mirrors
  <2>2. i \in 1 .. gosub_tos /\ j \in 1 .. gosub_tos
    BY <1>1, <2>1
  <2>3. k \in Blocks[i] /\ l \in Blocks[j]
    BY <1>1, <1>2, <1>3 DEF Mirrors
  <2>4. i < j \/ (i = j /\ BlockLines[m] < BlockLines[n])
    BY <1>1, <1>3 DEF Mirrors
  <2> QED BY <1>2, <2>2, <2>3, <2>4
<1> HIDE DEF i, j, k, l, s
<1>5. ASSUME NEW a \in 1 .. gosub_tos
      PROVE  Blocks[a] = Heads(p_buf, IF a < gosub_tos THEN line(a) ELSE Owner(p_buf, prog))
             /\ line(a) \in Nat
  <2>1. CASE a < gosub_tos
    <3>1. a + 1 \in 2 .. gosub_tos
      BY <1>0, <2>1
    <3>2. gosub_stack[a + 1].rest /\ gosub_stack[a + 1].line \in Nat
      BY <3>1 DEF CallsKept
    <3>3. CallLine(a + 1) = gosub_stack[a + 1].line
      BY <3>2 DEF CallLine
    <3> QED BY <2>1, <3>2, <3>3 DEF Blocks, Entered
  <2>2. CASE ~(a < gosub_tos)
    <3>1. Blocks[a] = Heads(p_buf, Owner(p_buf, prog))
      BY <2>2 DEF Blocks, Entered
    <3> QED BY <1>0, <2>2, <3>1
  <2> QED BY <2>1, <2>2
\* The block of a frame is around the line where its activation stands.
<1>6. ASSUME NEW a \in 1 .. gosub_tos, NEW x \in Blocks[a], Counts(p_buf, x)
      PROVE  x \in Nat /\ Opens(p_buf, x) /\ x <= line(a) /\ line(a) <= EndOf(p_buf, x)
             /\ EndOf(p_buf, x) \in Nat
  <2>1. CASE a < gosub_tos \/ Owner(p_buf, prog) = prog
    <3>1. x \in Heads(p_buf, line(a)) /\ line(a) \in Nat
      BY <1>5, <1>6, <2>1
    <3> HIDE DEF line
    <3>2. Opens(p_buf, x) /\ x < line(a) /\ line(a) <= EndOf(p_buf, x)
      BY <1>0, <3>1, IsHead
    <3>3. x \in Nat /\ EndOf(p_buf, x) \in Nat
      BY <1>0, <3>2, BlockEnd
    <3> QED BY <3>1, <3>2, <3>3
  <2>2. CASE ~(a < gosub_tos) /\ Owner(p_buf, prog) # prog
    <3> DEFINE h == Owner(p_buf, prog)
    <3>1. Op(p_buf, prog) = "ELSEIF"
      BY <2>2, OwnerOfOther
    <3>2. h \in Heads(p_buf, prog) /\ Opens(p_buf, h) /\ h \in Nat
      BY <1>0, <3>1, OwnerOfElseif
    <3>3. h < prog /\ prog <= EndOf(p_buf, h) /\ EndOf(p_buf, h) \in Nat
      BY <1>0, <3>2, IsHead, BlockEnd
    <3>4. x \in Heads(p_buf, h)
      BY <1>5, <1>6, <2>2
    <3> HIDE DEF h
    <3>5. Opens(p_buf, x) /\ x < h /\ h <= EndOf(p_buf, x)
      BY <1>0, <3>2, <3>4, IsHead
    <3>6. x \in Nat /\ EndOf(p_buf, x) \in Nat
      BY <1>0, <3>5, BlockEnd
    <3>7. h # EndOf(p_buf, x)
      <4>1. Op(p_buf, h) \in Openers /\ p_buf[x].op \in Openers
        BY <3>2, <3>5 DEF Opens, Op
      <4>2. Op(p_buf, EndOf(p_buf, x)) = Close[p_buf[x].op]
        BY <1>0, <3>5, BlockEnd
      <4> QED BY <4>1, <4>2, CloseWords
    <3>8. EndOf(p_buf, h) < EndOf(p_buf, x)
      <4>1. h < EndOf(p_buf, x)
        BY <3>2, <3>5, <3>6, <3>7
      <4> QED BY <1>0, <3>2, <3>5, <4>1, InnerEnd
    <3>9. x <= prog /\ prog <= EndOf(p_buf, x)
      BY <1>0, <3>2, <3>3, <3>5, <3>6, <3>8
    <3>10. line(a) = prog
      BY <2>2
    <3> QED BY <3>5, <3>6, <3>9, <3>10
  <2> QED BY <2>1, <2>2
<1>7. CASE i = j
  <2>1. k < l
    BY <1>0, <1>4, <1>7
  <2>2. l <= EndOf(p_buf, k) /\ EndOf(p_buf, k) \in Nat
    <3>1. Blocks[i] = Heads(p_buf, IF i < gosub_tos THEN line(i) ELSE Owner(p_buf, prog))
      BY <1>4, <1>5
    <3> DEFINE z == IF i < gosub_tos THEN line(i) ELSE Owner(p_buf, prog)
    <3>2. z \in Nat
      BY <1>4, <1>5, OwnerLine
    <3>3. k \in Heads(p_buf, z) /\ l \in Heads(p_buf, z)
      BY <1>4, <1>7, <3>1
    <3> HIDE DEF z
    <3>4. z <= EndOf(p_buf, k) /\ l < z
      BY <1>0, <3>2, <3>3, IsHead
    <3>5. EndOf(p_buf, k) \in Nat
      BY <1>0, <1>2, BlockEnd
    <3> QED BY <1>2, <3>2, <3>4, <3>5
  <2>3. l \in Block(p_buf, k)
    BY <1>2, <2>1, <2>2 DEF Block
  <2>4. k \in DOMAIN p_buf /\ l \in DOMAIN p_buf
    BY <1>2 DEF Counts
  <2>5. p_buf[k].var # p_buf[l].var
    BY <1>2, <2>1, <2>3, <2>4 DEF Apart
  <2> QED BY <2>5 DEF k, l
<1>8. CASE i < j
  <2> DEFINE a == i + 1
             c == gosub_stack[a].line
  <2>1. a \in 2 .. gosub_tos /\ j \in 2 .. gosub_tos /\ a <= j /\ i < gosub_tos
    BY <1>0, <1>4, <1>8
  <2>2. c = line(i)
    BY <2>1
  <2> HIDE DEF line, a
  <2>3. k <= c /\ c <= EndOf(p_buf, k) /\ EndOf(p_buf, k) \in Nat
    BY <1>2, <1>4, <1>6, <2>2
  <2>4. /\ c \in Nat /\ Called(p_buf, c) /\ Target(a) \in Nat /\ p_buf[c].to = Target(a)
    BY <1>0, <2>1, Targets DEF Target
  <2> HIDE DEF c
  <2>5. c \in Block(p_buf, k)
    BY <1>2, <2>3, <2>4 DEF Block
  <2>6. c < Target(a)
    BY <2>4 DEF Apart, Called
  <2>7. Target(a) <= Target(j) /\ Target(j) \in Nat /\ Around(p_buf, Openers, Target(j)) = {}
    <3>1. Target(j) \in Nat /\ Around(p_buf, Openers, Target(j)) = {}
      BY <1>0, <2>1, Targets
    <3>2. CASE a = j
      BY <2>4, <3>1, <3>2
    <3>3. CASE a < j
      BY <2>1, <3>1, <3>3 DEF Deeper
    <3> QED BY <1>0, <2>1, <3>1, <3>2, <3>3
  <2>8. Target(j) < l
    <3>1. Target(j) <= line(j)
      <4>1. Here(j) = line(j)
        BY <1>0, <2>1 DEF Here, line
      <4> QED BY <2>1, <4>1 DEF Deeper
    <3>2. l <= line(j) /\ line(j) <= EndOf(p_buf, l)
      BY <1>2, <1>4, <1>6
    <3>3. line(j) \in Nat
      BY <1>4, <1>5
    <3> DEFINE t == Target(j)  z == line(j)
    <3>4. t \in Nat /\ z \in Nat /\ t <= z /\ l <= z /\ z <= EndOf(p_buf, l)
          /\ Around(p_buf, Openers, t) = {}
      BY <2>7, <3>1, <3>2, <3>3
    <3> HIDE DEF t, z
    <3>5. t < l
      BY <1>0, <1>2, <3>4, BlockBehind
    <3> QED BY <3>5 DEF t
  <2>9. k < l /\ p_buf[c].to <= l
    BY <1>2, <2>3, <2>4, <2>6, <2>7, <2>8
  <2>10. k \in DOMAIN p_buf /\ l \in DOMAIN p_buf
    BY <1>2 DEF Counts
  <2>11. p_buf[k].var # p_buf[l].var
    BY <1>2, <2>4, <2>5, <2>9, <2>10 DEF Apart
  <2> QED BY <2>11 DEF k, l
<1> QED BY <1>4, <1>7, <1>8

LEMMA CountersAre ==
  Ready /\ CallsKept /\ Straight(p_buf) /\ Apart(p_buf) /\ Deeper => CountersApart
<1> SUFFICES ASSUME Ready, CallsKept, Straight(p_buf), Apart(p_buf), Deeper PROVE CountersApart
  OBVIOUS
<1>1. Counting \in SUBSET Nat
  BY ReadyFacts DEF Counting
<1>2. ASSUME NEW m \in Counting, NEW n \in Counting, m # n
      PROVE  p_buf[selcyclstack[m].line].var # p_buf[selcyclstack[n].line].var
  <2>1. m \in Nat /\ n \in Nat
    BY <1>1
  <2>2. m < n \/ n < m
    BY <1>2, <2>1
  <2> QED BY <2>2, CountersOf
<1> QED BY <1>2 DEF CountersApart

LEMMA CountersStay ==
  (Ready /\ CallsKept /\ Straight(p_buf) /\ Apart(p_buf) /\ Deeper)' => CountersApart'
BY CountersAre, PTL

\* END stands in main.
LEMMA EndInMain ==
  ASSUME Sure, Apart(p_buf), Deeper, Op(p_buf, prog) = "END"
  PROVE  gosub_tos = 1
<1>0. /\ p_buf \in Program /\ Tidy(p_buf) /\ prog \in Nat /\ prog \in DOMAIN p_buf
      /\ gosub_tos \in Nat \ {0} /\ CallsKept /\ Straight(p_buf)
  BY SureFacts, ReadyFacts DEF Sure
<1> SUFFICES ASSUME gosub_tos # 1 PROVE FALSE
  OBVIOUS
<1> DEFINE t == gosub_tos
           l == gosub_stack[t].line
<1>1. t \in 2 .. gosub_tos
  BY <1>0
<1>2. /\ Called(p_buf, l) /\ Target(t) \in Nat /\ Target(t) = p_buf[l].to
  BY <1>0, <1>1, Targets DEF Target
<1>3. Target(t) <= prog
  BY <1>1 DEF Deeper, Here
<1>4. p_buf[prog].op = "END"
  BY <1>0 DEF Op
<1> HIDE DEF l
<1>5. prog < Target(t)
  BY <1>0, <1>2, <1>4 DEF Apart, Called
<1> QED BY <1>0, <1>2, <1>3, <1>5

-----------------------------------------------------------------------------
(* What a step keeps. *)

LEMMA StayClear ==
  ASSUME Sure, Deeper, IInv', Stay, fate' = "run", err' = 0
  PROVE  Clear'
<1>0. /\ p_buf \in Program /\ Tidy(p_buf) /\ Text(p_buf) /\ Straight(p_buf) /\ CallsKept
      /\ prog \in Nat /\ prog \in DOMAIN p_buf /\ gosub_tos \in Nat \ {0}
      /\ Len(running) = gosub_tos /\ Ready
  BY SureFacts, ReadyFacts DEF Sure
<1>1. /\ Near /\ p_buf' = p_buf /\ gosub_tos' = gosub_tos /\ gosub_stack' = gosub_stack
      /\ running' = running /\ Op(p_buf, prog) # "ENDSUB" /\ prog' \in Nat \ {0}
  BY <1>0, StayKept, StaySame DEF Kept, stacks, IInv, TypeOK
<1>2. /\ Len(p_buf) \in Nat /\ DOMAIN p_buf = 1 .. Len(p_buf) /\ Op(p_buf, Len(p_buf)) = "ENDSUB"
  BY <1>0, Lines DEF Straight
<1>3. CASE prog' = prog + 1
  <2>1. prog' \in DOMAIN p_buf
    BY <1>0, <1>1, <1>2, <1>3
  <2>2. Deeper'
    <3> SUFFICES ASSUME NEW i \in 2 .. gosub_tos PROVE Target(i) <= Here(i)'
      BY <1>1 DEF Deeper, Target
    <3>1. Target(i) <= Here(i) /\ Target(i) \in Nat
      BY <1>0, Targets DEF Deeper
    <3> QED BY <1>0, <1>1, <1>3, <3>1 DEF Here
  <2> QED BY <1>0, <1>1, <2>1, <2>2 DEF Clear
<1>4. ASSUME NEW k, Opens(p_buf, k), k <= prog, prog <= EndOf(p_buf, k),
             k < prog', prog' <= EndOf(p_buf, k) + 1
      PROVE  Clear'
  <2>1. /\ k \in Nat /\ EndOf(p_buf, k) \in Nat /\ EndOf(p_buf, k) <= Len(p_buf)
        /\ Op(p_buf, EndOf(p_buf, k)) # "ENDSUB"
    <3>1. /\ k \in Nat /\ EndOf(p_buf, k) \in Nat /\ EndOf(p_buf, k) <= Len(p_buf)
          /\ Op(p_buf, EndOf(p_buf, k)) = Close[p_buf[k].op]
      BY <1>0, <1>4, BlockEnd
    <3>2. p_buf[k].op \in Openers
      BY <1>4 DEF Opens
    <3> QED BY <1>2, <3>1, <3>2 DEF Close, Openers
  <2>2. prog' \in DOMAIN p_buf
    BY <1>1, <1>2, <1>4, <2>1
  <2>3. Deeper'
    <3> SUFFICES ASSUME NEW i \in 2 .. gosub_tos PROVE Target(i) <= Here(i)'
      BY <1>1 DEF Deeper, Target
    <3>1. /\ Target(i) <= Here(i) /\ Target(i) \in Nat
          /\ Around(p_buf, Openers, Target(i)) = {}
      BY <1>0, Targets DEF Deeper
    <3>2. CASE i # gosub_tos
      BY <1>1, <3>1, <3>2 DEF Here
    <3>3. CASE i = gosub_tos
      <4> DEFINE t == Target(i)
      <4>1. t \in Nat /\ t <= prog /\ Around(p_buf, Openers, t) = {} /\ Here(i)' = prog'
        BY <1>1, <3>1, <3>3 DEF Here
      <4> HIDE DEF t
      <4>2. t < k
        BY <1>0, <1>4, <4>1, BlockBehind
      <4>3. t <= prog'
        BY <1>1, <1>4, <2>1, <4>1, <4>2
      <4> QED BY <4>1, <4>3 DEF t
    <3> QED BY <3>2, <3>3
  <2> QED BY <1>0, <1>1, <2>2, <2>3 DEF Clear
<1> QED BY <1>1, <1>3, <1>4 DEF Near

LEMMA GotoClear ==
  ASSUME Sure, ExecGoto, fate' = "run", err' = 0
  PROVE  Clear'
<1> DEFINE to == p_buf[prog].to
<1>0. /\ p_buf \in Program /\ Tidy(p_buf) /\ Text(p_buf) /\ Straight(p_buf)
      /\ prog \in Nat /\ prog \in DOMAIN p_buf /\ fate = "run" /\ err = 0
      /\ Len(running) = gosub_tos /\ GotoApart
  BY SureFacts DEF Sure
<1>1. p_buf[prog].op = "GOTO"
  BY <1>0 DEF ExecGoto, Reads, Op
<1>2. to # 0 /\ to \in DOMAIN p_buf
  BY <1>0, <1>1 DEF Straight, Program
<1>3. Goto(to)
  BY <1>0 DEF ExecGoto, Error, Lost
<1>4. /\ p_buf' = p_buf /\ prog' = to /\ running' = running /\ gosub_tos' = gosub_tos
  BY <1>3 DEF Goto, stacks
<1>5. gosub_tos = 1
  <2>1. PICK e : Parted(e)
    BY <1>0, <1>1 DEF GotoApart
  <2>2. prog < e /\ e \in Nat
    BY <1>0, <1>1, <2>1, Lines DEF Parted
  <2>3. gosub_tos # 1 => prog > e
    BY <2>1 DEF Parted
  <2> QED BY <1>0, <2>2, <2>3
<1>6. Deeper'
  <2>1. gosub_tos' = 1 /\ \A i \in 2 .. 1 : FALSE
    BY <1>4, <1>5
  <2> QED BY <2>1 DEF Deeper
<1> QED BY <1>0, <1>2, <1>4, <1>6 DEF Clear

LEMMA CallClear ==
  ASSUME Sure, Apart(p_buf), Deeper, ExecCall \/ Gosub, fate' = "run", err' = 0
  PROVE  Clear'
<1> SUFFICES ASSUME NEW n, n = gosub_tos + 1 PROVE Clear'
  OBVIOUS
<1> DEFINE to == p_buf[prog].to
<1>0. /\ p_buf \in Program /\ Tidy(p_buf) /\ TypeOK /\ Straight(p_buf) /\ CallsKept
      /\ prog \in Nat /\ prog \in DOMAIN p_buf /\ fate = "run" /\ err = 0
      /\ gosub_tos \in Nat \ {0} /\ gosub_tos < SUB_NEST /\ Len(running) = gosub_tos
  BY SureFacts, ReadyFacts DEF Sure
<1>1. Called(p_buf, prog) /\ (ExecCall => p_buf[prog].op = "CALL")
  BY <1>0 DEF ExecCall, Gosub, Reads, Op, Called
<1>2. /\ to # 0 /\ to \in DOMAIN p_buf /\ to \in Nat /\ DOMAIN p_buf = 1 .. Len(p_buf)
      /\ Len(p_buf) \in Nat /\ Op(p_buf, Len(p_buf)) = "ENDSUB" /\ prog < to
  BY <1>0, <1>1 DEF Straight, Program, Called, Apart
<1>3. Enter(RestOf(prog))
  <2>1. CASE ExecCall
    <3>1. p_buf[prog].parens
      BY <1>0, <1>1, <2>1 DEF Tidy
    <3> QED BY <1>2, <2>1, <3>1 DEF ExecCall
  <2>2. CASE Gosub
    BY <1>2, <2>2 DEF Gosub
  <2> QED BY <2>1, <2>2
<1>4. /\ p_buf' = p_buf /\ prog' = Entry(p_buf, to) /\ gosub_tos' = n
      /\ gosub_stack' = [gosub_stack EXCEPT ![n] = RestOf(prog)] /\ n # SUB_NEST
      /\ running' = Append(running, Op(p_buf, prog))
  BY <1>3 DEF Enter, GosubPush
<1>5. n \in 1 .. SUB_NEST - 1 /\ n \in Nat /\ gosub_tos = n - 1
  BY <1>0, <1>4, NestAssumption
<1>6. /\ gosub_stack'[n] = RestOf(prog)
      /\ \A i \in 1 .. gosub_tos : gosub_stack'[i] = gosub_stack[i]
  <2>1. gosub_stack \in [1 .. SUB_NEST - 1 -> Place]
    BY <1>0 DEF TypeOK
  <2> QED BY <1>0, <1>4, <1>5, <2>1
<1>7. prog' \in DOMAIN p_buf /\ to <= prog' /\ prog' \in Nat
  BY <1>2, <1>4 DEF Entry
<1>8. Len(running') = gosub_tos'
  BY <1>0, <1>4, <1>5 DEF TypeOK
<1>9. Target(n)' = to
  BY <1>4, <1>6 DEF Target, RestOf
<1>10. ASSUME NEW i \in 2 .. gosub_tos
       PROVE  /\ Target(i)' = Target(i) /\ Target(i) \in Nat /\ Here(i)' = Here(i)
              /\ Target(i) <= prog
  <2>1. Target(i)' = Target(i)
    BY <1>4, <1>6 DEF Target
  <2>2. Target(i) \in Nat /\ Target(i) <= Here(i)
    BY <1>0, Targets DEF Deeper
  <2>3. Here(i)' = Here(i)
    <3>1. CASE i = gosub_tos
      <4>1. i # gosub_tos' /\ i + 1 = n
        BY <1>4, <1>5, <3>1
      <4> QED BY <1>6, <3>1, <4>1 DEF Here, RestOf
    <3>2. CASE i # gosub_tos
      <4>1. i # gosub_tos' /\ i + 1 \in 1 .. gosub_tos
        BY <1>0, <1>4, <1>5, <3>2
      <4> QED BY <1>6, <3>2, <4>1 DEF Here
    <3> QED BY <3>1, <3>2
  <2>4. Target(i) <= prog
    <3> DEFINE t == gosub_tos
    <3>1. t \in 2 .. gosub_tos /\ Here(t) = prog
      BY <1>0 DEF Here
    <3>2. Target(t) <= prog /\ Target(t) \in Nat
      BY <1>0, <3>1, Targets DEF Deeper
    <3>3. CASE i = t
      BY <3>2, <3>3
    <3>4. CASE i # t
      <4>1. Target(i) <= Target(t)
        BY <1>0, <3>1, <3>4 DEF Deeper
      <4> QED BY <1>0, <2>2, <3>2, <4>1
    <3> QED BY <3>3, <3>4
  <2> QED BY <2>1, <2>2, <2>3, <2>4
<1> HIDE DEF to
<1>11. Deeper'
  <2>1. \A i : i \in 2 .. gosub_tos' => i \in 2 .. gosub_tos \/ i = n
    BY <1>4, <1>5
  <2>2. ASSUME NEW i \in 2 .. gosub_tos' PROVE Target(i)' <= Here(i)'
    <3>1. CASE i = n
      BY <1>4, <1>7, <1>9, <3>1 DEF Here
    <3>2. CASE i \in 2 .. gosub_tos
      BY <1>10, <3>2 DEF Deeper
    <3> QED BY <2>1, <3>1, <3>2
  <2>3. ASSUME NEW i \in 2 .. gosub_tos', NEW j \in 2 .. gosub_tos', i < j
        PROVE  Target(i)' <= Target(j)'
    <3>1. i \in 2 .. gosub_tos
      BY <1>4, <1>5, <2>3
    <3>2. CASE j = n
      BY <1>0, <1>2, <1>9, <1>10, <3>1, <3>2
    <3>3. CASE j \in 2 .. gosub_tos
      <4>1. Target(i) <= Target(j)
        BY <2>3, <3>1, <3>3 DEF Deeper
      <4> QED BY <1>10, <3>1, <3>3, <4>1
    <3> QED BY <2>1, <3>2, <3>3
  <2> QED BY <2>2, <2>3 DEF Deeper
<1> QED BY <1>4, <1>7, <1>8, <1>11 DEF Clear

LEMMA ReturnClear ==
  ASSUME Sure, Deeper, Greturn, fate' = "run", err' = 0
  PROVE  Clear'
<1> DEFINE line == gosub_stack[gosub_tos].line
<1>0. /\ p_buf \in Program /\ Tidy(p_buf) /\ TypeOK /\ Straight(p_buf) /\ CallsKept
      /\ prog \in Nat /\ prog \in DOMAIN p_buf /\ fate = "run" /\ err = 0
      /\ gosub_tos \in Nat \ {0} /\ Len(running) = gosub_tos
  BY SureFacts, ReadyFacts DEF Sure
<1>1. gosub_tos \in 2 .. gosub_tos
  BY <1>0 DEF Greturn, LeaveActivation
<1>2. gosub_stack[gosub_tos].rest /\ line \in Nat /\ Op(p_buf, line) \in {"CALL", "GOSUB"}
  BY <1>0, <1>1 DEF CallsKept
<1>3. /\ p_buf' = p_buf /\ prog' = line + 1 /\ gosub_tos' = gosub_tos - 1
      /\ gosub_stack' = gosub_stack /\ running' = Front(running)
  BY <1>0, <1>2 DEF Greturn, LeaveActivation
<1>4. prog' \in DOMAIN p_buf
  <2> HIDE DEF line
  <2> SUFFICES ASSUME NEW l \in Nat, l = line, NEW last \in Nat, last = Len(p_buf)
               PROVE  prog' \in DOMAIN p_buf
    BY <1>0, <1>2 DEF Program
  <2>1. DOMAIN p_buf = 1 .. last /\ Op(p_buf, last) = "ENDSUB"
    BY <1>0 DEF Straight, Program
  <2>2. l \in 1 .. last /\ l # last
    BY <1>2, <2>1 DEF Op
  <2>3. l + 1 \in 1 .. last
    BY <2>2
  <2> QED BY <1>3, <2>1, <2>3
<1>5. Len(running') = gosub_tos'
  <2>1. running \in Seq({"SUB", "CALL", "GOSUB"}) /\ Len(running) # 0
    BY <1>0 DEF TypeOK
  <2> QED BY <1>0, <1>3, <2>1 DEF Front
<1>6. Deeper'
  <2>1. \A i : i \in 2 .. gosub_tos' => i \in 2 .. gosub_tos /\ i # gosub_tos
    BY <1>0, <1>3
  <2>2. \A i : Target(i)' = Target(i)
    BY <1>3 DEF Target
  <2>3. ASSUME NEW i \in 2 .. gosub_tos' PROVE Target(i)' <= Here(i)'
    <3>1. /\ Target(i) <= Here(i) /\ Target(i) \in Nat /\ Here(i) = gosub_stack[i + 1].line
      BY <1>0, <2>1, Targets DEF Deeper, Here
    <3>2. CASE i = gosub_tos'
      <4>1. i + 1 = gosub_tos
        BY <1>0, <1>3, <3>2
      <4> QED BY <1>2, <1>3, <2>2, <3>1, <3>2, <4>1 DEF Here
    <3>3. CASE i # gosub_tos'
      BY <1>3, <2>2, <3>1, <3>3 DEF Here
    <3> QED BY <3>2, <3>3
  <2> QED BY <2>1, <2>2, <2>3 DEF Deeper
<1> QED BY <1>3, <1>4, <1>5, <1>6 DEF Clear

\* In these programs only main ends.
LEMMA ExecClear ==
  ASSUME Sure, Apart(p_buf), Deeper, IInv', Exec, fate' = "run", err' = 0
  PROVE  Clear'
<1>1. CASE ExecEnd
  <2>1. Op(p_buf, prog) = "END" /\ Len(running) = gosub_tos
    BY <1>1 DEF ExecEnd, Reads, Sure
  <2>2. gosub_tos = 1
    BY <2>1, EndInMain
  <2> QED BY <1>1, <2>1, <2>2 DEF ExecEnd, LeaveActivation
<1> QED BY <1>1, StayClear, GotoClear, CallClear, ReturnClear DEF Exec, Stay

-----------------------------------------------------------------------------
(* The theorem. *)

\* The inductive invariant.
ClearInv ==
  /\ NestInv /\ Straight(p_buf) /\ Apart(p_buf)
  /\ fate = "run" => err = 0 /\ Clear

LEMMA ClearInit ==
  ASSUME Init, \A p \in Programs : Tidy(p) /\ GotoInMain(p) /\ Straight(p) /\ Apart(p)
  PROVE  ClearInv /\ Structured!Init
<1>1. NestInv
  BY NestInit
<1>2. /\ p_buf \in Program /\ Tidy(p_buf) /\ Straight(p_buf) /\ Apart(p_buf) /\ TypeOK
  BY <1>1, TextAssumption DEF Init, NestInv, IInv
<1>3. /\ prog = Entry(p_buf, 1) /\ gosub_tos = 1 /\ running = <<"SUB">> /\ fate = "run"
      /\ err = 0 /\ selcyclstack = <<>>
  BY DEF Init
<1>4. prog \in DOMAIN p_buf
  <2>1. /\ Len(p_buf) \in Nat \ {0} /\ DOMAIN p_buf = 1 .. Len(p_buf)
        /\ Op(p_buf, Len(p_buf)) = "ENDSUB"
    BY <1>2 DEF Straight, Program
  <2> QED BY <1>3, <2>1 DEF Entry
<1>5. Deeper
  <2>1. \A i \in 2 .. gosub_tos : FALSE
    BY <1>3
  <2> QED BY <2>1 DEF Deeper
<1>6. ClearInv
  BY <1>1, <1>2, <1>3, <1>4, <1>5 DEF ClearInv, Clear
<1>7. Owner(p_buf, prog) = prog
  <2>1. Text(p_buf)
    BY <1>2, TidyText
  <2>2. Heads(p_buf, 1) = {}
    <3>1. Heads(p_buf, 1) \in SUBSET (1 .. Len(p_buf)) /\ Len(p_buf) \in Nat
      BY <2>1, HeadsAreLines
    <3>2. \A k \in Heads(p_buf, 1) : k < 1
      BY DEF Heads
    <3> QED BY <3>1, <3>2
  <2>3. Op(p_buf, 1) # "ELSEIF"
    BY <1>2, <2>2, OwnerOfElseif
  <2>4. Op(p_buf, 1) = "SUB" => Owner(p_buf, 1 + 1) = 1 + 1
    BY <1>2, OwnerBehind
  <2> QED BY <1>3, <2>3, <2>4, OwnerOfOther DEF Entry
<1>8. At = Structured!Entry(p_buf, 1)
  BY <1>3, <1>7, SameOp DEF At
<1>9. Loops = <<>>
  <2>1. Counting = {}
    BY <1>3 DEF Counting
  <2>2. Cardinality({}) = 0
    BY FS_EmptySet
  <2>3. 1 .. Cardinality(Counting) = {}
    BY <2>1, <2>2
  <2> QED BY <2>3 DEF Loops
<1>10. Calls = <<>>
  BY <1>3, CallsNone
<1>11. p_buf \in Structured!Program
  BY <1>2 DEF Structured!Program, Program, Structured!Line, Line, Structured!Ops, Ops,
              Structured!Openers, Openers, Structured!Close, Close
<1> QED BY <1>3, <1>6, <1>8, <1>9, <1>10, <1>11 DEF Structured!Init

LEMMA ClearStep ==
  ASSUME ClearInv, WithinLimits', [Next]_state
  PROVE  ClearInv' /\ [Structured!Next]_(Structured!vars)
<1>1. NestInv /\ NestInv' /\ IInv' /\ p_buf' = p_buf
  BY NestStep, TextStays DEF ClearInv, NestInv
<1>2. CASE Exec
  <2>1. fate = "run" /\ err = 0
    BY <1>2, Executes
  <2>2. Sure /\ Apart(p_buf) /\ Deeper /\ CountersApart
    <3>1. Sure /\ Apart(p_buf) /\ Deeper
      BY <1>1, <2>1 DEF ClearInv, NestInv, Clear, Sure, Ready, Guarded
    <3> QED BY <3>1, CountersAre DEF Sure
  <2>3. ASSUME fate' = "run", err' = 0 PROVE Clear' /\ CountersApart'
    <3>1. Clear'
      BY <1>1, <1>2, <2>2, <2>3, ExecClear
    <3>2. (Ready /\ CallsKept /\ Straight(p_buf) /\ Apart(p_buf) /\ Deeper)'
      BY <1>1, <2>2, <2>3, <3>1 DEF ClearInv, NestInv, Guarded, Ready, Clear
    <3> QED BY <3>1, <3>2, CountersStay
  <2>4. Right
    BY <1>1, <1>2, <2>2, <2>3, EndInMain, ExecRight
  <2> QED BY <1>1, <2>3, <2>4 DEF ClearInv, Right
<1>3. ~Unwind
  <2> SUFFICES ASSUME Unwind PROVE FALSE
    OBVIOUS
  <2>1. prog \in DOMAIN p_buf /\ err = 0 /\ Op(p_buf, prog) = "FINISHED"
    BY DEF Unwind, ClearInv, Clear
  <2>2. p_buf \in Seq(Line)
    BY <1>1 DEF NestInv, IInv, TypeOK, Program
  <2>3. p_buf[prog] \in Line
    BY <2>1, <2>2
  <2>4. "FINISHED" \in Ops
    BY <2>1, <2>3 DEF Op, Line
  <2> QED BY <2>4 DEF Ops, Openers, Close
<1>4. CASE Stopped \/ UNCHANGED state
  <2>1. UNCHANGED <<p_buf, prog, err, selcyclstack, stacks, vars, running, fate>>
    BY <1>4 DEF Stopped, state
  <2>2. ClearInv'
    BY <1>1, <2>1 DEF ClearInv, Clear, Deeper, Target, Here, stacks
  <2>3. Structured!vars' = Structured!vars
    <3>1. At' = At /\ Calls' = Calls
      BY <2>1 DEF At, Calls, CallLine, stacks
    <3>2. Loops' = Loops
      BY <2>1, LoopsSame
    <3> QED BY <2>1, <3>1, <3>2 DEF Structured!vars
  <2> QED BY <2>2, <2>3
<1> QED BY <1>2, <1>3, <1>4 DEF Next

\* The statements go where structured BASIC says: for every program that keeps clear of
\* what the code does in another way, whatever the conditions are and for all sizes of the
\* stacks, as long as no block or call finds a stack full, each step of call_interpreter is
\* the step that the text of the program says, or stands still.
THEOREM FlowImplementsStructured ==
  ASSUME \A p \in Programs : Tidy(p) /\ GotoInMain(p) /\ Straight(p) /\ Apart(p)
  PROVE  Spec /\ []WithinLimits => ImplementsStructured
<1>1. Init => ClearInv /\ Structured!Init
  BY ClearInit
<1>2. ClearInv /\ WithinLimits' /\ [Next]_state
        => ClearInv' /\ [Structured!Next]_(Structured!vars)
  BY ClearStep
<1> QED BY <1>1, <1>2, PTL DEF Spec, ImplementsStructured, Structured!Spec
=============================================================================
