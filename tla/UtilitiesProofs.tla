--------------------------- MODULE UtilitiesProofs ---------------------------
(***************************************************************************)
(* Theorems about the containers and the portability layer, for any number *)
(* of nodes, pairs, iterators, addresses and threads.                      *)
(***************************************************************************)
EXTENDS MCUtilities, NaturalsInduction, WellFoundedInduction, SequenceTheorems, FiniteSetTheorems, TLAPS

-----------------------------------------------------------------------------
(* Numbers and loops.                                                      *)

\* Of a set of numbers that is not empty one is the least.
LEMMA LeastNumber ==
  ASSUME NEW S, S \subseteq Nat, S # {}
  PROVE  \E n \in S : \A m \in S : n <= m
<1>1. PICK n \in S : \A m \in S : ~(<<m, n>> \in OpToRel(<, Nat))
  BY WFMin, NatLessThanWellFounded, Zenon
<1>2. \A m \in S : ~(m < n)
  BY <1>1, Zenon DEF OpToRel
<1> QED
  BY <1>2

\* Min is that number.
LEMMA MinIsLeast ==
  ASSUME NEW S, S \subseteq Nat, S # {}
  PROVE  Min(S) \in S /\ \A m \in S : Min(S) <= m
BY LeastNumber, Zenon DEF Min

\* Induction up to Z, for the members of a set.
LEMMA UpTo ==
  ASSUME NEW Z \in Nat, NEW S, 0 \in S, \A i \in 1..Z : i - 1 \in S => i \in S
  PROVE  \A i \in 0..Z : i \in S
<1> DEFINE Bad == {i \in 0..Z : i \notin S}
<1>1. SUFFICES ASSUME Bad # {} PROVE FALSE
  OBVIOUS
<1>2. PICK n \in Bad : \A m \in Bad : n <= m
  <2>1. Bad \subseteq Nat
    OBVIOUS
  <2> HIDE DEF Bad
  <2> QED
    BY <1>1, <2>1, LeastNumber, Zenon
<1>3. n \in 1..Z /\ n - 1 \in 0..Z
  BY <1>2
<1>4. n - 1 \notin Bad
  BY <1>2, <1>3
<1> QED
  BY <1>2, <1>3, <1>4

\* The values a loop of Z turns goes through from v on, with the steps of h.
Loop(g, Z, v, h) ==
    g = [i \in 0..Z |-> IF i = 0 THEN v ELSE h[<<i, g[i - 1]>>]]

\* A loop whose steps stay in R has such values.
LEMMA Iterates ==
  ASSUME NEW Z \in Nat, NEW R, NEW v \in R, NEW h \in [(1..Z) \X R -> R]
  PROVE  \E g : Loop(g, Z, v, h) /\ g \in [0..Z -> R]
<1> DEFINE Upto(n, g) == g[0] = v /\ \A i \in 1..n : g[i] = h[<<i, g[i - 1]>>]
           S == {n \in Nat : n <= Z => \E g \in [0..n -> R] : Upto(n, g)}
<1>1. 0 \in S
  <2> DEFINE g == [i \in 0..0 |-> v]
  <2>1. g \in [0..0 -> R] /\ Upto(0, g)
    OBVIOUS
  <2> QED
    BY <2>1, Zenon
<1>2. ASSUME NEW n \in 1..Z, n - 1 \in S PROVE n \in S
  <2>1. PICK f \in [0..(n - 1) -> R] : Upto(n - 1, f)
    BY <1>2
  <2> DEFINE g == [i \in 0..n |-> IF i = n THEN h[<<n, f[n - 1]>>] ELSE f[i]]
  <2>2. f[n - 1] \in R /\ <<n, f[n - 1]>> \in (1..Z) \X R
    BY <2>1
  <2>3. g \in [0..n -> R]
    BY <2>2
  <2>4. g[0] = v
    BY <2>1
  <2>5. ASSUME NEW i \in 1..n PROVE g[i] = h[<<i, g[i - 1]>>]
    <3>1. g[i - 1] = f[i - 1]
      OBVIOUS
    <3>2. i # n => g[i] = f[i] /\ i \in 1..(n - 1)
      OBVIOUS
    <3>3. i = n => g[i] = h[<<n, f[n - 1]>>]
      OBVIOUS
    <3> HIDE DEF g
    <3> QED
      BY <2>1, <3>1, <3>2, <3>3
  <2> HIDE DEF g
  <2> QED
    BY <2>3, <2>4, <2>5
<1>3. Z \in S
  <2> HIDE DEF S
  <2> QED
    BY <1>1, <1>2, UpTo
<1>4. PICK g \in [0..Z -> R] : Upto(Z, g)
  BY <1>3
<1>5. \A i \in 0..Z : g[i] = IF i = 0 THEN v ELSE h[<<i, g[i - 1]>>]
  BY <1>4
<1>6. g = [i \in 0..Z |-> IF i = 0 THEN v ELSE h[<<i, g[i - 1]>>]]
  BY <1>5
<1> QED
  BY <1>6, Zenon DEF Loop
-----------------------------------------------------------------------------
(* The condition variable for Windows.                                     *)

CondStates == {"lock", "check", "unlock", "wait", "blocked", "relock", "put", "signal"}

\* Who does not hold the mutex is not between its two calls, and a consumer
\* that found the queue empty still holds the mutex it found it under.
CondInv ==
    /\ owner \in W!Threads \cup {"nobody"} /\ event \in BOOLEAN /\ items \in Nat
    /\ at \in [W!Threads -> CondStates]
    /\ \A c \in Consumers : at[c] = "unlock" => items = 0
    /\ WakeupKept

LEMMA CondInit == W!Init => CondInv
<1> SUFFICES ASSUME W!Init PROVE CondInv
  OBVIOUS
<1>1. owner = "nobody" /\ event = FALSE /\ items = 0 /\ at \in [W!Threads -> CondStates]
  BY DEF W!Init, CondStates
<1>2. \A t \in W!Threads : at[t] = "lock" /\ t # "nobody"
  BY UtilitiesAssumption DEF W!Init, W!Threads
<1>3. Consumers \subseteq W!Threads
  BY DEF W!Threads
<1>4. \A t \in W!Threads : at[t] \in {"check", "unlock", "put"} <=> owner = t
  BY <1>1, <1>2
<1>5. \A c \in Consumers : at[c] # "unlock"
  BY <1>2, <1>3
<1>6. ~(items > 0) /\ items \in Nat
  BY <1>1
<1>7. WakeupKept
  BY <1>4, <1>6, Zenon DEF WakeupKept
<1> QED
  BY <1>1, <1>5, <1>6, <1>7, Zenon DEF CondInv

LEMMA CondStep == CondInv /\ [W!Next]_condVars => CondInv'
<1> SUFFICES ASSUME CondInv, [W!Next]_condVars PROVE CondInv'
  OBVIOUS
<1> USE UtilitiesAssumption DEF W!Threads, CondStates
<1>1. CASE UNCHANGED condVars
  BY <1>1 DEF condVars, CondInv, WakeupKept
<1>2. CASE W!Producer
  <2>1. CASE at["producer"] = "lock"
    BY <1>2, <2>1 DEF CondInv, WakeupKept, W!Producer, W!WIN_mutex_lock, W!Goto
  <2>2. CASE at["producer"] = "put"
    BY <1>2, <2>2 DEF CondInv, WakeupKept, W!Producer, W!WIN_mutex_unlock, W!Goto
  <2>3. CASE at["producer"] = "signal"
    BY <1>2, <2>3, Zenon DEF CondInv, WakeupKept, W!Producer, W!WIN_cond_signal
  <2> QED
    BY <1>2, <2>1, <2>2, <2>3 DEF W!Producer
<1>3. ASSUME NEW c \in Consumers, W!Consumer(c) PROVE CondInv'
  <2>1. CASE at[c] = "lock"
    BY <1>3, <2>1 DEF CondInv, WakeupKept, W!Consumer, W!WIN_mutex_lock, W!Goto, W!WIN_cond_wait
  <2>2. CASE at[c] = "check"
    BY <1>3, <2>2 DEF CondInv, WakeupKept, W!Consumer, W!WIN_mutex_unlock, W!Goto, W!WIN_cond_wait
  <2>3. CASE at[c] \in {"unlock", "wait", "relock"}
    <3>1. W!WIN_cond_wait(c) /\ UNCHANGED <<items, put>>
      BY <1>3, <2>3 DEF W!Consumer
    <3>2. CASE at[c] = "unlock"
      BY <3>1, <3>2 DEF CondInv, WakeupKept, W!WIN_cond_wait, W!WIN_mutex_unlock, W!Goto
    <3>3. CASE at[c] = "wait"
      BY <3>1, <3>3, Zenon DEF CondInv, WakeupKept, W!WIN_cond_wait, W!Goto
    <3>4. CASE at[c] = "relock"
      BY <3>1, <3>4 DEF CondInv, WakeupKept, W!WIN_cond_wait, W!WIN_mutex_lock, W!Goto
    <3> QED
      BY <2>3, <3>2, <3>3, <3>4
  <2> QED
    BY <1>3, <2>1, <2>2, <2>3 DEF W!Consumer, W!WIN_cond_wait
<1> QED
  BY <1>1, <1>2, <1>3 DEF W!Next

\* Any number of consumers: a signalled item does not lie in the queue with all
\* of them asleep, though __bctbx_WIN_cond_wait is three calls.
THEOREM WakeupHolds == Spec => []WakeupKept
<1>1. Init => CondInv
  BY CondInit DEF Init
<1>2. CondInv /\ [Next]_vars => CondInv'
  BY CondStep DEF Next, Utilities, Logging, vars, utilVars, logVars
<1>3. CondInv => WakeupKept
  BY DEF CondInv
<1> QED
  BY <1>1, <1>2, <1>3, PTL DEF Spec

-----------------------------------------------------------------------------
(* Sequences.                                                              *)

\* A part of a sequence.
LEMMA SubSeqIs ==
  ASSUME NEW S, NEW s \in Seq(S), NEW i \in 1..(Len(s) + 1), NEW j \in 0..Len(s), i <= j + 1
  PROVE  /\ SubSeq(s, i, j) \in Seq(S) /\ Len(SubSeq(s, i, j)) = (j - i) + 1
         /\ \A l \in 1..((j - i) + 1) : SubSeq(s, i, j)[l] = s[(i + l) - 1]
OBVIOUS

\* Removing an element of a sequence moves those behind it.
LEMMA RemoveAtIs ==
  ASSUME NEW S, NEW s \in Seq(S), NEW k \in 1..Len(s)
  PROVE  LET t == SubSeq(s, 1, k - 1) \o SubSeq(s, k + 1, Len(s))
         IN  /\ t \in Seq(S) /\ Len(t) = Len(s) - 1
             /\ \A j \in 1..(Len(s) - 1) : t[j] = IF j < k THEN s[j] ELSE s[j + 1]
<1> DEFINE a == SubSeq(s, 1, k - 1)
           b == SubSeq(s, k + 1, Len(s))
           t == a \o b
<1>1. a \in Seq(S) /\ Len(a) = k - 1 /\ \A j \in 1..(k - 1) : a[j] = s[j]
  BY SubSeqIs
<1>2. b \in Seq(S) /\ Len(b) = Len(s) - k /\ \A j \in 1..(Len(s) - k) : b[j] = s[k + j]
  BY SubSeqIs
<1> HIDE DEF a, b
<1>3. a \in Seq(S) /\ b \in Seq(S) /\ Len(a) = k - 1 /\ Len(b) = Len(s) - k /\ Len(s) \in Nat
  BY <1>1, <1>2
<1>4. t \in Seq(S) /\ Len(t) = Len(a) + Len(b) /\ \A j \in 1..(Len(a) + Len(b)) : t[j] = IF j <= Len(a) THEN a[j] ELSE b[j - Len(a)]
  BY <1>3, ConcatProperties, Zenon
<1> HIDE DEF t
<1>5. Len(t) = Len(s) - 1 /\ Len(a) + Len(b) = Len(s) - 1
  BY <1>3, <1>4
<1>6. ASSUME NEW j \in 1..(Len(s) - 1) PROVE t[j] = IF j < k THEN s[j] ELSE s[j + 1]
  <2>1. CASE j < k
    <3>1. j <= Len(a) /\ j \in 1..(k - 1)
      BY <1>3, <2>1
    <3> QED
      BY <1>1, <1>4, <1>5, <2>1, <3>1, Zenon
  <2>2. CASE ~(j < k)
    <3>1. ~(j <= Len(a)) /\ j - Len(a) \in 1..(Len(s) - k) /\ k + (j - Len(a)) = j + 1
      BY <1>3, <2>2
    <3>2. t[j] = b[j - Len(a)]
      BY <1>4, <1>5, <3>1, Zenon
    <3>3. b[j - Len(a)] = s[k + (j - Len(a))]
      BY <1>2, <3>1, Zenon
    <3> QED
      BY <2>2, <3>1, <3>2, <3>3
  <2> QED
    BY <2>1, <2>2
<1> QED
  BY <1>4, <1>5, <1>6, Zenon DEF t, a, b

\* Inserting one moves those it is put before.
LEMMA InsertAtIs ==
  ASSUME NEW S, NEW s \in Seq(S), NEW k \in 1..Len(s), NEW x \in S
  PROVE  LET t == SubSeq(s, 1, k - 1) \o <<x>> \o SubSeq(s, k, Len(s))
         IN  /\ t \in Seq(S) /\ Len(t) = Len(s) + 1
             /\ \A j \in 1..(Len(s) + 1) : t[j] = IF j < k THEN s[j] ELSE IF j = k THEN x ELSE s[j - 1]
<1> DEFINE a == SubSeq(s, 1, k - 1)
           b == SubSeq(s, k, Len(s))
           c == a \o <<x>>
           t == c \o b
<1>1. a \in Seq(S) /\ Len(a) = k - 1 /\ \A j \in 1..(k - 1) : a[j] = s[j]
  BY SubSeqIs
<1>2. b \in Seq(S) /\ Len(b) = (Len(s) - k) + 1 /\ \A j \in 1..((Len(s) - k) + 1) : b[j] = s[(k + j) - 1]
  BY SubSeqIs
<1> HIDE DEF a, b
<1>3. c \in Seq(S) /\ Len(c) = k /\ c[k] = x /\ \A j \in 1..(k - 1) : c[j] = a[j]
  BY <1>1
<1> HIDE DEF c
<1>4. t \in Seq(S) /\ Len(t) = Len(c) + Len(b) /\ \A j \in 1..(Len(c) + Len(b)) : t[j] = IF j <= Len(c) THEN c[j] ELSE b[j - Len(c)]
  BY <1>2, <1>3, ConcatProperties, Zenon
<1> HIDE DEF t
<1>5. Len(s) \in Nat /\ Len(t) = Len(s) + 1
  BY <1>2, <1>3, <1>4
<1>6. ASSUME NEW j \in 1..(Len(s) + 1) PROVE t[j] = IF j < k THEN s[j] ELSE IF j = k THEN x ELSE s[j - 1]
  <2>0. j \in 1..(Len(c) + Len(b)) /\ Len(c) = k
    BY <1>2, <1>3, <1>5
  <2>1. CASE j <= k
    <3>1. t[j] = c[j]
      BY <1>4, <2>0, <2>1
    <3>2. j # k => j \in 1..(k - 1)
      BY <1>5, <2>1
    <3> QED
      BY <1>1, <1>3, <2>1, <3>1, <3>2
  <2>2. CASE ~(j <= k)
    <3>1. t[j] = b[j - k] /\ j - k \in 1..((Len(s) - k) + 1) /\ (k + (j - k)) - 1 = j - 1
      BY <1>2, <1>3, <1>4, <1>5, <2>2
    <3> QED
      BY <1>2, <2>2, <3>1
  <2> QED
    BY <2>1, <2>2
<1> QED
  BY <1>4, <1>5, <1>6 DEF t, c, a, b

\* An element of a sequence; none is there twice.
In(x, s) == \E i \in DOMAIN s : s[i] = x

Distinct(s) == \A i, j \in DOMAIN s : s[i] = s[j] => i = j

\* The elements of two sequences, one after the other.
LEMMA ConcatElements ==
  ASSUME NEW S, NEW a \in Seq(S), NEW b \in Seq(S)
  PROVE  /\ a \o b \in Seq(S)
         /\ \A x : In(x, a \o b) <=> In(x, a) \/ In(x, b)
         /\ Distinct(a) /\ Distinct(b) /\ (\A x : ~(In(x, a) /\ In(x, b))) => Distinct(a \o b)
<1> DEFINE c == a \o b
<1>1. c \in Seq(S) /\ Len(c) = Len(a) + Len(b)
      /\ \A i \in 1..(Len(a) + Len(b)) : c[i] = IF i <= Len(a) THEN a[i] ELSE b[i - Len(a)]
  BY ConcatProperties
<1>2. DOMAIN a = 1..Len(a) /\ DOMAIN b = 1..Len(b) /\ Len(a) \in Nat /\ Len(b) \in Nat
  OBVIOUS
<1> HIDE DEF c
<1>3. DOMAIN c = 1..(Len(a) + Len(b))
  BY <1>1
<1>4. \A i \in DOMAIN a : i \in DOMAIN c /\ c[i] = a[i]
  BY <1>1, <1>2, <1>3
<1>5. \A i \in DOMAIN b : Len(a) + i \in DOMAIN c /\ c[Len(a) + i] = b[i]
  <2> SUFFICES ASSUME NEW i \in DOMAIN b PROVE Len(a) + i \in DOMAIN c /\ c[Len(a) + i] = b[i]
    OBVIOUS
  <2>1. Len(a) + i \in 1..(Len(a) + Len(b)) /\ ~(Len(a) + i <= Len(a)) /\ (Len(a) + i) - Len(a) = i
    BY <1>2
  <2> QED
    BY <1>1, <1>3, <2>1
<1>6. \A i \in DOMAIN c : (i \in DOMAIN a /\ c[i] = a[i])
                        \/ (i - Len(a) \in DOMAIN b /\ c[i] = b[i - Len(a)] /\ i \notin DOMAIN a)
  <2> SUFFICES ASSUME NEW i \in DOMAIN c, i \notin DOMAIN a PROVE i - Len(a) \in DOMAIN b /\ c[i] = b[i - Len(a)]
    BY <1>4
  <2>1. i \in 1..(Len(a) + Len(b)) /\ ~(i <= Len(a)) /\ i - Len(a) \in 1..Len(b)
    BY <1>2, <1>3
  <2> QED
    BY <1>1, <1>2, <2>1
<1>7. \A x : In(x, c) <=> In(x, a) \/ In(x, b)
  BY <1>4, <1>5, <1>6 DEF In
<1>8. ASSUME Distinct(a), Distinct(b), \A x : ~(In(x, a) /\ In(x, b))
      PROVE  Distinct(c)
  <2> SUFFICES ASSUME NEW i \in DOMAIN c, NEW j \in DOMAIN c, c[i] = c[j] PROVE i = j
    BY DEF Distinct
  <2>1. CASE i \in DOMAIN a /\ j \in DOMAIN a
    BY <1>4, <1>8, <2>1 DEF Distinct
  <2>2. CASE i \notin DOMAIN a /\ j \notin DOMAIN a
    <3>1. i - Len(a) = j - Len(a)
      BY <1>6, <1>8, <2>2 DEF Distinct
    <3> QED
      BY <1>2, <1>3, <3>1
  <2>3. CASE i \in DOMAIN a /\ j \notin DOMAIN a
    BY <1>4, <1>6, <1>8, <2>3, Zenon DEF In
  <2>4. CASE i \notin DOMAIN a /\ j \in DOMAIN a
    BY <1>4, <1>6, <1>8, <2>4 DEF In
  <2> QED
    BY <2>1, <2>2, <2>3, <2>4
<1> QED
  BY <1>1, <1>7, <1>8 DEF c

\* A sequence of one element, and an empty one.
LEMMA OneElement ==
  ASSUME NEW S, NEW x \in S
  PROVE  /\ <<x>> \in Seq(S) /\ Distinct(<<x>>) /\ \A y : In(y, <<x>>) <=> y = x
         /\ <<>> \in Seq(S) /\ Distinct(<<>>) /\ \A y : ~In(y, <<>>)
<1>1. <<x>> \in Seq(S) /\ DOMAIN <<x>> = {1} /\ <<x>>[1] = x
  OBVIOUS
<1>2. <<>> \in Seq(S) /\ DOMAIN <<>> = {}
  OBVIOUS
<1>3. Distinct(<<x>>) /\ \A y : In(y, <<x>>) <=> y = x
  BY <1>1 DEF In, Distinct
<1>4. Distinct(<<>>) /\ \A y : ~In(y, <<>>)
  BY <1>2 DEF In, Distinct
<1> QED
  BY <1>1, <1>2, <1>3, <1>4

\* In(x, s) for sequences of which the type is known.
LEMMA InType ==
  ASSUME NEW S, NEW s \in Seq(S), NEW x, In(x, s)
  PROVE  x \in S
<1>1. PICK i \in DOMAIN s : s[i] = x
  BY DEF In
<1> QED
  BY <1>1, ElementOfSeq, LenProperties

-----------------------------------------------------------------------------
(* Maps and their iterators.                                               *)

Present(n) == \E j \in DOMAIN mmap : mmap[j].n = n

\* Each pair is in the map once, in its place, and was made before; no pair
\* that is still to come was freed.
MapInv ==
    /\ inserted \in 0..MaxPairs
    /\ mmap \in Seq([key : Keys, n : 1..inserted])
    /\ \A i, j \in DOMAIN mmap : mmap[i].n = mmap[j].n => i = j
    /\ \A i, j \in DOMAIN mmap :
          i < j => mmap[i].key < mmap[j].key \/ (mmap[i].key = mmap[j].key /\ mmap[i].n < mmap[j].n)
    /\ freed \in [1..MaxPairs -> Nat]
    /\ \A n \in 1..MaxPairs : freed[n] <= IF Present(n) THEN 0 ELSE 1
    /\ \A n \in 1..MaxPairs : n > inserted => freed[n] = 0
    /\ iter \in [Iterators -> 0..(MaxPairs + 1)] /\ held \subseteq Iterators
    /\ \A i \in held : iter[i] = 0 \/ Present(iter[i])

\* A pair of the map is found at its place, and the next one after it.
LEMMA MapWhere ==
  ASSUME MapInv, NEW k \in DOMAIN mmap
  PROVE  /\ M!Where(mmap[k].n) = k
         /\ M!After(mmap[k].n) = IF k = Len(mmap) THEN 0 ELSE mmap[k + 1].n
<1> DEFINE S == {i \in 1..Len(mmap) : mmap[i].n = mmap[k].n}
<1>1. M!Where(mmap[k].n) = IF S # {} THEN Min(S) ELSE 0
  BY DEF M!Where, M!SelectInSeq, M!Min, Min
<1>2. DOMAIN mmap = 1..Len(mmap)
  BY DEF MapInv
<1>3. S = {k}
  BY <1>2 DEF MapInv
<1>4. Min(S) = k
  BY <1>2, <1>3, MinIsLeast
<1>5. M!Where(mmap[k].n) = k
  BY <1>1, <1>3, <1>4
<1> QED
  BY <1>5 DEF M!After

LEMMA MapInit == M!Init => MapInv
<1> SUFFICES ASSUME M!Init PROVE MapInv
  OBVIOUS
<1> USE UtilitiesAssumption DEF M!Init, M!Deleted
<1>1. mmap = <<>> /\ DOMAIN mmap = {} /\ inserted = 0 /\ held = {}
  OBVIOUS
<1>2. \A n : ~Present(n)
  BY <1>1 DEF Present
<1>3. freed \in [1..MaxPairs -> Nat] /\ \A n \in 1..MaxPairs : freed[n] = 0
  OBVIOUS
<1>4. iter \in [Iterators -> 0..(MaxPairs + 1)]
  OBVIOUS
<1>5. \A n \in 1..MaxPairs : freed[n] <= IF Present(n) THEN 0 ELSE 1
  BY <1>3, <1>2
<1> QED
  BY <1>1, <1>3, <1>4, <1>5 DEF MapInv

\* A pair goes behind those of its key, and before those of greater keys.
LEMMA MapInsert ==
  ASSUME MapInv, M!bctbx_map_insert_and_delete
  PROVE  MapInv'
<1> USE UtilitiesAssumption
<1>1. PICK k \in Keys : mmap' = M!InsertedIn(mmap, k)
  BY DEF M!bctbx_map_insert_and_delete
<1> k \in Nat
  BY <1>1
<1>2. inserted < MaxPairs /\ inserted' = inserted + 1 /\ UNCHANGED freed
  BY DEF M!bctbx_map_insert_and_delete
<1> DEFINE S == {i \in 1..Len(mmap) : mmap[i].key > k}
           p == [key |-> k, n |-> inserted + 1]
           pos == IF S # {} THEN Min(S) ELSE Len(mmap) + 1
           Q == [key : Keys, n : 1..inserted]
           R == [key : Keys, n : 1..(inserted + 1)]
<1>3. /\ mmap \in Seq(Q) /\ inserted \in Nat /\ inserted + 1 \in 1..MaxPairs
      /\ DOMAIN mmap = 1..Len(mmap) /\ Len(mmap) \in Nat
  BY <1>2 DEF MapInv
<1>4. p \in R /\ p.n = inserted + 1 /\ p.key = k
  BY <1>3
<1>5. \A i \in 1..Len(mmap) : mmap[i].key \in Nat /\ mmap[i].n \in 1..inserted
  <2> SUFFICES ASSUME NEW i \in 1..Len(mmap) PROVE mmap[i].key \in Nat /\ mmap[i].n \in 1..inserted
    OBVIOUS
  <2>1. mmap[i] \in Q
    <3> HIDE DEF Q
    <3> QED
      BY <1>3, ElementOfSeq
  <2> QED
    BY <2>1, Zenon
<1>6. mmap \in Seq(R)
  <2>1. Q \subseteq R
    BY <1>3
  <2> HIDE DEF Q, R
  <2> QED
    BY <1>3, <2>1, SeqMonotonic
<1> HIDE DEF p, Q, R
<1>7. mmap' = IF S = {} THEN Append(mmap, p) ELSE SubSeq(mmap, 1, pos - 1) \o <<p>> \o SubSeq(mmap, pos, Len(mmap))
  <2>1. M!SelectInSeq(mmap, LAMBDA q : q.key > k) = IF S # {} THEN Min(S) ELSE 0
    BY DEF M!SelectInSeq, M!Min, Min
  <2>2. S # {} => Min(S) \in S
    BY MinIsLeast
  <2> HIDE DEF S
  <2>3. S # {} => Min(S) # 0
    BY <2>2 DEF S
  <2> QED
    BY <1>1, <2>1, <2>3 DEF M!InsertedIn, M!InsertAt, p
<1>8. /\ pos \in 1..(Len(mmap) + 1)
      /\ \A i \in 1..Len(mmap) : i < pos => mmap[i].key <= k
      /\ pos \in 1..Len(mmap) => mmap[pos].key > k
      /\ S # {} => pos \in 1..Len(mmap)
  <2>1. CASE S = {}
    <3>1. pos = Len(mmap) + 1
      BY <2>1
    <3>2. \A i \in 1..Len(mmap) : ~(mmap[i].key > k)
      BY <2>1
    <3> HIDE DEF pos
    <3> QED
      BY <1>3, <1>5, <3>1, <3>2, UtilitiesAssumption
  <2>2. CASE S # {}
    <3>1. Min(S) \in S /\ \A m \in S : Min(S) <= m
      <4>1. S \subseteq Nat
        OBVIOUS
      <4> HIDE DEF S
      <4> QED
        BY <2>2, <4>1, MinIsLeast, Zenon
    <3>2. pos = Min(S)
      BY <2>2
    <3>3. pos \in 1..Len(mmap) /\ mmap[pos].key > k
      BY <3>1, <3>2
    <3>4. \A i \in 1..Len(mmap) : i < pos => ~(mmap[i].key > k)
      BY <3>1, <3>2
    <3> HIDE DEF pos, S
    <3> QED
      BY <1>3, <1>5, <3>3, <3>4, UtilitiesAssumption
  <2> QED
    BY <2>1, <2>2, Zenon
<1>9. /\ mmap' \in Seq(R) /\ Len(mmap') = Len(mmap) + 1
      /\ \A j \in 1..Len(mmap') : mmap'[j] = IF j < pos THEN mmap[j] ELSE IF j = pos THEN p ELSE mmap[j - 1]
  <2>1. CASE S = {}
    BY <1>4, <1>6, <1>7, <2>1, SMTT(30)
  <2>2. CASE S # {}
    <3>1. pos \in 1..Len(mmap)
      BY <1>8, <2>2, Zenon
    <3>2. mmap' = SubSeq(mmap, 1, pos - 1) \o <<p>> \o SubSeq(mmap, pos, Len(mmap))
      BY <1>7, <2>2, Zenon
    <3> HIDE DEF pos, S
    <3> QED
      <4>1. /\ mmap' \in Seq(R) /\ Len(mmap') = Len(mmap) + 1
            /\ \A j \in 1..(Len(mmap) + 1) : mmap'[j] = IF j < pos THEN mmap[j] ELSE IF j = pos THEN p ELSE mmap[j - 1]
        <5> DEFINE new == SubSeq(mmap, 1, pos - 1) \o <<p>> \o SubSeq(mmap, pos, Len(mmap))
        <5>1. /\ new \in Seq(R) /\ Len(new) = Len(mmap) + 1
              /\ \A j \in 1..(Len(mmap) + 1) : new[j] = IF j < pos THEN mmap[j] ELSE IF j = pos THEN p ELSE mmap[j - 1]
          BY <1>4, <1>6, <3>1, InsertAtIs
        <5>2. mmap' = new
          BY <3>2
        <5> HIDE DEF new
        <5> QED
          BY <5>1, <5>2
      <4> QED
        BY <4>1
  <2> QED
    BY <2>1, <2>2, Zenon
<1> HIDE DEF pos, S
<1>10. /\ DOMAIN mmap' = 1..Len(mmap')
       /\ \A j \in 1..Len(mmap) : mmap'[IF j < pos THEN j ELSE j + 1] = mmap[j] /\ (IF j < pos THEN j ELSE j + 1) \in DOMAIN mmap'
       /\ mmap'[pos] = p /\ pos \in DOMAIN mmap'
  BY <1>3, <1>8, <1>9
<1>11. \A j \in DOMAIN mmap' : j = pos \/ \E i \in 1..Len(mmap) : mmap'[j] = mmap[i] /\ j = IF i < pos THEN i ELSE i + 1
  <2> SUFFICES ASSUME NEW j \in DOMAIN mmap', j # pos
               PROVE  \E i \in 1..Len(mmap) : mmap'[j] = mmap[i] /\ j = IF i < pos THEN i ELSE i + 1
    OBVIOUS
  <2>1. CASE j < pos
    <3>1. j \in 1..Len(mmap) /\ mmap'[j] = mmap[j]
      BY <1>3, <1>8, <1>9, <1>10, <2>1
    <3> QED
      BY <2>1, <3>1
  <2>2. CASE j > pos
    <3>1. j - 1 \in 1..Len(mmap) /\ mmap'[j] = mmap[j - 1] /\ ~(j - 1 < pos) /\ j = (j - 1) + 1
      BY <1>3, <1>8, <1>9, <1>10, <2>2
    <3> QED
      BY <3>1
  <2> QED
    BY <1>3, <1>8, <1>9, <1>10, <2>1, <2>2
<1>12. \A n : Present(n)' <=> Present(n) \/ n = inserted + 1
  <2>1. ASSUME NEW n, Present(n)' PROVE Present(n) \/ n = inserted + 1
    <3>1. PICK j \in DOMAIN mmap' : mmap'[j].n = n
      BY <2>1 DEF Present
    <3> QED
      BY <1>3, <1>4, <1>10, <1>11, <3>1, Zenon DEF Present
  <2>2. ASSUME NEW n, Present(n) \/ n = inserted + 1 PROVE Present(n)'
    <3>1. CASE n = inserted + 1
      BY <1>4, <1>10, <3>1 DEF Present
    <3>2. CASE Present(n)
      BY <1>3, <1>10, <3>2 DEF Present
    <3> QED
      BY <2>2, <3>1, <3>2
  <2> QED
    BY <2>1, <2>2
<1>13. (\A i, j \in DOMAIN mmap : mmap[i].n = mmap[j].n => i = j)'
  <2> SUFFICES ASSUME NEW i \in DOMAIN mmap', NEW j \in DOMAIN mmap', mmap'[i].n = mmap'[j].n PROVE i = j
    OBVIOUS
  <2>0. \A l \in 1..Len(mmap) : mmap[l].n # p.n
    BY <1>3, <1>4, <1>5
  <2>1. CASE i = pos \/ j = pos
    BY <1>10, <1>11, <2>0, <2>1
  <2>2. CASE i # pos /\ j # pos
    <3>1. PICK a \in 1..Len(mmap) : mmap'[i] = mmap[a] /\ i = IF a < pos THEN a ELSE a + 1
      BY <1>11, <2>2
    <3>2. PICK b \in 1..Len(mmap) : mmap'[j] = mmap[b] /\ j = IF b < pos THEN b ELSE b + 1
      BY <1>11, <2>2
    <3>3. a = b
      BY <1>3, <3>1, <3>2 DEF MapInv
    <3> QED
      BY <3>1, <3>2, <3>3
  <2> QED
    BY <2>1, <2>2
<1>14. (\A i, j \in DOMAIN mmap :
          i < j => mmap[i].key < mmap[j].key \/ (mmap[i].key = mmap[j].key /\ mmap[i].n < mmap[j].n))'
  <2> SUFFICES ASSUME NEW i \in DOMAIN mmap', NEW j \in DOMAIN mmap', i < j
               PROVE  mmap'[i].key < mmap'[j].key \/ (mmap'[i].key = mmap'[j].key /\ mmap'[i].n < mmap'[j].n)
    OBVIOUS
  <2>0. k \in Nat /\ pos \in Nat
    BY <1>8, <1>3
  <2>1. CASE j = pos
    <3>1. i \in 1..Len(mmap) /\ mmap'[i] = mmap[i]
      BY <1>3, <1>8, <1>9, <1>10, <2>1
    <3>2. mmap[i].key <= k /\ mmap[i].n < inserted + 1
      BY <1>3, <1>5, <1>8, <2>1, <3>1
    <3> QED
      BY <1>4, <1>5, <1>10, <2>0, <2>1, <3>1, <3>2
  <2>2. CASE i = pos
    <3>1. j - 1 \in 1..Len(mmap) /\ mmap'[j] = mmap[j - 1] /\ pos \in 1..Len(mmap)
      BY <1>3, <1>8, <1>9, <1>10, <2>2
    <3>2. mmap[j - 1].key > k
      <4>1. pos = j - 1 \/ mmap[pos].key <= mmap[j - 1].key
        <5>1. CASE pos < j - 1
          <6>1. mmap[pos].key < mmap[j - 1].key \/ mmap[pos].key = mmap[j - 1].key
            BY <1>3, <3>1, <5>1, Zenon DEF MapInv
          <6>2. mmap[pos].key \in Nat /\ mmap[j - 1].key \in Nat
            BY <1>5, <3>1
          <6> QED
            BY <6>1, <6>2
        <5>2. pos < j - 1 \/ pos = j - 1
          BY <1>3, <1>10, <2>0, <2>2
        <5> QED
          BY <5>1, <5>2
      <4> QED
        BY <1>5, <1>8, <2>0, <3>1, <4>1
    <3> QED
      <4>1. mmap'[i].key = k /\ mmap'[j].key > k /\ mmap'[j].key \in Nat
        BY <1>4, <1>5, <1>10, <2>2, <3>1, <3>2
      <4> QED
        BY <2>0, <4>1
  <2>3. CASE i # pos /\ j # pos
    <3>1. PICK a \in 1..Len(mmap) : mmap'[i] = mmap[a] /\ i = IF a < pos THEN a ELSE a + 1
      BY <1>11, <2>3
    <3>2. PICK b \in 1..Len(mmap) : mmap'[j] = mmap[b] /\ j = IF b < pos THEN b ELSE b + 1
      BY <1>11, <2>3
    <3>3. a < b
      BY <2>0, <3>1, <3>2
    <3> QED
      <4>1. mmap[a].key < mmap[b].key \/ (mmap[a].key = mmap[b].key /\ mmap[a].n < mmap[b].n)
        BY <1>3, <3>3, Zenon DEF MapInv
      <4> QED
        BY <3>1, <3>2, <4>1
  <2> QED
    BY <2>1, <2>2, <2>3
<1>15. iter' \in [Iterators -> 0..(MaxPairs + 1)] /\ held' \subseteq Iterators
       /\ (\A i \in held : iter[i] = 0 \/ Present(iter[i]))'
  <2>1. CASE UNCHANGED <<iter, held>>
    <3>1. iter \in [Iterators -> 0..(MaxPairs + 1)] /\ held \subseteq Iterators /\ \A i \in held : iter[i] = 0 \/ Present(iter[i])
      BY DEF MapInv
    <3>2. \A i \in held' : iter'[i] = iter[i] /\ i \in held
      BY <2>1
    <3> QED
      BY <1>12, <2>1, <3>1, <3>2 DEF Present
  <2>2. CASE \E i \in Iterators : M!NewIterator(inserted + 1, i)
    <3>1. PICK i \in Iterators : iter' = [iter EXCEPT ![i] = inserted + 1] /\ held' = held \cup {i}
      BY <2>2, Zenon DEF M!NewIterator
    <3>2. inserted + 1 \in 0..(MaxPairs + 1)
      BY <1>3
    <3> QED
      <4>1. iter \in [Iterators -> 0..(MaxPairs + 1)] /\ held \subseteq Iterators /\ \A j \in held : iter[j] = 0 \/ Present(iter[j])
        BY DEF MapInv
      <4>2. iter' \in [Iterators -> 0..(MaxPairs + 1)] /\ held' \subseteq Iterators
            /\ \A j \in held' : iter'[j] = inserted + 1 \/ (j \in held /\ iter'[j] = iter[j])
        BY <3>1, <3>2, <4>1
      <4> QED
        BY <1>12, <4>1, <4>2 DEF Present
  <2> QED
    BY <2>1, <2>2 DEF M!bctbx_map_insert_and_delete
<1>16. \A n \in 1..MaxPairs : freed'[n] <= IF Present(n)' THEN 0 ELSE 1
  <2> SUFFICES ASSUME NEW n \in 1..MaxPairs PROVE freed'[n] <= IF Present(n)' THEN 0 ELSE 1
    OBVIOUS
  <2>1. n = inserted + 1 => freed[n] = 0
    BY <1>3 DEF MapInv
  <2>2. freed[n] <= IF Present(n) THEN 0 ELSE 1
    BY DEF MapInv
  <2> QED
    BY <1>2, <1>12, <2>1, <2>2
<1>17. \A n \in 1..MaxPairs : n > inserted' => freed'[n] = 0
  <2> SUFFICES ASSUME NEW n \in 1..MaxPairs, n > inserted' PROVE freed'[n] = 0
    OBVIOUS
  <2>1. n > inserted
    BY <1>2, <1>3
  <2> QED
    BY <1>2, <2>1 DEF MapInv
<1> QED
  <2>1. inserted' \in 0..MaxPairs /\ freed' \in [1..MaxPairs -> Nat]
    BY <1>2, <1>3 DEF MapInv
  <2>2. mmap' \in Seq([key : Keys, n : 1..inserted'])
    BY <1>2, <1>9 DEF R
  <2> QED
    BY <1>13, <1>14, <1>15, <1>16, <1>17, <2>1, <2>2 DEF MapInv

\* A pair goes: the iterator that erased it moves on, those at other pairs stay.
LEMMA MapErase ==
  ASSUME MapInv, M!bctbx_map_erase
  PROVE  MapInv'
<1>1. PICK i \in held : /\ iter[i] # 0 /\ mmap' = M!RemoveAt(mmap, M!Where(iter[i]))
                        /\ iter' = [iter EXCEPT ![i] = M!After(iter[i])]
                        /\ held' = {j \in held : j = i \/ iter[j] # iter[i]}
                        /\ UNCHANGED <<inserted, freed>>
  BY Zenon DEF M!bctbx_map_erase
<1> DEFINE R == [key : Keys, n : 1..inserted]
<1>2. /\ mmap \in Seq(R) /\ DOMAIN mmap = 1..Len(mmap) /\ Len(mmap) \in Nat /\ inserted \in 0..MaxPairs
      /\ \A j \in 1..Len(mmap) : mmap[j].n \in 1..inserted
  <2>1. mmap \in Seq(R) /\ inserted \in 0..MaxPairs
    BY DEF MapInv
  <2>2. \A j \in 1..Len(mmap) : mmap[j] \in R
    <3> HIDE DEF R
    <3> QED
      BY <2>1
  <2> QED
    BY <2>1, <2>2
<1>3. PICK k \in DOMAIN mmap : mmap[k].n = iter[i]
  BY <1>1 DEF MapInv, Present
<1>4. /\ M!Where(iter[i]) = k
      /\ M!After(iter[i]) = IF k = Len(mmap) THEN 0 ELSE mmap[k + 1].n
  BY <1>3, MapWhere
<1> HIDE DEF R
<1>5. /\ mmap' \in Seq(R) /\ Len(mmap') = Len(mmap) - 1 /\ DOMAIN mmap' = 1..(Len(mmap) - 1)
      /\ \A j \in 1..(Len(mmap) - 1) : mmap'[j] = IF j < k THEN mmap[j] ELSE mmap[j + 1]
  <2> DEFINE new == SubSeq(mmap, 1, k - 1) \o SubSeq(mmap, k + 1, Len(mmap))
  <2>1. /\ new \in Seq(R) /\ Len(new) = Len(mmap) - 1
        /\ \A j \in 1..(Len(mmap) - 1) : new[j] = IF j < k THEN mmap[j] ELSE mmap[j + 1]
    BY <1>2, <1>3, RemoveAtIs, Zenon
  <2>2. mmap' = new
    BY <1>1, <1>4 DEF M!RemoveAt
  <2> HIDE DEF new
  <2> QED
    BY <2>1, <2>2
<1>6. \A j \in DOMAIN mmap' : \E l \in DOMAIN mmap : mmap'[j] = mmap[l] /\ l # k /\ l = IF j < k THEN j ELSE j + 1
  <2> SUFFICES ASSUME NEW j \in DOMAIN mmap'
               PROVE  \E l \in DOMAIN mmap : mmap'[j] = mmap[l] /\ l # k /\ l = IF j < k THEN j ELSE j + 1
    OBVIOUS
  <2>1. CASE j < k
    BY <1>2, <1>3, <1>5, <2>1
  <2>2. CASE ~(j < k)
    <3>1. j + 1 \in DOMAIN mmap /\ mmap'[j] = mmap[j + 1] /\ j + 1 # k
      BY <1>2, <1>3, <1>5, <2>2
    <3> QED
      BY <2>2, <3>1
  <2> QED
    BY <2>1, <2>2
<1>7. \A l \in DOMAIN mmap : l # k => \E j \in DOMAIN mmap' : mmap'[j] = mmap[l]
  <2> SUFFICES ASSUME NEW l \in DOMAIN mmap, l # k PROVE \E j \in DOMAIN mmap' : mmap'[j] = mmap[l]
    OBVIOUS
  <2>1. CASE l < k
    <3>1. l \in DOMAIN mmap' /\ mmap'[l] = mmap[l]
      BY <1>2, <1>3, <1>5, <2>1
    <3> QED
      BY <3>1
  <2>2. CASE l > k
    <3>1. l - 1 \in DOMAIN mmap' /\ mmap'[l - 1] = mmap[l]
      BY <1>2, <1>3, <1>5, <2>2
    <3> QED
      BY <3>1
  <2> QED
    BY <1>2, <1>3, <2>1, <2>2
<1>8. \A n : n # iter[i] => (Present(n)' <=> Present(n))
  <2>1. ASSUME NEW n, n # iter[i], Present(n)' PROVE Present(n)
    <3>1. PICK j \in DOMAIN mmap' : mmap'[j].n = n
      BY <2>1 DEF Present
    <3> QED
      BY <1>6, <3>1 DEF Present
  <2>2. ASSUME NEW n, n # iter[i], Present(n) PROVE Present(n)'
    <3>1. PICK l \in DOMAIN mmap : mmap[l].n = n
      BY <2>2 DEF Present
    <3>2. l # k
      BY <1>3, <2>2, <3>1
    <3> QED
      BY <1>7, <3>1, <3>2 DEF Present
  <2> QED
    BY <2>1, <2>2
<1>9. (\A a, b \in DOMAIN mmap : mmap[a].n = mmap[b].n => a = b)'
  <2> SUFFICES ASSUME NEW a \in DOMAIN mmap', NEW b \in DOMAIN mmap', mmap'[a].n = mmap'[b].n PROVE a = b
    OBVIOUS
  <2>1. PICK c \in DOMAIN mmap : mmap'[a] = mmap[c] /\ c = IF a < k THEN a ELSE a + 1
    BY <1>6
  <2>2. PICK d \in DOMAIN mmap : mmap'[b] = mmap[d] /\ d = IF b < k THEN b ELSE b + 1
    BY <1>6
  <2>3. c = d
    BY <2>1, <2>2 DEF MapInv
  <2>4. k \in Nat /\ a \in Nat /\ b \in Nat
    BY <1>2, <1>3, <1>5
  <2> QED
    BY <2>1, <2>2, <2>3, <2>4
<1>10. (\A a, b \in DOMAIN mmap :
          a < b => mmap[a].key < mmap[b].key \/ (mmap[a].key = mmap[b].key /\ mmap[a].n < mmap[b].n))'
  <2> SUFFICES ASSUME NEW a \in DOMAIN mmap', NEW b \in DOMAIN mmap', a < b
               PROVE  mmap'[a].key < mmap'[b].key \/ (mmap'[a].key = mmap'[b].key /\ mmap'[a].n < mmap'[b].n)
    OBVIOUS
  <2>1. PICK c \in DOMAIN mmap : mmap'[a] = mmap[c] /\ c = IF a < k THEN a ELSE a + 1
    BY <1>6
  <2>2. PICK d \in DOMAIN mmap : mmap'[b] = mmap[d] /\ d = IF b < k THEN b ELSE b + 1
    BY <1>6
  <2>3. k \in Nat /\ a \in Nat /\ b \in Nat
    BY <1>2, <1>3, <1>5
  <2>4. c < d
    BY <2>1, <2>2, <2>3
  <2>5. mmap[c].key < mmap[d].key \/ (mmap[c].key = mmap[d].key /\ mmap[c].n < mmap[d].n)
    BY <2>4 DEF MapInv
  <2> QED
    BY <2>1, <2>2, <2>5
<1>11. M!After(iter[i]) \in 0..(MaxPairs + 1) /\ (M!After(iter[i]) = 0 \/ \E l \in DOMAIN mmap' : mmap'[l].n = M!After(iter[i]))
  <2>1. CASE k = Len(mmap)
    BY <1>2, <1>4, <2>1, UtilitiesAssumption
  <2>2. CASE k # Len(mmap)
    <3>1. k + 1 \in DOMAIN mmap /\ M!After(iter[i]) = mmap[k + 1].n
      BY <1>2, <1>3, <1>4, <2>2
    <3>2. k + 1 # k
      BY <1>2, <1>3
    <3>3. PICK j \in DOMAIN mmap' : mmap'[j] = mmap[k + 1]
      BY <1>7, <3>1, <3>2
    <3>4. \E l \in DOMAIN mmap' : mmap'[l].n = M!After(iter[i])
      BY <3>1, <3>3
    <3>5. mmap[k + 1].n \in 1..inserted
      BY <1>2, <3>1
    <3> QED
      BY <1>2, <3>1, <3>4, <3>5, UtilitiesAssumption
  <2> QED
    BY <2>1, <2>2
<1>12. iter' \in [Iterators -> 0..(MaxPairs + 1)] /\ held' \subseteq Iterators
  BY <1>1, <1>11 DEF MapInv
<1>13. \A j \in held' : iter'[j] = 0 \/ \E l \in DOMAIN mmap' : mmap'[l].n = iter'[j]
  <2> SUFFICES ASSUME NEW j \in held', iter'[j] # 0 PROVE \E l \in DOMAIN mmap' : mmap'[l].n = iter'[j]
    OBVIOUS
  <2>0. iter \in [Iterators -> 0..(MaxPairs + 1)] /\ held \subseteq Iterators
    BY DEF MapInv
  <2>1. CASE j = i
    <3>1. iter'[j] = M!After(iter[i])
      BY <1>1, <2>0, <2>1
    <3> QED
      BY <1>11, <3>1
  <2>2. CASE j # i
    <3>1. j \in held /\ iter[j] # iter[i] /\ iter'[j] = iter[j]
      BY <1>1, <2>0, <2>2
    <3>2. Present(iter[j])
      BY <3>1 DEF MapInv
    <3> QED
      BY <1>8, <3>1, <3>2 DEF Present
  <2> QED
    BY <2>1, <2>2
<1>14. (\A n \in 1..MaxPairs : freed[n] <= IF Present(n) THEN 0 ELSE 1)'
  <2> SUFFICES ASSUME NEW n \in 1..MaxPairs PROVE freed[n] <= IF Present(n)' THEN 0 ELSE 1
    BY <1>1
  <2>1. freed[n] <= (IF Present(n) THEN 0 ELSE 1) /\ freed[n] \in Nat
    BY DEF MapInv
  <2>2. Present(n)' => Present(n)
    <3>1. n = iter[i] => Present(n)
      BY <1>3 DEF Present
    <3> QED
      BY <1>8, <3>1
  <2> QED
    BY <2>1, <2>2
<1> QED
  <2>1. mmap' \in Seq([key : Keys, n : 1..inserted']) /\ inserted' \in 0..MaxPairs
        /\ freed' \in [1..MaxPairs -> Nat] /\ \A n \in 1..MaxPairs : n > inserted' => freed'[n] = 0
    BY <1>1, <1>5 DEF MapInv, R
  <2> QED
    BY <1>9, <1>10, <1>12, <1>13, <1>14, <2>1 DEF MapInv, Present

\* An iterator is made, moved or deleted, and nothing else.
LEMMA MapIterator ==
  ASSUME MapInv, UNCHANGED <<mmap, inserted, freed>>,
         iter' \in [Iterators -> 0..(MaxPairs + 1)], held' \subseteq Iterators,
         \A i \in held' : (i \in held /\ iter'[i] = iter[i]) \/ iter'[i] = 0 \/ Present(iter'[i])
  PROVE  MapInv'
<1>1. \A i \in held' : iter'[i] = 0 \/ Present(iter'[i])
  BY DEF MapInv
<1>2. \A n : Present(n)' <=> Present(n)
  BY DEF Present
<1>3. (\A i \in held : iter[i] = 0 \/ Present(iter[i]))'
  BY <1>1 DEF Present
<1>4. (\A n \in 1..MaxPairs : freed[n] <= IF Present(n) THEN 0 ELSE 1)'
  BY <1>2 DEF MapInv
<1> QED
  BY <1>3, <1>4 DEF MapInv

\* The map is deleted with the data of its pairs.
LEMMA MapDelete ==
  ASSUME MapInv, M!bctbx_mmap_delete_with_data
  PROVE  MapInv'
<1>1. /\ freed' = [n \in 1..MaxPairs |-> freed[n] + Cardinality({i \in DOMAIN mmap : mmap[i].n = n})]
      /\ mmap' = <<>> /\ held' = {i \in held : iter[i] = 0} /\ UNCHANGED <<inserted, iter>>
  <2>1. DOMAIN freed = 1..MaxPairs
    BY DEF MapInv
  <2> QED
    BY <2>1 DEF M!bctbx_mmap_delete_with_data, M!Cardinality, Cardinality, M!IsFiniteSet, IsFiniteSet
<1>2. ASSUME NEW n \in 1..MaxPairs
      PROVE  /\ freed'[n] \in Nat /\ freed'[n] <= 1
             /\ n > inserted => freed'[n] = 0
  <2> DEFINE S == {i \in DOMAIN mmap : mmap[i].n = n}
  <2>1. freed'[n] = freed[n] + Cardinality(S)
    BY <1>1
  <2>2. freed[n] \in Nat /\ freed[n] <= IF Present(n) THEN 0 ELSE 1
    BY DEF MapInv
  <2>3. CASE Present(n)
    <3>1. PICK k \in DOMAIN mmap : mmap[k].n = n
      BY <2>3 DEF Present
    <3>2. S = {k}
      BY <3>1 DEF MapInv
    <3>3. Cardinality(S) = 1
      BY <3>2, FS_Singleton, Zenon
    <3>4. n \in 1..inserted /\ inserted \in Nat
      <4> DEFINE R == [key : Keys, n : 1..inserted]
      <4>1. mmap \in Seq(R) /\ inserted \in Nat
        BY DEF MapInv
      <4>2. mmap[k] \in R
        <5> HIDE DEF R
        <5> QED
          BY <3>1, <4>1, ElementOfSeq, LenProperties
      <4> QED
        BY <3>1, <4>1, <4>2
    <3> HIDE DEF S
    <3> QED
      BY <2>1, <2>2, <2>3, <3>3, <3>4
  <2>4. CASE ~Present(n)
    <3>1. S = {}
      BY <2>4 DEF Present
    <3>2. Cardinality(S) = 0
      BY <3>1, FS_EmptySet, Zenon
    <3>3. n > inserted => freed[n] = 0
      BY DEF MapInv
    <3> HIDE DEF S
    <3> QED
      BY <2>1, <2>2, <2>4, <3>2, <3>3
  <2> QED
    BY <2>3, <2>4
<1>3. DOMAIN mmap' = {} /\ mmap' \in Seq([key : Keys, n : 1..inserted'])
  BY <1>1
<1>4. freed' \in [1..MaxPairs -> Nat]
  BY <1>1, <1>2
<1>5. \A n : ~Present(n)'
  BY <1>3 DEF Present
<1>6. (\A n \in 1..MaxPairs : freed[n] <= IF Present(n) THEN 0 ELSE 1)'
  BY <1>2, <1>5
<1>7. (\A n \in 1..MaxPairs : n > inserted => freed[n] = 0)'
  BY <1>1, <1>2
<1>8. iter' \in [Iterators -> 0..(MaxPairs + 1)] /\ held' \subseteq Iterators /\ \A i \in held' : iter'[i] = 0
  BY <1>1 DEF MapInv
<1>9. inserted' \in 0..MaxPairs
  BY <1>1 DEF MapInv
<1> QED
  BY <1>3, <1>4, <1>6, <1>7, <1>8, <1>9 DEF MapInv

LEMMA MapStep == MapInv /\ [M!Next]_mapVars => MapInv'
<1> SUFFICES ASSUME MapInv, [M!Next]_mapVars PROVE MapInv'
  OBVIOUS
<1>0. /\ iter \in [Iterators -> 0..(MaxPairs + 1)] /\ held \subseteq Iterators /\ MaxPairs \in Nat /\ inserted \in 0..MaxPairs
      /\ \A i \in held : iter[i] = 0 \/ Present(iter[i])
  BY UtilitiesAssumption DEF MapInv
<1>1. \A j \in DOMAIN mmap : mmap[j].n \in 0..(MaxPairs + 1) /\ Present(mmap[j].n)
  <2> DEFINE R == [key : Keys, n : 1..inserted]
  <2> SUFFICES ASSUME NEW j \in DOMAIN mmap PROVE mmap[j].n \in 0..(MaxPairs + 1)
    BY DEF Present
  <2>1. mmap \in Seq(R)
    BY DEF MapInv
  <2>2. mmap[j] \in R
    <3> HIDE DEF R
    <3> QED
      BY <2>1, ElementOfSeq, LenProperties
  <2> QED
    BY <1>0, <2>2
<1>2. \A i \in held : iter[i] # 0 => M!After(iter[i]) \in 0..(MaxPairs + 1) /\ (M!After(iter[i]) = 0 \/ Present(M!After(iter[i])))
  <2> SUFFICES ASSUME NEW i \in held, iter[i] # 0
               PROVE  M!After(iter[i]) \in 0..(MaxPairs + 1) /\ (M!After(iter[i]) = 0 \/ Present(M!After(iter[i])))
    OBVIOUS
  <2>1. PICK k \in DOMAIN mmap : mmap[k].n = iter[i]
    BY <1>0 DEF Present
  <2>2. M!After(iter[i]) = IF k = Len(mmap) THEN 0 ELSE mmap[k + 1].n
    BY <2>1, MapWhere
  <2>3. k # Len(mmap) => k + 1 \in DOMAIN mmap
    BY <2>1 DEF MapInv
  <2> QED
    BY <1>0, <1>1, <2>2, <2>3
<1>3. CASE UNCHANGED mapVars
  BY <1>0, <1>3, MapIterator DEF mapVars
<1>4. ASSUME NEW i \in Iterators, NEW new \in 0..(MaxPairs + 1), new = 0 \/ Present(new), UNCHANGED <<mmap, inserted, freed>>,
             iter' = [iter EXCEPT ![i] = new], held' = held \cup {i} \/ held' = held
      PROVE  MapInv'
  <2>1. iter' \in [Iterators -> 0..(MaxPairs + 1)] /\ held' \subseteq Iterators
    BY <1>0, <1>4
  <2>2. \A j \in held' : (j \in held /\ iter'[j] = iter[j]) \/ iter'[j] = 0 \/ Present(iter'[j])
    <3> SUFFICES ASSUME NEW j \in held' PROVE (j \in held /\ iter'[j] = iter[j]) \/ iter'[j] = 0 \/ Present(iter'[j])
      OBVIOUS
    <3>1. CASE j = i
      <4>1. iter'[j] = new
        BY <1>0, <1>4, <3>1
      <4> QED
        BY <1>4, <4>1
    <3>2. CASE j # i
      BY <1>0, <1>4, <3>2
    <3> QED
      BY <3>1, <3>2
  <2> QED
    BY <1>4, <2>1, <2>2, MapIterator
<1>5. CASE M!bctbx_map_find_key
  <2>1. PICK i \in Iterators, k \in Keys :
          LET p == M!SelectInSeq(mmap, LAMBDA q : q.key = k)
          IN  M!NewIterator(IF p = 0 THEN 0 ELSE mmap[p].n, i)
    BY <1>5, Zenon DEF M!bctbx_map_find_key
  <2> DEFINE S == {j \in 1..Len(mmap) : mmap[j].key = k}
             p == IF S # {} THEN Min(S) ELSE 0
             new == IF p = 0 THEN 0 ELSE mmap[p].n
  <2>2. M!NewIterator(new, i)
    BY <2>1, Zenon DEF M!SelectInSeq, M!Min, Min
  <2>3. p = 0 \/ p \in DOMAIN mmap
    <3>0. S \subseteq Nat
      OBVIOUS
    <3>1. S # {} => Min(S) \in S
      <4> HIDE DEF S
      <4> QED
        BY <3>0, MinIsLeast, Zenon
    <3>2. DOMAIN mmap = 1..Len(mmap)
      BY DEF MapInv
    <3> QED
      BY <3>1, <3>2
  <2> HIDE DEF p
  <2>4. new \in 0..(MaxPairs + 1) /\ (new = 0 \/ Present(new))
    BY <1>0, <1>1, <2>3
  <2> HIDE DEF new
  <2> QED
    BY <1>4, <1>5, <2>2, <2>4, Zenon DEF M!bctbx_map_find_key, M!NewIterator
<1>6. CASE M!bctbx_map_find_custom
  <2>1. PICK i \in Iterators, X \in SUBSET (1..MaxPairs) :
          LET p == M!SelectInSeq(mmap, LAMBDA q : q.n \in X)
          IN  /\ iter' = [iter EXCEPT ![i] = IF p = 0 THEN 0 ELSE mmap[p].n]
              /\ held' = IF p = 0 THEN held ELSE held \cup {i}
    BY <1>6, Zenon DEF M!bctbx_map_find_custom
  <2> DEFINE S == {j \in 1..Len(mmap) : mmap[j].n \in X}
             p == IF S # {} THEN Min(S) ELSE 0
             new == IF p = 0 THEN 0 ELSE mmap[p].n
  <2>2. iter' = [iter EXCEPT ![i] = new] /\ held' = IF p = 0 THEN held ELSE held \cup {i}
    BY <2>1 DEF M!SelectInSeq, M!Min, Min
  <2>3. p = 0 \/ p \in DOMAIN mmap
    <3>0. S \subseteq Nat
      OBVIOUS
    <3>1. S # {} => Min(S) \in S
      <4> HIDE DEF S
      <4> QED
        BY <3>0, MinIsLeast, Zenon
    <3>2. DOMAIN mmap = 1..Len(mmap)
      BY DEF MapInv
    <3> QED
      BY <3>1, <3>2, Zenon
  <2> HIDE DEF p
  <2>4. new \in 0..(MaxPairs + 1) /\ (new = 0 \/ Present(new))
    BY <1>0, <1>1, <2>3
  <2> HIDE DEF new
  <2> QED
    BY <1>4, <1>6, <2>2, <2>4, Zenon DEF M!bctbx_map_find_custom
<1>7. CASE M!bctbx_map_begin_or_end
  <2>1. PICK i \in Iterators, new \in {M!bctbx_map_begin, 0} : M!NewIterator(new, i)
    BY <1>7 DEF M!bctbx_map_begin_or_end
  <2>2. new \in 0..(MaxPairs + 1) /\ (new = 0 \/ Present(new))
    <3>1. mmap # <<>> => 1 \in DOMAIN mmap
      BY DEF MapInv
    <3> QED
      BY <1>0, <1>1, <2>1, <3>1 DEF M!bctbx_map_begin
  <2> QED
    BY <1>4, <1>7, <2>1, <2>2, Zenon DEF M!bctbx_map_begin_or_end, M!NewIterator
<1>8. CASE M!bctbx_iterator_get_next
  <2>1. PICK i \in held : iter[i] # 0 /\ iter' = [iter EXCEPT ![i] = M!After(iter[i])]
    BY <1>8, Zenon DEF M!bctbx_iterator_get_next
  <2> QED
    BY <1>0, <1>2, <1>4, <1>8, <2>1, Zenon DEF M!bctbx_iterator_get_next
<1>9. CASE M!bctbx_iterator_get_next_and_delete \/ M!bctbx_iterator_delete
  <2>1. PICK i \in held : iter' = [iter EXCEPT ![i] = MaxPairs + 1] /\ held' = held \ {i}
    BY <1>9 DEF M!bctbx_iterator_get_next_and_delete, M!bctbx_iterator_delete, M!Deleted
  <2>2. iter' \in [Iterators -> 0..(MaxPairs + 1)] /\ held' \subseteq Iterators
        /\ \A j \in held' : j \in held /\ iter'[j] = iter[j]
    BY <1>0, <2>1
  <2>3. UNCHANGED <<mmap, inserted, freed>>
    BY <1>9 DEF M!bctbx_iterator_get_next_and_delete, M!bctbx_iterator_delete
  <2> QED
    BY <2>2, <2>3, MapIterator
<1> QED
  BY <1>3, <1>5, <1>6, <1>7, <1>8, <1>9, MapInsert, MapErase, MapDelete DEF M!Next

\* Any keys and any number of pairs and iterators: erasing through one iterator
\* leaves the others at their pairs, the order stays, and data is freed once.
THEOREM IteratorsHold == Spec => []MapIterators
<1>1. Init => MapInv
  BY MapInit DEF Init
<1>2. MapInv /\ [Next]_vars => MapInv'
  BY MapStep DEF Next, Utilities, Logging, vars, utilVars, logVars
<1>3. MapInv => MapIterators
  <2> SUFFICES ASSUME MapInv PROVE MapIterators
    OBVIOUS
  <2>1. DOMAIN freed = 1..MaxPairs
    BY DEF MapInv
  <2> QED
    BY <2>1 DEF MapInv, MapIterators, Present
<1> QED
  BY <1>1, <1>2, <1>3, PTL DEF Spec

-----------------------------------------------------------------------------
(* Results of name resolution.                                             *)

\* The classes a sort has filled after some of the nodes.
Sorted(class, nodes, s, i) ==
    /\ \A f \in A!Families :
          /\ class[f] \in Seq(DOMAIN nodes) /\ Distinct(class[f])
          /\ \A n : In(n, class[f]) => nodes[n].family = f /\ \E j \in 1..i : s[j] = n
    /\ \A j \in 1..i : \E f \in A!Families : In(s[j], class[f])

LEMMA SortTurn ==
  ASSUME NEW nodes, NEW s \in Seq(DOMAIN nodes), Distinct(s), \A n \in DOMAIN nodes : nodes[n].family \in A!Families,
         NEW i \in 1..Len(s), NEW class \in [A!Families -> Seq(DOMAIN nodes)], Sorted(class, nodes, s, i - 1)
  PROVE  Sorted(A!ClassTurn(class, s[i], nodes[s[i]].family), nodes, s, i)
<1> DEFINE k == nodes[s[i]].family
           new == <<s[i]>> \o class[k]
           after == [class EXCEPT ![k] = new]
<1>1. s[i] \in DOMAIN nodes /\ k \in A!Families /\ class[k] \in Seq(DOMAIN nodes)
  BY ElementOfSeq
<1>2. ~In(s[i], class[k])
  <2> SUFFICES ASSUME In(s[i], class[k]) PROVE FALSE
    OBVIOUS
  <2>1. PICK j \in 1..(i - 1) : s[j] = s[i]
    BY <1>1, SMTT(30) DEF Sorted
  <2> QED
    BY <2>1 DEF Distinct
<1>3. /\ new \in Seq(DOMAIN nodes) /\ Distinct(new)
      /\ \A n : In(n, new) <=> n = s[i] \/ In(n, class[k])
  <2>1. <<s[i]>> \in Seq(DOMAIN nodes) /\ Distinct(<<s[i]>>) /\ \A y : In(y, <<s[i]>>) <=> y = s[i]
    BY <1>1, OneElement
  <2>2. Distinct(class[k])
    BY <1>1 DEF Sorted
  <2> QED
    <3>1. \A y : ~(In(y, <<s[i]>>) /\ In(y, class[k]))
      BY <1>2, <2>1, Zenon
    <3>2. /\ new \in Seq(DOMAIN nodes) /\ Distinct(new)
          /\ \A n : In(n, new) <=> In(n, <<s[i]>>) \/ In(n, class[k])
      BY <1>1, <2>1, <2>2, <3>1, ConcatElements, Zenon
    <3> QED
      BY <2>1, <3>2, Zenon
<1> HIDE DEF new
<1>4. \A f \in A!Families : after[f] = IF f = k THEN new ELSE class[f]
  BY <1>1
<1>5. A!ClassTurn(class, s[i], k) = after
  BY DEF A!ClassTurn, new
<1> HIDE DEF after
<1>6. \A n : (\E j \in 1..i : s[j] = n) <=> n = s[i] \/ \E j \in 1..(i - 1) : s[j] = n
  <2>1. \A j \in 1..i : j = i \/ j \in 1..(i - 1)
    OBVIOUS
  <2>2. i \in 1..i /\ \A j \in 1..(i - 1) : j \in 1..i
    OBVIOUS
  <2> QED
    BY <2>1, <2>2
<1>7. ASSUME NEW f \in A!Families
      PROVE  /\ after[f] \in Seq(DOMAIN nodes) /\ Distinct(after[f])
             /\ \A n : In(n, after[f]) => nodes[n].family = f /\ \E j \in 1..i : s[j] = n
  <2>1. CASE f = k
    BY <1>1, <1>3, <1>4, <1>6, <2>1 DEF Sorted
  <2>2. CASE f # k
    BY <1>4, <1>6, <2>2 DEF Sorted
  <2> QED
    BY <2>1, <2>2
<1>8. ASSUME NEW j \in 1..i PROVE \E f \in A!Families : In(s[j], after[f])
  <2>1. CASE j = i
    BY <1>1, <1>3, <1>4, <2>1
  <2>2. CASE j \in 1..(i - 1)
    <3>1. PICK f \in A!Families : In(s[j], class[f])
      BY <2>2 DEF Sorted
    <3> QED
      BY <1>3, <1>4, <3>1
  <2> QED
    BY <2>1, <2>2
<1> QED
  BY <1>5, <1>7, <1>8 DEF Sorted

\* A sorted list has the nodes it had, each once.
LEMMA SortKeeps ==
  ASSUME NEW nodes, NEW s \in Seq(DOMAIN nodes), Distinct(s), \A n \in DOMAIN nodes : nodes[n].family \in A!Families
  PROVE  /\ A!bctbx_addrinfo_sort(nodes, s) \in Seq(DOMAIN nodes) /\ Distinct(A!bctbx_addrinfo_sort(nodes, s))
         /\ \A n : In(n, A!bctbx_addrinfo_sort(nodes, s)) <=> In(n, s)
<1> DEFINE R == [A!Families -> Seq(DOMAIN nodes)]
           v == [f \in A!Families |-> <<>>]
           h == [p \in (1..Len(s)) \X R |-> A!ClassTurn(p[2], s[p[1]], nodes[s[p[1]]].family)]
           Is(c) == c = [i \in 0..Len(s) |-> IF i = 0 THEN v ELSE A!ClassTurn(c[i - 1], s[i], nodes[s[i]].family)]
           class == CHOOSE c : Is(c)
           of == class[Len(s)]
<1>0. Len(s) \in Nat
  OBVIOUS
<1>1. v \in R
  BY OneElement, EmptySeq
<1>2. \A p \in (1..Len(s)) \X R : h[p] \in R
  <2> SUFFICES ASSUME NEW i \in 1..Len(s), NEW c \in R PROVE A!ClassTurn(c, s[i], nodes[s[i]].family) \in R
    OBVIOUS
  <2>1. s[i] \in DOMAIN nodes /\ nodes[s[i]].family \in A!Families
    BY ElementOfSeq
  <2> DEFINE k == nodes[s[i]].family
             new == <<s[i]>> \o c[k]
  <2>2. new \in Seq(DOMAIN nodes)
    BY <2>1, OneElement, ConcatProperties
  <2>3. A!ClassTurn(c, s[i], k) = [c EXCEPT ![k] = new]
    BY DEF A!ClassTurn
  <2> HIDE DEF new, k
  <2>4. A!ClassTurn(c, s[i], k) \in R
    BY <2>2, <2>3, Zenon
  <2> QED
    BY <2>4 DEF k
<1>3. h \in [(1..Len(s)) \X R -> R]
  BY <1>2, Zenon
<1>4. \E c : Is(c) /\ c \in [0..Len(s) -> R]
  <2> HIDE DEF R, v, h
  <2>1. PICK c : Loop(c, Len(s), v, h) /\ c \in [0..Len(s) -> R]
    BY <1>0, <1>1, <1>3, Iterates, Zenon
  <2>2. c = [i \in 0..Len(s) |-> IF i = 0 THEN v ELSE h[<<i, c[i - 1]>>]]
    BY <2>1 DEF Loop
  <2>3. \A i \in 0..Len(s) : i # 0 => h[<<i, c[i - 1]>>] = A!ClassTurn(c[i - 1], s[i], nodes[s[i]].family)
    <3> SUFFICES ASSUME NEW i \in 1..Len(s) PROVE h[<<i, c[i - 1]>>] = A!ClassTurn(c[i - 1], s[i], nodes[s[i]].family)
      BY <1>0
    <3>1. c[i - 1] \in R
      BY <1>0, <2>1
    <3> QED
      BY <3>1 DEF h
  <2>4. Is(c)
    BY <2>2, <2>3, Zenon
  <2> QED
    BY <2>1, <2>4, Zenon
<1>5. Is(class)
  BY <1>4, Zenon
<1>6. A!bctbx_addrinfo_sort(nodes, s) = of["inet6"] \o of["mapped"] \o of["inet"]
  BY DEF A!bctbx_addrinfo_sort
<1> HIDE DEF class
<1>7. class[0] = v /\ \A i \in 1..Len(s) : class[i] = A!ClassTurn(class[i - 1], s[i], nodes[s[i]].family)
  <2> HIDE DEF v, h, R
  <2>1. \A i \in 0..Len(s) : class[i] = IF i = 0 THEN v ELSE A!ClassTurn(class[i - 1], s[i], nodes[s[i]].family)
    BY <1>5, Zenon
  <2>2. 0 \in 0..Len(s) /\ \A i \in 1..Len(s) : i \in 0..Len(s) /\ i # 0
    BY <1>0
  <2> QED
    BY <2>1, <2>2, Zenon
<1> DEFINE S == {i \in 0..Len(s) : class[i] \in R /\ Sorted(class[i], nodes, s, i)}
<1>8. 0 \in S
  <2>1. v \in R /\ \A f \in A!Families : v[f] = <<>> /\ <<>> \in Seq(DOMAIN nodes)
    BY <1>1
  <2>2. Distinct(<<>>) /\ (\A n : ~In(n, <<>>)) /\ 1..0 = {}
    BY DEF Distinct, In
  <2>3. Sorted(v, nodes, s, 0)
    BY <2>1, <2>2 DEF Sorted
  <2>4. class[0] = v
    BY <1>7
  <2> HIDE DEF v, R
  <2> QED
    BY <1>0, <2>1, <2>3, <2>4
<1>9. ASSUME NEW i \in 1..Len(s), i - 1 \in S PROVE i \in S
  <2>1. class[i] = A!ClassTurn(class[i - 1], s[i], nodes[s[i]].family) /\ class[i - 1] \in R /\ Sorted(class[i - 1], nodes, s, i - 1)
    BY <1>7, <1>9
  <2>2. Sorted(class[i], nodes, s, i)
    BY <2>1, SortTurn
  <2>3. class[i] = h[<<i, class[i - 1]>>]
    BY <2>1
  <2>4. class[i] \in R
    <3> HIDE DEF h, R
    <3> QED
      BY <1>3, <2>1, <2>3
  <2> QED
    BY <1>0, <2>2, <2>4
<1>10. of \in R /\ Sorted(of, nodes, s, Len(s))
  <2> HIDE DEF S
  <2>1. \A i \in 0..Len(s) : i \in S
    BY <1>0, <1>8, <1>9, UpTo, Zenon
  <2>2. Len(s) \in S
    BY <1>0, <2>1
  <2> QED
    BY <2>2 DEF S
<1> HIDE DEF of
<1> DEFINE a == of["inet6"]
           b == of["mapped"]
           c == of["inet"]
<1>11. /\ a \in Seq(DOMAIN nodes) /\ b \in Seq(DOMAIN nodes) /\ c \in Seq(DOMAIN nodes)
       /\ Distinct(a) /\ Distinct(b) /\ Distinct(c)
       /\ \A n : In(n, a) => nodes[n].family = "inet6" /\ In(n, s)
       /\ \A n : In(n, b) => nodes[n].family = "mapped" /\ In(n, s)
       /\ \A n : In(n, c) => nodes[n].family = "inet" /\ In(n, s)
       /\ \A n : In(n, s) => In(n, a) \/ In(n, b) \/ In(n, c)
  <2>1. A!Families = {"inet6", "mapped", "inet"} /\ DOMAIN s = 1..Len(s)
    BY DEF A!Families
  <2>2. \A n : In(n, s) <=> \E j \in 1..Len(s) : s[j] = n
    BY <2>1 DEF In
  <2>3. ASSUME NEW f \in A!Families
        PROVE  /\ of[f] \in Seq(DOMAIN nodes) /\ Distinct(of[f])
               /\ \A n : In(n, of[f]) => nodes[n].family = f /\ In(n, s)
    BY <1>10, <2>2 DEF Sorted
  <2>4. \A n : In(n, s) => \E f \in A!Families : In(n, of[f])
    BY <1>10, <2>2, SMTT(30) DEF Sorted
  <2> QED
    BY <2>1, <2>3, <2>4
<1> HIDE DEF a, b, c
<1>12. /\ a \o b \in Seq(DOMAIN nodes) /\ Distinct(a \o b) /\ \A n : In(n, a \o b) <=> In(n, a) \/ In(n, b)
  <2>1. \A n : ~(In(n, a) /\ In(n, b))
    BY <1>11
  <2> QED
    BY <1>11, <2>1, ConcatElements
<1>13. /\ (a \o b) \o c \in Seq(DOMAIN nodes) /\ Distinct((a \o b) \o c)
       /\ \A n : In(n, (a \o b) \o c) <=> In(n, a) \/ In(n, b) \/ In(n, c)
  <2>1. \A n : ~(In(n, a \o b) /\ In(n, c))
    BY <1>11, <1>12
  <2> DEFINE ab == a \o b
  <2> HIDE DEF ab
  <2>2. /\ ab \in Seq(DOMAIN nodes) /\ Distinct(ab) /\ (\A n : In(n, ab) <=> In(n, a) \/ In(n, b))
        /\ \A n : ~(In(n, ab) /\ In(n, c))
    BY <1>12, <2>1 DEF ab
  <2>3. /\ ab \o c \in Seq(DOMAIN nodes) /\ Distinct(ab \o c)
        /\ \A n : In(n, ab \o c) <=> In(n, ab) \/ In(n, c)
    BY <1>11, <2>2, ConcatElements
  <2>4. \A n : In(n, ab \o c) <=> In(n, a) \/ In(n, b) \/ In(n, c)
    BY <2>2, <2>3, Zenon
  <2> QED
    BY <2>3, <2>4 DEF ab
<1> QED
  BY <1>6, <1>11, <1>13 DEF a, b, c

\* What a loop that frees has done when it stands at node i of the list.
FreedTo(st, nodes, s, i) ==
    /\ st.start \in 1..Len(s) /\ st.start <= IF i = 0 THEN 1 ELSE i
    /\ \A j \in st.start..i : nodes[s[j]].by = nodes[s[st.start]].by
    /\ DOMAIN st.nodes = DOMAIN nodes
    /\ \A n \in DOMAIN nodes :
          st.nodes[n] = IF \E j \in 1..(st.start - 1) : s[j] = n
                        THEN [nodes[n] EXCEPT !.freedBy = nodes[n].by] ELSE nodes[n]

NodeType == [by : {"libc", "bctbx"}, family : A!Families, addr : Addresses, freedBy : {"", "libc", "bctbx"}]

\* The nodes of the list up to place m are freed, and no others.
FreedUpTo(g, nodes, s, m) ==
    /\ DOMAIN g = DOMAIN nodes
    /\ \A n \in DOMAIN nodes : g[n] = IF \E j \in 1..m : s[j] = n THEN [nodes[n] EXCEPT !.freedBy = nodes[n].by] ELSE nodes[n]

\* Freeing a piece of the list of which all nodes are by the same allocator.
LEMMA FreePiece ==
  ASSUME NEW nodes \in Seq(NodeType), NEW s \in Seq(DOMAIN nodes), NEW st, NEW i \in 0..Len(s), FreedTo(st, nodes, s, i),
         NEW m, m \in st.start..Len(s), m <= i
  PROVE  FreedUpTo(A!Freed(st.nodes, SubSeq(s, st.start, m), nodes[s[st.start]].by), nodes, s, m)
<1> DEFINE b == st.start
           by == nodes[s[b]].by
           piece == SubSeq(s, b, m)
           g == A!Freed(st.nodes, piece, by)
<1>0. b \in 1..Len(s) /\ m \in b..Len(s) /\ m <= i /\ i \in 0..Len(s) /\ Len(s) \in Nat
  BY DEF FreedTo
<1> HIDE DEF b
<1>1. b \in Nat /\ m \in Nat /\ i \in Nat /\ Len(s) \in Nat /\ 1 <= b /\ b <= m /\ m <= i /\ i <= Len(s)
  BY <1>0
<1>2. piece \in Seq(DOMAIN nodes) /\ Len(piece) = (m - b) + 1
      /\ \A l \in 1..((m - b) + 1) : piece[l] = s[(b + l) - 1]
  <2>1. b \in 1..(Len(s) + 1) /\ m \in 0..Len(s) /\ b <= m + 1
    BY <1>1
  <2> QED
    BY <2>1, SubSeqIs
<1> HIDE DEF piece, by
<1>3. \A n : In(n, piece) <=> \E j \in b..m : s[j] = n
  <2>1. ASSUME NEW n, In(n, piece) PROVE \E j \in b..m : s[j] = n
    <3>1. PICK l \in 1..((m - b) + 1) : piece[l] = n
      BY <1>2, <2>1, LenProperties DEF In
    <3>2. (b + l) - 1 \in b..m /\ s[(b + l) - 1] = n
      <4>1. (b + l) - 1 \in b..m
        BY <1>1
      <4> QED
        BY <1>2, <3>1, <4>1
    <3> QED
      BY <3>2
  <2>2. ASSUME NEW n, NEW j \in b..m, s[j] = n PROVE In(n, piece)
    <3>1. (j - b) + 1 \in 1..Len(piece) /\ piece[(j - b) + 1] = s[j]
      <4>1. (j - b) + 1 \in 1..((m - b) + 1) /\ (b + ((j - b) + 1)) - 1 = j
        BY <1>1
      <4> QED
        BY <1>2, <4>1
    <3> QED
      BY <1>2, <2>2, <3>1, LenProperties DEF In
  <2> QED
    BY <2>1, <2>2
<1>4. g = [n \in DOMAIN nodes |-> IF In(n, piece) THEN [st.nodes[n] EXCEPT !.freedBy = by] ELSE st.nodes[n]]
  BY Zenon DEF A!Freed, In, FreedTo, piece, by, b
<1>5. ASSUME NEW n \in DOMAIN nodes
      PROVE  g[n] = IF \E j \in 1..m : s[j] = n THEN [nodes[n] EXCEPT !.freedBy = nodes[n].by] ELSE nodes[n]
  <2> DEFINE done == [nodes[n] EXCEPT !.freedBy = nodes[n].by]
  <2>0. nodes[n] \in NodeType
    BY ElementOfSeq, LenProperties
  <2>1. [done EXCEPT !.freedBy = nodes[n].by] = done
    BY <2>0, Zenon DEF NodeType
  <2>2. st.nodes[n] = IF \E j \in 1..(b - 1) : s[j] = n THEN done ELSE nodes[n]
    BY Zenon DEF FreedTo, b
  <2>3. (\E j \in 1..m : s[j] = n) <=> (\E j \in 1..(b - 1) : s[j] = n) \/ (\E j \in b..m : s[j] = n)
    <3>1. \A j \in 1..m : j \in 1..(b - 1) \/ j \in b..m
      BY <1>1
    <3>2. \A j \in 1..(b - 1) : j \in 1..m
      BY <1>1
    <3>3. \A j \in b..m : j \in 1..m
      BY <1>1
    <3> QED
      BY <3>1, <3>2, <3>3
  <2>4. CASE \E j \in b..m : s[j] = n
    <3>1. by = nodes[n].by
      <4>1. PICK j \in b..m : s[j] = n
        BY <2>4
      <4>2. j \in b..i
        BY <1>1
      <4> QED
        BY <4>1, <4>2 DEF FreedTo, by, b
    <3>2. g[n] = [st.nodes[n] EXCEPT !.freedBy = nodes[n].by]
      BY <1>3, <1>4, <2>4, <3>1
    <3> HIDE DEF done
    <3>3. st.nodes[n] = done \/ st.nodes[n] = nodes[n]
      BY <2>2
    <3>4. g[n] = done
      BY <2>1, <3>2, <3>3, Zenon DEF done
    <3> QED
      BY <2>3, <2>4, <3>4 DEF done
  <2>5. CASE ~\E j \in b..m : s[j] = n
    <3>1. g[n] = st.nodes[n]
      BY <1>3, <1>4, <2>5
    <3> HIDE DEF done
    <3> QED
      BY <2>2, <2>3, <2>5, <3>1 DEF done
  <2> QED
    BY <2>4, <2>5
<1> HIDE DEF g
<1>6. DOMAIN g = DOMAIN nodes
  BY <1>4
<1> QED
  BY <1>5, <1>6, Zenon DEF FreedUpTo, g, piece, by, b

\* The list is freed, each node by who made it.
LEMMA FreeAll ==
  ASSUME NEW nodes \in Seq(NodeType), NEW s \in Seq(DOMAIN nodes), s # <<>>
  PROVE  /\ DOMAIN A!bctbx_freeaddrinfo(nodes, s) = DOMAIN nodes
         /\ \A n \in DOMAIN nodes :
              A!bctbx_freeaddrinfo(nodes, s)[n] = IF In(n, s) THEN [nodes[n] EXCEPT !.freedBy = nodes[n].by] ELSE nodes[n]
<1> DEFINE T0 == [DOMAIN nodes -> NodeType]
           R == [nodes : T0, start : 1..Len(s)]
           v == [nodes |-> nodes, start |-> 1]
           h == [p \in (1..Len(s)) \X R |-> A!FreeTurn(p[2], s, p[1])]
           Is(c) == c = [i \in 0..Len(s) |-> IF i = 0 THEN v ELSE A!FreeTurn(c[i - 1], s, i)]
           after == CHOOSE c : Is(c)
           end == after[Len(s)]
<1>0. Len(s) \in Nat /\ 1 \in 1..Len(s) /\ DOMAIN s = 1..Len(s) /\ \A i \in 1..Len(s) : s[i] \in DOMAIN nodes
  BY EmptySeq
<1>1. v \in R
  <2>1. nodes \in T0
    BY LenProperties
  <2> HIDE DEF T0
  <2> QED
    BY <1>0, <2>1
<1>2. ASSUME NEW i \in 1..Len(s), NEW c \in R PROVE A!FreeTurn(c, s, i) \in R
  <2>0. c.nodes \in T0 /\ c.start \in 1..Len(s) /\ c = [nodes |-> c.nodes, start |-> c.start]
    <3> HIDE DEF T0
    <3> QED
      OBVIOUS
  <2> DEFINE by == c.nodes[s[c.start]].by
             freed0 == A!Freed(c.nodes, SubSeq(s, c.start, i - 1), by)
  <2>1. by \in {"libc", "bctbx"}
    <3>1. c.nodes[s[c.start]] \in NodeType
      BY <1>0, <2>0
    <3> QED
      BY <3>1, Zenon DEF NodeType
  <2>2. \A n \in DOMAIN nodes : [c.nodes[n] EXCEPT !.freedBy = by] \in NodeType /\ c.nodes[n] \in NodeType
    <3> HIDE DEF by
    <3> SUFFICES ASSUME NEW n \in DOMAIN nodes PROVE [c.nodes[n] EXCEPT !.freedBy = by] \in NodeType /\ c.nodes[n] \in NodeType
      OBVIOUS
    <3>1. c.nodes[n] \in NodeType
      BY <2>0
    <3> QED
      BY <2>1, <3>1, Zenon DEF NodeType
  <2>3. freed0 \in T0
    <3> HIDE DEF by
    <3>1. DOMAIN c.nodes = DOMAIN nodes
      BY <2>0
    <3> QED
      BY <2>2, <3>1 DEF A!Freed
  <2>4. A!FreeTurn(c, s, i) = c \/ A!FreeTurn(c, s, i) = [nodes |-> freed0, start |-> i]
    BY DEF A!FreeTurn
  <2> HIDE DEF freed0, T0
  <2> QED
    BY <2>3, <2>4
<1>3. h \in [(1..Len(s)) \X R -> R]
  <2> HIDE DEF R
  <2> QED
    BY <1>2
<1>4. \E c : Is(c)
  <2> HIDE DEF R, v, h
  <2>1. PICK c : Loop(c, Len(s), v, h) /\ c \in [0..Len(s) -> R]
    BY <1>0, <1>1, <1>3, Iterates, Zenon
  <2>2. c = [i \in 0..Len(s) |-> IF i = 0 THEN v ELSE h[<<i, c[i - 1]>>]]
    BY <2>1, Zenon DEF Loop
  <2>3. \A i \in 0..Len(s) : i # 0 => h[<<i, c[i - 1]>>] = A!FreeTurn(c[i - 1], s, i)
    <3> SUFFICES ASSUME NEW i \in 1..Len(s) PROVE h[<<i, c[i - 1]>>] = A!FreeTurn(c[i - 1], s, i)
      BY <1>0
    <3>1. c[i - 1] \in R
      <4>1. i - 1 \in 0..Len(s)
        BY <1>0
      <4> QED
        BY <2>1, <4>1, Zenon
    <3> QED
      BY <3>1 DEF h
  <2> QED
    BY <2>2, <2>3, Zenon
<1>5. Is(after)
  BY <1>4, Zenon
<1>6. A!bctbx_freeaddrinfo(nodes, s) = A!Freed(end.nodes, SubSeq(s, end.start, Len(s)), end.nodes[s[end.start]].by)
  BY DEF A!bctbx_freeaddrinfo
<1> HIDE DEF after
<1>7. after[0] = v /\ \A i \in 1..Len(s) : after[i] = A!FreeTurn(after[i - 1], s, i)
  <2> HIDE DEF v
  <2>1. after = [i \in 0..Len(s) |-> IF i = 0 THEN v ELSE A!FreeTurn(after[i - 1], s, i)]
    BY <1>5, Zenon
  <2>2. \A i \in 0..Len(s) : after[i] = IF i = 0 THEN v ELSE A!FreeTurn(after[i - 1], s, i)
    BY <2>1, Zenon
  <2> QED
    BY <1>0, <2>2
<1> DEFINE S == {i \in 0..Len(s) : FreedTo(after[i], nodes, s, i)}
<1>8. 0 \in S
  <2>1. FreedTo(v, nodes, s, 0)
    BY <1>0 DEF FreedTo
  <2> QED
    BY <1>0, <1>7, <2>1
<1>9. ASSUME NEW i \in 1..Len(s), i - 1 \in S PROVE i \in S
  <2> DEFINE c == after[i - 1]
             by == nodes[s[c.start]].by
             freed0 == A!Freed(c.nodes, SubSeq(s, c.start, i - 1), by)
  <2>1. FreedTo(c, nodes, s, i - 1) /\ after[i] = A!FreeTurn(c, s, i)
    BY <1>7, <1>9
  <2> HIDE DEF c
  <2>2. c.start \in 1..Len(s) /\ s[c.start] \in DOMAIN nodes /\ s[i] \in DOMAIN nodes /\ (i - 1 > 0 => c.start <= i - 1)
        /\ (i = 1 => c.start = 1)
    BY <1>0, <2>1 DEF FreedTo
  <2>3. \A n \in DOMAIN nodes : c.nodes[n].by = nodes[n].by
    <3> SUFFICES ASSUME NEW n \in DOMAIN nodes PROVE c.nodes[n].by = nodes[n].by
      OBVIOUS
    <3>1. nodes[n] \in NodeType
      BY ElementOfSeq, LenProperties
    <3>2. [nodes[n] EXCEPT !.freedBy = nodes[n].by].by = nodes[n].by
      BY <3>1, Zenon DEF NodeType
    <3> QED
      BY <2>1, <3>2, Zenon DEF FreedTo
  <2>4. CASE nodes[s[i]].by = by
    <3>1. after[i] = c
      BY <2>1, <2>2, <2>3, <2>4, Zenon DEF A!FreeTurn
    <3>2. c.start <= i
      BY <1>0, <2>2
    <3>3. \A j \in c.start..i : nodes[s[j]].by = by
      <4>1. \A j \in c.start..i : j = i \/ j \in c.start..(i - 1)
        BY <1>0, <2>2
      <4> QED
        BY <2>1, <2>4, <4>1 DEF FreedTo
    <3>4. FreedTo(c, nodes, s, i)
      BY <2>1, <3>2, <3>3, SMTT(30) DEF FreedTo
    <3> QED
      BY <1>0, <3>1, <3>4
  <2>5. CASE nodes[s[i]].by # by
    <3>1. c.start # i
      BY <2>5
    <3>2. i - 1 \in c.start..Len(s) /\ i - 1 \in 0..Len(s)
      BY <1>0, <2>2, <3>1
    <3>3. FreedUpTo(freed0, nodes, s, i - 1)
      <4> DEFINE m == i - 1
      <4>1. m <= m /\ m \in c.start..Len(s) /\ m \in 0..Len(s) /\ FreedTo(c, nodes, s, m)
        BY <2>1, <3>2
      <4> HIDE DEF m
      <4>2. FreedUpTo(A!Freed(c.nodes, SubSeq(s, c.start, m), nodes[s[c.start]].by), nodes, s, m)
        BY <4>1, FreePiece, Zenon
      <4> QED
        BY <4>2 DEF m
    <3> HIDE DEF freed0
    <3>4. after[i] = [nodes |-> freed0, start |-> i]
      BY <2>1, <2>2, <2>3, <2>5, Zenon DEF A!FreeTurn, freed0
    <3>5. after[i].nodes = freed0 /\ after[i].start = i
      BY <3>4
    <3> HIDE DEF by
    <3>6. \A j \in i..i : nodes[s[j]].by = nodes[s[i]].by
      OBVIOUS
    <3>7. FreedTo(after[i], nodes, s, i)
      BY <3>3, <3>5, <3>6 DEF FreedTo, FreedUpTo
    <3> QED
      BY <1>0, <3>7
  <2> QED
    BY <2>4, <2>5
<1>10. FreedTo(end, nodes, s, Len(s))
  <2> HIDE DEF S
  <2>1. \A i \in 0..Len(s) : i \in S
    BY <1>0, <1>8, <1>9, UpTo, Zenon
  <2>2. Len(s) \in S
    BY <1>0, <2>1
  <2> QED
    BY <2>2 DEF S
<1> HIDE DEF end
<1>11. end.start \in 1..Len(s) /\ s[end.start] \in DOMAIN nodes /\ end.nodes[s[end.start]].by = nodes[s[end.start]].by
  <2>1. end.start \in 1..Len(s) /\ s[end.start] \in DOMAIN nodes
    BY <1>0, <1>10 DEF FreedTo
  <2>2. nodes[s[end.start]] \in NodeType
    BY <2>1, ElementOfSeq, LenProperties
  <2> DEFINE n == s[end.start]
  <2>3. [nodes[n] EXCEPT !.freedBy = nodes[n].by].by = nodes[n].by
    BY <2>2, Zenon DEF NodeType
  <2> QED
    BY <1>10, <2>1, <2>3, Zenon DEF FreedTo
<1> DEFINE g == A!bctbx_freeaddrinfo(nodes, s)
<1>12. g = A!Freed(end.nodes, SubSeq(s, end.start, Len(s)), nodes[s[end.start]].by)
  BY <1>6, <1>11
<1> HIDE DEF g
<1>13. /\ DOMAIN g = DOMAIN nodes
       /\ \A n \in DOMAIN nodes :
            g[n] = IF \E j \in 1..Len(s) : s[j] = n THEN [nodes[n] EXCEPT !.freedBy = nodes[n].by] ELSE nodes[n]
  <2> DEFINE m == Len(s)
  <2>1. m \in end.start..Len(s) /\ m \in 0..Len(s) /\ m <= m /\ FreedTo(end, nodes, s, m)
    BY <1>0, <1>10, <1>11
  <2> HIDE DEF m
  <2>2. FreedUpTo(A!Freed(end.nodes, SubSeq(s, end.start, m), nodes[s[end.start]].by), nodes, s, m)
    BY <2>1, FreePiece, Zenon
  <2> QED
    BY <1>12, <2>2, Zenon DEF m, FreedUpTo
<1> QED
  BY <1>0, <1>13 DEF In, g

AddrInv ==
    /\ answer \in [inet : Seq(Addresses), inet6 : Seq(Addresses)]
    /\ node \in Seq(NodeType)
    /\ res \in Seq(DOMAIN node) /\ Distinct(res)
    /\ \A n \in DOMAIN node : node[n].freedBy = IF In(n, res) THEN "" ELSE node[n].by

LEMMA AddrInit == A!Init => AddrInv
<1> SUFFICES ASSUME A!Init PROVE AddrInv
  OBVIOUS
<1>1. node = <<>> /\ res = <<>> /\ answer = [inet |-> <<>>, inet6 |-> <<>>]
  BY DEF A!Init
<1>2. DOMAIN node = {} /\ Distinct(res) /\ node \in Seq(NodeType) /\ res \in Seq(DOMAIN node)
  BY <1>1 DEF Distinct
<1>3. answer \in [inet : Seq(Addresses), inet6 : Seq(Addresses)]
  BY <1>1
<1> QED
  BY <1>2, <1>3 DEF AddrInv

\* A sequence of n new nodes.
AreMade(new, n, by) ==
    /\ new \in Seq(NodeType) /\ Len(new) = n /\ n \in Nat
    /\ \A i \in 1..n : new[i].by = by /\ new[i].freedBy = ""

\* The nodes made for the addresses of a sequence.
LEMMA MadeNodes ==
  ASSUME NEW s \in Seq(Addresses), NEW by \in {"libc", "bctbx"}, NEW family \in A!Families
  PROVE  AreMade([i \in DOMAIN s |-> A!Made(by, family, s[i])], Len(s), by)
<1> DEFINE new == [i \in DOMAIN s |-> A!Made(by, family, s[i])]
<1>1. DOMAIN s = 1..Len(s) /\ Len(s) \in Nat /\ \A i \in 1..Len(s) : s[i] \in Addresses
  OBVIOUS
<1>2. \A i \in 1..Len(s) : new[i] \in NodeType /\ new[i].by = by /\ new[i].freedBy = ""
  BY <1>1, Zenon DEF NodeType, A!Made
<1>3. new \in [1..Len(s) -> NodeType]
  BY <1>1, <1>2, Zenon
<1> HIDE DEF new
<1>4. new \in Seq(NodeType) /\ Len(new) = Len(s)
  BY <1>1, <1>3
<1> QED
  BY <1>1, <1>2, <1>4, Zenon DEF AreMade, new

\* The nodes a conversion makes for the nodes of a sequence.
LEMMA MappedNodes ==
  ASSUME NEW nodes \in Seq(NodeType), NEW s \in Seq(DOMAIN nodes)
  PROVE  AreMade([i \in DOMAIN s |-> A!Made("bctbx", "mapped", nodes[s[i]].addr)], Len(s), "bctbx")
<1> DEFINE new == [i \in DOMAIN s |-> A!Made("bctbx", "mapped", nodes[s[i]].addr)]
<1>1. DOMAIN s = 1..Len(s) /\ Len(s) \in Nat /\ \A i \in 1..Len(s) : nodes[s[i]].addr \in Addresses
  <2>1. DOMAIN s = 1..Len(s) /\ Len(s) \in Nat /\ \A i \in 1..Len(s) : s[i] \in DOMAIN nodes
    OBVIOUS
  <2>2. \A n \in DOMAIN nodes : nodes[n].addr \in Addresses
    <3> SUFFICES ASSUME NEW n \in DOMAIN nodes PROVE nodes[n].addr \in Addresses
      OBVIOUS
    <3>1. nodes[n] \in NodeType
      BY ElementOfSeq, LenProperties
    <3> QED
      BY <3>1, Zenon DEF NodeType
  <2> QED
    BY <2>1, <2>2
<1>2. \A i \in 1..Len(s) : new[i] \in NodeType /\ new[i].by = "bctbx" /\ new[i].freedBy = ""
  BY <1>1, Zenon DEF NodeType, A!Made, A!Families
<1>3. new \in [1..Len(s) -> NodeType]
  BY <1>1, <1>2, Zenon
<1> HIDE DEF new
<1>4. new \in Seq(NodeType) /\ Len(new) = Len(s)
  BY <1>1, <1>3
<1> QED
  BY <1>1, <1>2, <1>4, Zenon DEF AreMade, new

LEMMA MadeLength ==
  ASSUME NEW new, NEW n, NEW by, AreMade(new, n, by)
  PROVE  new \in Seq(NodeType) /\ Len(new) = n /\ n \in Nat /\ DOMAIN new = 1..n
<1>1. new \in Seq(NodeType) /\ Len(new) = n /\ n \in Nat
  BY Zenon DEF AreMade
<1> QED
  BY <1>1, LenProperties

LEMMA MadeFields ==
  ASSUME NEW new, NEW n, NEW by, AreMade(new, n, by)
  PROVE  \A i \in 1..n : new[i].by = by /\ new[i].freedBy = ""
BY Zenon DEF AreMade

\* Nodes made, and more nodes made.
LEMMA JoinedNodes ==
  ASSUME NEW a, NEW b, NEW n, NEW m, NEW by, AreMade(a, n, by), AreMade(b, m, by)
  PROVE  AreMade(a \o b, n + m, by)
<1>1. a \in Seq(NodeType) /\ b \in Seq(NodeType) /\ Len(a) = n /\ Len(b) = m /\ n \in Nat /\ m \in Nat
  BY MadeLength
<1>2. a \o b \in Seq(NodeType) /\ Len(a \o b) = n + m
      /\ \A i \in 1..(n + m) : (a \o b)[i] = IF i <= n THEN a[i] ELSE b[i - n]
  BY <1>1, ConcatProperties, Zenon
<1>3. \A i \in 1..(n + m) : IF i <= n THEN i \in 1..n ELSE i - n \in 1..m
  BY <1>1
<1>4. \A i \in 1..(n + m) : (a \o b)[i].by = by /\ (a \o b)[i].freedBy = ""
  <2>1. \A i \in 1..n : a[i].by = by /\ a[i].freedBy = ""
    BY MadeFields, Zenon
  <2>2. \A i \in 1..m : b[i].by = by /\ b[i].freedBy = ""
    BY MadeFields, Zenon
  <2> SUFFICES ASSUME NEW i \in 1..(n + m) PROVE (a \o b)[i].by = by /\ (a \o b)[i].freedBy = ""
    BY Zenon
  <2>3. CASE i <= n
    BY <1>2, <1>3, <2>1, <2>3, Zenon
  <2>4. CASE ~(i <= n)
    BY <1>2, <1>3, <2>2, <2>4, Zenon
  <2> QED
    BY <2>3, <2>4, Zenon
<1>5. n + m \in Nat
  BY <1>1
<1> QED
  BY <1>2, <1>4, <1>5, Zenon DEF AreMade

\* Nodes that were there, and converted ones after them.
LEMMA MadeAfter ==
  ASSUME NEW a, NEW b, NEW n, NEW m, AreMade(a, n, "libc"), AreMade(b, m, "bctbx")
  PROVE  /\ a \o b \in Seq(NodeType) /\ Len(a \o b) = n + m
         /\ \A i \in 1..(n + m) : (a \o b)[i].freedBy = "" /\ (i <= n => (a \o b)[i].by = "libc")
<1>1. a \in Seq(NodeType) /\ b \in Seq(NodeType) /\ Len(a) = n /\ Len(b) = m /\ n \in Nat /\ m \in Nat
  BY Zenon DEF AreMade
<1>2. a \o b \in Seq(NodeType) /\ Len(a \o b) = n + m
      /\ \A i \in 1..(n + m) : (a \o b)[i] = IF i <= n THEN a[i] ELSE b[i - n]
  BY <1>1, ConcatProperties, Zenon
<1>3. \A i \in 1..(n + m) : IF i <= n THEN i \in 1..n ELSE i - n \in 1..m
  BY <1>1
<1> QED
  BY <1>1, <1>2, <1>3, Zenon DEF AreMade

\* The numbers of new nodes.
LEMMA NewNodesAre ==
  ASSUME NEW nodes \in Seq(NodeType), NEW n \in Nat, NEW m \in Nat, Len(nodes) + n <= m
  PROVE  /\ A!NewNodes(nodes, n) \in Seq(1..m) /\ Distinct(A!NewNodes(nodes, n)) /\ Len(A!NewNodes(nodes, n)) = n
         /\ DOMAIN A!NewNodes(nodes, n) = 1..n /\ \A i \in 1..n : A!NewNodes(nodes, n)[i] = Len(nodes) + i
         /\ \A x : In(x, A!NewNodes(nodes, n)) <=> x \in (Len(nodes) + 1)..(Len(nodes) + n)
<1> DEFINE s == A!NewNodes(nodes, n)
<1>0. Len(nodes) \in Nat
  OBVIOUS
<1>1. s = [i \in 1..n |-> Len(nodes) + i]
  BY DEF A!NewNodes
<1> HIDE DEF s
<1>2. s \in [1..n -> 1..m]
  BY <1>0, <1>1
<1>3. s \in Seq(1..m) /\ Len(s) = n /\ DOMAIN s = 1..n /\ \A i \in 1..n : s[i] = Len(nodes) + i
  BY <1>1, <1>2
<1>4. Distinct(s)
  BY <1>0, <1>3 DEF Distinct
<1>5. ASSUME NEW x PROVE In(x, s) <=> x \in (Len(nodes) + 1)..(Len(nodes) + n)
  <2>1. ASSUME In(x, s) PROVE x \in (Len(nodes) + 1)..(Len(nodes) + n)
    BY <1>0, <1>3, <2>1 DEF In
  <2>2. ASSUME x \in (Len(nodes) + 1)..(Len(nodes) + n) PROVE In(x, s)
    <3>1. x - Len(nodes) \in 1..n /\ Len(nodes) + (x - Len(nodes)) = x
      BY <1>0, <2>2
    <3> QED
      BY <1>3, <3>1 DEF In
  <2> QED
    BY <2>1, <2>2
<1> QED
  BY <1>3, <1>4, <1>5 DEF s

\* A name is resolved: the list has each node once that is not freed.
LEMMA AddrResolve ==
  ASSUME AddrInv, A!bctbx_name_to_addrinfo
  PROVE  AddrInv'
<1>1. node = <<>> /\ answer' = answer
  BY DEF A!bctbx_name_to_addrinfo
<1>2. PICK family \in {"inet", "inet6"} :
        LET r == A!bctbx_getaddrinfo(family)
        IN  node' = r.node /\ res' = A!bctbx_addrinfo_sort(r.node, r.res)
  BY DEF A!bctbx_name_to_addrinfo
<1> DEFINE r == A!bctbx_getaddrinfo(family)
<1>3. answer.inet \in Seq(Addresses) /\ answer.inet6 \in Seq(Addresses)
  BY Zenon DEF AddrInv
<1>4. /\ r.node \in Seq(NodeType)
      /\ r.res \in Seq(DOMAIN r.node) /\ Distinct(r.res)
      /\ \A n \in DOMAIN r.node : r.node[n].freedBy = IF In(n, r.res) THEN "" ELSE r.node[n].by
  <2> DEFINE six == [i \in DOMAIN answer.inet6 |-> A!Made("libc", "inet6", answer.inet6[i])]
             four == [i \in DOMAIN answer.inet |-> A!Made("libc", "inet", answer.inet[i])]
             res6 == A!NewNodes(node, Len(six))
             both == node \o six \o four
             res4 == A!NewNodes(node \o six, Len(four))
             v4m == A!convert_to_v4mapped(both, res4)
             res4m == A!NewNodes(both, Len(four))
             n6 == Len(answer.inet6)
             n4 == Len(answer.inet)
  <2>0. "inet6" \in A!Families /\ "inet" \in A!Families
    BY DEF A!Families
  <2>1. AreMade(six, n6, "libc")
    BY <1>3, <2>0, MadeNodes
  <2>2. AreMade(four, n4, "libc")
    BY <1>3, <2>0, MadeNodes
  <2> HIDE DEF six, four
  <2>3. node \o six = six /\ node \o four = four /\ node \in Seq(NodeType) /\ Len(node) = 0 /\ Len(six) = n6 /\ Len(four) = n4
    <3>1. six \in Seq(NodeType) /\ four \in Seq(NodeType) /\ Len(six) = n6 /\ Len(four) = n4
      BY <2>1, <2>2, Zenon DEF AreMade
    <3> HIDE DEF n6, n4
    <3> QED
      BY <1>1, <3>1, ConcatEmptySeq, EmptySeq
  <2>4. /\ family = "inet" => r = [node |-> four, res |-> A!NewNodes(node, n4)]
        /\ family # "inet" => r = [node |-> A!Freed(v4m, res4, "libc"), res |-> res6 \o res4m]
    <3>1. r = IF family = "inet" THEN [node |-> node \o four, res |-> A!NewNodes(node, Len(four))]
              ELSE [node |-> A!Freed(v4m, res4, "libc"), res |-> res6 \o res4m]
      BY Zenon DEF A!bctbx_getaddrinfo, A!addrinfo_concat, six, four
    <3> HIDE DEF r, v4m, res4, res6, res4m
    <3> QED
      BY <2>3, <3>1
  <2> HIDE DEF r, n4, n6
  <2>5. CASE family = "inet"
    <3>1. r.node = four /\ r.res = A!NewNodes(node, n4)
      BY <2>4, <2>5
    <3>2. /\ r.res \in Seq(1..n4) /\ Distinct(r.res) /\ \A x : In(x, r.res) <=> x \in (Len(node) + 1)..(Len(node) + n4)
      <4>1. n4 \in Nat /\ Len(node) + n4 <= n4
        BY <2>2, <2>3, MadeLength
      <4>2. node \in Seq(NodeType)
        BY <2>3
      <4>3. /\ A!NewNodes(node, n4) \in Seq(1..n4) /\ Distinct(A!NewNodes(node, n4))
            /\ \A x : In(x, A!NewNodes(node, n4)) <=> x \in (Len(node) + 1)..(Len(node) + n4)
        BY <4>1, <4>2, NewNodesAre
      <4> QED
        BY <3>1, <4>3
    <3>3. DOMAIN r.node = 1..n4 /\ r.node \in Seq(NodeType)
      BY <2>2, <3>1, MadeLength
    <3>4. \A n \in 1..n4 : In(n, r.res) /\ r.node[n].freedBy = ""
      <4>1. \A n \in 1..n4 : four[n].freedBy = ""
        BY <2>2, MadeFields, Zenon
      <4>2. \A n \in 1..n4 : In(n, r.res)
        <5>1. Len(node) = 0 /\ n4 \in Nat
          BY <2>2, <2>3, MadeLength
        <5>2. \A n \in 1..n4 : n \in (Len(node) + 1)..(Len(node) + n4)
          BY <5>1
        <5> QED
          BY <3>2, <5>2, Zenon
      <4> QED
        BY <3>1, <4>1, <4>2, Zenon
    <3> QED
      BY <3>2, <3>3, <3>4, Zenon
  <2>6. CASE family # "inet"
    <3> DEFINE m4 == [i \in DOMAIN res4 |-> A!Made("bctbx", "mapped", both[res4[i]].addr)]
               n64 == n6 + n4
               all == n64 + n4
    <3>0. n6 \in Nat /\ n4 \in Nat /\ n64 \in Nat /\ all \in Nat /\ n6 <= n64 /\ n64 <= all
      <4>1. n6 \in Nat /\ n4 \in Nat
        BY <2>1, <2>2, MadeLength
      <4> QED
        BY <4>1
    <3>1. AreMade(both, n64, "libc") /\ node \o six \in Seq(NodeType) /\ Len(node \o six) = n6
      <4>1. both = six \o four /\ node \o six = six
        BY <2>3
      <4>2. AreMade(six \o four, n6 + n4, "libc")
        BY <2>1, <2>2, JoinedNodes
      <4>3. six \in Seq(NodeType) /\ Len(six) = n6
        BY <2>1, MadeLength
      <4> QED
        BY <4>1, <4>2, <4>3
    <3> HIDE DEF both
    <3>2. /\ res4 \in Seq(1..n64) /\ Len(res4) = n4 /\ DOMAIN res4 = 1..n4
          /\ \A x : In(x, res4) <=> x \in (n6 + 1)..n64
      <4>1. res4 = A!NewNodes(node \o six, n4) /\ Len(node \o six) = n6 /\ node \o six \in Seq(NodeType)
        BY <2>3, <3>1
      <4> DEFINE six0 == node \o six
      <4> HIDE DEF six0, res4, n64
      <4>2. res4 = A!NewNodes(six0, n4) /\ Len(six0) + n4 <= n64 /\ Len(six0) = n6 /\ six0 \in Seq(NodeType)
        BY <3>0, <4>1 DEF six0, n64
      <4>3. /\ res4 \in Seq(1..n64) /\ Len(res4) = n4 /\ DOMAIN res4 = 1..n4
            /\ \A x : In(x, res4) <=> x \in (Len(six0) + 1)..(Len(six0) + n4)
        BY <3>0, <4>2, NewNodesAre
      <4> QED
        BY <4>2, <4>3 DEF n64
    <3> HIDE DEF res4
    <3>3. AreMade(m4, n4, "bctbx")
      <4>1. DOMAIN both = 1..n64 /\ both \in Seq(NodeType)
        BY <3>1, MadeLength
      <4> QED
        BY <3>2, <4>1, MappedNodes, Zenon
    <3>4. /\ v4m \in Seq(NodeType) /\ Len(v4m) = all
          /\ \A i \in 1..all : v4m[i].freedBy = "" /\ (i <= n64 => v4m[i].by = "libc")
      <4>1. v4m = both \o m4
        BY DEF A!convert_to_v4mapped
      <4> HIDE DEF v4m, m4, n64
      <4> QED
        BY <3>1, <3>3, <4>1, MadeAfter, ZenonT(90)
    <3> HIDE DEF v4m
    <3>5. /\ r.node \in Seq(NodeType) /\ DOMAIN r.node = 1..all
          /\ \A i \in 1..all : /\ r.node[i].by = v4m[i].by
                              /\ r.node[i].freedBy = IF i \in (n6 + 1)..n64 THEN "libc" ELSE ""
      <4>1. r.node = A!Freed(v4m, res4, "libc")
        BY <2>4, <2>6
      <4>2. DOMAIN v4m = 1..all
        BY <3>4, LenProperties, Zenon
      <4>3. \A x : In(x, res4) <=> x \in (n6 + 1)..n64
        BY <3>2 DEF In
      <4>4. r.node = [i \in 1..all |-> IF i \in (n6 + 1)..n64 THEN [v4m[i] EXCEPT !.freedBy = "libc"] ELSE v4m[i]]
        BY <4>1, <4>2, <4>3, Zenon DEF A!Freed, In
      <4>5. \A i \in 1..all : [v4m[i] EXCEPT !.freedBy = "libc"] \in NodeType /\ [v4m[i] EXCEPT !.freedBy = "libc"].by = v4m[i].by
                             /\ [v4m[i] EXCEPT !.freedBy = "libc"].freedBy = "libc" /\ v4m[i] \in NodeType
        <5> SUFFICES ASSUME NEW i \in 1..all
                     PROVE  [v4m[i] EXCEPT !.freedBy = "libc"] \in NodeType /\ [v4m[i] EXCEPT !.freedBy = "libc"].by = v4m[i].by
                            /\ [v4m[i] EXCEPT !.freedBy = "libc"].freedBy = "libc" /\ v4m[i] \in NodeType
          OBVIOUS
        <5>1. v4m[i] \in NodeType
          BY <3>4, <4>2, ElementOfSeq, Zenon
        <5> QED
          BY <5>1, Zenon DEF NodeType
      <4>6. r.node \in [1..all -> NodeType]
        BY <4>4, <4>5
      <4>7. r.node \in Seq(NodeType) /\ DOMAIN r.node = 1..all
        BY <3>0, <4>6
      <4> QED
        BY <3>4, <4>4, <4>5, <4>7, ZenonT(30)
    <3>6. /\ r.res \in Seq(1..all) /\ Distinct(r.res)
          /\ \A x : In(x, r.res) <=> x \in 1..n6 \/ x \in (n64 + 1)..all
      <4>1. r.res = res6 \o res4m /\ res6 = A!NewNodes(node, n6) /\ res4m = A!NewNodes(both, n4)
        BY <2>3, <2>4, <2>6
      <4>2. /\ res6 \in Seq(1..all) /\ Distinct(res6)
            /\ \A x : In(x, res6) <=> x \in 1..n6
        <5>1. Len(node) + n6 <= all /\ Len(node) + 1 = 1 /\ Len(node) + n6 = n6
          BY <2>3, <3>0
        <5> HIDE DEF res6, all, n64
        <5> QED
          BY <2>3, <3>0, <4>1, <5>1, NewNodesAre, ZenonT(60)
      <4>3. /\ res4m \in Seq(1..all) /\ Distinct(res4m)
            /\ \A x : In(x, res4m) <=> x \in (n64 + 1)..all
        <5>1. Len(both) + n4 <= all /\ Len(both) = n64 /\ Len(both) + n4 = all /\ both \in Seq(NodeType)
          BY <3>0, <3>1, MadeLength, SMTT(30)
        <5> HIDE DEF res4m, all, n64
        <5> QED
          BY <3>0, <4>1, <5>1, NewNodesAre
      <4>4. \A x : ~(In(x, res6) /\ In(x, res4m))
        <5> HIDE DEF res6, res4m
        <5> QED
          BY <3>0, <4>2, <4>3
      <4> HIDE DEF res6, res4m, all, n64
      <4>5. /\ res6 \o res4m \in Seq(1..all) /\ Distinct(res6 \o res4m)
            /\ \A x : In(x, res6 \o res4m) <=> In(x, res6) \/ In(x, res4m)
        BY <4>2, <4>3, <4>4, ConcatElements
      <4> QED
        BY <4>1, <4>2, <4>3, <4>5
    <3>7. ASSUME NEW i \in 1..all PROVE r.node[i].freedBy = IF In(i, r.res) THEN "" ELSE r.node[i].by
      <4>1. CASE i \in (n6 + 1)..n64
        <5>1. i <= n64 /\ ~(i \in 1..n6 \/ i \in (n64 + 1)..all)
          BY <3>0, <4>1
        <5> QED
          BY <3>4, <3>5, <3>6, <4>1, <5>1, Zenon
      <4>2. CASE i \notin (n6 + 1)..n64
        <5>1. i \in 1..n6 \/ i \in (n64 + 1)..all
          BY <3>0, <4>2
        <5> QED
          BY <3>5, <3>6, <4>2, <5>1, Zenon
      <4> QED
        BY <4>1, <4>2, Zenon
    <3> QED
      BY <3>5, <3>6, <3>7, Zenon
  <2> QED
    BY <2>5, <2>6, Zenon
<1> HIDE DEF r
<1>5. \A n \in DOMAIN r.node : r.node[n].family \in A!Families
  <2> SUFFICES ASSUME NEW n \in DOMAIN r.node PROVE r.node[n].family \in A!Families
    OBVIOUS
  <2>1. r.node[n] \in NodeType
    BY <1>4, ElementOfSeq, LenProperties, Zenon
  <2> QED
    BY <2>1, Zenon DEF NodeType
<1> DEFINE s == A!bctbx_addrinfo_sort(r.node, r.res)
<1>6. /\ s \in Seq(DOMAIN r.node) /\ Distinct(s) /\ \A n : In(n, s) <=> In(n, r.res)
  BY <1>4, <1>5, SortKeeps, Zenon
<1>7. node' = r.node /\ res' = s
  BY <1>2 DEF r
<1> HIDE DEF s
<1>8. \A n : In(n, res)' <=> In(n, r.res)
  BY <1>6, <1>7 DEF In
<1>9. Distinct(res)'
  BY <1>6, <1>7 DEF Distinct
<1> QED
  BY <1>1, <1>4, <1>6, <1>7, <1>8, <1>9, Zenon DEF AddrInv

\* A reordered list has the nodes it had.
LEMMA AddrReorder ==
  ASSUME AddrInv, A!Reorder
  PROVE  AddrInv'
<1> DEFINE Z == DOMAIN node
           n == Len(res)
<1>1. answer' = answer /\ node' = node /\ res' = [i \in DOMAIN res |-> res[Len(res) + 1 - i]]
  BY DEF A!Reorder
<1>2. res \in Seq(Z) /\ Distinct(res) /\ n \in Nat /\ DOMAIN res = 1..n /\ \A i \in 1..n : res[i] \in Z
  <2>1. res \in Seq(DOMAIN node) /\ Distinct(res)
    BY Zenon DEF AddrInv
  <2> HIDE DEF Z
  <2>2. res \in Seq(Z)
    BY <2>1 DEF Z
  <2> QED
    BY <2>1, <2>2
<1>3. res' = [i \in 1..n |-> res[(n - i) + 1]]
  BY <1>1, <1>2
<1> HIDE DEF Z, n
<1>4. \A i \in 1..n : (n - i) + 1 \in 1..n /\ (n - ((n - i) + 1)) + 1 = i
  BY <1>2
<1>5. res' \in [1..n -> Z] /\ \A i \in 1..n : res'[i] = res[(n - i) + 1]
  BY <1>2, <1>3, <1>4
<1>6. res' \in Seq(Z) /\ DOMAIN res' = 1..n
  BY <1>2, <1>5
<1>7. Distinct(res')
  BY <1>2, <1>4, <1>5, <1>6 DEF Distinct
<1>8. \A x : In(x, res') <=> In(x, res)
  BY <1>2, <1>4, <1>5, <1>6 DEF In
<1>9. (\A i \in DOMAIN node : node[i].freedBy = IF In(i, res) THEN "" ELSE node[i].by)'
  <2> SUFFICES ASSUME NEW i \in DOMAIN node PROVE node[i].freedBy = IF In(i, res') THEN "" ELSE node[i].by
    BY <1>1, Zenon DEF In
  <2>1. node[i].freedBy = IF In(i, res) THEN "" ELSE node[i].by
    BY Zenon DEF AddrInv
  <2> QED
    BY <1>8, <2>1, Zenon
<1>10. (res \in Seq(DOMAIN node) /\ Distinct(res))'
  BY <1>1, <1>6, <1>7, Zenon DEF Z, Distinct
<1> QED
  BY <1>1, <1>9, <1>10, Zenon DEF AddrInv

\* The list is freed.
LEMMA AddrFree ==
  ASSUME AddrInv, A!FreeAddrInfo
  PROVE  AddrInv'
<1> DEFINE g == A!bctbx_freeaddrinfo(node, res)
<1>1. answer' = answer /\ node' = g /\ res' = <<>> /\ res # <<>>
  BY DEF A!FreeAddrInfo
<1>2. node \in Seq(NodeType) /\ res \in Seq(DOMAIN node) /\ DOMAIN node = 1..Len(node) /\ Len(node) \in Nat
  BY LenProperties, Zenon DEF AddrInv
<1>3. /\ DOMAIN g = DOMAIN node
      /\ \A n \in DOMAIN node : g[n] = IF In(n, res) THEN [node[n] EXCEPT !.freedBy = node[n].by] ELSE node[n]
  BY <1>1, <1>2, FreeAll
<1> HIDE DEF g
<1>4. ASSUME NEW n \in DOMAIN node PROVE g[n] \in NodeType /\ g[n].freedBy = g[n].by
  <2>1. node[n] \in NodeType
    BY <1>2, ElementOfSeq
  <2>2. /\ [node[n] EXCEPT !.freedBy = node[n].by] \in NodeType
        /\ [node[n] EXCEPT !.freedBy = node[n].by].freedBy = [node[n] EXCEPT !.freedBy = node[n].by].by
    BY <2>1, Zenon DEF NodeType
  <2>3. CASE In(n, res)
    BY <1>3, <2>2, <2>3, Zenon
  <2>4. CASE ~In(n, res)
    <3>1. g[n] = node[n] /\ node[n].freedBy = node[n].by
      BY <1>3, <2>4, ZenonT(30) DEF AddrInv
    <3> QED
      BY <2>1, <3>1
  <2> QED
    BY <2>3, <2>4
<1>5. g \in Seq(NodeType)
  <2>1. g = [i \in 1..Len(node) |-> g[i]]
    <3>1. PICK nodes, s, by : g = A!Freed(nodes, s, by)
      BY Zenon DEF g, A!bctbx_freeaddrinfo
    <3>2. g = [i \in DOMAIN g |-> g[i]]
      BY <3>1, Zenon DEF A!Freed
    <3> QED
      BY <1>2, <1>3, <3>2, Zenon
  <2>2. g \in [1..Len(node) -> NodeType]
    BY <1>2, <1>4, <2>1
  <2> QED
    BY <1>2, <2>2
<1>6. <<>> \in Seq(DOMAIN node) /\ Distinct(<<>>) /\ \A x : ~In(x, <<>>)
  BY DEF Distinct, In
<1> QED
  BY <1>1, <1>3, <1>4, <1>5, <1>6, Zenon DEF AddrInv, In, Distinct

LEMMA AddrAsked ==
  ASSUME AddrInv, A!Resolve
  PROVE  AddrInv'
<1>1. PICK four \in A!Answers, six \in A!Answers : answer' = [inet |-> four, inet6 |-> six]
  BY DEF A!Resolve
<1>2. node' = node /\ res' = res
  BY DEF A!Resolve
<1>3. \A n \in 0..2 : \A s \in [1..n -> Addresses] : s \in Seq(Addresses)
  OBVIOUS
<1>4. four \in Seq(Addresses) /\ six \in Seq(Addresses)
  BY <1>1, <1>3 DEF A!Answers
<1>5. answer' \in [inet : Seq(Addresses), inet6 : Seq(Addresses)]
  BY <1>1, <1>4
<1> QED
  BY <1>2, <1>5, Zenon DEF AddrInv

LEMMA AddrStep ==
  ASSUME AddrInv, [A!Next]_A!vars
  PROVE  AddrInv'
<1>1. CASE A!Next
  BY <1>1, AddrAsked, AddrResolve, AddrFree, AddrReorder DEF A!Next
<1>2. CASE UNCHANGED A!vars
  BY <1>2, Zenon DEF AddrInv, A!vars, In, Distinct
<1> QED
  BY <1>1, <1>2

LEMMA AddrModule ==
  ASSUME AddrInv, Next
  PROVE  AddrInv'
<1>1. CASE A!Next
  BY <1>1, AddrStep
<1>2. CASE UNCHANGED <<answer, node, res>>
  BY <1>2, AddrStep DEF A!vars
<1> QED
  BY <1>1, <1>2 DEF Next, Utilities, Logging, utilVars, addrVars

\* The forms of an address that may be turned into one another.
LEMMA FormsOfAddress ==
  ASSUME NEW a, NEW family \in {"inet", "inet6"}, NEW prefix \in {"::ffff", "64:ff9b", "2001"}
  PROVE  LET sa == [family |-> family, prefix |-> IF family = "inet" THEN "" ELSE prefix, addr |-> a, port |-> 1]
             six == A!bctbx_sockaddr_ipv4_to_ipv6(sa, sa)
         IN  /\ family = "inet" => A!bctbx_sockaddr_equals(A!bctbx_sockaddr_remove_v4_mapping(six), sa)
             /\ family = "inet" => A!bctbx_sockaddr_remove_nat64_mapping(six) = six
             /\ family = "inet6" => six = sa
<1> DEFINE sa == [family |-> family, prefix |-> IF family = "inet" THEN "" ELSE prefix, addr |-> a, port |-> 1]
           six == A!bctbx_sockaddr_ipv4_to_ipv6(sa, sa)
<1>1. CASE family = "inet6"
  <2>1. sa.family = "inet6"
    BY <1>1
  <2> HIDE DEF sa
  <2>2. six = sa
    BY <2>1 DEF A!bctbx_sockaddr_ipv4_to_ipv6
  <2> QED
    BY <1>1, <2>2, Zenon DEF sa, six
<1>2. CASE family = "inet"
  <2>1. sa.family = "inet" /\ sa.prefix = "" /\ sa.addr = a /\ sa.port = 1
    BY <1>2
  <2> HIDE DEF sa
  <2>2. six = [family |-> "inet6", prefix |-> "::ffff", addr |-> a, port |-> 1]
    BY <2>1, Zenon DEF A!bctbx_sockaddr_ipv4_to_ipv6
  <2> HIDE DEF six
  <2>3. six.family = "inet6" /\ six.prefix = "::ffff" /\ six.addr = a /\ six.port = 1
    BY <2>2
  <2>4. A!bctbx_sockaddr_remove_v4_mapping(six) = [family |-> "inet", prefix |-> "", addr |-> a, port |-> 1]
    BY <2>3 DEF A!bctbx_sockaddr_remove_v4_mapping, A!remove_mapping
  <2>5. A!bctbx_sockaddr_equals(A!bctbx_sockaddr_remove_v4_mapping(six), sa)
    <3> DEFINE back == A!bctbx_sockaddr_remove_v4_mapping(six)
    <3>0. back = [family |-> "inet", prefix |-> "", addr |-> a, port |-> 1]
      BY <2>4, Zenon
    <3> HIDE DEF back
    <3>1. back.family = "inet" /\ back.prefix = "" /\ back.addr = a /\ back.port = 1
      BY <3>0, Zenon
    <3>2. A!bctbx_sockaddr_equals(back, sa)
      BY <2>1, <3>1, Zenon DEF A!bctbx_sockaddr_equals
    <3> QED
      BY <3>2 DEF back
  <2>6. A!bctbx_sockaddr_remove_nat64_mapping(six) = six
    BY <2>3 DEF A!bctbx_sockaddr_remove_nat64_mapping, A!remove_mapping
  <2> QED
    BY <1>2, <2>5, <2>6, Zenon DEF sa, six
<1> QED
  BY <1>1, <1>2, Zenon

LEMMA AddrFreed == AddrInv => AddressesFreed
<1> SUFFICES ASSUME AddrInv PROVE AddressesFreed
  OBVIOUS
<1>1. node \in Seq(NodeType) /\ res \in Seq(DOMAIN node) /\ Distinct(res)
      /\ \A n \in DOMAIN node : node[n].freedBy = IF In(n, res) THEN "" ELSE node[n].by
  BY Zenon DEF AddrInv
<1>2. \A i \in DOMAIN res : res[i] \in DOMAIN node /\ In(res[i], res)
  <2> DEFINE Z == DOMAIN node
  <2>1. res \in Seq(Z)
    BY <1>1, Zenon
  <2> HIDE DEF Z
  <2>2. \A i \in DOMAIN res : res[i] \in Z
    BY <2>1
  <2> QED
    BY <2>2 DEF In, Z
<1>3. \A n : res = <<>> => ~In(n, res)
  BY DEF In
<1>4. res = <<>> => \A n \in DOMAIN node : node[n].freedBy = node[n].by
  BY <1>1, <1>3, Zenon
<1>5. \A i \in DOMAIN res : node[res[i]].freedBy = ""
  BY <1>1, <1>2, Zenon
<1>6. \A n \in DOMAIN node : node[n].freedBy \in {"", node[n].by}
  BY <1>1, Zenon
<1>7. \A i, j \in DOMAIN res : i # j => res[i] # res[j]
  BY <1>1, Zenon DEF Distinct
<1> QED
  BY <1>4, <1>5, <1>6, <1>7, FormsOfAddress, Zenon DEF AddressesFreed

\* Any addresses, and any answers: every node is freed by who made it, once,
\* when the list is, and none while it is in the list.
THEOREM AddressesHold == Spec => []AddressesFreed
<1>1. Init => AddrInv
  BY AddrInit DEF Init
<1>2. AddrInv /\ [Next]_vars => AddrInv'
  <2> SUFFICES ASSUME AddrInv, [Next]_vars PROVE AddrInv'
    OBVIOUS
  <2>1. CASE Next
    BY <2>1, AddrModule
  <2>2. CASE UNCHANGED vars
    <3>1. UNCHANGED A!vars
      BY <2>2 DEF vars, utilVars, addrVars, A!vars
    <3> QED
      BY <3>1, AddrStep
  <2> QED
    BY <2>1, <2>2
<1>3. AddrInv => AddressesFreed
  BY AddrFreed
<1> QED
  BY <1>1, <1>2, <1>3, PTL DEF Spec

-----------------------------------------------------------------------------
(* Times and hexadecimal strings.                                          *)

TimeType == [sec : Nat, nsec : 0..V!NsPerSec]

TimeOf(t) == (t.sec * V!NsPerSec) + t.nsec

ValuesInv ==
    /\ ts \in [1..2 -> TimeType] /\ total \in [1..2 -> Nat]
    /\ \A i \in 1..2 : TimeOf(ts[i]) = total[i]
    /\ digits \in [1..2 -> 0..15] /\ DOMAIN digits = 1..2

\* Division and remainder of C.
LEMMA Division ==
  ASSUME NEW a \in Int, NEW b \in Nat \ {0}
  PROVE  \E q, r \in Int : /\ V!Quotient(a, b) = q /\ V!Remainder(a, b) = r /\ a = (q * b) + r
                           /\ a >= 0 => q >= 0 /\ 0 <= r /\ r < b
                           /\ a < 0 => q <= 0 /\ r <= 0 /\ -b < r
<1> DEFINE x == V!Abs(a)
           d == x \div b
           m == x % b
<1>1. x \in Nat /\ (a >= 0 => x = a) /\ (a < 0 => x = -a)
  BY DEF V!Abs
<1> HIDE DEF x
<1>2. d \in Nat /\ m \in Nat /\ m < b /\ x = (b * d) + m
  BY <1>1
<1>3. V!Quotient(a, b) = V!Sgn(a) * d /\ V!Remainder(a, b) = V!Sgn(a) * m
  BY DEF V!Quotient, V!Remainder, x
<1> HIDE DEF d, m
<1>4. b * d = d * b /\ (-d) * b = -(d * b)
  BY <1>2
<1>5. CASE a = 0
  <2>1. V!Sgn(a) = 0 /\ d = 0 /\ m = 0
    <3>1. (b * d) + m = 0 /\ b * d >= 0
      BY <1>1, <1>2, <1>5
    <3>2. d # 0 => b * d > 0
      BY <1>2
    <3> QED
      BY <1>2, <1>5, <3>1, <3>2 DEF V!Sgn
  <2> QED
    BY <1>3, <1>5, <2>1
<1>6. CASE a > 0
  <2>1. V!Sgn(a) = 1
    BY <1>6 DEF V!Sgn
  <2>2. V!Quotient(a, b) = d /\ V!Remainder(a, b) = m
    BY <1>2, <1>3, <2>1
  <2>3. a = (d * b) + m
    BY <1>1, <1>2, <1>4, <1>6
  <2> QED
    BY <1>2, <1>6, <2>2, <2>3
<1>7. CASE a < 0
  <2>1. V!Sgn(a) = -1
    BY <1>7 DEF V!Sgn
  <2>2. V!Quotient(a, b) = -d /\ V!Remainder(a, b) = -m
    BY <1>2, <1>3, <2>1
  <2>3. -a = (d * b) + m
    BY <1>1, <1>2, <1>4, <1>7
  <2>4. a = ((-d) * b) + (-m)
    BY <1>2, <1>4, <2>3
  <2> QED
    BY <1>2, <1>7, <2>2, <2>4
<1> QED
  BY <1>5, <1>6, <1>7

LEMMA Units == V!NsPerSec \in Nat \ {0} /\ NsPerMs \in Nat \ {0} /\ MsPerSec \in Nat \ {0} /\ V!NsPerSec = NsPerMs * MsPerSec
BY TimesAssumption DEF V!NsPerSec

\* Products with the nanoseconds of a second.
LEMMA Products ==
  ASSUME NEW P \in Nat \ {0}, NEW a \in Int, NEW b \in Int
  PROVE  /\ (a + b) * P = (a * P) + (b * P) /\ (a - b) * P = (a * P) - (b * P) /\ a * P \in Int
         /\ (a + 1) * P = (a * P) + P /\ (a - 1) * P = (a * P) - P
         /\ a >= 0 => a * P >= 0
         /\ a >= 1 => a * P >= P
         /\ a <= -1 => a * P <= -P
<1>1. (a + b) * P = (a * P) + (b * P) /\ (a - b) * P = (a * P) - (b * P) /\ a * P \in Int
  OBVIOUS
<1>2. (a + 1) * P = (a * P) + P /\ (a - 1) * P = (a * P) - P
  OBVIOUS
<1>3. \A c \in Nat : c * P >= 0
  OBVIOUS
<1>4. a >= 0 => a * P >= 0
  BY <1>3
<1>5. a >= 1 => a * P >= P
  <2>1. a >= 1 => a - 1 \in Nat /\ (a - 1) * P >= 0
    BY <1>3
  <2> QED
    BY <1>1, <1>2, <2>1
<1>6. a <= -1 => a * P <= -P
  <2>1. a <= -1 => (-1) - a \in Nat /\ ((-1) - a) * P >= 0
    BY <1>3
  <2>2. ((-1) - a) * P = (-P) - (a * P)
    OBVIOUS
  <2> QED
    BY <1>1, <2>1, <2>2
<1> QED
  BY <1>1, <1>2, <1>4, <1>5, <1>6

LEMMA SecsAdded ==
  ASSUME NEW t \in TimeType, NEW lap \in Int
  PROVE  /\ V!bctbx_timespec_add_secs(t, lap) \in TimeType
         /\ TimeOf(V!bctbx_timespec_add_secs(t, lap)) = V!Plus(TimeOf(t), lap * V!NsPerSec)
         /\ t.sec + lap >= 0 => V!bctbx_timespec_add_secs(t, lap) = [sec |-> t.sec + lap, nsec |-> t.nsec]
         /\ t.sec + lap < 0 => V!bctbx_timespec_add_secs(t, lap) = [sec |-> 0, nsec |-> 0]
<1> DEFINE P == V!NsPerSec
           s == t.sec
           n == t.nsec
           u == V!bctbx_timespec_add_secs(t, lap)
<1>1. P \in Nat \ {0} /\ s \in Nat /\ n \in 0..P /\ t = [sec |-> s, nsec |-> n]
  BY Units DEF TimeType
<1> HIDE DEF P
<1>2. s + lap >= 0 => u = [sec |-> s + lap, nsec |-> n]
  BY <1>1 DEF V!bctbx_timespec_add_secs
<1>3. s + lap < 0 => u = [sec |-> 0, nsec |-> 0]
  BY <1>1 DEF V!bctbx_timespec_add_secs
<1>4. TimeOf(t) = (s * P) + n /\ TimeOf(u) = (u.sec * P) + u.nsec
  BY DEF TimeOf, P
<1> HIDE DEF u, s, n
<1>5. /\ (s + lap) * P = (s * P) + (lap * P) /\ (s + lap >= 0 => (s + lap) * P >= 0) /\ s * P \in Int /\ lap * P \in Int
      /\ s + lap <= -1 => (s + lap) * P <= -P
  BY <1>1, Products
<1> DEFINE a == s * P
           b == lap * P
           c == (s + lap) * P
<1>6. a \in Int /\ b \in Int /\ c = a + b /\ (s + lap >= 0 => c >= 0) /\ (s + lap <= -1 => c <= -P)
  BY <1>5
<1>7. CASE s + lap >= 0
  <2>1. u = [sec |-> s + lap, nsec |-> n]
    BY <1>2, <1>7
  <2>2. TimeOf(u) = c + n /\ TimeOf(t) = a + n
    BY <1>4, <2>1
  <2> HIDE DEF a, b, c
  <2>3. V!Plus(a + n, b) = c + n
    BY <1>1, <1>6, <1>7 DEF V!Plus
  <2>4. u \in TimeType
    BY <1>1, <1>7, <2>1 DEF TimeType, P
  <2> QED
    BY <1>1, <1>7, <2>1, <2>2, <2>3, <2>4 DEF b, P, u, s, n
<1>8. CASE s + lap < 0
  <2>1. u = [sec |-> 0, nsec |-> 0]
    BY <1>3, <1>8
  <2>2. TimeOf(u) = 0 /\ TimeOf(t) = a + n
    BY <1>1, <1>4, <2>1
  <2>3. s + lap <= -1
    BY <1>1, <1>8
  <2> HIDE DEF a, b, c
  <2>4. V!Plus(a + n, b) = 0
    BY <1>1, <1>6, <2>3 DEF V!Plus
  <2>5. u \in TimeType
    BY <1>1, <2>1 DEF TimeType, P
  <2> QED
    BY <1>1, <1>8, <2>1, <2>2, <2>4, <2>5 DEF b, P, u, s, n
<1> QED
  BY <1>1, <1>7, <1>8

LEMMA MillisecsAdded ==
  ASSUME NEW t \in TimeType, NEW lap \in Int
  PROVE  /\ V!bctbx_timespec_add_millisecs(t, lap) \in TimeType
         /\ TimeOf(V!bctbx_timespec_add_millisecs(t, lap)) = V!Plus(TimeOf(t), lap * NsPerMs)
<1> DEFINE P == V!NsPerSec
           w == V!bctbx_timespec_add_millisecs(t, lap)
<1>1. PICK q, r \in Int : /\ V!Quotient(lap, MsPerSec) = q /\ V!Remainder(lap, MsPerSec) = r /\ lap = (q * MsPerSec) + r
                          /\ lap >= 0 => q >= 0 /\ 0 <= r /\ r < MsPerSec
                          /\ lap < 0 => q <= 0 /\ r <= 0 /\ -MsPerSec < r
  BY Units, Division, Zenon
<1> DEFINE x == r * NsPerMs
           y == q * P
           u0 == V!bctbx_timespec_add_secs(t, q)
           u == IF q # 0 THEN u0 ELSE t
           nsec == u.nsec + x
<1>2. w = (IF nsec < 0
           THEN IF u.sec = 0 THEN [u EXCEPT !.nsec = 0]
                ELSE [sec |-> u.sec - 1, nsec |-> P + nsec]
           ELSE IF nsec > P THEN [sec |-> u.sec + 1, nsec |-> nsec % P]
           ELSE [u EXCEPT !.nsec = nsec])
  BY <1>1 DEF V!bctbx_timespec_add_millisecs
<1>3. lap * NsPerMs = y + x /\ y \in Int /\ x \in Int
  <2>1. lap * NsPerMs = ((q * MsPerSec) * NsPerMs) + (r * NsPerMs)
    BY <1>1, Units
  <2>2. (q * MsPerSec) * NsPerMs = q * (NsPerMs * MsPerSec)
    BY <1>1, Units
  <2> QED
    BY <1>1, <2>1, <2>2, Units
<1>4. (lap >= 0 => x >= 0 /\ x < P /\ y >= 0) /\ (lap < 0 => x <= 0 /\ -P < x /\ y <= 0) /\ (q = 0 => y = 0)
  <2>1. P = MsPerSec * NsPerMs /\ P \in Nat \ {0}
    BY Units
  <2>2. /\ r >= 0 => x >= 0
        /\ r < MsPerSec => x < P
        /\ r <= 0 => x <= 0
        /\ -MsPerSec < r => -P < x
    <3>1. (r - MsPerSec) * NsPerMs = x - P /\ (r + MsPerSec) * NsPerMs = x + P
      BY <1>1, <2>1, Units
    <3>2. NsPerMs \in Nat \ {0} /\ r \in Int /\ r - MsPerSec \in Int /\ r + MsPerSec \in Int /\ MsPerSec \in Nat /\ x \in Int
      BY <1>1, <1>3, Units
    <3>3. \A a \in Int : (a >= 0 => a * NsPerMs >= 0) /\ (a >= 1 => a * NsPerMs >= NsPerMs) /\ (a <= -1 => a * NsPerMs <= -NsPerMs)
      BY <3>2, Products
    <3> DEFINE b == r - MsPerSec
               c == r + MsPerSec
               bb == b * NsPerMs
               cc == c * NsPerMs
    <3>4. bb = x - P /\ cc = x + P /\ (b <= -1 => bb <= -NsPerMs) /\ (c >= 1 => cc >= NsPerMs) /\ (r >= 0 => x >= 0) /\ (r <= -1 => x <= -NsPerMs)
      BY <3>1, <3>2, <3>3
    <3>5. r = 0 => x = 0
      BY Units
    <3>6. (r < MsPerSec => b <= -1) /\ (-MsPerSec < r => c >= 1)
      BY <3>2
    <3> HIDE DEF x, bb, cc, b, c, P
    <3> QED
      BY <2>1, <3>2, <3>4, <3>5, <3>6
  <2>3. (q >= 0 => y >= 0) /\ (q <= 0 => y <= 0) /\ (q = 0 => y = 0)
    <3>1. \A a \in Int : (a >= 0 => a * P >= 0) /\ (a <= -1 => a * P <= -P)
      BY <2>1, Products
    <3>2. (q >= 0 => y >= 0) /\ (q <= -1 => y <= -P)
      BY <1>1, <3>1
    <3>3. q = 0 => y = 0
      BY <2>1
    <3> HIDE DEF y, P
    <3> QED
      BY <1>1, <1>3, <2>1, <3>2, <3>3
  <2> HIDE DEF x, y, P
  <2> QED
    BY <1>1, <2>2, <2>3
<1>5. P \in Nat \ {0} /\ t.sec \in Nat /\ t.nsec \in 0..P /\ t = [sec |-> t.sec, nsec |-> t.nsec]
  BY Units DEF TimeType
<1>6. TimeOf(t) \in Nat
  <2>1. t.sec * P >= 0 /\ t.sec * P \in Int
    BY <1>5, Products
  <2> QED
    BY <1>5, <2>1 DEF TimeOf
<1>7. u \in TimeType /\ TimeOf(u) = V!Plus(TimeOf(t), y) /\ (TimeOf(t) + y < 0 => u = [sec |-> 0, nsec |-> 0])
  <2>1. /\ u0 \in TimeType /\ TimeOf(u0) = V!Plus(TimeOf(t), q * V!NsPerSec)
        /\ t.sec + q >= 0 => u0 = [sec |-> t.sec + q, nsec |-> t.nsec]
        /\ t.sec + q < 0 => u0 = [sec |-> 0, nsec |-> 0]
    BY <1>1, SecsAdded
  <2>2. CASE q = 0
    <3>1. V!Plus(TimeOf(t), 0) = TimeOf(t)
      BY <1>6 DEF V!Plus
    <3> HIDE DEF y
    <3> QED
      BY <1>4, <1>6, <2>2, <3>1
  <2>3. CASE q # 0
    <3>1. TimeOf(t) + y < 0 => t.sec + q < 0
      <4>1. (t.sec + q) * P = (t.sec * P) + y /\ (t.sec + q >= 0 => (t.sec + q) * P >= 0) /\ t.sec * P \in Int
        BY <1>1, <1>5, Products
      <4>2. TimeOf(t) = (t.sec * P) + t.nsec
        BY DEF TimeOf
      <4> DEFINE a == t.sec * P
                 b == (t.sec + q) * P
      <4>3. b = a + y /\ (t.sec + q >= 0 => b >= 0) /\ TimeOf(t) = a + t.nsec /\ a \in Int
        BY <4>1, <4>2
      <4> HIDE DEF a, b, y, P
      <4> QED
        BY <1>1, <1>3, <1>5, <4>3
    <3> HIDE DEF u0
    <3> QED
      BY <2>1, <2>3, <3>1
  <2> QED
    BY <2>2, <2>3
<1> DEFINE s == u.sec
           n == u.nsec
<1>8. s \in Nat /\ n \in 0..P /\ u = [sec |-> s, nsec |-> n] /\ TimeOf(u) = (s * P) + n
  BY <1>7 DEF TimeType, TimeOf
<1> HIDE DEF u, u0, y, x
<1>9. /\ w = (IF n + x < 0
              THEN IF s = 0 THEN [sec |-> 0, nsec |-> 0] ELSE [sec |-> s - 1, nsec |-> P + (n + x)]
              ELSE IF n + x > P THEN [sec |-> s + 1, nsec |-> (n + x) % P] ELSE [sec |-> s, nsec |-> n + x])
  BY <1>2, <1>8
<1> DEFINE a == s * P
<1>10. a \in Nat /\ (s - 1) * P = a - P /\ (s + 1) * P = a + P /\ (s = 0 => a = 0)
  BY <1>5, <1>8, Products
<1> HIDE DEF s, n, P, w
<1>11. n + x > P => n + x < P + P /\ (n + x) % P = (n + x) - P
  <2>1. x < P /\ x \in Int
    BY <1>3, <1>4, <1>5
  <2> DEFINE z == (n + x) - P
  <2>2. n + x > P => z \in Nat /\ z < P /\ n + x = P + z /\ n + x \in Int
    BY <1>5, <1>8, <2>1
  <2>3. \A c \in Nat : c < P => (P + c) % P = c
    BY <1>5
  <2> HIDE DEF z
  <2>4. n + x > P => (n + x) % P = z
    BY <2>2, <2>3
  <2> QED
    BY <1>5, <1>8, <2>1, <2>4 DEF z
<1>12. w \in TimeType
  <2>1. n + x < 0 => P + (n + x) \in 0..P
    BY <1>3, <1>4, <1>5, <1>8
  <2>2. n + x > P => (n + x) % P \in 0..P
    BY <1>3, <1>5, <1>8, <1>11
  <2>3. ~(n + x < 0) /\ ~(n + x > P) => n + x \in 0..P
    BY <1>3, <1>5, <1>8
  <2>4. (s # 0 => s - 1 \in Nat) /\ s + 1 \in Nat /\ 0 \in 0..P
    BY <1>5, <1>8
  <2> QED
    BY <1>8, <1>9, <2>1, <2>2, <2>3, <2>4 DEF TimeType, P
<1>13. TimeOf(w) = (w.sec * P) + w.nsec
  BY DEF TimeOf, P
<1>14. TimeOf(w) = (IF n + x < 0
                    THEN IF s = 0 THEN 0 ELSE (a - P) + (P + (n + x))
                    ELSE IF n + x > P THEN (a + P) + ((n + x) - P) ELSE a + (n + x))
  <2>1. CASE n + x < 0 /\ s = 0
    <3>1. w.sec = 0 /\ w.nsec = 0
      BY <1>9, <2>1
    <3> QED
      BY <1>5, <1>13, <2>1, <3>1
  <2>2. CASE n + x < 0 /\ s # 0
    <3>1. w.sec = s - 1 /\ w.nsec = P + (n + x)
      BY <1>9, <2>2
    <3> QED
      BY <1>10, <1>13, <2>2, <3>1
  <2>3. CASE ~(n + x < 0) /\ n + x > P
    <3>1. w.sec = s + 1 /\ w.nsec = (n + x) - P
      BY <1>9, <1>11, <2>3
    <3> QED
      BY <1>10, <1>13, <2>3, <3>1
  <2>4. CASE ~(n + x < 0) /\ ~(n + x > P)
    <3>1. w.sec = s /\ w.nsec = n + x
      BY <1>9, <2>4
    <3> QED
      BY <1>13, <2>4, <3>1 DEF a
  <2> QED
    BY <2>1, <2>2, <2>3, <2>4
<1>15. TimeOf(u) = a + n
  BY <1>8 DEF a
<1> HIDE DEF a
<1>16. TimeOf(w) = V!Plus(TimeOf(u), x)
  <2>1. n + x < 0 /\ s = 0 => V!Plus(a + n, x) = 0
    BY <1>3, <1>8, <1>10 DEF V!Plus
  <2>2. s # 0 => a >= P
    <3>1. s >= 1 => s * P >= P
      BY <1>5, <1>8, Products
    <3> QED
      BY <1>8, <3>1 DEF a
  <2>3. ~(n + x < 0 /\ s = 0) => V!Plus(a + n, x) = a + (n + x)
    BY <1>3, <1>4, <1>5, <1>8, <1>10, <2>2 DEF V!Plus
  <2>4. ~(n + x < 0 /\ s = 0) => TimeOf(w) = a + (n + x)
    BY <1>3, <1>5, <1>8, <1>10, <1>14
  <2> QED
    BY <1>14, <1>15, <2>1, <2>3, <2>4
<1>17. V!Plus(V!Plus(TimeOf(t), y), x) = V!Plus(TimeOf(t), y + x)
  BY <1>3, <1>4, <1>6 DEF V!Plus
<1> QED
  BY <1>3, <1>7, <1>12, <1>16, <1>17 DEF w

\* A digit is written as a character that is read back, in either case.
LEMMA DigitRead ==
  ASSUME NEW d \in 0..15
  PROVE  LET c == V!bctbx_byte_to_char(d)
         IN  /\ V!bctbx_char_to_byte(c) = d
             /\ V!bctbx_char_to_byte(IF c > 96 THEN c - 32 ELSE c) = d
<1>1. d % 16 = d
  OBVIOUS
<1>2. V!bctbx_byte_to_char(d) = (IF d < 10 THEN d + 48 ELSE d + 87)
  BY <1>1 DEF V!bctbx_byte_to_char
<1>3. \A b \in 0..9 : b % 256 = b
  OBVIOUS
<1>4. CASE d < 10
  <2>1. V!bctbx_byte_to_char(d) = d + 48 /\ d \in 0..9 /\ (d + 48) - 48 = d
    BY <1>2, <1>4
  <2>2. V!bctbx_char_to_byte(d + 48) = d
    <3>1. V!bctbx_char_to_byte(d + 48) = ((d + 48) - 48) % 256
      BY <2>1 DEF V!bctbx_char_to_byte
    <3> QED
      BY <1>3, <2>1, <3>1
  <2> QED
    BY <2>1, <2>2
<1>5. CASE d >= 10
  <2>1. V!bctbx_byte_to_char(d) = d + 87 /\ d + 87 > 96
    BY <1>2, <1>5
  <2>2. V!bctbx_char_to_byte(d + 87) = d /\ V!bctbx_char_to_byte((d + 87) - 32) = d
    BY <1>5 DEF V!bctbx_char_to_byte
  <2> QED
    BY <2>1, <2>2
<1> QED
  BY <1>4, <1>5

\* Bytes of two digits are written, and read in either case.
LEMMA BytesRead ==
  ASSUME NEW a \in 0..15, NEW b \in 0..15, NEW bytes, bytes = <<(a * 16) + b, b>>,
         NEW str, str = V!bctbx_int8_to_str(bytes)
  PROVE  /\ V!bctbx_str_to_uint8(str) = bytes
         /\ V!bctbx_str_to_uint8([i \in DOMAIN str |-> IF str[i] > 96 THEN str[i] - 32 ELSE str[i]]) = bytes
<1> DEFINE C(d) == V!bctbx_byte_to_char(d)
           x == (a * 16) + b
           Upper(c) == IF c > 96 THEN c - 32 ELSE c
<1>1. x \in 0..255 /\ x \div 16 = a /\ x % 16 = b /\ x % 256 = x /\ a % 16 = a /\ b % 16 = b /\ b \div 16 = 0 /\ b % 256 = b
  OBVIOUS
<1>2. bytes = <<x, b>> /\ Len(bytes) = 2 /\ bytes[1] = x /\ bytes[2] = b
  OBVIOUS
<1> HIDE DEF x
<1>3. C(x) = C(b)
  BY <1>1 DEF V!bctbx_byte_to_char
<1>4. str = [i \in 1..4 |-> LET e == bytes[(i + 1) \div 2] IN C(IF i % 2 = 1 THEN e \div 16 ELSE e)]
  BY <1>2 DEF V!bctbx_int8_to_str
<1>5. str[1] = C(a) /\ str[2] = C(b) /\ str[3] = C(0) /\ str[4] = C(b) /\ DOMAIN str = 1..4
  <2> HIDE DEF C
  <2>1. /\ (1 + 1) \div 2 = 1 /\ 1 % 2 = 1 /\ (2 + 1) \div 2 = 1 /\ 2 % 2 = 0
        /\ (3 + 1) \div 2 = 2 /\ 3 % 2 = 1 /\ (4 + 1) \div 2 = 2 /\ 4 % 2 = 0
    OBVIOUS
  <2>2. str[1] = C(x \div 16) /\ str[2] = C(x) /\ str[3] = C(b \div 16) /\ str[4] = C(b) /\ DOMAIN str = 1..4
    BY <1>2, <1>4, <2>1
  <2> QED
    BY <1>1, <1>3, <2>2
<1> DEFINE Read(s) == [i \in 1..2 |-> ((V!bctbx_char_to_byte(s[2*i - 1]) * 16) + V!bctbx_char_to_byte(s[2*i])) % 256]
<1>6. \A d \in 0..15 : V!bctbx_char_to_byte(C(d)) = d /\ V!bctbx_char_to_byte(Upper(C(d))) = d
  BY DigitRead
<1> HIDE DEF C
<1> DEFINE up == [i \in DOMAIN str |-> Upper(str[i])]
<1>7. up[1] = Upper(C(a)) /\ up[2] = Upper(C(b)) /\ up[3] = Upper(C(0)) /\ up[4] = Upper(C(b)) /\ up = [i \in 1..4 |-> Upper(str[i])]
  <2> HIDE DEF Upper
  <2> QED
    BY <1>5
<1>8. Len(str) = 4 /\ Len(up) = 4
  <2> HIDE DEF Upper, up
  <2>1. 4 \in Nat /\ str = [i \in 1..4 |-> str[i]]
    BY <1>4
  <2>2. \A f : f = [i \in 1..4 |-> f[i]] => Len(f) = 4
    OBVIOUS
  <2>3. up = [i \in 1..4 |-> up[i]]
    BY <1>7
  <2> QED
    BY <2>1, <2>2, <2>3
<1>9. \A s : Len(s) = 4 => V!bctbx_str_to_uint8(s) = Read(s)
  <2>1. 4 \div 2 = 2
    OBVIOUS
  <2> QED
    BY <2>1 DEF V!bctbx_str_to_uint8
<1>10. ASSUME NEW s, V!bctbx_char_to_byte(s[1]) = a, V!bctbx_char_to_byte(s[2]) = b,
              V!bctbx_char_to_byte(s[3]) = 0, V!bctbx_char_to_byte(s[4]) = b
       PROVE  Read(s) = bytes
  <2>1. Read(s)[1] = ((a * 16) + b) % 256 /\ Read(s)[2] = ((0 * 16) + b) % 256
    <3>1. 2*1 - 1 = 1 /\ 2*1 = 2 /\ 2*2 - 1 = 3 /\ 2*2 = 4
      OBVIOUS
    <3> QED
      BY <1>10, <3>1
  <2>2. Read(s)[1] = x /\ Read(s)[2] = b
    <3>1. (0 * 16) + b = b
      OBVIOUS
    <3> QED
      BY <1>1, <2>1, <3>1 DEF x
  <2> DEFINE rd == Read(s)
  <2>3. rd = [i \in 1..2 |-> rd[i]]
    OBVIOUS
  <2> HIDE DEF rd, Read
  <2>4. rd[1] = x /\ rd[2] = b
    BY <2>2 DEF rd
  <2>5. rd = <<x, b>>
    BY <2>3, <2>4
  <2> QED
    BY <1>2, <2>5 DEF rd
<1> HIDE DEF Read, Upper
<1>11. Read(str) = bytes
  BY <1>5, <1>6, <1>10
<1>12. Read(up) = bytes
  <2> HIDE DEF up
  <2> QED
    BY <1>6, <1>7, <1>10
<1> QED
  BY <1>8, <1>9, <1>11, <1>12 DEF Upper

\* The digits of a number are written and read.
LEMMA NumberRead ==
  ASSUME NEW n \in [1..2 -> 0..15]
  PROVE  V!bctbx_str_to_uint(V!bctbx_uint_to_str(n)) = n
<1> DEFINE str == [i \in 1..2 |-> V!bctbx_byte_to_char(n[i])]
<1>1. V!bctbx_uint_to_str(n) = str
  BY DEF V!bctbx_uint_to_str
<1>2. \A i \in 1..2 : V!bctbx_char_to_byte(str[i]) = n[i]
  BY DigitRead
<1>3. DOMAIN str = 1..2
  OBVIOUS
<1> HIDE DEF str
<1>4. V!bctbx_str_to_uint(str) = [i \in 1..2 |-> V!bctbx_char_to_byte(str[i])]
  BY <1>3 DEF V!bctbx_str_to_uint
<1> QED
  BY <1>1, <1>2, <1>4

\* The milliseconds of a time are the nearest.
LEMMA MillisecsOf ==
  ASSUME NEW t \in TimeType
  PROVE  LET d == (V!bctbx_get_cur_time_ms(t) * NsPerMs) - TimeOf(t)
         IN  2 * d <= NsPerMs /\ 2 * d > -NsPerMs
<1> DEFINE s == t.sec
           n == t.nsec
           h == NsPerMs \div 2
           q == (n + h) \div NsPerMs
           m == (n + h) % NsPerMs
           ms == V!bctbx_get_cur_time_ms(t)
<1>1. s \in Nat /\ n \in Nat /\ NsPerMs \in Nat \ {0} /\ MsPerSec \in Nat \ {0} /\ V!NsPerSec = NsPerMs * MsPerSec
  BY Units DEF TimeType
<1>2. ms = (s * MsPerSec) + q
  BY DEF V!bctbx_get_cur_time_ms
<1>3. TimeOf(t) = (s * (NsPerMs * MsPerSec)) + n
  BY <1>1 DEF TimeOf
<1> HIDE DEF s, n, ms
<1>4. h \in Nat /\ 2 * h <= NsPerMs /\ 2 * h >= NsPerMs - 1
  BY <1>1
<1> HIDE DEF h
<1>5. q \in Nat /\ m \in Nat /\ m < NsPerMs /\ n + h = (NsPerMs * q) + m
  <2> DEFINE z == n + h
  <2>1. z \in Nat
    BY <1>1, <1>4
  <2> HIDE DEF z
  <2>2. z \div NsPerMs \in Nat /\ z % NsPerMs \in Nat /\ z % NsPerMs < NsPerMs /\ z = (NsPerMs * (z \div NsPerMs)) + (z % NsPerMs)
    BY <1>1, <2>1
  <2> QED
    BY <2>2 DEF z
<1> HIDE DEF q, m
<1>6. ms * NsPerMs = (s * (NsPerMs * MsPerSec)) + (NsPerMs * q)
  <2>1. ((s * MsPerSec) + q) * NsPerMs = ((s * MsPerSec) * NsPerMs) + (q * NsPerMs)
    BY <1>1, <1>5
  <2>2. (s * MsPerSec) * NsPerMs = s * (NsPerMs * MsPerSec)
    BY <1>1
  <2>3. q * NsPerMs = NsPerMs * q
    BY <1>1, <1>5
  <2> QED
    BY <1>2, <2>1, <2>2, <2>3
<1> DEFINE a == s * (NsPerMs * MsPerSec)
           b == NsPerMs * q
           d == (ms * NsPerMs) - TimeOf(t)
<1>7. a \in Int /\ b \in Int
  BY <1>1, <1>5
<1>8. d = b - n
  <2>1. ms * NsPerMs = a + b /\ TimeOf(t) = a + n
    BY <1>3, <1>6
  <2> HIDE DEF a, b
  <2> QED
    BY <1>1, <1>7, <2>1
<1>9. n + h = b + m
  BY <1>5
<1> HIDE DEF a, b, d
<1>10. 2 * d <= NsPerMs /\ 2 * d > -NsPerMs
  BY <1>1, <1>4, <1>5, <1>7, <1>8, <1>9
<1> QED
  BY <1>10 DEF d, ms

\* The time to sleep for some milliseconds.
LEMMA SleepMs ==
  ASSUME NEW ms \in Nat
  PROVE  TimeOf(V!bctbx_sleep_ms(ms)) = ms * NsPerMs
<1> DEFINE q == ms \div MsPerSec
           r == ms % MsPerSec
<1>1. NsPerMs \in Nat \ {0} /\ MsPerSec \in Nat \ {0} /\ V!NsPerSec = NsPerMs * MsPerSec
  BY Units
<1>2. q \in Nat /\ r \in Nat /\ ms = (MsPerSec * q) + r
  BY <1>1
<1>3. TimeOf(V!bctbx_sleep_ms(ms)) = (q * (NsPerMs * MsPerSec)) + (r * NsPerMs)
  BY <1>1 DEF TimeOf, V!bctbx_sleep_ms
<1> HIDE DEF q, r
<1>4. ((MsPerSec * q) + r) * NsPerMs = ((MsPerSec * q) * NsPerMs) + (r * NsPerMs)
  BY <1>1, <1>2
<1>5. (MsPerSec * q) * NsPerMs = q * (NsPerMs * MsPerSec)
  BY <1>1, <1>2
<1> QED
  BY <1>2, <1>3, <1>4, <1>5

\* Times of less than a second of nanoseconds are compared as their sums are.
LEMMA TimesCompared ==
  ASSUME NEW t \in TimeType, NEW u \in TimeType, t.nsec < V!NsPerSec, u.nsec < V!NsPerSec
  PROVE  V!bctbx_timespec_compare(t, u) = V!Sgn(TimeOf(t) - TimeOf(u))
<1> DEFINE P == V!NsPerSec
           a == t.sec * P
           b == u.sec * P
           c == (t.sec - u.sec) * P
<1>1. P \in Nat \ {0} /\ t.sec \in Nat /\ u.sec \in Nat /\ t.nsec \in Nat /\ u.nsec \in Nat /\ t.nsec < P /\ u.nsec < P
  BY Units DEF TimeType
<1>2. TimeOf(t) = a + t.nsec /\ TimeOf(u) = b + u.nsec
  BY DEF TimeOf
<1> HIDE DEF P
<1>3. /\ a \in Int /\ b \in Int /\ c = a - b
      /\ (t.sec - u.sec >= 1 => c >= P) /\ (t.sec - u.sec <= -1 => c <= -P)
  <2>1. t.sec - u.sec \in Int
    BY <1>1
  <2> QED
    BY <1>1, <2>1, Products
<1>4. t.sec = u.sec => a = b
  OBVIOUS
<1> HIDE DEF a, b, c
<1>5. CASE t.sec = u.sec
  <2>1. TimeOf(t) - TimeOf(u) = t.nsec - u.nsec
    BY <1>1, <1>2, <1>3, <1>4, <1>5
  <2> QED
    BY <1>5, <2>1 DEF V!bctbx_timespec_compare
<1>6. CASE t.sec > u.sec
  <2>1. TimeOf(t) - TimeOf(u) > 0 /\ t.sec - u.sec > 0 /\ ~(t.sec = u.sec)
    BY <1>1, <1>2, <1>3, <1>6
  <2>2. TimeOf(t) - TimeOf(u) \in Int /\ t.sec - u.sec \in Int
    BY <1>1, <1>2, <1>3
  <2>3. \A x \in Int : x > 0 => V!Sgn(x) = 1
    BY DEF V!Sgn
  <2> QED
    BY <2>1, <2>2, <2>3 DEF V!bctbx_timespec_compare
<1>7. CASE t.sec < u.sec
  <2>1. TimeOf(t) - TimeOf(u) < 0 /\ t.sec - u.sec < 0 /\ ~(t.sec = u.sec)
    BY <1>1, <1>2, <1>3, <1>7
  <2>2. TimeOf(t) - TimeOf(u) \in Int /\ t.sec - u.sec \in Int
    BY <1>1, <1>2, <1>3
  <2>3. \A x \in Int : x < 0 => V!Sgn(x) = -1
    BY DEF V!Sgn
  <2> QED
    BY <2>1, <2>2, <2>3 DEF V!bctbx_timespec_compare
<1> QED
  BY <1>1, <1>5, <1>6, <1>7

\* What there is to sleep until a time.
LEMMA SleepUntil ==
  ASSUME NEW t \in TimeType, NEW u \in TimeType
  PROVE  TimeOf(V!bctbx_sleep_until(t, u)) = TimeOf(t) - TimeOf(u)
<1> DEFINE P == V!NsPerSec
           s == t.sec - u.sec
           n == t.nsec - u.nsec
           w == V!bctbx_sleep_until(t, u)
<1>1. P \in Nat \ {0} /\ t.sec \in Nat /\ u.sec \in Nat /\ t.nsec \in Nat /\ u.nsec \in Nat
  BY Units DEF TimeType
<1>2. w = (IF n < 0 THEN [sec |-> s - 1, nsec |-> n + P] ELSE [sec |-> s, nsec |-> n])
  BY DEF V!bctbx_sleep_until
<1>3. TimeOf(w) = (w.sec * P) + w.nsec /\ TimeOf(t) = (t.sec * P) + t.nsec /\ TimeOf(u) = (u.sec * P) + u.nsec
  BY DEF TimeOf
<1> HIDE DEF P, w
<1>4. s * P = (t.sec * P) - (u.sec * P) /\ s * P \in Int /\ (s - 1) * P = (s * P) - P /\ t.sec * P \in Int /\ u.sec * P \in Int
  BY <1>1, Products
<1> DEFINE a == t.sec * P
           b == u.sec * P
           c == s * P
           e == (s - 1) * P
<1>5. c = a - b /\ e = c - P /\ a \in Int /\ b \in Int /\ TimeOf(t) = a + t.nsec /\ TimeOf(u) = b + u.nsec
  BY <1>3, <1>4
<1>6. TimeOf(w) = (IF n < 0 THEN e + (n + P) ELSE c + n)
  BY <1>2, <1>3
<1> HIDE DEF a, b, c, e
<1>7. TimeOf(w) = TimeOf(t) - TimeOf(u)
  BY <1>1, <1>5, <1>6
<1> QED
  BY <1>7 DEF w

LEMMA ValuesInit == V!Init => ValuesInv
<1> SUFFICES ASSUME V!Init PROVE ValuesInv
  OBVIOUS
<1>1. V!NsPerSec \in Nat \ {0}
  BY Units
<1>2. ts = [i \in 1..2 |-> [sec |-> 0, nsec |-> 0]] /\ total = [i \in 1..2 |-> 0] /\ digits = <<0, 0>>
  BY DEF V!Init
<1>3. [sec |-> 0, nsec |-> 0] \in TimeType /\ TimeOf([sec |-> 0, nsec |-> 0]) = 0
  BY <1>1 DEF TimeType, TimeOf
<1>4. digits \in [1..2 -> 0..15] /\ DOMAIN digits = 1..2
  BY <1>2
<1> QED
  BY <1>2, <1>3, <1>4 DEF ValuesInv

\* What is added to one of the times.
LEMMA TimeAdded ==
  ASSUME ValuesInv, NEW i \in 1..2, NEW u \in TimeType, NEW n \in Nat, TimeOf(u) = n,
         ts' = [ts EXCEPT ![i] = u], total' = [total EXCEPT ![i] = n], digits' = digits
  PROVE  ValuesInv'
<1>1. ts \in [1..2 -> TimeType] /\ total \in [1..2 -> Nat] /\ \A k \in 1..2 : TimeOf(ts[k]) = total[k]
  BY DEF ValuesInv
<1>2. ts' \in [1..2 -> TimeType] /\ total' \in [1..2 -> Nat]
  BY <1>1
<1>3. \A k \in 1..2 : TimeOf(ts'[k]) = total'[k]
  BY <1>1
<1> QED
  BY <1>2, <1>3 DEF ValuesInv, TimeType, TimeOf

LEMMA TimesStep ==
  ASSUME ValuesInv, V!Times
  PROVE  ValuesInv'
<1>1. digits' = digits /\ \E i \in 1..2 : V!AddSecs(i) \/ V!AddMillisecs(i) \/ V!ReadClock(i)
  BY DEF V!Times
<1>2. /\ ts \in [1..2 -> TimeType] /\ total \in [1..2 -> Nat] /\ (\A i \in 1..2 : TimeOf(ts[i]) = total[i])
      /\ V!NsPerSec \in Nat \ {0} /\ NsPerMs \in Nat \ {0}
  BY Units DEF ValuesInv
<1>3. \A n \in Nat : \A k \in Int : V!Plus(n, k) \in Nat
  BY DEF V!Plus
<1>4. \A lap \in Laps \cup {-n : n \in Laps} : lap \in Int
  BY TimesAssumption
<1>5. ASSUME NEW i \in 1..2, V!AddSecs(i) PROVE ValuesInv'
  <2>1. PICK lap \in Laps \cup {-n : n \in Laps} :
           /\ ts' = [ts EXCEPT ![i] = V!bctbx_timespec_add_secs(@, lap)]
           /\ total' = [total EXCEPT ![i] = V!Plus(@, lap * V!NsPerSec)]
    BY <1>5, Zenon DEF V!AddSecs
  <2> DEFINE u == V!bctbx_timespec_add_secs(ts[i], lap)
             n == V!Plus(total[i], lap * V!NsPerSec)
  <2>2. ts' = [ts EXCEPT ![i] = u] /\ total' = [total EXCEPT ![i] = n]
    BY <2>1
  <2>3. u \in TimeType /\ TimeOf(u) = n
    BY <1>2, <1>4, SecsAdded
  <2>4. n \in Nat
    <3>1. lap * V!NsPerSec \in Int
      BY <1>2, <1>4
    <3> QED
      BY <1>2, <1>3, <3>1, Zenon
  <2> HIDE DEF u, n
  <2> QED
    BY <1>1, <2>2, <2>3, <2>4, TimeAdded, Zenon
<1>6. ASSUME NEW i \in 1..2, V!AddMillisecs(i) PROVE ValuesInv'
  <2>1. PICK lap \in Laps \cup {-n : n \in Laps} :
           /\ ts' = [ts EXCEPT ![i] = V!bctbx_timespec_add_millisecs(@, lap)]
           /\ total' = [total EXCEPT ![i] = V!Plus(@, lap * NsPerMs)]
    BY <1>6, Zenon DEF V!AddMillisecs
  <2> DEFINE u == V!bctbx_timespec_add_millisecs(ts[i], lap)
             n == V!Plus(total[i], lap * NsPerMs)
  <2>2. ts' = [ts EXCEPT ![i] = u] /\ total' = [total EXCEPT ![i] = n]
    BY <2>1
  <2>3. u \in TimeType /\ TimeOf(u) = n
    BY <1>2, <1>4, MillisecsAdded, Zenon
  <2>4. n \in Nat
    <3>1. lap * NsPerMs \in Int
      BY <1>2, <1>4
    <3> QED
      BY <1>2, <1>3, <3>1, Zenon
  <2> HIDE DEF u, n
  <2> QED
    BY <1>1, <2>2, <2>3, <2>4, TimeAdded, Zenon
<1>7. ASSUME NEW i \in 1..2, V!ReadClock(i) PROVE ValuesInv'
  <2>1. PICK n \in 0..(V!NsPerSec - 1) :
           ts' = [ts EXCEPT ![i] = [sec |-> 1, nsec |-> n]] /\ total' = [total EXCEPT ![i] = V!NsPerSec + n]
    BY <1>7, Zenon DEF V!ReadClock
  <2> DEFINE u == [sec |-> 1, nsec |-> n]
  <2>2. u \in TimeType /\ TimeOf(u) = V!NsPerSec + n /\ V!NsPerSec + n \in Nat
    BY <1>2 DEF TimeType, TimeOf
  <2> HIDE DEF u
  <2> QED
    BY <1>1, <2>1, <2>2, TimeAdded, Zenon DEF u
<1> QED
  BY <1>1, <1>5, <1>6, <1>7

LEMMA DigitsStep ==
  ASSUME ValuesInv, V!Digits
  PROVE  ValuesInv'
<1>1. PICK d \in 0..15 : digits' = <<digits[2], d>> /\ ts' = ts /\ total' = total
  BY DEF V!Digits
<1>2. digits[2] \in 0..15
  BY DEF ValuesInv
<1>3. digits' \in [1..2 -> 0..15] /\ DOMAIN digits' = 1..2
  BY <1>1, <1>2
<1> QED
  BY <1>1, <1>3 DEF ValuesInv, TimeType, TimeOf

LEMMA ValuesAre == ValuesInv => ValuesConvert
<1> SUFFICES ASSUME ValuesInv PROVE ValuesConvert
  OBVIOUS
<1> DEFINE Value(t) == (t.sec * (NsPerMs * MsPerSec)) + t.nsec
           Upper(c) == IF c > 96 THEN c - 32 ELSE c
           bytes == <<(digits[1] * 16) + digits[2], digits[2]>>
           str == V!bctbx_int8_to_str(bytes)
<1>1. /\ \A i \in 1..2 : ts[i] \in TimeType /\ total[i] \in Nat /\ TimeOf(ts[i]) = total[i]
      /\ digits[1] \in 0..15 /\ digits[2] \in 0..15 /\ digits \in [1..2 -> 0..15]
  BY DEF ValuesInv
<1>2. V!NsPerSec = NsPerMs * MsPerSec
  BY Units
<1>3. \A t : Value(t) = TimeOf(t)
  BY <1>2 DEF TimeOf
<1> HIDE DEF Value
<1>4. ASSUME NEW i \in 1..2
      PROVE  LET ms == V!bctbx_get_cur_time_ms(ts[i])
                 d == (ms * NsPerMs) - total[i]
             IN  2 * d <= NsPerMs /\ 2 * d > -NsPerMs /\ Value(V!bctbx_sleep_ms(ms)) = ms * NsPerMs
  <2> DEFINE t == ts[i]
             ms == V!bctbx_get_cur_time_ms(t)
  <2>1. t \in TimeType /\ TimeOf(t) = total[i]
    BY <1>1
  <2>2. ms \in Nat
    <3>1. t.sec \in Nat /\ t.nsec \in Nat /\ NsPerMs \in Nat \ {0} /\ MsPerSec \in Nat
      BY <2>1, Units DEF TimeType
    <3> HIDE DEF t
    <3>2. (t.nsec + (NsPerMs \div 2)) \div NsPerMs \in Nat
      <4>1. NsPerMs \div 2 \in Nat
        BY <3>1
      <4> DEFINE z == t.nsec + (NsPerMs \div 2)
      <4>2. z \in Nat
        BY <3>1, <4>1
      <4> HIDE DEF z
      <4>3. z \div NsPerMs \in Nat
        BY <3>1, <4>2
      <4> QED
        BY <4>3 DEF z
    <3>3. t.sec * MsPerSec \in Nat
      BY <3>1
    <3> QED
      BY <3>2, <3>3 DEF V!bctbx_get_cur_time_ms
  <2> HIDE DEF t
  <2>3. LET d == (ms * NsPerMs) - TimeOf(t) IN 2 * d <= NsPerMs /\ 2 * d > -NsPerMs
    BY <2>1, MillisecsOf
  <2> HIDE DEF ms
  <2>4. Value(V!bctbx_sleep_ms(ms)) = ms * NsPerMs
    BY <1>3, <2>2, SleepMs
  <2> QED
    BY <2>1, <2>3, <2>4 DEF ms, t
<1>5. (\A i \in 1..2 : ts[i].nsec < NsPerMs * MsPerSec)
         => V!bctbx_timespec_compare(ts[1], ts[2]) = V!Sgn(total[1] - total[2])
  <2> SUFFICES ASSUME \A i \in 1..2 : ts[i].nsec < NsPerMs * MsPerSec
               PROVE  V!bctbx_timespec_compare(ts[1], ts[2]) = V!Sgn(total[1] - total[2])
    OBVIOUS
  <2>1. ts[1].nsec < V!NsPerSec /\ ts[2].nsec < V!NsPerSec /\ 1 \in 1..2 /\ 2 \in 1..2
    BY <1>2
  <2> QED
    BY <1>1, <2>1, TimesCompared
<1>6. Value(V!bctbx_sleep_until(ts[1], ts[2])) = total[1] - total[2]
  <2>1. 1 \in 1..2 /\ 2 \in 1..2
    OBVIOUS
  <2> QED
    BY <1>1, <1>3, <2>1, SleepUntil
<1>7. V!bctbx_str_to_uint8(str) = bytes /\ V!bctbx_str_to_uint8([i \in DOMAIN str |-> Upper(str[i])]) = bytes
  BY <1>1, BytesRead
<1>8. V!bctbx_str_to_uint(V!bctbx_uint_to_str(digits)) = digits
  BY <1>1, NumberRead
<1>9. \A i \in 1..2 : Value(ts[i]) = total[i]
  BY <1>1, <1>3
<1> QED
  BY <1>4, <1>5, <1>6, <1>7, <1>8, <1>9 DEF ValuesConvert, Value

\* Any milliseconds of a second and nanoseconds of a millisecond: times are the
\* sums of what was added, and conversions are read back.
THEOREM ValuesHold == Spec => []ValuesConvert
<1>1. Init => ValuesInv
  BY ValuesInit DEF Init
<1>2. ValuesInv /\ [Next]_vars => ValuesInv'
  <2> SUFFICES ASSUME ValuesInv, [Next]_vars PROVE ValuesInv'
    OBVIOUS
  <2>1. V!Times \/ V!Digits \/ UNCHANGED valueVars
    BY Zenon DEF Next, Utilities, Logging, vars, utilVars
  <2>2. UNCHANGED valueVars => ValuesInv'
    BY DEF valueVars, ValuesInv, TimeType, TimeOf
  <2> QED
    BY <2>1, <2>2, TimesStep, DigitsStep
<1>3. ValuesInv => ValuesConvert
  BY ValuesAre
<1> QED
  BY <1>1, <1>2, <1>3, PTL DEF Spec

-----------------------------------------------------------------------------
(* Lists.                                                                  *)

ListNode == [used : BOOLEAN, prev : Nodes \cup {0}, next : Nodes \cup {0}, data : Data \cup {0}]

Heap == [Nodes -> ListNode]

\* From p on there are the nodes s, linked in both directions, with the data c.
IsList(h, p, s, c) ==
    /\ s \in Seq(Nodes) /\ Distinct(s) /\ c \in Seq(Data) /\ Len(c) = Len(s)
    /\ p = IF s = <<>> THEN 0 ELSE s[1]
    /\ \A i \in 1..Len(s) : /\ h[s[i]].used /\ h[s[i]].data = c[i]
                            /\ h[s[i]].next = IF i = Len(s) THEN 0 ELSE s[i + 1]
                            /\ h[s[i]].prev = IF i = 1 THEN 0 ELSE s[i - 1]

\* Two lists that have no node in common, and every node in use.
TwoLists(h, p, s, c, q, t, e) ==
    /\ h \in Heap /\ IsList(h, p, s, c) /\ IsList(h, q, t, e)
    /\ \A n : ~(In(n, s) /\ In(n, t))
    /\ \A n \in Nodes : h[n].used => In(n, s) \/ In(n, t)

ListState(h, f, c) ==
    /\ \E s, t : TwoLists(h, f[1], s, c[1], f[2], t, c[2])
    /\ f = [l \in L!Lists |-> f[l]] /\ c = [l \in L!Lists |-> c[l]]

ListInv == ListState(heap, first, content)

\* No more nodes than there are addresses.
LEMMA NodesBound ==
  ASSUME NEW s \in Seq(Nodes), Distinct(s)
  PROVE  Len(s) \in Nat /\ Cardinality(Nodes) \in Nat /\ Len(s) <= Cardinality(Nodes)
<1> DEFINE n == Len(s)
<1>1. n \in Nat /\ s \in [1..n -> Nodes] /\ DOMAIN s = 1..n
  BY LenProperties
<1> HIDE DEF n
<1>2. s \in Injection(1..n, Nodes)
  BY <1>1 DEF Injection, IsInjective, Distinct
<1>3. IsFiniteSet(Nodes)
  BY ListAssumption
<1>4. Cardinality(1..n) <= Cardinality(Nodes) /\ Cardinality(Nodes) \in Nat
  BY <1>2, <1>3, FS_Injection, FS_CardinalityType
<1>5. Cardinality(1..n) = n
  <2>1. n \in Int /\ 1 \in Int /\ (1 > n => n = 0) /\ n - 1 + 1 = n
    BY <1>1
  <2> QED
    BY <2>1, FS_Interval
<1> QED
  BY <1>1, <1>4, <1>5 DEF n

\* Elements of a list are nodes.
LEMMA ListElements ==
  ASSUME NEW h, NEW p, NEW s, NEW c, IsList(h, p, s, c)
  PROVE  /\ s \in Seq(Nodes) /\ c \in Seq(Data) /\ Len(s) \in Nat /\ Len(c) = Len(s) /\ DOMAIN s = 1..Len(s) /\ DOMAIN c = 1..Len(s)
         /\ \A i \in 1..Len(s) : s[i] \in Nodes /\ s[i] # 0 /\ c[i] \in Data /\ In(s[i], s)
         /\ (s = <<>> <=> Len(s) = 0) /\ (p = 0 <=> s = <<>>)
         /\ \A n : In(n, s) => n \in Nodes /\ h[n].used
<1>1. s \in Seq(Nodes) /\ c \in Seq(Data) /\ Len(c) = Len(s) /\ p = (IF s = <<>> THEN 0 ELSE s[1])
  BY DEF IsList
<1>2. Len(s) \in Nat /\ DOMAIN s = 1..Len(s) /\ DOMAIN c = 1..Len(s) /\ (s = <<>> <=> Len(s) = 0)
  BY <1>1, LenProperties, EmptySeq
<1>3. \A i \in 1..Len(s) : s[i] \in Nodes /\ c[i] \in Data
  BY <1>1, ElementOfSeq
<1>4. 0 \notin Nodes
  BY ListAssumption
<1>5. \A i \in 1..Len(s) : In(s[i], s)
  BY <1>2 DEF In
<1>6. s # <<>> => s[1] # 0
  BY <1>2, <1>3, <1>4
<1>7. \A n : In(n, s) => n \in Nodes /\ h[n].used
  <2>1. \A i \in 1..Len(s) : h[s[i]].used
    BY DEF IsList
  <2> QED
    BY <1>2, <1>3, <2>1 DEF In
<1> QED
  BY <1>1, <1>2, <1>3, <1>4, <1>5, <1>6, <1>7

\* A list stays as long as its nodes do.
LEMMA ListFrame ==
  ASSUME NEW h, NEW g, NEW p, NEW s, NEW c, IsList(h, p, s, c), \A n \in Nodes : In(n, s) => g[n] = h[n]
  PROVE  IsList(g, p, s, c)
<1>1. \A i \in 1..Len(s) : g[s[i]] = h[s[i]]
  BY ListElements
<1> QED
  BY <1>1 DEF IsList

\* Following next from the first node meets the nodes of the list.
LEMMA ChainIs ==
  ASSUME NEW h \in Heap, NEW p, NEW s, NEW c, IsList(h, p, s, c)
  PROVE  L!Chain(h, p) = s
<1> DEFINE Z == Cardinality(Nodes)
           R == Nodes \cup {0}
           g == [q \in (1..Z) \X R |-> L!Follow(h, q[2])]
           Is(m) == m = [k \in 0..Z |-> IF k = 0 THEN p ELSE L!Follow(h, m[k - 1])]
           met == CHOOSE m : Is(m)
           n == Len(s)
           Met(k) == IF k < n THEN s[k + 1] ELSE 0
<1>1. Z \in Nat /\ n \in Nat /\ n <= Z
  BY NodesBound DEF IsList
<1>2. L!Turns = 0..Z
  BY DEF L!Turns, L!Cardinality, Cardinality
<1>3. p \in R /\ \A q \in R : L!Follow(h, q) \in R
  <2>1. p \in R
    BY ListElements DEF IsList
  <2>2. \A q \in Nodes : h[q].next \in R
    BY DEF Heap, ListNode
  <2> QED
    BY <2>1, <2>2 DEF L!Follow
<1>4. g \in [(1..Z) \X R -> R]
  BY <1>3
<1> HIDE DEF Z, n
<1>5. \E m : Is(m)
  <2> HIDE DEF g, R
  <2>1. PICK m : Loop(m, Z, p, g) /\ m \in [0..Z -> R]
    BY <1>1, <1>3, <1>4, Iterates, Zenon
  <2>2. m = [i \in 0..Z |-> IF i = 0 THEN p ELSE g[<<i, m[i - 1]>>]]
    BY <2>1, Zenon DEF Loop
  <2>3. \A i \in 0..Z : i # 0 => g[<<i, m[i - 1]>>] = L!Follow(h, m[i - 1])
    <3> SUFFICES ASSUME NEW i \in 1..Z PROVE g[<<i, m[i - 1]>>] = L!Follow(h, m[i - 1])
      BY <1>1
    <3>1. m[i - 1] \in R
      BY <1>1, <2>1
    <3> QED
      BY <3>1 DEF g
  <2> QED
    BY <2>2, <2>3, Zenon
<1>6. Is(met)
  BY <1>5, Zenon
<1>7. L!Chain(h, p) = [i \in 1..L!Min({k \in L!Turns : met[k] = 0}) |-> met[i - 1]]
  BY <1>2 DEF L!Chain
<1> HIDE DEF met
<1>8. met[0] = p /\ \A k \in 1..Z : met[k] = L!Follow(h, met[k - 1])
  BY <1>1, <1>6
<1>9. \A k \in 0..Z : met[k] = Met(k)
  <2> DEFINE S == {k \in 0..Z : met[k] = Met(k)}
  <2>1. 0 \in S
    <3>1. p = Met(0)
      BY <1>1, ListElements DEF IsList, n
    <3> QED
      BY <1>1, <1>8, <3>1
  <2>2. ASSUME NEW k \in 1..Z, k - 1 \in S PROVE k \in S
    <3>1. met[k - 1] = Met(k - 1) /\ k \in 0..Z /\ met[k] = L!Follow(h, met[k - 1])
      BY <1>8, <2>2
    <3>2. CASE k - 1 < n
      <4>1. met[k - 1] = s[k] /\ k \in 1..n
        BY <1>1, <3>1, <3>2
      <4>2. s[k] # 0 /\ h[s[k]].next = (IF k = n THEN 0 ELSE s[k + 1])
        <5>1. s[k] # 0
          BY <4>1, ListElements DEF n
        <5>2. h[s[k]].next = (IF k = n THEN 0 ELSE s[k + 1])
          BY <4>1, Zenon DEF IsList, n
        <5> QED
          BY <5>1, <5>2
      <4>3. met[k] = h[s[k]].next
        BY <3>1, <4>1, <4>2 DEF L!Follow
      <4> QED
        BY <1>1, <3>1, <4>1, <4>2, <4>3
    <3>3. CASE ~(k - 1 < n)
      BY <1>1, <3>1, <3>3 DEF L!Follow
    <3> QED
      BY <3>2, <3>3
  <2> HIDE DEF S
  <2>3. \A k \in 0..Z : k \in S
    BY <1>1, <2>1, <2>2, UpTo
  <2> QED
    BY <2>3 DEF S
<1>10. \A k \in 0..Z : met[k] = 0 <=> k >= n
  <2>1. \A k \in 0..Z : k < n => s[k + 1] # 0
    BY <1>1, ListElements DEF n
  <2> QED
    BY <1>1, <1>9, <2>1
<1> DEFINE Ends == {k \in L!Turns : met[k] = 0}
<1>11. Min(Ends) = n
  <2>1. Ends \subseteq Nat /\ n \in Ends
    BY <1>1, <1>2, <1>10
  <2>2. Min(Ends) \in Ends /\ \A k \in Ends : Min(Ends) <= k
    <3> HIDE DEF Ends
    <3> QED
      BY <2>1, MinIsLeast, Zenon
  <2> QED
    BY <1>1, <1>2, <1>10, <2>1, <2>2
<1>12. L!Chain(h, p) = [i \in 1..n |-> met[i - 1]]
  BY <1>7, <1>11, Zenon DEF L!Min, Min
<1>13. \A i \in 1..n : met[i - 1] = s[i]
  <2> SUFFICES ASSUME NEW i \in 1..n PROVE met[i - 1] = s[i]
    OBVIOUS
  <2>1. i - 1 \in 0..Z /\ i - 1 < n /\ (i - 1) + 1 = i
    BY <1>1
  <2> QED
    BY <1>9, <2>1
<1>14. s = [i \in 1..n |-> s[i]]
  BY LenProperties DEF IsList, n
<1> QED
  BY <1>12, <1>13, <1>14

\* What the functions read of a list.
LEMMA ListRead ==
  ASSUME NEW h \in Heap, NEW p, NEW s, NEW c, IsList(h, p, s, c)
  PROVE  /\ L!DataOf(h, L!Chain(h, p)) = c
         /\ L!bctbx_list_last_elem(h, p) = (IF s = <<>> THEN 0 ELSE s[Len(s)])
         /\ L!bctbx_list_size(h, p) = Len(c)
<1>1. L!Chain(h, p) = s
  BY ChainIs
<1>2. L!DataOf(h, s) = c
  <2>1. L!DataOf(h, s) = [i \in 1..Len(s) |-> h[s[i]].data]
    BY ListElements DEF L!DataOf
  <2>2. c = [i \in 1..Len(s) |-> c[i]]
    <3>1. c \in [1..Len(c) -> Data] /\ Len(c) = Len(s)
      BY LenProperties DEF IsList
    <3> QED
      BY <3>1
  <2>3. \A i \in 1..Len(s) : h[s[i]].data = c[i]
    BY DEF IsList
  <2> QED
    BY <2>1, <2>2, <2>3
<1>3. L!bctbx_list_last_elem(h, p) = (IF s = <<>> THEN 0 ELSE s[Len(s)])
  BY <1>1, ListElements DEF L!bctbx_list_last_elem, L!Last, Last
<1>4. L!bctbx_list_size(h, p) = Len(c)
  BY <1>1, ListElements DEF L!bctbx_list_size
<1> QED
  BY <1>1, <1>2, <1>3, <1>4

\* Going back from the last node ends at the first.
LEMMA FirstIs ==
  ASSUME NEW h \in Heap, NEW p, NEW s, NEW c, IsList(h, p, s, c), s # <<>>
  PROVE  L!bctbx_list_first_elem(h, s[Len(s)]) = p
<1> DEFINE Z == Cardinality(Nodes)
           R == Nodes \cup {0}
           n == Len(s)
           e == s[n]
           g == [q \in (1..Z) \X R |-> L!Back(h, q[2])]
           Is(m) == m = [k \in 0..Z |-> IF k = 0 THEN e ELSE L!Back(h, m[k - 1])]
           met == CHOOSE m : Is(m)
           Met(k) == IF k < n THEN s[n - k] ELSE s[1]
<1>1. Z \in Nat /\ n \in Nat /\ n <= Z /\ n >= 1
  <2>1. n # 0
    BY ListElements
  <2> QED
    BY <2>1, NodesBound DEF IsList
<1>2. L!Turns = 0..Z /\ L!Cardinality(Nodes) = Z
  BY DEF L!Turns, L!Cardinality, Cardinality
<1>3. e \in R /\ \A q \in R : L!Back(h, q) \in R
  <2>1. e \in R
    BY <1>1, ListElements
  <2>2. \A q \in Nodes : h[q].prev \in R
    BY DEF Heap, ListNode
  <2> QED
    BY <2>1, <2>2 DEF L!Back
<1>4. g \in [(1..Z) \X R -> R]
  BY <1>3
<1> HIDE DEF Z
<1>5. \E m : Is(m)
  <2> HIDE DEF g, R, e
  <2>1. PICK m : Loop(m, Z, e, g) /\ m \in [0..Z -> R]
    BY <1>1, <1>3, <1>4, Iterates, Zenon
  <2>2. m = [i \in 0..Z |-> IF i = 0 THEN e ELSE g[<<i, m[i - 1]>>]]
    BY <2>1, Zenon DEF Loop
  <2>3. \A i \in 0..Z : i # 0 => g[<<i, m[i - 1]>>] = L!Back(h, m[i - 1])
    <3> SUFFICES ASSUME NEW i \in 1..Z PROVE g[<<i, m[i - 1]>>] = L!Back(h, m[i - 1])
      BY <1>1
    <3>1. m[i - 1] \in R
      BY <1>1, <2>1
    <3> QED
      BY <3>1 DEF g
  <2> QED
    BY <2>2, <2>3, Zenon
<1>6. Is(met)
  BY <1>5, Zenon
<1>7. L!bctbx_list_first_elem(h, e) = met[Z]
  BY <1>2 DEF L!bctbx_list_first_elem
<1> HIDE DEF met
<1>8. met[0] = e /\ \A k \in 1..Z : met[k] = L!Back(h, met[k - 1])
  BY <1>1, <1>6
<1> HIDE DEF n
<1>9. \A i \in 1..n : s[i] # 0 /\ h[s[i]].prev = (IF i = 1 THEN 0 ELSE s[i - 1])
  <2>1. \A i \in 1..n : s[i] # 0
    BY ListElements DEF n
  <2>2. \A i \in 1..n : h[s[i]].prev = (IF i = 1 THEN 0 ELSE s[i - 1])
    BY DEF IsList, n
  <2> QED
    BY <2>1, <2>2
<1>10. \A k \in 0..Z : met[k] = Met(k)
  <2> DEFINE S == {k \in 0..Z : met[k] = Met(k)}
  <2>1. 0 \in S
    BY <1>1, <1>8
  <2>2. ASSUME NEW k \in 1..Z, k - 1 \in S PROVE k \in S
    <3>1. met[k - 1] = Met(k - 1) /\ k \in 0..Z /\ met[k] = L!Back(h, met[k - 1])
      BY <1>8, <2>2
    <3>2. CASE k < n
      <4>1. n - (k - 1) \in 1..n /\ n - (k - 1) # 1 /\ (n - (k - 1)) - 1 = n - k /\ n - k \in 1..n
        BY <1>1, <3>1, <3>2
      <4>2. met[k - 1] = s[n - (k - 1)]
        BY <1>1, <3>1, <3>2
      <4>3. met[k] = s[n - k]
        BY <1>9, <3>1, <4>1, <4>2 DEF L!Back
      <4> QED
        BY <3>1, <3>2, <4>3
    <3>3. CASE ~(k < n)
      <4>1. met[k - 1] = s[1]
        <5>1. k - 1 < n => n - (k - 1) = 1
          BY <1>1, <3>1, <3>3
        <5> QED
          BY <3>1, <5>1
      <4>2. 1 \in 1..n
        BY <1>1
      <4>3. met[k] = s[1]
        BY <1>9, <3>1, <4>1, <4>2 DEF L!Back
      <4> QED
        BY <3>1, <3>3, <4>3
    <3> QED
      BY <3>2, <3>3
  <2> HIDE DEF S
  <2>3. \A k \in 0..Z : k \in S
    BY <1>1, <2>1, <2>2, UpTo
  <2> QED
    BY <2>3 DEF S
<1>11. met[Z] = s[1]
  BY <1>1, <1>10
<1>12. p = s[1]
  BY DEF IsList
<1> QED
  BY <1>7, <1>11, <1>12 DEF n

\* The nodes g has in place of those of the list s of h are those of t; what
\* is not in the list stays, and nothing but these is used.
Step(h, s, g, t) ==
    /\ g \in Heap
    /\ \A n \in Nodes : h[n].used /\ ~In(n, s) => g[n] = h[n] /\ ~In(n, t)
    /\ \A n \in Nodes : g[n].used => In(n, t) \/ (h[n].used /\ ~In(n, s))

\* One step after the other.
LEMMA StepsCompose ==
  ASSUME NEW h, NEW s, NEW g, NEW t, NEW k, NEW u, Step(h, s, g, t), Step(g, t, k, u)
  PROVE  Step(h, s, k, u)
BY DEF Step

\* No step.
LEMMA NoStep ==
  ASSUME NEW h \in Heap, NEW s
  PROVE  Step(h, s, h, s)
BY DEF Step

\* A new node is the least free one.
LEMMA NewNode ==
  ASSUME NEW h \in Heap, NEW d \in Data, L!FreeNodes(h) # {}
  PROVE  LET r == L!bctbx_list_new(h, d)  n == r.first
         IN  /\ n \in Nodes /\ ~h[n].used /\ n # 0
             /\ r.heap = [h EXCEPT ![n] = [used |-> TRUE, prev |-> 0, next |-> 0, data |-> d]]
             /\ r.heap \in Heap /\ L!FreeNodes(r.heap) = L!FreeNodes(h) \ {n}
             /\ IsList(r.heap, n, <<n>>, <<d>>) /\ Step(h, <<>>, r.heap, <<n>>)
<1> DEFINE n == CHOOSE n \in L!FreeNodes(h) : \A m \in L!FreeNodes(h) : n <= m
           x == [used |-> TRUE, prev |-> 0, next |-> 0, data |-> d]
           g == [h EXCEPT ![n] = x]
<1>1. L!FreeNodes(h) \subseteq Nat
  BY ListAssumption, Zenon DEF L!FreeNodes
<1>2. n \in L!FreeNodes(h)
  <2>1. \E k \in L!FreeNodes(h) : \A m \in L!FreeNodes(h) : k <= m
    <3> DEFINE S == L!FreeNodes(h)
    <3>1. S \subseteq Nat /\ S # {}
      BY <1>1
    <3> HIDE DEF S
    <3>2. \E k \in S : \A m \in S : k <= m
      BY <3>1, LeastNumber, Zenon
    <3> QED
      BY <3>2 DEF S
  <2> QED
    BY <2>1
<1> HIDE DEF n
<1>3. n \in Nodes /\ ~h[n].used /\ n # 0
  BY <1>2, ListAssumption DEF L!FreeNodes
<1>4. L!bctbx_list_new(h, d) = [heap |-> g, first |-> n]
  <2>1. [L!FreeNode EXCEPT !.used = TRUE, !.data = d] = x
    <3> DEFINE y == [L!FreeNode EXCEPT !.used = TRUE, !.data = d]
    <3>1. y = [f \in {"used", "prev", "next", "data"} |-> y[f]]
      BY Zenon DEF L!FreeNode
    <3>2. x = [f \in {"used", "prev", "next", "data"} |-> x[f]]
      OBVIOUS
    <3>3. y.used = x.used /\ y.prev = x.prev /\ y.next = x.next /\ y.data = x.data
      BY DEF L!FreeNode
    <3> HIDE DEF x, y
    <3>4. \A f \in {"used", "prev", "next", "data"} : y[f] = x[f]
      BY <3>3
    <3>5. y = x
      BY <3>1, <3>2, <3>4
    <3> QED
      BY <3>5 DEF y
  <2>2. L!bctbx_list_new(h, d) = L!At([h EXCEPT ![n] = [L!FreeNode EXCEPT !.used = TRUE, !.data = d]], n)
    BY Zenon DEF L!bctbx_list_new, n
  <2> QED
    BY <2>1, <2>2, Zenon DEF L!At
<1>5. x \in ListNode
  BY DEF ListNode
<1>6. g \in Heap /\ g[n] = x /\ \A m \in Nodes : m # n => g[m] = h[m]
  BY <1>3, <1>5 DEF Heap
<1>7. L!FreeNodes(g) = L!FreeNodes(h) \ {n}
  BY <1>3, <1>6 DEF L!FreeNodes
<1>0. L!bctbx_list_new(h, d).heap = g /\ L!bctbx_list_new(h, d).first = n
  BY <1>4
<1> HIDE DEF g
<1>8. <<n>> \in Seq(Nodes) /\ Distinct(<<n>>) /\ (\A y : In(y, <<n>>) <=> y = n) /\ \A y : ~In(y, <<>>)
  BY <1>3, OneElement
<1>9. Step(h, <<>>, g, <<n>>)
  BY <1>3, <1>6, <1>8 DEF Step
<1>10. IsList(g, n, <<n>>, <<d>>)
  <2>1. <<n>> # <<>> /\ Len(<<n>>) = 1 /\ <<n>>[1] = n /\ <<d>> \in Seq(Data) /\ Len(<<d>>) = 1 /\ <<d>>[1] = d /\ 1..1 = {1}
    OBVIOUS
  <2> QED
    BY <1>6, <1>8, <2>1 DEF IsList
<1> QED
  BY <1>0, <1>3, <1>6, <1>7, <1>9, <1>10, Zenon DEF g

\* What IsList says of the nodes, each by its place.
LEMMA ListLinks ==
  ASSUME NEW h, NEW p, NEW s, NEW c, IsList(h, p, s, c)
  PROVE  /\ \A i \in 1..Len(s) : /\ h[s[i]].used /\ h[s[i]].data = c[i]
                                 /\ h[s[i]].next = IF i = Len(s) THEN 0 ELSE s[i + 1]
                                 /\ h[s[i]].prev = IF i = 1 THEN 0 ELSE s[i - 1]
         /\ \A i, j \in 1..Len(s) : s[i] = s[j] => i = j
         /\ p = IF s = <<>> THEN 0 ELSE s[1]
<1>1. DOMAIN s = 1..Len(s)
  BY ListElements
<1> QED
  BY <1>1 DEF IsList, Distinct

\* Concatenation links the last node of the one to the first of the other.
LEMMA ConcatIs ==
  ASSUME NEW h \in Heap, NEW p, NEW s, NEW c, IsList(h, p, s, c), NEW q, NEW t, NEW e, IsList(h, q, t, e),
         \A n : ~(In(n, s) /\ In(n, t))
  PROVE  LET r == L!bctbx_list_concat(h, p, q)
         IN  IsList(r.heap, r.first, s \o t, c \o e) /\ Step(h, s \o t, r.heap, s \o t)
<1> DEFINE r == L!bctbx_list_concat(h, p, q)
<1>1. /\ s \in Seq(Nodes) /\ c \in Seq(Data) /\ Len(s) \in Nat /\ Len(c) = Len(s)
      /\ (s = <<>> <=> Len(s) = 0) /\ (p = 0 <=> s = <<>>) /\ \A i \in 1..Len(s) : s[i] \in Nodes /\ In(s[i], s)
  BY ListElements
<1>2. /\ t \in Seq(Nodes) /\ e \in Seq(Data) /\ Len(t) \in Nat /\ Len(e) = Len(t)
      /\ (t = <<>> <=> Len(t) = 0) /\ (q = 0 <=> t = <<>>) /\ \A i \in 1..Len(t) : t[i] \in Nodes /\ In(t[i], t)
  BY ListElements
<1>3. CASE p = 0
  <2>1. r = [heap |-> h, first |-> q]
    BY <1>3 DEF L!bctbx_list_concat, L!At
  <2>2. s \o t = t /\ c \o e = e
    BY <1>1, <1>2, <1>3, ConcatEmptySeq, EmptySeq, Zenon
  <2> QED
    BY <2>1, <2>2, NoStep
<1>4. CASE p # 0 /\ q = 0
  <2>1. r = [heap |-> h, first |-> p]
    BY <1>4 DEF L!bctbx_list_concat, L!At
  <2>2. s \o t = s /\ c \o e = c
    BY <1>1, <1>2, <1>4, ConcatEmptySeq, EmptySeq, Zenon
  <2> QED
    BY <2>1, <2>2, NoStep
<1>5. CASE p # 0 /\ q # 0
  <2> DEFINE Size == Len(s)
             Z == Len(t)
             u == s \o t
             a == c \o e
             lst == s[Size]
             g == [h EXCEPT ![lst].next = q, ![q].prev = lst]
  <2>1. Size \in Nat /\ Size > 0 /\ Z \in Nat /\ Z > 0 /\ lst \in Nodes /\ q = t[1] /\ q \in Nodes /\ p = s[1] /\ lst # q
    <3>1. Size > 0 /\ Z > 0 /\ Size \in 1..Size /\ 1 \in 1..Z
      BY <1>1, <1>2, <1>5
    <3>2. q = t[1] /\ p = s[1]
      BY <1>1, <1>2, <1>5, ListLinks
    <3> QED
      BY <1>1, <1>2, <3>1, <3>2
  <2>2. r = [heap |-> g, first |-> p]
    <3>1. L!bctbx_list_last_elem(h, p) = lst
      BY <1>1, <1>5, ListRead
    <3> QED
      BY <1>5, <3>1 DEF L!bctbx_list_concat, L!At
  <2>3. \A n \in Nodes : h[n] \in ListNode
    BY DEF Heap
  <2>4. /\ g \in Heap
        /\ \A n \in Nodes : /\ g[n].used = h[n].used /\ g[n].data = h[n].data
                            /\ g[n].next = IF n = lst THEN q ELSE h[n].next
                            /\ g[n].prev = IF n = q THEN lst ELSE h[n].prev
                            /\ n # lst /\ n # q => g[n] = h[n]
    BY <2>1, <2>3 DEF Heap, ListNode
  <2>5. /\ \A i \in 1..Size : /\ h[s[i]].used /\ h[s[i]].data = c[i]
                              /\ h[s[i]].next = IF i = Size THEN 0 ELSE s[i + 1]
                              /\ h[s[i]].prev = IF i = 1 THEN 0 ELSE s[i - 1]
        /\ \A i, j \in 1..Size : s[i] = s[j] => i = j
    BY ListLinks
  <2>6. /\ \A i \in 1..Z : /\ h[t[i]].used /\ h[t[i]].data = e[i]
                           /\ h[t[i]].next = IF i = Z THEN 0 ELSE t[i + 1]
                           /\ h[t[i]].prev = IF i = 1 THEN 0 ELSE t[i - 1]
        /\ \A i, j \in 1..Z : t[i] = t[j] => i = j
    BY ListLinks
  <2>7. /\ u \in Seq(Nodes) /\ Len(u) = Size + Z /\ a \in Seq(Data) /\ Len(a) = Size + Z
        /\ \A i \in 1..(Size + Z) : u[i] = IF i <= Size THEN s[i] ELSE t[i - Size]
        /\ \A i \in 1..(Size + Z) : a[i] = IF i <= Size THEN c[i] ELSE e[i - Size]
    <3>1. u \in Seq(Nodes) /\ Len(u) = Size + Z /\ \A i \in 1..(Size + Z) : u[i] = IF i <= Size THEN s[i] ELSE t[i - Size]
      BY <1>1, <1>2, ConcatProperties
    <3>0. c \in Seq(Data) /\ e \in Seq(Data)
      BY <1>1, <1>2
    <3>2. a \in Seq(Data) /\ Len(a) = Len(c) + Len(e) /\ \A i \in 1..(Len(c) + Len(e)) : a[i] = IF i <= Len(c) THEN c[i] ELSE e[i - Len(c)]
      BY <3>0, ConcatProperties
    <3> QED
      BY <1>1, <1>2, <3>1, <3>2
  <2>8. Distinct(u) /\ \A n : In(n, u) <=> In(n, s) \/ In(n, t)
    <3>1. Distinct(s) /\ Distinct(t)
      BY DEF IsList
    <3> QED
      BY <1>1, <1>2, <3>1, ConcatElements
  <2>9. In(lst, u) /\ In(q, u)
    BY <1>1, <1>2, <2>1, <2>8
  <2> HIDE DEF g, u, a, Size, Z, lst, r
  <2>10. \A i \in 1..Size : s[i] # q
    BY <1>1, <1>2, <2>1, <1>2 DEF Size, Z
  <2>11. \A i \in 1..Z : t[i] # lst
    BY <1>1, <1>2, <2>1 DEF Size, Z, lst
  <2>12. ASSUME NEW i \in 1..(Size + Z)
         PROVE  /\ g[u[i]].used /\ g[u[i]].data = a[i]
                /\ g[u[i]].next = IF i = Size + Z THEN 0 ELSE u[i + 1]
                /\ g[u[i]].prev = IF i = 1 THEN 0 ELSE u[i - 1]
    <3>1. CASE i <= Size
      <4>1. i \in 1..Size /\ u[i] = s[i] /\ a[i] = c[i] /\ s[i] \in Nodes /\ i # Size + Z
        BY <1>1, <2>1, <2>7, <3>1 DEF Size
      <4>2. g[u[i]].used /\ g[u[i]].data = a[i]
        BY <2>4, <2>5, <4>1
      <4>3. g[u[i]].prev = IF i = 1 THEN 0 ELSE u[i - 1]
        <5>1. i # 1 => u[i - 1] = s[i - 1]
          BY <2>1, <2>7, <4>1
        <5>2. g[s[i]].prev = h[s[i]].prev
          BY <2>4, <2>10, <4>1
        <5>3. h[s[i]].prev = IF i = 1 THEN 0 ELSE s[i - 1]
          BY <2>5, <4>1
        <5> QED
          BY <4>1, <5>1, <5>2, <5>3
      <4>4. g[u[i]].next = u[i + 1]
        <5>1. CASE i = Size
          <6>1. u[i + 1] = t[1]
            BY <2>1, <2>7, <5>1
          <6> QED
            BY <2>1, <2>4, <4>1, <5>1, <6>1 DEF lst
        <5>2. CASE i # Size
          <6>1. u[i + 1] = s[i + 1] /\ Size \in 1..Size
            BY <2>1, <2>7, <4>1, <5>2
          <6>2. s[i] # lst
            BY <2>5, <4>1, <5>2, <6>1 DEF lst
          <6>3. g[s[i]].next = h[s[i]].next
            BY <2>4, <4>1, <6>2
          <6>4. h[s[i]].next = s[i + 1]
            BY <2>5, <4>1, <5>2
          <6> QED
            BY <4>1, <6>1, <6>3, <6>4
        <5> QED
          BY <5>1, <5>2
      <4> QED
        BY <4>1, <4>2, <4>3, <4>4
    <3>2. CASE ~(i <= Size)
      <4> DEFINE j == i - Size
      <4>1. j \in 1..Z /\ u[i] = t[j] /\ a[i] = e[j] /\ (i = Size + Z <=> j = Z) /\ i # 1 /\ (j = 1 <=> i = Size + 1)
        BY <2>1, <2>7, <3>2
      <4>2. t[j] \in Nodes
        BY <1>2, <4>1 DEF Z
      <4>3. g[u[i]].used /\ g[u[i]].data = a[i]
        BY <2>4, <2>6, <4>1, <4>2
      <4>4. g[u[i]].next = IF i = Size + Z THEN 0 ELSE u[i + 1]
        <5>1. i # Size + Z => u[i + 1] = t[j + 1]
          <6>1. i # Size + Z => i + 1 \in 1..(Size + Z) /\ ~(i + 1 <= Size) /\ (i + 1) - Size = j + 1
            BY <2>1, <3>2
          <6> QED
            BY <2>7, <6>1
        <5> HIDE DEF j
        <5> QED
          BY <2>4, <2>6, <2>11, <4>1, <4>2, <5>1
      <4>5. g[u[i]].prev = u[i - 1]
        <5>1. CASE j = 1
          <6>1. i - 1 = Size /\ u[i - 1] = s[Size]
            BY <2>1, <2>7, <4>1, <5>1
          <6> QED
            BY <2>1, <2>4, <4>1, <5>1, <6>1 DEF lst
        <5>2. CASE j # 1
          <6>1. i - 1 \in 1..(Size + Z) /\ ~(i - 1 <= Size) /\ (i - 1) - Size = j - 1 /\ 1 \in 1..Z
            BY <2>1, <3>2, <5>2
          <6>2. u[i - 1] = t[j - 1]
            BY <2>7, <6>1
          <6> HIDE DEF j
          <6>3. t[j] # q
            BY <2>1, <2>6, <4>1, <5>2, <6>1
          <6> QED
            BY <2>4, <2>6, <4>1, <4>2, <5>2, <6>2, <6>3
        <5> QED
          BY <5>1, <5>2
      <4> QED
        BY <4>1, <4>3, <4>4, <4>5
    <3> QED
      BY <3>1, <3>2
  <2>13. IsList(g, p, u, a)
    <3>1. u # <<>> /\ p = u[1]
      <4>1. Len(<<>>) = 0 /\ Size + Z # 0 /\ 1 \in 1..(Size + Z) /\ 1 <= Size
        BY <2>1
      <4> QED
        BY <2>1, <2>7, <4>1
    <3> QED
      BY <2>7, <2>8, <2>12, <3>1 DEF IsList
  <2>14. Step(h, u, g, u)
    BY <2>4, <2>9 DEF Step
  <2> QED
    BY <2>2, <2>13, <2>14 DEF u, a, r
<1> QED
  BY <1>3, <1>4, <1>5

\* What appending and prepending do: the least free node n joins the list.
Longer(h, s, c, d, n, app, pre) ==
    /\ n \in L!FreeNodes(h)
    /\ IsList(app.heap, app.first, s \o <<n>>, c \o <<d>>) /\ Step(h, s, app.heap, s \o <<n>>)
    /\ L!FreeNodes(app.heap) = L!FreeNodes(h) \ {n}
    /\ IsList(pre.heap, pre.first, <<n>> \o s, <<d>> \o c) /\ Step(h, s, pre.heap, <<n>> \o s)
    /\ L!FreeNodes(pre.heap) = L!FreeNodes(h) \ {n}

LEMMA AppendIs ==
  ASSUME NEW h \in Heap, NEW p, NEW s, NEW c, IsList(h, p, s, c), NEW d \in Data, L!FreeNodes(h) # {}
  PROVE  \E n : Longer(h, s, c, d, n, L!bctbx_list_append(h, p, d), L!bctbx_list_prepend(h, p, d))
<1> DEFINE new == L!bctbx_list_new(h, d)
           g == new.heap
           n == new.first
           a == L!bctbx_list_concat(g, p, n)
           b == L!bctbx_list_concat(g, n, p)
<1>1. /\ n \in Nodes /\ ~h[n].used /\ g \in Heap /\ L!FreeNodes(g) = L!FreeNodes(h) \ {n}
      /\ g = [h EXCEPT ![n] = [used |-> TRUE, prev |-> 0, next |-> 0, data |-> d]]
      /\ IsList(g, n, <<n>>, <<d>>) /\ Step(h, <<>>, g, <<n>>)
  BY NewNode
<1>2. L!bctbx_list_append(h, p, d) = a /\ L!bctbx_list_prepend(h, p, d) = b
  BY DEF L!bctbx_list_append, L!bctbx_list_prepend
<1> HIDE DEF new, a, b
<1>3. s \in Seq(Nodes) /\ \A m : In(m, s) => m \in Nodes /\ h[m].used
  BY ListElements
<1>4. ~In(n, s) /\ \A m \in Nodes : In(m, s) => g[m] = h[m]
  BY <1>1, <1>3 DEF Heap
<1> HIDE DEF g, n
<1>5. IsList(g, p, s, c)
  BY <1>4, ListFrame
<1>6. <<n>> \in Seq(Nodes) /\ (\A y : In(y, <<n>>) <=> y = n) /\ \A y : ~In(y, <<>>)
  BY <1>1, OneElement
<1>7. \A m : ~(In(m, s) /\ In(m, <<n>>)) /\ ~(In(m, <<n>>) /\ In(m, s))
  BY <1>4, <1>6
<1>8. IsList(a.heap, a.first, s \o <<n>>, c \o <<d>>) /\ Step(g, s \o <<n>>, a.heap, s \o <<n>>)
  BY <1>1, <1>5, <1>7, ConcatIs DEF a
<1>9. IsList(b.heap, b.first, <<n>> \o s, <<d>> \o c) /\ Step(g, <<n>> \o s, b.heap, <<n>> \o s)
  BY <1>1, <1>5, <1>7, ConcatIs DEF b
<1>10. \A m : (In(m, s \o <<n>>) <=> In(m, s) \/ m = n) /\ (In(m, <<n>> \o s) <=> In(m, s) \/ m = n)
  <2>1. /\ \A m : In(m, s \o <<n>>) <=> In(m, s) \/ In(m, <<n>>)
        /\ \A m : In(m, <<n>> \o s) <=> In(m, <<n>>) \/ In(m, s)
    BY <1>3, <1>6, ConcatElements, Zenon
  <2> QED
    BY <1>6, <2>1
<1>11. ASSUME NEW k, NEW u, \A m : In(m, u) <=> In(m, s) \/ m = n, Step(g, u, k, u), NEW q, NEW e, IsList(k, q, u, e)
       PROVE  Step(h, s, k, u) /\ L!FreeNodes(k) = L!FreeNodes(h) \ {n}
  <2>1. \A m \in Nodes : h[m].used /\ ~In(m, s) => m # n /\ g[m] = h[m]
    BY <1>1, <1>6 DEF Step
  <2>2. \A m \in Nodes : g[m].used => m = n \/ h[m].used
    BY <1>1, <1>6 DEF Step
  <2>3. Step(h, s, k, u)
    BY <1>11, <2>1, <2>2 DEF Step
  <2>4. \A m \in Nodes : k[m].used <=> m = n \/ h[m].used
    <3>1. \A m \in Nodes : In(m, u) => k[m].used
      BY <1>11, ListElements
    <3>2. \A m \in Nodes : h[m].used => k[m].used
      BY <1>11, <2>1, <2>3, <3>1 DEF Step
    <3>3. \A m \in Nodes : k[m].used => m = n \/ h[m].used
      <4>1. \A m \in Nodes : In(m, s) => h[m].used
        BY <1>3
      <4> QED
        BY <1>11, <2>3, <4>1 DEF Step
    <3> QED
      BY <1>11, <3>1, <3>2, <3>3
  <2> QED
    BY <2>3, <2>4 DEF L!FreeNodes
<1>12. n \in L!FreeNodes(h)
  BY <1>1 DEF L!FreeNodes
<1>13. Step(h, s, a.heap, s \o <<n>>) /\ L!FreeNodes(a.heap) = L!FreeNodes(h) \ {n}
  BY <1>8, <1>10, <1>11
<1>14. Step(h, s, b.heap, <<n>> \o s) /\ L!FreeNodes(b.heap) = L!FreeNodes(h) \ {n}
  BY <1>9, <1>10, <1>11
<1> QED
  BY <1>2, <1>8, <1>9, <1>12, <1>13, <1>14 DEF Longer

\* What a sequence is without its element i.
Cut(s, i) == SubSeq(s, 1, i - 1) \o SubSeq(s, i + 1, Len(s))

\* Its elements.
LEMMA CutElements ==
  ASSUME NEW s \in Seq(Nodes), Distinct(s), NEW i \in 1..Len(s)
  PROVE  /\ Cut(s, i) \in Seq(Nodes) /\ Len(Cut(s, i)) = Len(s) - 1 /\ Len(s) \in Nat
         /\ \A j \in 1..(Len(s) - 1) : Cut(s, i)[j] = IF j < i THEN s[j] ELSE s[j + 1]
         /\ Distinct(Cut(s, i)) /\ \A n : In(n, Cut(s, i)) <=> In(n, s) /\ n # s[i]
<1> DEFINE t == Cut(s, i)
           Size == Len(s)
<1>1. /\ Size \in Nat /\ DOMAIN s = 1..Size /\ t \in Seq(Nodes) /\ Len(t) = Size - 1
      /\ \A j \in 1..(Size - 1) : t[j] = IF j < i THEN s[j] ELSE s[j + 1]
  <2>1. Size \in Nat /\ DOMAIN s = 1..Size
    BY LenProperties
  <2>2. t = SubSeq(s, 1, i - 1) \o SubSeq(s, i + 1, Len(s))
    BY DEF Cut
  <2> HIDE DEF t
  <2>3. t \in Seq(Nodes) /\ Len(t) = Len(s) - 1 /\ \A j \in 1..(Len(s) - 1) : t[j] = IF j < i THEN s[j] ELSE s[j + 1]
    BY <2>2, RemoveAtIs, Zenon
  <2> QED
    BY <2>1, <2>3, Zenon
<1>2. DOMAIN t = 1..(Size - 1)
  BY <1>1
<1> HIDE DEF t, Size
<1>3. i \in 1..Size /\ \A j, k \in 1..Size : s[j] = s[k] => j = k
  BY <1>1, Zenon DEF Distinct, Size
<1> DEFINE Was(j) == IF j < i THEN j ELSE j + 1
<1>4. \A j \in 1..(Size - 1) : Was(j) \in 1..Size /\ Was(j) # i /\ t[j] = s[Was(j)]
  BY <1>1, <1>3
<1>5. \A j, k \in 1..(Size - 1) : Was(j) = Was(k) => j = k
  BY <1>1, <1>3
<1>6. \A j \in 1..Size : j # i => \E k \in 1..(Size - 1) : Was(k) = j
  <2> SUFFICES ASSUME NEW j \in 1..Size, j # i PROVE \E k \in 1..(Size - 1) : Was(k) = j
    OBVIOUS
  <2>1. CASE j < i
    <3>1. j \in 1..(Size - 1) /\ Was(j) = j
      BY <1>1, <1>3, <2>1
    <3> QED
      BY <3>1
  <2>2. CASE ~(j < i)
    <3>1. j - 1 \in 1..(Size - 1) /\ Was(j - 1) = j
      BY <1>1, <1>3, <2>2
    <3> QED
      BY <3>1
  <2> QED
    BY <2>1, <2>2
<1> HIDE DEF Was
<1>7. Distinct(t)
  BY <1>2, <1>3, <1>4, <1>5 DEF Distinct
<1>8. \A n : In(n, t) <=> In(n, s) /\ n # s[i]
  <2>1. ASSUME NEW n, In(n, t) PROVE In(n, s) /\ n # s[i]
    <3>1. PICK j \in 1..(Size - 1) : t[j] = n
      BY <1>2, <2>1 DEF In
    <3> QED
      BY <1>1, <1>3, <1>4, <3>1 DEF In
  <2>2. ASSUME NEW n, In(n, s), n # s[i] PROVE In(n, t)
    <3>1. PICK j \in 1..Size : s[j] = n
      BY <1>1, <2>2 DEF In
    <3>2. PICK k \in 1..(Size - 1) : Was(k) = j
      BY <1>6, <2>2, <3>1
    <3> QED
      BY <1>2, <1>4, <3>1, <3>2 DEF In
  <2> QED
    BY <2>1, <2>2
<1> QED
  BY <1>1, <1>7, <1>8 DEF t, Size

\* Unlinking a node of a list joins its neighbours, and leaves it alone.
Unlinked(r, h, s, c, i) ==
    /\ IsList(r.heap, r.first, Cut(s, i), Cut(c, i)) /\ IsList(r.heap, s[i], <<s[i]>>, <<c[i]>>)
    /\ r.heap \in Heap /\ \A n \in Nodes : r.heap[n].used = h[n].used /\ (~In(n, s) => r.heap[n] = h[n])

LEMMA UnlinkIs ==
  ASSUME NEW h \in Heap, NEW p, NEW s, NEW c, IsList(h, p, s, c), NEW i \in 1..Len(s)
  PROVE  Unlinked(L!bctbx_list_unlink(h, p, s[i]), h, s, c, i)
<1> DEFINE r == L!bctbx_list_unlink(h, p, s[i])
           Size == Len(s)
           e == s[i]
           next == h[e].next
           prev == h[e].prev
           g == r.heap
           t == Cut(s, i)
           a == Cut(c, i)
<1>1. /\ s \in Seq(Nodes) /\ c \in Seq(Data) /\ Size \in Nat /\ Len(c) = Size /\ s # <<>>
      /\ \A j \in 1..Size : s[j] \in Nodes /\ s[j] # 0 /\ In(s[j], s) /\ c[j] \in Data
  BY ListElements
<1>2. /\ \A j \in 1..Size : /\ h[s[j]].used /\ h[s[j]].data = c[j]
                            /\ h[s[j]].next = IF j = Size THEN 0 ELSE s[j + 1]
                            /\ h[s[j]].prev = IF j = 1 THEN 0 ELSE s[j - 1]
      /\ \A j, k \in 1..Size : s[j] = s[k] => j = k
      /\ p = s[1]
  <2>1. /\ \A j \in 1..Size : /\ h[s[j]].used /\ h[s[j]].data = c[j]
                              /\ h[s[j]].next = IF j = Size THEN 0 ELSE s[j + 1]
                              /\ h[s[j]].prev = IF j = 1 THEN 0 ELSE s[j - 1]
        /\ \A j, k \in 1..Size : s[j] = s[k] => j = k
        /\ p = IF s = <<>> THEN 0 ELSE s[1]
    BY ListLinks
  <2> QED
    BY <1>1, <2>1, Zenon
<1>3. /\ t \in Seq(Nodes) /\ Len(t) = Size - 1
      /\ \A j \in 1..(Size - 1) : t[j] = IF j < i THEN s[j] ELSE s[j + 1]
      /\ Distinct(t) /\ \A n : In(n, t) <=> In(n, s) /\ n # e
  <2>1. Distinct(s)
    BY DEF IsList
  <2> QED
    BY <1>1, <2>1, CutElements
<1>4. a \in Seq(Data) /\ Len(a) = Size - 1 /\ \A j \in 1..(Size - 1) : a[j] = IF j < i THEN c[j] ELSE c[j + 1]
  <2>1. a \in Seq(Data) /\ Len(a) = Len(c) - 1 /\ \A j \in 1..(Len(c) - 1) : a[j] = IF j < i THEN c[j] ELSE c[j + 1]
    BY <1>1, RemoveAtIs, Zenon DEF Cut
  <2> QED
    BY <1>1, <2>1
<1>5. i \in 1..Size
  OBVIOUS
<1> HIDE DEF t, a, Size
<1>6. e \in Nodes /\ e # 0 /\ next = (IF i = Size THEN 0 ELSE s[i + 1]) /\ prev = (IF i = 1 THEN 0 ELSE s[i - 1]) /\ (e = p <=> i = 1)
  <2>1. 1 \in 1..Size
    BY <1>1, <1>5
  <2>2. e \in Nodes /\ e # 0
    BY <1>1, <1>5
  <2>3. next = (IF i = Size THEN 0 ELSE s[i + 1]) /\ prev = (IF i = 1 THEN 0 ELSE s[i - 1])
    BY <1>2, <1>5, Zenon
  <2>4. e = p <=> i = 1
    BY <1>2, <1>5, <2>1
  <2> QED
    BY <2>2, <2>3, <2>4
<1>7. (i # Size => i + 1 \in 1..Size /\ s[i + 1] \in Nodes /\ s[i + 1] # e) /\ (i # 1 => i - 1 \in 1..Size /\ s[i - 1] \in Nodes /\ s[i - 1] # e)
      /\ (i # Size /\ i # 1 => s[i + 1] # s[i - 1])
  <2>1. (i # Size => i + 1 \in 1..Size /\ i + 1 # i) /\ (i # 1 => i - 1 \in 1..Size /\ i - 1 # i) /\ i + 1 # i - 1
    BY <1>1, <1>5
  <2> QED
    BY <1>1, <1>2, <1>5, <2>1
<1>8. \A n \in Nodes : h[n] \in ListNode
  BY DEF Heap
<1> DEFINE alone == [h EXCEPT ![e].prev = 0, ![e].next = 0]
<1>9. /\ alone \in Heap
      /\ \A n \in Nodes : /\ alone[n].used = h[n].used /\ alone[n].data = h[n].data
                          /\ alone[n].next = IF n = e THEN 0 ELSE h[n].next
                          /\ alone[n].prev = IF n = e THEN 0 ELSE h[n].prev
                          /\ n # e => alone[n] = h[n]
  BY <1>6, <1>8, ZenonT(30) DEF Heap, ListNode
<1> DEFINE mid == IF i = 1 THEN alone ELSE [alone EXCEPT ![prev].next = next]
<1>10. r = [heap |-> IF i = Size THEN mid ELSE [mid EXCEPT ![next].prev = IF i = 1 THEN 0 ELSE prev],
            first |-> IF i = 1 THEN next ELSE p]
  <2>1. next = 0 <=> i = Size
    BY <1>1, <1>6, <1>7
  <2> QED
    BY <1>6, <2>1, ZenonT(30) DEF L!bctbx_list_unlink, L!At
<1> HIDE DEF alone
<1>11. /\ mid \in Heap
       /\ \A n \in Nodes : /\ mid[n].used = h[n].used /\ mid[n].data = h[n].data
                           /\ mid[n].next = IF n = e THEN 0 ELSE IF i # 1 /\ n = s[i - 1] THEN next ELSE h[n].next
                           /\ mid[n].prev = IF n = e THEN 0 ELSE h[n].prev
                           /\ n # e /\ ~(i # 1 /\ n = s[i - 1]) => mid[n] = h[n]
  <2>1. CASE i = 1
    BY <1>9, <2>1
  <2>2. CASE i # 1
    <3>1. prev = s[i - 1] /\ prev \in Nodes /\ prev # e /\ next \in Nodes \cup {0}
      BY <1>6, <1>7, <2>2
    <3>2. \A n \in Nodes : alone[n] \in ListNode
      BY <1>9 DEF Heap
    <3>3. mid = [alone EXCEPT ![prev].next = next]
      BY <2>2
    <3> HIDE DEF next, prev, mid
    <3>4. /\ mid \in Heap
          /\ \A n \in Nodes : /\ mid[n].used = alone[n].used /\ mid[n].data = alone[n].data
                              /\ mid[n].next = IF n = prev THEN next ELSE alone[n].next
                              /\ mid[n].prev = alone[n].prev
                              /\ n # prev => mid[n] = alone[n]
      BY <1>9, <3>1, <3>2, <3>3 DEF Heap, ListNode
    <3> QED
      BY <1>9, <2>2, <3>1, <3>4
  <2> QED
    BY <2>1, <2>2, Zenon
<1> HIDE DEF mid
<1>12. /\ g \in Heap
       /\ \A n \in Nodes : /\ g[n].used = h[n].used /\ g[n].data = h[n].data
                           /\ g[n].next = IF n = e THEN 0 ELSE IF i # 1 /\ n = s[i - 1] THEN next ELSE h[n].next
                           /\ g[n].prev = IF n = e THEN 0 ELSE IF i # Size /\ n = s[i + 1] THEN prev ELSE h[n].prev
                           /\ n # e /\ ~(i # 1 /\ n = s[i - 1]) /\ ~(i # Size /\ n = s[i + 1]) => g[n] = h[n]
  <2>1. CASE i = Size
    BY <1>10, <1>11, <2>1
  <2>2. CASE i # Size
    <3>1. next = s[i + 1] /\ next \in Nodes /\ next # e /\ prev \in Nodes \cup {0} /\ (i = 1 => prev = 0)
      BY <1>6, <1>7, <2>2
    <3>2. \A n \in Nodes : mid[n] \in ListNode
      BY <1>11 DEF Heap
    <3>3. g = [mid EXCEPT ![next].prev = prev]
      <4> HIDE DEF next, prev, mid, r
      <4> QED
        BY <1>10, <2>2, <3>1, Zenon
    <3> HIDE DEF next, prev, g
    <3>4. /\ g \in Heap
          /\ \A n \in Nodes : /\ g[n].used = mid[n].used /\ g[n].data = mid[n].data
                              /\ g[n].next = mid[n].next
                              /\ g[n].prev = IF n = next THEN prev ELSE mid[n].prev
                              /\ n # next => g[n] = mid[n]
      BY <1>11, <3>1, <3>2, <3>3 DEF Heap, ListNode
    <3> QED
      BY <1>11, <2>2, <3>1, <3>4
  <2> QED
    BY <2>1, <2>2
<1>13. r.first = IF i = 1 THEN next ELSE p
  BY <1>10
<1> HIDE DEF r, g, next, prev, e
<1>14. ASSUME NEW j \in 1..(Size - 1)
       PROVE  /\ g[t[j]].used /\ g[t[j]].data = a[j]
              /\ g[t[j]].next = IF j = Size - 1 THEN 0 ELSE t[j + 1]
              /\ g[t[j]].prev = IF j = 1 THEN 0 ELSE t[j - 1]
  <2> DEFINE k == IF j < i THEN j ELSE j + 1
  <2>1. k \in 1..Size /\ k # i /\ t[j] = s[k] /\ a[j] = c[k]
    BY <1>1, <1>3, <1>4, <1>5
  <2>2. s[k] \in Nodes /\ s[k] # e /\ (i # 1 => (s[k] = s[i - 1] <=> k = i - 1)) /\ (i # Size => (s[k] = s[i + 1] <=> k = i + 1))
    BY <1>1, <1>2, <1>5, <1>7, <2>1, SMTT(30) DEF e
  <2> HIDE DEF k
  <2>3. g[t[j]].used /\ g[t[j]].data = a[j]
    <3>1. h[s[k]].used /\ h[s[k]].data = c[k]
      BY <1>2, <2>1
    <3>2. g[s[k]].used = h[s[k]].used /\ g[s[k]].data = h[s[k]].data
      BY <1>12, <2>2
    <3> QED
      BY <2>1, <3>1, <3>2, Zenon
  <2>4. g[t[j]].next = IF i # 1 /\ k = i - 1 THEN next ELSE IF k = Size THEN 0 ELSE s[k + 1]
    BY <1>2, <1>12, <2>1, <2>2
  <2>5. g[t[j]].prev = IF i # Size /\ k = i + 1 THEN prev ELSE IF k = 1 THEN 0 ELSE s[k - 1]
    BY <1>2, <1>12, <2>1, <2>2
  <2>6. j + 1 \in 1..(Size - 1) => t[j + 1] = IF j + 1 < i THEN s[j + 1] ELSE s[j + 2]
    BY <1>1, <1>3
  <2>7. j - 1 \in 1..(Size - 1) => t[j - 1] = IF j - 1 < i THEN s[j - 1] ELSE s[j]
    BY <1>1, <1>3
  <2> USE DEF k
  <2>8. g[t[j]].next = IF j = Size - 1 THEN 0 ELSE t[j + 1]
    <3>1. CASE j + 1 < i
      <4>1. k = j /\ k # i - 1 /\ k # Size /\ j # Size - 1 /\ j + 1 \in 1..(Size - 1)
        BY <1>1, <1>5, <3>1
      <4> QED
        BY <2>4, <2>6, <3>1, <4>1
    <3>2. CASE j + 1 = i
      <4>1. k = j /\ k = i - 1 /\ i # 1 /\ (j = Size - 1 <=> i = Size) /\ i + 1 = j + 2 /\ (j # Size - 1 => j + 1 \in 1..(Size - 1)) /\ ~(j + 1 < i)
        BY <1>1, <1>5, <3>2
      <4>2. g[t[j]].next = next
        BY <2>4, <4>1
      <4>3. j # Size - 1 => t[j + 1] = s[i + 1]
        BY <2>6, <4>1
      <4> QED
        BY <1>6, <4>1, <4>2, <4>3
    <3>3. CASE ~(j + 1 <= i)
      <4>1. k = j + 1 /\ k # i - 1 /\ (k = Size <=> j = Size - 1) /\ k + 1 = j + 2 /\ (j # Size - 1 => j + 1 \in 1..(Size - 1)) /\ ~(j + 1 < i)
        BY <1>1, <1>5, <3>3
      <4> QED
        BY <2>4, <2>6, <4>1
    <3> QED
      BY <1>5, <3>1, <3>2, <3>3
  <2>9. g[t[j]].prev = IF j = 1 THEN 0 ELSE t[j - 1]
    <3>1. CASE j < i
      <4>1. k = j /\ k # i + 1 /\ (j # 1 => j - 1 \in 1..(Size - 1)) /\ j - 1 < i
        BY <1>1, <1>5, <3>1
      <4> QED
        BY <2>5, <2>7, <4>1
    <3>2. CASE j = i
      <4>1. k = j + 1 /\ k = i + 1 /\ i # Size /\ (j = 1 <=> i = 1) /\ (j # 1 => j - 1 \in 1..(Size - 1)) /\ j - 1 < i /\ j - 1 = i - 1
        BY <1>1, <1>5, <3>2
      <4>2. g[t[j]].prev = prev
        BY <2>5, <4>1
      <4> QED
        BY <1>6, <2>7, <4>1, <4>2
    <3>3. CASE ~(j <= i)
      <4>1. k = j + 1 /\ k # i + 1 /\ k # 1 /\ j # 1 /\ j - 1 \in 1..(Size - 1) /\ ~(j - 1 < i) /\ k - 1 = j
        BY <1>1, <1>5, <3>3
      <4> QED
        BY <2>5, <2>7, <4>1
    <3> QED
      BY <1>5, <3>1, <3>2, <3>3
  <2> QED
    BY <2>3, <2>8, <2>9
<1>15. IsList(g, r.first, t, a)
  <2>1. r.first = IF t = <<>> THEN 0 ELSE t[1]
    <3>1. t = <<>> <=> Size = 1
      <4>1. t = <<>> <=> Len(t) = 0
        BY <1>3, EmptySeq, Zenon
      <4> QED
        BY <1>1, <1>3, <1>5, <4>1
    <3>2. Size # 1 => 1 \in 1..(Size - 1) /\ t[1] = IF i = 1 THEN s[2] ELSE s[1]
      <4>1. Size # 1 => 1 \in 1..(Size - 1) /\ (1 < i <=> i # 1)
        BY <1>1, <1>5
      <4> QED
        BY <1>3, <4>1
    <3>3. Size = 1 => i = 1
      BY <1>5
    <3> QED
      BY <1>2, <1>6, <1>13, <3>1, <3>2, <3>3
  <2> QED
    BY <1>3, <1>4, <1>14, <2>1 DEF IsList
<1>16. IsList(g, e, <<e>>, <<c[i]>>)
  <2>1. <<e>> \in Seq(Nodes) /\ Distinct(<<e>>)
    BY <1>6, OneElement
  <2>2. g[e].used /\ g[e].data = c[i] /\ g[e].next = 0 /\ g[e].prev = 0
    BY <1>2, <1>5, <1>6, <1>12 DEF e
  <2>3. /\ <<e>> # <<>> /\ Len(<<e>>) = 1 /\ <<e>>[1] = e /\ <<c[i]>> \in Seq(Data)
        /\ Len(<<c[i]>>) = 1 /\ <<c[i]>>[1] = c[i] /\ 1..1 = {1}
    BY <1>1, <1>5
  <2> QED
    BY <2>1, <2>2, <2>3 DEF IsList
<1>17. \A n \in Nodes : g[n].used = h[n].used /\ (~In(n, s) => g[n] = h[n])
  <2>1. In(e, s) /\ (i # 1 => In(s[i - 1], s)) /\ (i # Size => In(s[i + 1], s))
    BY <1>1, <1>5, <1>7 DEF e
  <2> QED
    BY <1>12, <2>1
<1> QED
  BY <1>12, <1>15, <1>16, <1>17 DEF Unlinked, t, a, e, g, r

\* Erasing a node of a list cuts it out; there may be none to erase.
LEMMA EraseIs ==
  ASSUME NEW h \in Heap, NEW p, NEW s, NEW c, IsList(h, p, s, c), NEW i \in 1..Len(s)
  PROVE  LET r == L!bctbx_list_erase_link(h, p, s[i])
         IN  IsList(r.heap, r.first, Cut(s, i), Cut(c, i)) /\ Step(h, s, r.heap, Cut(s, i))
<1> DEFINE u == L!bctbx_list_unlink(h, p, s[i])
           r == L!bctbx_list_erase_link(h, p, s[i])
           e == s[i]
           t == Cut(s, i)
           k == u.heap
           g == [k EXCEPT ![e] = L!FreeNode]
<1>1. /\ IsList(k, u.first, t, Cut(c, i)) /\ k \in Heap
      /\ \A n \in Nodes : k[n].used = h[n].used /\ (~In(n, s) => k[n] = h[n])
  <2>1. Unlinked(u, h, s, c, i)
    BY UnlinkIs
  <2> HIDE DEF u
  <2> QED
    BY <2>1 DEF Unlinked
<1>2. e \in Nodes /\ e # 0 /\ s \in Seq(Nodes) /\ Distinct(s) /\ \A n : In(n, s) => n \in Nodes /\ h[n].used
  <2>1. Distinct(s)
    BY DEF IsList
  <2> QED
    BY <2>1, ListElements
<1>3. \A n : In(n, t) <=> In(n, s) /\ n # e
  BY <1>2, CutElements
<1>4. r.heap = g /\ r.first = u.first
  <2>1. u = [heap |-> u.heap, first |-> u.first]
    <3>1. \E x, y : u = L!At(x, y)
      BY <1>2, Zenon DEF L!bctbx_list_unlink
    <3> QED
      BY <3>1 DEF L!At
  <2>2. r = [u EXCEPT !.heap[e] = L!FreeNode]
    BY <1>2 DEF L!bctbx_list_erase_link
  <2> HIDE DEF u, e
  <2> QED
    BY <2>1, <2>2
<1> HIDE DEF r, u, k, t, e
<1>5. L!FreeNode \in ListNode /\ ~L!FreeNode.used
  BY DEF L!FreeNode, ListNode
<1>6. g \in Heap /\ g[e] = L!FreeNode /\ \A n \in Nodes : n # e => g[n] = k[n]
  BY <1>1, <1>2, <1>5 DEF Heap
<1> HIDE DEF g
<1>7. IsList(g, u.first, t, Cut(c, i))
  <2>1. \A n \in Nodes : In(n, t) => g[n] = k[n]
    BY <1>3, <1>6
  <2> QED
    BY <1>1, <2>1, ListFrame
<1>8. Step(h, s, g, t)
  <2>1. In(e, s)
    BY ListElements DEF e
  <2> QED
    BY <1>1, <1>2, <1>3, <1>5, <1>6, <2>1 DEF Step
<1> QED
  BY <1>4, <1>7, <1>8 DEF t, r

LEMMA EraseNone ==
  ASSUME NEW h, NEW p
  PROVE  L!bctbx_list_erase_link(h, p, 0) = [heap |-> h, first |-> p]
BY DEF L!bctbx_list_erase_link, L!bctbx_list_unlink, L!At

\* The places of a sequence where an element is in D, and the first of them.
Where(c, Sel) == {i \in 1..Len(c) : c[i] \in Sel}

FirstOf(c, Sel) == IF Where(c, Sel) # {} THEN Min(Where(c, Sel)) ELSE 0

LEMMA FirstOfIs ==
  ASSUME NEW c \in Seq(Data), NEW Sel
  PROVE  /\ FirstOf(c, Sel) \in 0..Len(c) /\ Len(c) \in Nat
         /\ FirstOf(c, Sel) # 0 => c[FirstOf(c, Sel)] \in Sel /\ \A j \in 1..Len(c) : j < FirstOf(c, Sel) => c[j] \notin Sel
         /\ FirstOf(c, Sel) = 0 => \A j \in 1..Len(c) : c[j] \notin Sel
<1> DEFINE S == Where(c, Sel)
           Size == Len(c)
<1>1. S \subseteq Nat /\ Size \in Nat /\ \A i : i \in S <=> i \in 1..Size /\ c[i] \in Sel
  BY DEF Where
<1> HIDE DEF S, Size
<1>2. CASE S = {}
  <2>1. FirstOf(c, Sel) = 0
    BY <1>2 DEF FirstOf, S
  <2> QED
    BY <1>1, <1>2, <2>1 DEF Size
<1>3. CASE S # {}
  <2>1. Min(S) \in S /\ \A m \in S : Min(S) <= m
    BY <1>1, <1>3, MinIsLeast
  <2>2. FirstOf(c, Sel) = Min(S)
    BY <1>3 DEF FirstOf, S
  <2> HIDE DEF FirstOf
  <2>3. Min(S) \in 1..Size /\ c[Min(S)] \in Sel /\ \A j \in 1..Size : j < Min(S) => c[j] \notin Sel
    BY <1>1, <2>1
  <2> QED
    BY <1>1, <2>2, <2>3 DEF Size
<1> QED
  BY <1>2, <1>3

\* The three selections of the module are that place.
LEMMA Selected ==
  ASSUME NEW c \in Seq(Data)
  PROVE  /\ \A Sel : L!SelectInSeq(c, LAMBDA e : e \in Sel) = FirstOf(c, Sel)
         /\ \A d : L!SelectInSeq(c, LAMBDA e : e = d) = FirstOf(c, {d})
         /\ \A d : L!SelectInSeq(c, LAMBDA e : d <= e) = FirstOf(c, {e \in Data : d <= e})
<1>1. ASSUME NEW Sel PROVE L!SelectInSeq(c, LAMBDA e : e \in Sel) = FirstOf(c, Sel)
  BY Zenon DEF L!SelectInSeq, L!Min, Min, FirstOf, Where
<1>2. ASSUME NEW d PROVE L!SelectInSeq(c, LAMBDA e : e = d) = FirstOf(c, {d})
  <2> DEFINE S == {i \in 1..Len(c) : c[i] = d}
  <2>1. S = Where(c, {d})
    BY DEF Where
  <2>2. L!SelectInSeq(c, LAMBDA e : e = d) = IF S # {} THEN Min(S) ELSE 0
    BY Zenon DEF L!SelectInSeq, L!Min, Min
  <2> HIDE DEF S
  <2> QED
    BY <2>1, <2>2, Zenon DEF FirstOf
<1>3. ASSUME NEW d PROVE L!SelectInSeq(c, LAMBDA e : d <= e) = FirstOf(c, {e \in Data : d <= e})
  <2> DEFINE S == {i \in 1..Len(c) : d <= c[i]}
  <2>1. S = Where(c, {e \in Data : d <= e})
    BY ElementOfSeq DEF Where
  <2>2. L!SelectInSeq(c, LAMBDA e : d <= e) = IF S # {} THEN Min(S) ELSE 0
    BY Zenon DEF L!SelectInSeq, L!Min, Min
  <2> HIDE DEF S
  <2> QED
    BY <2>1, <2>2, Zenon DEF FirstOf
<1> QED
  BY <1>1, <1>2, <1>3, Zenon

\* Finding data finds the node of that place.
LEMMA FindIs ==
  ASSUME NEW h \in Heap, NEW p, NEW s, NEW c, IsList(h, p, s, c), NEW Sel
  PROVE  L!bctbx_list_find_custom(h, p, Sel) = IF FirstOf(c, Sel) = 0 THEN 0 ELSE s[FirstOf(c, Sel)]
<1>1. L!Chain(h, p) = s /\ L!DataOf(h, s) = c
  BY ChainIs, ListRead
<1>2. c \in Seq(Data)
  BY DEF IsList
<1>3. L!SelectInSeq(c, LAMBDA e : e \in Sel) = FirstOf(c, Sel)
  BY <1>2, Selected, Zenon
<1> QED
  BY <1>1, <1>3, Zenon DEF L!bctbx_list_find_custom

\* Removing the first node whose data is in D.
LEMMA RemoveIs ==
  ASSUME NEW h \in Heap, NEW p, NEW s, NEW c, IsList(h, p, s, c), NEW Sel
  PROVE  LET r == L!bctbx_list_erase_link(h, p, L!bctbx_list_find_custom(h, p, Sel))
             i == FirstOf(c, Sel)
             t == IF i = 0 THEN s ELSE Cut(s, i)
         IN  IsList(r.heap, r.first, t, L!Without(c, i)) /\ Step(h, s, r.heap, t)
<1> DEFINE i == FirstOf(c, Sel)
           e == L!bctbx_list_find_custom(h, p, Sel)
<1>1. i \in 0..Len(c) /\ Len(c) = Len(s) /\ Len(s) \in Nat
  BY FirstOfIs, ListElements DEF IsList
<1>2. e = IF i = 0 THEN 0 ELSE s[i]
  BY FindIs
<1> HIDE DEF i, e
<1>3. CASE i = 0
  BY <1>2, <1>3, EraseNone, NoStep DEF L!Without, i, e
<1>4. CASE i # 0
  <2>1. i \in 1..Len(s) /\ L!Without(c, i) = Cut(c, i)
    <3>1. i \in 1..Len(s)
      BY <1>1, <1>4
    <3> QED
      BY <1>4, <3>1, Zenon DEF L!Without, L!RemoveAt, Cut
  <2>2. LET r == L!bctbx_list_erase_link(h, p, s[i])
        IN  IsList(r.heap, r.first, Cut(s, i), Cut(c, i)) /\ Step(h, s, r.heap, Cut(s, i))
    BY <2>1, EraseIs
  <2> QED
    BY <1>2, <1>4, <2>1, <2>2 DEF i, e
<1> QED
  BY <1>3, <1>4

\* Taking the first, and freeing the list.
LEMMA PopIs ==
  ASSUME NEW h \in Heap, NEW p, NEW s, NEW c, IsList(h, p, s, c), p # 0
  PROVE  LET r == L!bctbx_list_pop_front(h, p)
         IN  IsList(r.heap, r.first, Cut(s, 1), Tail(c)) /\ Step(h, s, r.heap, Cut(s, 1))
<1>1. p = s[1] /\ 1 \in 1..Len(s) /\ c \in Seq(Data) /\ Len(c) = Len(s) /\ Len(c) \in Nat
  <2>1. Len(s) \in Nat /\ Len(s) # 0 /\ s # <<>> /\ c \in Seq(Data) /\ Len(c) = Len(s)
    BY ListElements
  <2> QED
    BY <2>1, ListLinks
<1>2. Cut(c, 1) = Tail(c)
  <2> DEFINE a == Cut(c, 1)
             b == Tail(c)
  <2>1. a \in Seq(Data) /\ Len(a) = Len(c) - 1 /\ \A j \in 1..(Len(c) - 1) : a[j] = IF j < 1 THEN c[j] ELSE c[j + 1]
    BY <1>1, RemoveAtIs DEF Cut
  <2>2. b \in Seq(Data) /\ Len(b) = Len(c) - 1 /\ \A j \in 1..(Len(c) - 1) : b[j] = c[j + 1]
    BY <1>1
  <2> HIDE DEF a, b
  <2>3. \A j \in 1..(Len(c) - 1) : a[j] = b[j]
    BY <1>1, <2>1, <2>2
  <2>4. a = b
    BY <2>1, <2>2, <2>3, SeqEqual
  <2> QED
    BY <2>4 DEF a, b
<1> QED
  BY <1>1, <1>2, EraseIs, Zenon DEF L!bctbx_list_pop_front

LEMMA FreeIs ==
  ASSUME NEW h \in Heap, NEW p, NEW s, NEW c, IsList(h, p, s, c)
  PROVE  LET r == L!bctbx_list_free(h, p)
         IN  IsList(r.heap, r.first, <<>>, <<>>) /\ Step(h, s, r.heap, <<>>)
<1> DEFINE g == [n \in Nodes |-> IF In(n, s) THEN L!FreeNode ELSE h[n]]
<1>1. L!bctbx_list_free(h, p) = [heap |-> g, first |-> 0]
  <2>1. L!Chain(h, p) = s
    BY ChainIs
  <2>2. \A n : L!Contains(s, n) <=> In(n, s)
    BY ListElements DEF L!Contains, In
  <2>3. [n \in Nodes |-> IF L!Contains(s, n) THEN L!FreeNode ELSE h[n]] = g
    BY <2>2
  <2> QED
    BY <2>1, <2>3, Zenon DEF L!bctbx_list_free, L!At
<1>2. L!FreeNode \in ListNode /\ ~L!FreeNode.used
  BY DEF L!FreeNode, ListNode
<1>3. g \in Heap
  BY <1>2 DEF Heap
<1>4. \A n : ~In(n, <<>>)
  BY DEF In
<1>5. Step(h, s, g, <<>>)
  <2>1. \A n \in Nodes : g[n] = IF In(n, s) THEN L!FreeNode ELSE h[n]
    OBVIOUS
  <2> HIDE DEF g
  <2> QED
    BY <1>2, <1>3, <1>4, <2>1 DEF Step
<1>6. IsList(g, 0, <<>>, <<>>)
  <2>1. <<>> \in Seq(Nodes) /\ <<>> \in Seq(Data) /\ Len(<<>>) = 0 /\ 1..0 = {} /\ DOMAIN <<>> = {}
    OBVIOUS
  <2> HIDE DEF g
  <2> QED
    BY <2>1 DEF IsList, Distinct
<1> QED
  BY <1>1, <1>5, <1>6

\* A sequence with x put before its element i, and its elements.
Put(s, i, x) == SubSeq(s, 1, i - 1) \o <<x>> \o SubSeq(s, i, Len(s))

LEMMA PutElements ==
  ASSUME NEW s \in Seq(Nodes), Distinct(s), NEW i \in 1..Len(s), NEW x \in Nodes, ~In(x, s)
  PROVE  /\ Put(s, i, x) \in Seq(Nodes) /\ Len(Put(s, i, x)) = Len(s) + 1 /\ Len(s) \in Nat
         /\ \A j \in 1..(Len(s) + 1) : Put(s, i, x)[j] = IF j < i THEN s[j] ELSE IF j = i THEN x ELSE s[j - 1]
         /\ Distinct(Put(s, i, x)) /\ \A n : In(n, Put(s, i, x)) <=> In(n, s) \/ n = x
<1> DEFINE t == Put(s, i, x)
           Size == Len(s)
<1>1. /\ Size \in Nat /\ DOMAIN s = 1..Size /\ t \in Seq(Nodes) /\ Len(t) = Size + 1
      /\ \A j \in 1..(Size + 1) : t[j] = IF j < i THEN s[j] ELSE IF j = i THEN x ELSE s[j - 1]
  <2>1. Size \in Nat /\ DOMAIN s = 1..Size
    BY LenProperties
  <2>2. t = SubSeq(s, 1, i - 1) \o <<x>> \o SubSeq(s, i, Len(s))
    BY DEF Put
  <2> HIDE DEF t
  <2>3. t \in Seq(Nodes) /\ Len(t) = Len(s) + 1 /\ \A j \in 1..(Len(s) + 1) : t[j] = IF j < i THEN s[j] ELSE IF j = i THEN x ELSE s[j - 1]
    BY <2>2, InsertAtIs
  <2> QED
    BY <2>1, <2>3
<1>2. DOMAIN t = 1..(Size + 1)
  BY <1>1
<1> HIDE DEF t, Size
<1>3. i \in 1..Size /\ (\A j, k \in 1..Size : s[j] = s[k] => j = k) /\ \A j \in 1..Size : s[j] # x
  BY <1>1, Zenon DEF Distinct, In, Size
<1> DEFINE Is(j) == IF j < i THEN j ELSE j + 1
           Was(j) == IF j < i THEN j ELSE j - 1
<1>4. i \in 1..(Size + 1) /\ t[i] = x
  BY <1>1, <1>3
<1>5. \A j \in 1..(Size + 1) : j # i => Was(j) \in 1..Size /\ t[j] = s[Was(j)]
  BY <1>1, <1>3
<1>6. \A j, k \in 1..(Size + 1) : j # i /\ k # i /\ Was(j) = Was(k) => j = k
  BY <1>1, <1>3
<1>7. \A j \in 1..Size : Is(j) \in 1..(Size + 1) /\ t[Is(j)] = s[j]
  <2> SUFFICES ASSUME NEW j \in 1..Size PROVE Is(j) \in 1..(Size + 1) /\ t[Is(j)] = s[j]
    OBVIOUS
  <2>1. Is(j) \in 1..(Size + 1) /\ (j < i => Is(j) = j) /\ (~(j < i) => Is(j) = j + 1 /\ (j + 1) - 1 = j /\ ~(j + 1 < i) /\ j + 1 # i)
    BY <1>1, <1>3
  <2> HIDE DEF Is
  <2> QED
    BY <1>1, <2>1
<1> HIDE DEF Is, Was
<1>8. Distinct(t)
  <2> SUFFICES ASSUME NEW j \in 1..(Size + 1), NEW k \in 1..(Size + 1), t[j] = t[k] PROVE j = k
    BY <1>2 DEF Distinct
  <2> QED
    BY <1>3, <1>4, <1>5, <1>6
<1>9. \A n : In(n, t) <=> In(n, s) \/ n = x
  <2>1. ASSUME NEW n, In(n, t) PROVE In(n, s) \/ n = x
    <3>1. PICK j \in 1..(Size + 1) : t[j] = n
      BY <1>2, <2>1 DEF In
    <3> QED
      BY <1>1, <1>4, <1>5, <3>1 DEF In
  <2>2. ASSUME NEW n, In(n, s) PROVE In(n, t)
    <3>1. PICK j \in 1..Size : s[j] = n
      BY <1>1, <2>2 DEF In
    <3> QED
      BY <1>2, <1>7, <3>1 DEF In
  <2>3. In(x, t)
    BY <1>2, <1>4 DEF In
  <2> QED
    BY <2>1, <2>2, <2>3
<1> QED
  BY <1>1, <1>8, <1>9 DEF t, Size

\* A free node linked before node i of a list.
LinkedBefore(h, s, i, n, d, g) ==
    /\ g \in Heap
    /\ \A m \in Nodes : /\ g[m].used <=> m = n \/ h[m].used
                        /\ g[m].data = IF m = n THEN d ELSE h[m].data
                        /\ g[m].next = IF m = n THEN s[i] ELSE IF i # 1 /\ m = s[i - 1] THEN n ELSE h[m].next
                        /\ g[m].prev = IF m = n THEN IF i = 1 THEN 0 ELSE s[i - 1] ELSE IF m = s[i] THEN n ELSE h[m].prev
                        /\ m # n /\ m # s[i] /\ ~(i # 1 /\ m = s[i - 1]) => g[m] = h[m]

LEMMA InsertIs ==
  ASSUME NEW h \in Heap, NEW p, NEW s, NEW c, IsList(h, p, s, c), NEW i \in 1..Len(s),
         NEW n \in Nodes, ~h[n].used, NEW d \in Data, NEW g, LinkedBefore(h, s, i, n, d, g)
  PROVE  IsList(g, IF i = 1 THEN n ELSE p, Put(s, i, n), Put(c, i, d)) /\ Step(h, s, g, Put(s, i, n))
<1> DEFINE Size == Len(s)
           t == Put(s, i, n)
           a == Put(c, i, d)
<1>1. /\ s \in Seq(Nodes) /\ c \in Seq(Data) /\ Size \in Nat /\ Len(c) = Size /\ s # <<>>
      /\ \A j \in 1..Size : s[j] \in Nodes /\ In(s[j], s) /\ c[j] \in Data
      /\ \A m : In(m, s) => m \in Nodes /\ h[m].used
  BY ListElements
<1>2. /\ \A j \in 1..Size : /\ h[s[j]].used /\ h[s[j]].data = c[j]
                            /\ h[s[j]].next = IF j = Size THEN 0 ELSE s[j + 1]
                            /\ h[s[j]].prev = IF j = 1 THEN 0 ELSE s[j - 1]
      /\ \A j, k \in 1..Size : s[j] = s[k] => j = k
      /\ p = s[1]
  <2>1. /\ \A j \in 1..Size : /\ h[s[j]].used /\ h[s[j]].data = c[j]
                              /\ h[s[j]].next = IF j = Size THEN 0 ELSE s[j + 1]
                              /\ h[s[j]].prev = IF j = 1 THEN 0 ELSE s[j - 1]
        /\ \A j, k \in 1..Size : s[j] = s[k] => j = k
        /\ p = IF s = <<>> THEN 0 ELSE s[1]
    BY ListLinks
  <2> QED
    BY <1>1, <2>1, Zenon
<1>3. ~In(n, s) /\ \A j \in 1..Size : s[j] # n
  BY <1>1
<1>4. /\ t \in Seq(Nodes) /\ Len(t) = Size + 1
      /\ \A j \in 1..(Size + 1) : t[j] = IF j < i THEN s[j] ELSE IF j = i THEN n ELSE s[j - 1]
      /\ Distinct(t) /\ \A m : In(m, t) <=> In(m, s) \/ m = n
  <2>1. Distinct(s)
    BY DEF IsList
  <2> QED
    BY <1>1, <1>3, <2>1, PutElements
<1>5. a \in Seq(Data) /\ Len(a) = Size + 1 /\ \A j \in 1..(Size + 1) : a[j] = IF j < i THEN c[j] ELSE IF j = i THEN d ELSE c[j - 1]
  <2>1. a \in Seq(Data) /\ Len(a) = Len(c) + 1 /\ \A j \in 1..(Len(c) + 1) : a[j] = IF j < i THEN c[j] ELSE IF j = i THEN d ELSE c[j - 1]
    <3>1. c \in Seq(Data) /\ i \in 1..Len(c) /\ d \in Data
      BY <1>1
    <3>2. a = SubSeq(c, 1, i - 1) \o <<d>> \o SubSeq(c, i, Len(c))
      BY DEF Put
    <3> HIDE DEF a
    <3> QED
      BY <3>1, <3>2, InsertAtIs
  <2> QED
    BY <1>1, <2>1
<1>6. i \in 1..Size
  OBVIOUS
<1> HIDE DEF Size, t, a
<1>7. /\ g \in Heap
      /\ \A m \in Nodes : /\ g[m].used <=> m = n \/ h[m].used
                          /\ g[m].data = IF m = n THEN d ELSE h[m].data
                          /\ g[m].next = IF m = n THEN s[i] ELSE IF i # 1 /\ m = s[i - 1] THEN n ELSE h[m].next
                          /\ g[m].prev = IF m = n THEN IF i = 1 THEN 0 ELSE s[i - 1] ELSE IF m = s[i] THEN n ELSE h[m].prev
                          /\ m # n /\ m # s[i] /\ ~(i # 1 /\ m = s[i - 1]) => g[m] = h[m]
  BY DEF LinkedBefore
<1>8. ASSUME NEW k \in 1..Size
      PROVE  /\ g[s[k]].used /\ g[s[k]].data = c[k]
             /\ g[s[k]].next = IF k = i - 1 THEN n ELSE IF k = Size THEN 0 ELSE s[k + 1]
             /\ g[s[k]].prev = IF k = i THEN n ELSE IF k = 1 THEN 0 ELSE s[k - 1]
  <2>1. s[k] \in Nodes /\ s[k] # n /\ (s[k] = s[i] <=> k = i)
    BY <1>1, <1>2, <1>3, <1>6
  <2>2. i # 1 /\ s[k] = s[i - 1] <=> k = i - 1
    <3>1. i # 1 => i - 1 \in 1..Size
      BY <1>1, <1>6
    <3>2. i = 1 => k # i - 1
      BY <1>1
    <3> QED
      BY <1>2, <3>1, <3>2
  <2> QED
    BY <1>2, <1>7, <2>1, <2>2
<1>9. ASSUME NEW j \in 1..(Size + 1)
      PROVE  /\ g[t[j]].used /\ g[t[j]].data = a[j]
             /\ g[t[j]].next = IF j = Size + 1 THEN 0 ELSE t[j + 1]
             /\ g[t[j]].prev = IF j = 1 THEN 0 ELSE t[j - 1]
  <2>1. j # Size + 1 => j + 1 \in 1..(Size + 1) /\ t[j + 1] = IF j + 1 < i THEN s[j + 1] ELSE IF j + 1 = i THEN n ELSE s[j]
    <3>1. j # Size + 1 => j + 1 \in 1..(Size + 1) /\ (j + 1) - 1 = j
      BY <1>1
    <3> QED
      BY <1>4, <3>1
  <2>2. j # 1 => j - 1 \in 1..(Size + 1) /\ t[j - 1] = IF j - 1 < i THEN IF j - 1 = i THEN n ELSE s[j - 1] ELSE IF j - 1 = i THEN n ELSE s[(j - 1) - 1]
    <3>1. j # 1 => j - 1 \in 1..(Size + 1) /\ (j - 1 < i => j - 1 # i)
      BY <1>1, <1>6
    <3> QED
      BY <1>4, <3>1
  <2>3. CASE j < i
    <3>1. j \in 1..Size /\ t[j] = s[j] /\ a[j] = c[j] /\ j # i /\ j # Size /\ j # Size + 1 /\ (j = i - 1 <=> j + 1 = i) /\ (j + 1 < i <=> j + 1 # i) /\ j - 1 < i /\ j - 1 # i
      BY <1>1, <1>4, <1>5, <1>6, <2>3
    <3> QED
      BY <1>8, <2>1, <2>2, <3>1
  <2>4. CASE j = i
    <3>1. /\ t[j] = n /\ a[j] = d /\ j # Size + 1 /\ j - 1 < i /\ j - 1 # i /\ ~(j + 1 < i) /\ j + 1 # i
      BY <1>1, <1>4, <1>5, <1>6, <2>4
    <3> QED
      BY <1>7, <2>1, <2>2, <2>4, <3>1
  <2>5. CASE ~(j <= i)
    <3> DEFINE k == j - 1
    <3>0. /\ k \in 1..Size /\ k # i - 1 /\ (k = Size <=> j = Size + 1) /\ k + 1 = j /\ j # 1
          /\ ~(j + 1 < i) /\ j + 1 # i /\ ~(k < i) /\ ~(j < i) /\ j # i
      BY <1>1, <1>6, <2>5
    <3>1. /\ k \in 1..Size /\ t[j] = s[k] /\ a[j] = c[k] /\ k # i - 1 /\ (k = Size <=> j = Size + 1) /\ k + 1 = j /\ j # 1
          /\ ~(j + 1 < i) /\ j + 1 # i /\ ~(k < i)
      BY <1>4, <1>5, <3>0
    <3>2. k # i => k # 1
      BY <1>6, <2>5, <3>1
    <3>3. t[j - 1] = IF k = i THEN n ELSE s[k - 1]
      BY <2>2, <3>1
    <3>4. /\ g[s[k]].used /\ g[s[k]].data = c[k]
          /\ g[s[k]].next = IF k = Size THEN 0 ELSE s[j]
          /\ g[s[k]].prev = IF k = i THEN n ELSE s[k - 1]
      <4> HIDE DEF k
      <4> QED
        BY <1>8, <3>1, <3>2, Zenon
    <3> QED
      BY <2>1, <3>1, <3>3, <3>4
  <2> QED
    BY <1>6, <2>3, <2>4, <2>5
<1>10. IsList(g, IF i = 1 THEN n ELSE p, t, a)
  <2>1. t # <<>> /\ t[1] = IF i = 1 THEN n ELSE s[1]
    <3>1. Len(<<>>) = 0 /\ Size + 1 # 0 /\ 1 \in 1..(Size + 1) /\ (1 < i <=> i # 1)
      BY <1>1, <1>6
    <3> QED
      BY <1>4, <3>1
  <2> QED
    BY <1>2, <1>4, <1>5, <1>9, <2>1 DEF IsList
<1>11. Step(h, s, g, t)
  <2>1. In(s[i], s) /\ (i # 1 => In(s[i - 1], s))
    <3>1. i # 1 => i - 1 \in 1..Size
      BY <1>1, <1>6
    <3> QED
      BY <1>1, <1>6, <3>1
  <2> QED
    BY <1>1, <1>4, <1>7, <2>1 DEF Step
<1> QED
  BY <1>10, <1>11 DEF t, a

\* Setting a pointer of a node.
PrevIs(g, h, e, v) == g = [h EXCEPT ![e].prev = v]

NextIs(g, h, e, v) == g = [h EXCEPT ![e].next = v]

PrevOnly(g, h, e, v) ==
    /\ g \in Heap
    /\ \A m \in Nodes : /\ g[m].used = h[m].used /\ g[m].data = h[m].data /\ g[m].next = h[m].next
                        /\ g[m].prev = IF m = e THEN v ELSE h[m].prev
                        /\ m # e => g[m] = h[m]

NextOnly(g, h, e, v) ==
    /\ g \in Heap
    /\ \A m \in Nodes : /\ g[m].used = h[m].used /\ g[m].data = h[m].data /\ g[m].prev = h[m].prev
                        /\ g[m].next = IF m = e THEN v ELSE h[m].next
                        /\ m # e => g[m] = h[m]

LEMMA PrevSet ==
  ASSUME NEW h \in Heap, NEW e \in Nodes, NEW v \in Nodes \cup {0}, NEW g, PrevIs(g, h, e, v)
  PROVE  PrevOnly(g, h, e, v)
<1>1. \A m \in Nodes : h[m] \in ListNode
  BY DEF Heap
<1> QED
  BY <1>1 DEF Heap, ListNode, PrevIs, PrevOnly

LEMMA NextSet ==
  ASSUME NEW h \in Heap, NEW e \in Nodes, NEW v \in Nodes \cup {0}, NEW g, NextIs(g, h, e, v)
  PROVE  NextOnly(g, h, e, v)
<1>1. \A m \in Nodes : h[m] \in ListNode
  BY DEF Heap
<1> QED
  BY <1>1 DEF Heap, ListNode, NextIs, NextOnly

\* What the two insertions do to the heap, in either order.
NewIn(g, h, n, d) == g = [h EXCEPT ![n] = [used |-> TRUE, prev |-> 0, next |-> 0, data |-> d]]

LinkedAtStart(g, n, it, prev) == [g EXCEPT ![n].prev = prev, ![n].next = it, ![it].prev = n]

LinkedSorted(g, n, it, prev) == [LinkedAtStart(g, n, it, prev) EXCEPT ![prev].next = n]

LinkedInside(g, n, it, prev) == [g EXCEPT ![n].prev = prev, ![n].next = it, ![prev].next = n, ![it].prev = n]

LEMMA LinksBefore ==
  ASSUME NEW h \in Heap, NEW p, NEW s, NEW c, IsList(h, p, s, c), NEW i \in 1..Len(s), NEW d \in Data, NEW n \in Nodes, ~h[n].used,
         NEW g0 \in Heap, NewIn(g0, h, n, d), NEW prev, prev = h[s[i]].prev
  PROVE  /\ (prev = 0 <=> i = 1)
         /\ i = 1 => LinkedBefore(h, s, i, n, d, LinkedAtStart(g0, n, s[i], prev))
         /\ i # 1 => LinkedBefore(h, s, i, n, d, LinkedSorted(g0, n, s[i], prev))
         /\ i # 1 => LinkedBefore(h, s, i, n, d, LinkedInside(g0, n, s[i], prev))
<1> DEFINE it == s[i]
           Size == Len(s)
<1>1. /\ Size \in Nat /\ i \in 1..Size /\ it \in Nodes /\ n \in Nodes
      /\ \A j \in 1..Size : s[j] \in Nodes /\ s[j] # 0 /\ In(s[j], s)
      /\ \A m : In(m, s) => m \in Nodes /\ h[m].used
  BY ListElements
<1>2. /\ prev = (IF i = 1 THEN 0 ELSE s[i - 1]) /\ \A j, k \in 1..Size : s[j] = s[k] => j = k
  BY <1>1, ListLinks
<1> HIDE DEF Size
<1>3. i # 1 => i - 1 \in 1..Size /\ s[i - 1] \in Nodes /\ s[i - 1] # it /\ s[i - 1] # n /\ s[i - 1] # 0
  <2>1. i # 1 => i - 1 \in 1..Size /\ i - 1 # i
    BY <1>1
  <2> QED
    BY <1>1, <1>2, <2>1
<1>4. it # n /\ prev \in Nodes \cup {0} /\ (prev = 0 <=> i = 1)
  BY <1>1, <1>2, <1>3
<1> HIDE DEF it
<1>5. \A m \in Nodes : h[m] \in ListNode
  BY DEF Heap
<1> DEFINE g1 == [g0 EXCEPT ![n].prev = prev, ![n].next = it]
<1>6. /\ g1 \in Heap
      /\ \A m \in Nodes : /\ g1[m].used <=> m = n \/ h[m].used
                          /\ g1[m].data = IF m = n THEN d ELSE h[m].data
                          /\ g1[m].next = IF m = n THEN it ELSE h[m].next
                          /\ g1[m].prev = IF m = n THEN prev ELSE h[m].prev
                          /\ m # n => g1[m] = h[m]
  <2> DEFINE x == [used |-> TRUE, prev |-> 0, next |-> 0, data |-> d]
             k == [g0 EXCEPT ![n].prev = prev]
  <2>1. g0[n] = x /\ (\A m \in Nodes : m # n => g0[m] = h[m])
    BY DEF Heap, NewIn
  <2>2. NextIs(g1, k, n, it) /\ PrevIs(k, g0, n, prev) /\ it \in Nodes \cup {0}
    BY <1>1 DEF NextIs, PrevIs
  <2> HIDE DEF g1, k
  <2>3. PrevOnly(k, g0, n, prev)
    BY <1>4, <2>2, PrevSet
  <2>6. k \in Heap
    BY <2>3 DEF PrevOnly
  <2>4. NextOnly(g1, k, n, it)
    BY <2>2, <2>6, NextSet
  <2>5. g0[n].used = TRUE /\ g0[n].data = d
    BY <2>1
  <2> HIDE DEF x
  <2> QED
    BY <2>1, <2>3, <2>4, <2>5 DEF PrevOnly, NextOnly
<1> DEFINE g2 == [g1 EXCEPT ![it].prev = n]
<1>7. LinkedAtStart(g0, n, it, prev) = g2 /\ LinkedSorted(g0, n, it, prev) = [g2 EXCEPT ![prev].next = n]
  BY Zenon DEF LinkedAtStart, LinkedSorted
<1>8. LinkedInside(g0, n, it, prev) = [[g1 EXCEPT ![prev].next = n] EXCEPT ![it].prev = n]
  BY Zenon DEF LinkedInside
<1> HIDE DEF g1
<1>9. PrevIs(g2, g1, it, n) /\ g1 \in Heap
  BY <1>6 DEF PrevIs
<1> HIDE DEF g2
<1>10. PrevOnly(g2, g1, it, n) /\ g2 \in Heap
  <2>1. PrevOnly(g2, g1, it, n)
    BY <1>1, <1>9, PrevSet DEF it
  <2> QED
    BY <2>1 DEF PrevOnly
<1>11. ASSUME i = 1 PROVE LinkedBefore(h, s, i, n, d, g2)
  BY <1>2, <1>4, <1>6, <1>10, <1>11 DEF LinkedBefore, PrevOnly, it
<1>12. ASSUME i # 1 PROVE LinkedBefore(h, s, i, n, d, [g2 EXCEPT ![prev].next = n])
  <2> DEFINE g == [g2 EXCEPT ![prev].next = n]
  <2>1. prev = s[i - 1] /\ prev \in Nodes /\ prev # it /\ prev # n
    BY <1>2, <1>3, <1>12
  <2>2. NextIs(g, g2, prev, n)
    BY DEF NextIs
  <2> HIDE DEF g
  <2>3. NextOnly(g, g2, prev, n)
    BY <1>10, <2>1, <2>2, NextSet
  <2>4. LinkedBefore(h, s, i, n, d, g)
    BY <1>4, <1>6, <1>10, <1>12, <2>1, <2>3 DEF LinkedBefore, PrevOnly, NextOnly, it
  <2> QED
    BY <2>4 DEF g
<1>13. ASSUME i # 1 PROVE LinkedBefore(h, s, i, n, d, [[g1 EXCEPT ![prev].next = n] EXCEPT ![it].prev = n])
  <2> DEFINE k == [g1 EXCEPT ![prev].next = n]
             g == [k EXCEPT ![it].prev = n]
  <2>1. prev = s[i - 1] /\ prev \in Nodes /\ prev # it /\ prev # n
    BY <1>2, <1>3, <1>13
  <2>2. NextIs(k, g1, prev, n) /\ PrevIs(g, k, it, n)
    BY DEF NextIs, PrevIs
  <2> HIDE DEF g, k
  <2>3. NextOnly(k, g1, prev, n) /\ k \in Heap
    <3>1. NextOnly(k, g1, prev, n)
      BY <1>9, <2>1, <2>2, NextSet
    <3> QED
      BY <3>1 DEF NextOnly
  <2>4. PrevOnly(g, k, it, n)
    BY <1>1, <2>2, <2>3, PrevSet DEF it
  <2>5. LinkedBefore(h, s, i, n, d, g)
    BY <1>4, <1>6, <1>13, <2>1, <2>3, <2>4 DEF LinkedBefore, PrevOnly, NextOnly, it
  <2> QED
    BY <2>5 DEF g, k
<1> QED
  BY <1>4, <1>7, <1>8, <1>11, <1>12, <1>13, Zenon DEF it

\* Putting an element at the end or at the start.
LEMMA PutAtEnds ==
  ASSUME NEW c \in Seq(Data), NEW d \in Data
  PROVE  /\ L!InsertAt(c, Len(c) + 1, d) = c \o <<d>> /\ Append(c, d) = c \o <<d>>
         /\ c # <<>> => L!InsertAt(c, 1, d) = <<d>> \o c
<1>1. Len(c) \in Nat /\ SubSeq(c, 1, Len(c)) = c /\ SubSeq(c, 1, 0) = <<>> /\ SubSeq(c, Len(c) + 1, Len(c)) = <<>>
  BY SubSeqFull, SubSeqEmpty
<1>2. (Len(c) + 1) - 1 = Len(c) /\ 1 - 1 = 0
  BY <1>1
<1>3. c \o <<d>> \in Seq(Data) /\ <<d>> \in Seq(Data)
  OBVIOUS
<1>4. (c \o <<d>>) \o <<>> = c \o <<d>> /\ <<>> \o <<d>> = <<d>>
  BY <1>3, ConcatEmptySeq
<1>5. L!InsertAt(c, Len(c) + 1, d) = c \o <<d>>
  BY <1>1, <1>2, <1>4, Zenon DEF L!InsertAt
<1>6. L!InsertAt(c, 1, d) = <<d>> \o c
  BY <1>1, <1>2, <1>4, Zenon DEF L!InsertAt
<1>7. Append(c, d) = c \o <<d>>
  BY AppendIsConcat
<1> QED
  BY <1>5, <1>6, <1>7

\* What an operation that turns the list s into the data a does.
Becomes(h, s, r, a) == \E t : IsList(r.heap, r.first, t, a) /\ Step(h, s, r.heap, t)

LEMMA InsertSortedIs ==
  ASSUME NEW h \in Heap, NEW p, NEW s, NEW c, IsList(h, p, s, c), NEW d \in Data, L!FreeNodes(h) # {}
  PROVE  LET i == FirstOf(c, {e \in Data : d <= e})
         IN  Becomes(h, s, L!bctbx_list_insert_sorted(h, p, d), L!InsertAt(c, IF i = 0 THEN Len(c) + 1 ELSE i, d))
<1> DEFINE Sel == {e \in Data : d <= e}
           i == FirstOf(c, Sel)
           it == L!bctbx_list_find_custom(h, p, Sel)
           r == L!bctbx_list_insert_sorted(h, p, d)
           new == L!bctbx_list_new(h, d)
           n == new.first
           g0 == new.heap
           lst == L!bctbx_list_last_elem(h, p)
           prev == h[it].prev
           linked == LinkedAtStart(g0, n, it, prev)
           a == L!bctbx_list_append(h, p, d)
<1>1. /\ s \in Seq(Nodes) /\ c \in Seq(Data) /\ Len(s) \in Nat /\ Len(c) = Len(s)
      /\ (s = <<>> <=> Len(s) = 0) /\ (p = 0 <=> s = <<>>) /\ \A j \in 1..Len(s) : s[j] \in Nodes /\ s[j] # 0
      /\ \A m : In(m, s) => m \in Nodes /\ h[m].used
  BY ListElements
<1>2. i \in 0..Len(c) /\ it = IF i = 0 THEN 0 ELSE s[i]
  <2> HIDE DEF Sel
  <2> QED
    BY <1>1, FirstOfIs, FindIs
<1>3. /\ n \in Nodes /\ ~h[n].used /\ n # 0 /\ g0 \in Heap
      /\ NewIn(g0, h, n, d)
  BY NewNode, Zenon DEF NewIn
<1>4. Becomes(h, s, a, c \o <<d>>)
  BY AppendIs, Zenon DEF Becomes, Longer
<1>5. r = IF p = 0 THEN a
          ELSE IF it = 0 THEN L!At([g0 EXCEPT ![lst].next = n, ![n].prev = lst], p)
          ELSE IF prev = 0 THEN L!At(linked, n) ELSE L!At([linked EXCEPT ![prev].next = n], p)
  BY Zenon DEF L!bctbx_list_insert_sorted, LinkedAtStart
<1>6. CASE i = 0
  <2>1. r = a
    <3>1. CASE p = 0
      BY <1>5, <3>1
    <3>2. CASE p # 0
      <4>1. it = 0
        BY <1>2, <1>6
      <4>2. r = L!At([g0 EXCEPT ![lst].next = n, ![n].prev = lst], p)
        BY <1>5, <3>2, <4>1
      <4>3. L!bctbx_list_last_elem(g0, p) = lst
        <5>1. \A m \in Nodes : In(m, s) => g0[m] = h[m]
          BY <1>1, <1>3 DEF Heap, NewIn
        <5> HIDE DEF g0
        <5>2. IsList(g0, p, s, c)
          BY <5>1, ListFrame
        <5> QED
          BY <1>3, <5>2, ListRead
      <4>4. a = L!At([g0 EXCEPT ![lst].next = n, ![n].prev = lst], p)
        <5>1. a = L!bctbx_list_concat(g0, p, n)
          BY DEF L!bctbx_list_append
        <5> HIDE DEF g0, n, lst, a
        <5> QED
          BY <1>3, <3>2, <4>3, <5>1, Zenon DEF L!bctbx_list_concat
      <4> QED
        BY <4>2, <4>4, Zenon
    <3> QED
      BY <3>1, <3>2
  <2>2. L!InsertAt(c, Len(c) + 1, d) = c \o <<d>>
    BY <1>1, PutAtEnds
  <2> HIDE DEF r, a, i
  <2> QED
    BY <1>4, <1>6, <2>1, <2>2, Zenon DEF i, r
<1>7. CASE i # 0
  <2>1. i \in 1..Len(s) /\ it = s[i] /\ it # 0 /\ p # 0 /\ prev = h[s[i]].prev
    BY <1>1, <1>2, <1>7
  <2>2. r = IF prev = 0 THEN L!At(linked, n) ELSE L!At([linked EXCEPT ![prev].next = n], p)
    BY <1>5, <2>1, Zenon
  <2> HIDE DEF i, it, prev, n, g0, r
  <2>3. /\ (prev = 0 <=> i = 1)
        /\ i = 1 => LinkedBefore(h, s, i, n, d, linked)
        /\ i # 1 => LinkedBefore(h, s, i, n, d, [linked EXCEPT ![prev].next = n])
    <3>1. /\ (prev = 0 <=> i = 1)
          /\ i = 1 => LinkedBefore(h, s, i, n, d, LinkedAtStart(g0, n, s[i], prev))
          /\ i # 1 => LinkedBefore(h, s, i, n, d, LinkedSorted(g0, n, s[i], prev))
      BY <1>3, <2>1, LinksBefore
    <3> QED
      BY <2>1, <3>1, Zenon DEF LinkedSorted
  <2>4. LinkedBefore(h, s, i, n, d, r.heap) /\ r.first = IF i = 1 THEN n ELSE p
    BY <2>2, <2>3 DEF L!At
  <2>5. IsList(r.heap, r.first, Put(s, i, n), Put(c, i, d)) /\ Step(h, s, r.heap, Put(s, i, n))
    BY <1>3, <2>1, <2>4, InsertIs
  <2>6. L!InsertAt(c, i, d) = Put(c, i, d)
    BY DEF L!InsertAt, Put
  <2>7. Becomes(h, s, r, L!InsertAt(c, i, d))
    BY <2>5, <2>6 DEF Becomes
  <2> QED
    BY <1>7, <2>7 DEF i, r
<1> QED
  BY <1>6, <1>7

LEMMA InsertBeforeIs ==
  ASSUME NEW h \in Heap, NEW p, NEW s, NEW c, IsList(h, p, s, c), NEW d \in Data, L!FreeNodes(h) # {}, NEW i \in 1..Len(s)
  PROVE  Becomes(h, s, L!bctbx_list_insert(h, p, s[i], d), L!InsertAt(c, i, d))
<1> DEFINE before == s[i]
           r == L!bctbx_list_insert(h, p, before, d)
           new == L!bctbx_list_new(h, d)
           n == new.first
           g0 == new.heap
           prev == h[before].prev
           b == L!bctbx_list_prepend(h, p, d)
           linked == LinkedInside(g0, n, before, prev)
<1>1. /\ s \in Seq(Nodes) /\ c \in Seq(Data) /\ Len(c) = Len(s) /\ before # 0 /\ p # 0 /\ c # <<>>
  <2>1. c \in Seq(Data) => (c = <<>> <=> Len(c) = 0)
    BY EmptySeq
  <2> QED
    BY <2>1, ListElements
<1>2. /\ n \in Nodes /\ ~h[n].used /\ n # 0 /\ g0 \in Heap
      /\ NewIn(g0, h, n, d)
  BY NewNode, Zenon DEF NewIn
<1>3. r = IF prev = 0 THEN b ELSE L!At(linked, p)
  BY <1>1, Zenon DEF L!bctbx_list_insert, LinkedInside
<1>4. prev = h[s[i]].prev
  OBVIOUS
<1>5. Becomes(h, s, b, <<d>> \o c)
  BY AppendIs, Zenon DEF Becomes, Longer
<1> HIDE DEF before, prev, n, g0, r, b
<1>6. /\ (prev = 0 <=> i = 1)
      /\ i # 1 => LinkedBefore(h, s, i, n, d, linked)
  BY <1>2, <1>4, LinksBefore DEF before
<1>7. CASE i = 1
  <2>1. L!InsertAt(c, 1, d) = <<d>> \o c
    BY <1>1, PutAtEnds
  <2> QED
    BY <1>3, <1>5, <1>6, <1>7, <2>1, Zenon DEF r, before
<1>8. CASE i # 1
  <2>1. LinkedBefore(h, s, i, n, d, r.heap) /\ r.first = IF i = 1 THEN n ELSE p
    BY <1>3, <1>6, <1>8 DEF L!At
  <2>2. IsList(r.heap, r.first, Put(s, i, n), Put(c, i, d)) /\ Step(h, s, r.heap, Put(s, i, n))
    BY <1>2, <2>1, InsertIs
  <2>3. L!InsertAt(c, i, d) = Put(c, i, d)
    BY DEF L!InsertAt, Put
  <2>4. Becomes(h, s, r, L!InsertAt(c, i, d))
    BY <2>2, <2>3 DEF Becomes
  <2> QED
    BY <2>4 DEF r, before
<1> QED
  BY <1>7, <1>8

\* The turns of the loops over lists, and that a loop of them has its values.
Turn(op, i, st) ==
    IF op.loop = "remove" THEN L!RemoveTurn(st, op.Sel)
    ELSE IF op.loop = "append" THEN L!AppendTo(st, op.s[i])
    ELSE IF op.loop = "prepend" THEN L!PrependTo(st, op.s[i])
    ELSE L!KeepTurn(st, op.s[i], op.Sel)

\* The turns from v on, as the recursive functions of List.tla take them.
Runs(op, v, Z, m) == m = [k \in 0..Z |-> IF k = 0 THEN v ELSE Turn(op, k, m[k - 1])]

LEMMA TurnsExist ==
  ASSUME NEW op, NEW v, NEW Z \in Nat
  PROVE  \E m : Runs(op, v, Z, m)
<1> DEFINE Has(n) == \E m : Runs(op, v, n, m)
           S == {n \in 0..Z : Has(n)}
<1>1. 0 \in S
  <2>1. Runs(op, v, 0, [k \in 0..0 |-> v])
    BY DEF Runs
  <2>2. Has(0)
    BY <2>1
  <2> HIDE DEF Has
  <2> QED
    BY <2>2
<1>2. ASSUME NEW n \in 1..Z, n - 1 \in S PROVE n \in S
  <2>1. PICK f : Runs(op, v, n - 1, f)
    BY <1>2
  <2> DEFINE m == [k \in 0..n |-> IF k = n THEN Turn(op, n, f[n - 1]) ELSE f[k]]
  <2>2. f[0] = v /\ \A k \in 1..(n - 1) : f[k] = Turn(op, k, f[k - 1])
    BY <2>1 DEF Runs
  <2>3. \A k \in 0..n : m[k] = IF k = 0 THEN v ELSE Turn(op, k, m[k - 1])
    <3> SUFFICES ASSUME NEW k \in 0..n PROVE m[k] = IF k = 0 THEN v ELSE Turn(op, k, m[k - 1])
      OBVIOUS
    <3>1. k # 0 => m[k - 1] = f[k - 1]
      OBVIOUS
    <3>2. k # 0 /\ k # n => k \in 1..(n - 1)
      OBVIOUS
    <3>3. m[k] = IF k = n THEN Turn(op, n, f[n - 1]) ELSE f[k]
      OBVIOUS
    <3> HIDE DEF m
    <3> QED
      BY <2>2, <3>1, <3>2, <3>3
  <2>4. m = [k \in 0..n |-> m[k]]
    OBVIOUS
  <2> HIDE DEF m
  <2>5. m = [k \in 0..n |-> IF k = 0 THEN v ELSE Turn(op, k, m[k - 1])]
    BY <2>3, <2>4, Zenon
  <2>6. Has(n)
    BY <2>5 DEF Runs
  <2> HIDE DEF Has
  <2> QED
    BY <2>6
<1> HIDE DEF S
<1>3. \A n \in 0..Z : n \in S
  BY <1>1, <1>2, UpTo
<1>4. Z \in S
  BY <1>3
<1> QED
  BY <1>4 DEF S

LEMMA KeptIs ==
  ASSUME NEW c \in Seq(Data), NEW Sel
  PROVE  \E K : /\ L!Kept(c, Sel) = K[Len(c)] /\ K[0] = <<>>
                /\ \A i \in 1..Len(c) : K[i] = L!KeepTurn(K[i - 1], c[i], Sel)
<1> DEFINE op == [loop |-> "keep", s |-> c, Sel |-> Sel]
           Size == Len(c)
           Is(K) == K = [i \in 0..Size |-> IF i = 0 THEN <<>> ELSE L!KeepTurn(K[i - 1], c[i], Sel)]
           K == CHOOSE K : Is(K)
<1>1. Size \in Nat
  BY LenProperties
<1>2. \A i, x : Turn(op, i, x) = L!KeepTurn(x, c[i], Sel)
  BY DEF Turn
<1> HIDE DEF op, Size
<1>3. PICK m : Runs(op, <<>>, Size, m)
  BY <1>1, TurnsExist
<1>4. Is(m)
  BY <1>2, <1>3, Zenon DEF Runs
<1>5. Is(K)
  BY <1>4, Zenon
<1>6. L!Kept(c, Sel) = K[Size]
  BY Zenon DEF L!Kept, Size
<1> HIDE DEF K
<1>7. K[0] = <<>> /\ \A i \in 1..Size : K[i] = L!KeepTurn(K[i - 1], c[i], Sel)
  BY <1>1, <1>5
<1> QED
  BY <1>6, <1>7 DEF Size

LEMMA RemoveCustomIs ==
  ASSUME NEW h, NEW p, NEW Sel
  PROVE  \E A0 : /\ L!bctbx_list_remove_custom(h, p, Sel) = A0[Cardinality(Nodes)]
                 /\ A0[0] = [heap |-> h, first |-> p, elem |-> p]
                 /\ \A i \in 1..Cardinality(Nodes) : A0[i] = L!RemoveTurn(A0[i - 1], Sel)
<1> DEFINE op == [loop |-> "remove", Sel |-> Sel]
           v == [heap |-> h, first |-> p, elem |-> p]
           Z == Cardinality(Nodes)
           Is(K) == K = [k \in 0..Z |-> IF k = 0 THEN v ELSE L!RemoveTurn(K[k - 1], Sel)]
           K == CHOOSE K : Is(K)
<1>1. Z \in Nat
  BY ListAssumption, FS_CardinalityType
<1>2. \A i, x : Turn(op, i, x) = L!RemoveTurn(x, Sel)
  BY DEF Turn
<1> HIDE DEF op
<1>3. L!bctbx_list_remove_custom(h, p, Sel) = K[Z]
  BY Zenon DEF L!bctbx_list_remove_custom, L!Turns, L!Cardinality, Cardinality
<1> HIDE DEF Z, v
<1>4. PICK m : Runs(op, v, Z, m)
  BY <1>1, TurnsExist
<1>5. Is(m)
  BY <1>2, <1>4, Zenon DEF Runs
<1>6. Is(K)
  BY <1>5, Zenon
<1> HIDE DEF K
<1>7. K[0] = v /\ \A i \in 1..Z : K[i] = L!RemoveTurn(K[i - 1], Sel)
  BY <1>1, <1>6
<1> QED
  BY <1>3, <1>7 DEF Z, v

LEMMA CopiesAre ==
  ASSUME NEW h, NEW c \in Seq(Data)
  PROVE  /\ \E K : /\ L!bctbx_list_copy(h, c) = K[Len(c)] /\ K[0] = [heap |-> h, first |-> 0]
                   /\ \A i \in 1..Len(c) : K[i] = L!AppendTo(K[i - 1], c[i])
         /\ \E K : /\ L!bctbx_list_copy_reverse(h, c) = K[Len(c)] /\ K[0] = [heap |-> h, first |-> 0]
                   /\ \A i \in 1..Len(c) : K[i] = L!PrependTo(K[i - 1], c[i])
<1> DEFINE app == [loop |-> "append", s |-> c]
           pre == [loop |-> "prepend", s |-> c]
           v == L!At(h, 0)
           Size == Len(c)
           IsA(K) == K = [i \in 0..Size |-> IF i = 0 THEN v ELSE L!AppendTo(K[i - 1], c[i])]
           IsP(K) == K = [i \in 0..Size |-> IF i = 0 THEN v ELSE L!PrependTo(K[i - 1], c[i])]
           KA == CHOOSE K : IsA(K)
           KP == CHOOSE K : IsP(K)
<1>1. Size \in Nat
  BY LenProperties
<1>2. \A i, x : Turn(app, i, x) = L!AppendTo(x, c[i]) /\ Turn(pre, i, x) = L!PrependTo(x, c[i])
  BY DEF Turn
<1> HIDE DEF app, pre
<1>3. L!bctbx_list_copy(h, c) = KA[Size] /\ L!bctbx_list_copy_reverse(h, c) = KP[Size]
  BY Zenon DEF L!bctbx_list_copy, L!bctbx_list_copy_reverse
<1>4. v = [heap |-> h, first |-> 0]
  BY DEF L!At
<1> HIDE DEF Size, v
<1>5. PICK m : Runs(app, v, Size, m)
  BY <1>1, TurnsExist
<1>6. PICK w : Runs(pre, v, Size, w)
  BY <1>1, TurnsExist
<1>7. IsA(m) /\ IsP(w)
  <2>1. IsA(m)
    BY <1>2, <1>5, Zenon DEF Runs
  <2>2. IsP(w)
    BY <1>2, <1>6, Zenon DEF Runs
  <2> QED
    BY <2>1, <2>2, Zenon
<1>8. IsA(KA) /\ IsP(KP)
  BY <1>7, Zenon
<1> HIDE DEF KA, KP
<1>9. KA[0] = v /\ \A i \in 1..Size : KA[i] = L!AppendTo(KA[i - 1], c[i])
  BY <1>1, <1>8
<1>10. KP[0] = v /\ \A i \in 1..Size : KP[i] = L!PrependTo(KP[i - 1], c[i])
  BY <1>1, <1>8
<1> QED
  BY <1>3, <1>4, <1>9, <1>10, Zenon DEF Size

\* After k turns of remove_custom: what was kept, and the nodes to come.
RemovingAs(h, s, c, kept, k, g, p, e, t, a) ==
    /\ IsList(g, p, t, a) /\ Step(h, s, g, t)
    /\ Len(t) = Len(kept) + (Len(s) - k)
    /\ \A j \in 1..Len(kept) : a[j] = kept[j]
    /\ \A j \in 1..(Len(s) - k) : t[Len(kept) + j] = s[k + j] /\ a[Len(kept) + j] = c[k + j]
    /\ e = IF k < Len(s) THEN s[k + 1] ELSE 0

Removing(h, s, c, kept, k, st) ==
    \E t, a : RemovingAs(h, s, c, kept, k, st.heap, st.first, st.elem, t, a)

LEMMA RemoveTurnIs ==
  ASSUME NEW h, NEW s \in Seq(Nodes), NEW c \in Seq(Data), Len(c) = Len(s), NEW Sel,
         NEW kept \in Seq(Data), \A j \in 1..Len(kept) : kept[j] \notin Sel, NEW k \in 1..Len(s), NEW st, Removing(h, s, c, kept, k - 1, st)
  PROVE  LET more == L!KeepTurn(kept, c[k], Sel)
         IN  /\ Removing(h, s, c, more, k, L!RemoveTurn(st, Sel))
             /\ more \in Seq(Data) /\ \A j \in 1..Len(more) : more[j] \notin Sel
<1> DEFINE Size == Len(s)
           m == Len(kept)
           d == c[k]
           g == st.heap
           more == L!KeepTurn(kept, d, Sel)
           x == L!RemoveTurn(st, Sel)
<1>1. Size \in Nat /\ m \in Nat /\ k \in 1..Size /\ s[k] \in Nodes /\ s[k] # 0 /\ d \in Data /\ Len(c) = Size
  BY LenProperties, ElementOfSeq, ListAssumption
<1>2. PICK t, a : /\ IsList(g, st.first, t, a) /\ Step(h, s, g, t)
                  /\ Len(t) = m + (Size - (k - 1))
                  /\ \A j \in 1..m : a[j] = kept[j]
                  /\ \A j \in 1..(Size - (k - 1)) : t[m + j] = s[(k - 1) + j] /\ a[m + j] = c[(k - 1) + j]
                  /\ st.elem = IF k - 1 < Size THEN s[(k - 1) + 1] ELSE 0
  BY Zenon DEF Removing, RemovingAs
<1>3. \A j \in 1..m : kept[j] \notin Sel
  OBVIOUS
<1> HIDE DEF Size, m, d, g
<1>4. t \in Seq(Nodes) /\ a \in Seq(Data) /\ Len(a) = Len(t) /\ Len(t) \in Nat
  BY <1>2, ListElements
<1>0. Len(t) = m + (Size - (k - 1)) /\ Len(t) \in Nat /\ m \in Nat /\ Size \in Nat /\ k \in 1..Size
  BY <1>1, <1>2, <1>4, Zenon
<1>5. st.elem = s[k]
  BY <1>1, <1>2
<1>6. m + 1 \in 1..Len(t) /\ t[m + 1] = s[k] /\ a[m + 1] = d
  <2>1. 1 \in 1..(Size - (k - 1)) /\ (k - 1) + 1 = k /\ m + 1 \in 1..Len(t)
    BY <1>0
  <2> QED
    BY <1>2, <2>1 DEF d
<1>7. \A j \in 1..(Size - k) : m + (j + 1) \in 1..Len(t) /\ t[m + (j + 1)] = s[k + j] /\ a[m + (j + 1)] = c[k + j]
  <2> SUFFICES ASSUME NEW j \in 1..(Size - k) PROVE m + (j + 1) \in 1..Len(t) /\ t[m + (j + 1)] = s[k + j] /\ a[m + (j + 1)] = c[k + j]
    OBVIOUS
  <2>1. j + 1 \in 1..(Size - (k - 1)) /\ (k - 1) + (j + 1) = k + j /\ m + (j + 1) \in 1..Len(t)
    BY <1>0
  <2> QED
    BY <1>2, <2>1
<1>8. g[s[k]].data = d /\ g[s[k]].next = IF k < Size THEN s[k + 1] ELSE 0
  <2>1. g[t[m + 1]].data = a[m + 1] /\ g[t[m + 1]].next = IF m + 1 = Len(t) THEN 0 ELSE t[(m + 1) + 1]
    <3>1. \A i \in 1..Len(t) : g[t[i]].data = a[i] /\ g[t[i]].next = IF i = Len(t) THEN 0 ELSE t[i + 1]
      BY <1>2, ListLinks
    <3> DEFINE q == m + 1
    <3>2. q \in 1..Len(t)
      BY <1>6
    <3> HIDE DEF q
    <3>3. g[t[q]].data = a[q] /\ g[t[q]].next = IF q = Len(t) THEN 0 ELSE t[q + 1]
      BY <3>1, <3>2
    <3> QED
      BY <3>3 DEF q
  <2>2. (m + 1 = Len(t) <=> ~(k < Size)) /\ (k < Size => 1 \in 1..(Size - k) /\ m + (1 + 1) = (m + 1) + 1)
    BY <1>0
  <2>3. k < Size => t[(m + 1) + 1] = s[k + 1]
    BY <1>7, <2>2
  <2> QED
    BY <1>6, <2>1, <2>2, <2>3
<1>9. CASE d \notin Sel
  <2>1. x = [heap |-> g, first |-> st.first, elem |-> IF k < Size THEN s[k + 1] ELSE 0]
    BY <1>1, <1>5, <1>8, <1>9 DEF L!RemoveTurn, L!At, g
  <2>2. more = Append(kept, d)
    BY <1>9 DEF L!KeepTurn
  <2>3. more \in Seq(Data) /\ Len(more) = m + 1 /\ more[m + 1] = d /\ \A j \in 1..m : more[j] = kept[j]
    BY <1>1, <2>2, AppendProperties DEF m
  <2> HIDE DEF more, x
  <2>4. \A j \in 1..(m + 1) : more[j] \notin Sel /\ a[j] = more[j]
    <3>1. \A j \in 1..(m + 1) : j \in 1..m \/ j = m + 1
      BY <1>0
    <3> QED
      BY <1>2, <1>3, <1>6, <1>9, <2>3, <3>1, ZenonT(30)
  <2>5. Len(t) = (m + 1) + (Size - k)
    BY <1>0
  <2>6. \A j \in 1..(Size - k) : (m + 1) + j = m + (j + 1)
    BY <1>0
  <2>7. \A j \in 1..(Size - k) : t[(m + 1) + j] = s[k + j] /\ a[(m + 1) + j] = c[k + j]
    BY <1>7, <2>6
  <2>8. x.heap = g /\ x.first = st.first /\ x.elem = IF k < Size THEN s[k + 1] ELSE 0
    BY <2>1
  <2>9. RemovingAs(h, s, c, more, k, g, st.first, IF k < Size THEN s[k + 1] ELSE 0, t, a)
    BY <1>2, <2>3, <2>4, <2>5, <2>7 DEF RemovingAs, Size
  <2>10. Removing(h, s, c, more, k, x)
    BY <2>8, <2>9 DEF Removing
  <2> QED
    BY <2>3, <2>4, <2>10 DEF more, x, d
<1>10. CASE d \in Sel
  <2> DEFINE r == L!bctbx_list_remove(g, st.first, d)
             u == Cut(t, m + 1)
             b == Cut(a, m + 1)
  <2>1. x = [heap |-> r.heap, first |-> r.first, elem |-> IF k < Size THEN s[k + 1] ELSE 0]
    BY <1>1, <1>5, <1>8, <1>10 DEF L!RemoveTurn, g
  <2>2. more = kept
    BY <1>10 DEF L!KeepTurn
  <2>3. FirstOf(a, {d}) = m + 1
    <3> DEFINE i == FirstOf(a, {d})
    <3>1. /\ i \in 0..Len(a) /\ (i # 0 => a[i] = d /\ \A j \in 1..Len(a) : j < i => a[j] # d)
          /\ (i = 0 => \A j \in 1..Len(a) : a[j] # d)
      BY <1>4, FirstOfIs
    <3> HIDE DEF i
    <3>2. \A j \in 1..m : a[j] # d
      BY <1>2, <1>3, <1>10
    <3>3. i # 0
      BY <1>4, <1>6, <3>1
    <3>4. ~(m + 1 < i)
      BY <1>4, <1>6, <3>1, <3>3
    <3>5. i \notin 1..m
      BY <3>1, <3>2, <3>3
    <3>6. i = m + 1
      BY <1>1, <1>4, <3>1, <3>3, <3>4, <3>5
    <3> QED
      BY <3>6 DEF i
  <2>4. m + 1 # 0 /\ L!Without(a, m + 1) = b
    <3>1. m + 1 # 0
      BY <1>1
    <3> QED
      BY <3>1, Zenon DEF L!Without, L!RemoveAt, Cut
  <2>5. g \in Heap
    BY <1>2 DEF Step
  <2>6. IsList(r.heap, r.first, u, b) /\ Step(g, t, r.heap, u)
    <3>1. r = L!bctbx_list_erase_link(g, st.first, L!bctbx_list_find_custom(g, st.first, {d}))
      BY DEF L!bctbx_list_remove, L!bctbx_list_find
    <3> HIDE DEF r, u, b
    <3>2. LET i == FirstOf(a, {d})
              w == IF i = 0 THEN t ELSE Cut(t, i)
          IN  IsList(r.heap, r.first, w, L!Without(a, i)) /\ Step(g, t, r.heap, w)
      BY <1>2, <2>5, <3>1, RemoveIs
    <3> QED
      BY <2>3, <2>4, <3>2 DEF u
  <2>7. Step(h, s, r.heap, u)
    BY <1>2, <2>6, StepsCompose
  <2>8. Len(u) = Len(t) - 1 /\ \A j \in 1..(Len(t) - 1) : u[j] = IF j < m + 1 THEN t[j] ELSE t[j + 1]
    <3>1. Distinct(t)
      BY <1>2 DEF IsList
    <3> DEFINE q == m + 1
    <3>2. q \in 1..Len(t) /\ u = Cut(t, q)
      BY <1>6
    <3> HIDE DEF q, u
    <3>3. Len(u) = Len(t) - 1 /\ \A j \in 1..(Len(t) - 1) : u[j] = IF j < q THEN t[j] ELSE t[j + 1]
      BY <1>4, <3>1, <3>2, CutElements, SMTT(30)
    <3> QED
      BY <3>3 DEF q
  <2>9. \A j \in 1..(Len(t) - 1) : b[j] = IF j < m + 1 THEN a[j] ELSE a[j + 1]
    <3>1. b = SubSeq(a, 1, (m + 1) - 1) \o SubSeq(a, (m + 1) + 1, Len(a))
      BY DEF Cut
    <3>2. m + 1 \in 1..Len(a)
      BY <1>4, <1>6
    <3> HIDE DEF b
    <3>3. \A j \in 1..(Len(a) - 1) : b[j] = IF j < m + 1 THEN a[j] ELSE a[j + 1]
      <4> DEFINE q == m + 1
      <4>1. b = SubSeq(a, 1, q - 1) \o SubSeq(a, q + 1, Len(a)) /\ q \in 1..Len(a)
        BY <3>1, <3>2
      <4> HIDE DEF q
      <4>2. \A j \in 1..(Len(a) - 1) : b[j] = IF j < q THEN a[j] ELSE a[j + 1]
        BY <1>4, <4>1, RemoveAtIs, Zenon
      <4> QED
        BY <4>2 DEF q
    <3> QED
      BY <1>4, <3>3
  <2> HIDE DEF r, u, b, more, x
  <2>10. Len(u) = m + (Size - k)
    <3>1. Len(u) = Len(t) - 1
      BY <2>8
    <3> QED
      BY <1>0, <3>1
  <2>11. \A j \in 1..m : b[j] = kept[j]
    <3>1. \A j \in 1..m : j \in 1..(Len(t) - 1) /\ j < m + 1
      BY <1>0
    <3> QED
      BY <1>2, <2>9, <3>1
  <2>12. \A j \in 1..(Size - k) : u[m + j] = s[k + j] /\ b[m + j] = c[k + j]
    <3>1. \A j \in 1..(Size - k) : m + j \in 1..(Len(t) - 1) /\ ~(m + j < m + 1) /\ (m + j) + 1 = m + (j + 1)
      BY <1>0
    <3> QED
      BY <1>7, <2>8, <2>9, <3>1, Zenon
  <2>13. x.heap = r.heap /\ x.first = r.first /\ x.elem = IF k < Size THEN s[k + 1] ELSE 0
    BY <2>1
  <2>14. RemovingAs(h, s, c, kept, k, r.heap, r.first, IF k < Size THEN s[k + 1] ELSE 0, u, b)
    BY <2>6, <2>7, <2>10, <2>11, <2>12 DEF RemovingAs, Size, m
  <2>15. Removing(h, s, c, kept, k, x)
    BY <2>13, <2>14 DEF Removing
  <2> QED
    BY <1>3, <2>2, <2>15 DEF more, x, m, d
<1> QED
  BY <1>9, <1>10

\* remove_custom keeps the rest, in order.
LEMMA RemoveCustomBecomes ==
  ASSUME NEW h \in Heap, NEW p, NEW s, NEW c, IsList(h, p, s, c), NEW Sel
  PROVE  Becomes(h, s, L!bctbx_list_remove_custom(h, p, Sel), L!Kept(c, Sel))
<1> DEFINE Size == Len(s)
           Z == Cardinality(Nodes)
<1>1. /\ Size \in Nat /\ Z \in Nat /\ Size <= Z /\ s \in Seq(Nodes) /\ c \in Seq(Data) /\ Len(c) = Size
      /\ p = IF Size = 0 THEN 0 ELSE s[1]
  <2>1. /\ s \in Seq(Nodes) /\ c \in Seq(Data) /\ Len(s) \in Nat /\ Len(c) = Len(s) /\ (s = <<>> <=> Len(s) = 0)
        /\ (p = 0 <=> s = <<>>)
    BY ListElements
  <2>2. Distinct(s)
    BY DEF IsList
  <2>3. Len(s) \in Nat /\ Z \in Nat /\ Len(s) <= Z
    BY <2>1, <2>2, NodesBound
  <2>4. p = IF s = <<>> THEN 0 ELSE s[1]
    BY ListLinks
  <2> QED
    BY <2>1, <2>3, <2>4
<1>2. PICK K : /\ L!Kept(c, Sel) = K[Size] /\ K[0] = <<>>
               /\ \A i \in 1..Size : K[i] = L!KeepTurn(K[i - 1], c[i], Sel)
  <2>1. c \in Seq(Data)
    BY <1>1
  <2> QED
    BY <1>1, <2>1, KeptIs
<1>3. PICK B : /\ L!bctbx_list_remove_custom(h, p, Sel) = B[Z]
               /\ B[0] = [heap |-> h, first |-> p, elem |-> p]
               /\ \A i \in 1..Z : B[i] = L!RemoveTurn(B[i - 1], Sel)
  BY RemoveCustomIs
<1> DEFINE Good(i, k) == /\ K[i] \in Seq(Data) /\ \A j \in 1..Len(K[i]) : K[i][j] \notin Sel
                         /\ Removing(h, s, c, K[i], i, B[k])
           Upto(k) == IF k < Size THEN k ELSE Size
           S == {k \in 0..Z : Good(Upto(k), k)}
<1>4. 0 \in S
  <2>1. RemovingAs(h, s, c, <<>>, 0, h, p, p, s, c)
    <3>1. Len(<<>>) = 0 /\ Len(s) = Len(<<>>) + (Len(s) - 0)
      BY <1>1
    <3>2. \A j \in 1..(Len(s) - 0) : Len(<<>>) + j = j /\ 0 + j = j
      BY <1>1
    <3>3. \A j \in 1..(Len(s) - 0) : s[Len(<<>>) + j] = s[0 + j] /\ c[Len(<<>>) + j] = c[0 + j]
      BY <3>2
    <3>4. p = IF 0 < Len(s) THEN s[0 + 1] ELSE 0
      BY <1>1
    <3>5. \A j \in 1..Len(<<>>) : c[j] = <<>>[j]
      BY <3>1
    <3>6. Step(h, s, h, s)
      BY NoStep
    <3> QED
      BY <3>1, <3>3, <3>4, <3>5, <3>6 DEF RemovingAs
  <2>2. Removing(h, s, c, <<>>, 0, B[0])
    <3>1. B[0].heap = h /\ B[0].first = p /\ B[0].elem = p
      BY <1>3
    <3> QED
      BY <2>1, <3>1 DEF Removing
  <2>3. <<>> \in Seq(Data) /\ \A j \in 1..Len(<<>>) : <<>>[j] \notin Sel
    OBVIOUS
  <2>4. Good(0, 0)
    BY <1>2, <2>2, <2>3
  <2>5. Upto(0) = 0 /\ 0 \in 0..Z
    BY <1>1
  <2> HIDE DEF Good, Upto
  <2> QED
    BY <2>4, <2>5
<1>5. ASSUME NEW k \in 1..Z, k - 1 \in S PROVE k \in S
  <2>1. Good(Upto(k - 1), k - 1)
    BY <1>5
  <2> HIDE DEF Size, Z
  <2>2. B[k] = L!RemoveTurn(B[k - 1], Sel)
    BY <1>3, <1>5
  <2>3. CASE k <= Size
    <3>1. k \in 1..Size /\ Upto(k - 1) = k - 1 /\ Upto(k) = k
      BY <1>1, <2>3
    <3>2. Good(k - 1, k - 1)
      BY <2>1, <3>1
    <3> DEFINE kept == K[k - 1]
               st == B[k - 1]
    <3>3. kept \in Seq(Data) /\ (\A j \in 1..Len(kept) : kept[j] \notin Sel) /\ Removing(h, s, c, kept, k - 1, st)
      BY <3>2
    <3>4. K[k] = L!KeepTurn(kept, c[k], Sel) /\ B[k] = L!RemoveTurn(st, Sel)
      BY <1>2, <2>2, <3>1
    <3> HIDE DEF kept, st
    <3>5. k \in 1..Len(s) /\ Len(c) = Len(s)
      BY <1>1, <3>1 DEF Size
    <3>6. /\ Removing(h, s, c, L!KeepTurn(kept, c[k], Sel), k, L!RemoveTurn(st, Sel))
          /\ L!KeepTurn(kept, c[k], Sel) \in Seq(Data) /\ \A j \in 1..Len(L!KeepTurn(kept, c[k], Sel)) : L!KeepTurn(kept, c[k], Sel)[j] \notin Sel
      BY <1>1, <3>3, <3>5, RemoveTurnIs, Zenon
    <3>7. Good(k, k)
      BY <3>4, <3>6
    <3> HIDE DEF Good
    <3>8. Good(Upto(k), k)
      BY <3>1, <3>7
    <3> HIDE DEF Upto
    <3> QED
      BY <1>1, <1>5, <3>8
  <2>4. CASE ~(k <= Size)
    <3>1. Upto(k - 1) = Size /\ Upto(k) = Size
      BY <1>1, <1>5, <2>4
    <3>2. Good(Size, k - 1)
      BY <2>1, <3>1
    <3>3. B[k - 1].elem = 0
      <4>1. Removing(h, s, c, K[Size], Size, B[k - 1])
        BY <3>2
      <4>2. B[k - 1].elem = IF Size < Len(s) THEN s[Size + 1] ELSE 0
        BY <4>1, Zenon DEF Removing, RemovingAs
      <4>3. ~(Size < Len(s))
        BY <1>1 DEF Size
      <4> QED
        BY <4>2, <4>3
    <3>4. B[k] = B[k - 1]
      BY <2>2, <3>3 DEF L!RemoveTurn
    <3>5. Good(Size, k)
      BY <3>2, <3>4
    <3> HIDE DEF Good
    <3>6. Good(Upto(k), k)
      BY <3>1, <3>5
    <3> HIDE DEF Upto
    <3> QED
      BY <1>5, <3>6
  <2> QED
    BY <1>1, <2>3, <2>4
<1>6. Good(Size, Z)
  <2> HIDE DEF S
  <2>1. \A k \in 0..Z : k \in S
    BY <1>1, <1>4, <1>5, UpTo, Zenon
  <2>2. Z \in S
    BY <1>1, <2>1
  <2>3. Good(Upto(Z), Z)
    BY <2>2 DEF S
  <2> HIDE DEF Good, Size, Z
  <2>4. Upto(Z) = Size
    BY <1>1
  <2> HIDE DEF Upto
  <2> QED
    BY <2>3, <2>4
<1>7. PICK t, a : RemovingAs(h, s, c, K[Size], Size, B[Z].heap, B[Z].first, B[Z].elem, t, a)
  <2>1. Removing(h, s, c, K[Size], Size, B[Z])
    BY <1>6
  <2> QED
    BY <2>1 DEF Removing
<1> DEFINE kept == K[Size]
           x == B[Z]
<1>8. kept \in Seq(Data)
  BY <1>6
<1>9. /\ IsList(x.heap, x.first, t, a) /\ Step(h, s, x.heap, t)
      /\ Len(t) = Len(kept) + (Len(s) - Size) /\ \A j \in 1..Len(kept) : a[j] = kept[j]
  BY <1>7 DEF RemovingAs
<1> HIDE DEF kept, x
<1>10. a = kept
  <2>1. a \in Seq(Data) /\ Len(a) = Len(t) /\ Len(kept) \in Nat
    BY <1>8, <1>9, ListElements
  <2>2. Len(a) = Len(kept)
    BY <1>1, <1>9, <2>1
  <2>3. \A j \in 1..Len(a) : a[j] = kept[j]
    BY <1>9, <2>2
  <2> QED
    BY <1>8, <2>1, <2>2, <2>3, SeqEqual
<1>11. L!bctbx_list_remove_custom(h, p, Sel) = x /\ L!Kept(c, Sel) = kept
  BY <1>2, <1>3 DEF kept, x
<1> QED
  BY <1>9, <1>10, <1>11 DEF Becomes

\* After i turns of a copy: the elements so far, in the one or the other order.
CopyingAs(h, c, back, i, g, p, t, a) ==
    /\ g \in Heap /\ IsList(g, p, t, a) /\ Step(h, <<>>, g, t)
    /\ Len(a) = i
    /\ \A j \in 1..i : a[j] = IF back THEN c[(i - j) + 1] ELSE c[j]
    /\ Cardinality(L!FreeNodes(g)) + i = Cardinality(L!FreeNodes(h))

Copying(h, c, back, i, st) == \E t, a : CopyingAs(h, c, back, i, st.heap, st.first, t, a)

LEMMA FreeAreFinite ==
  ASSUME NEW h
  PROVE  IsFiniteSet(L!FreeNodes(h)) /\ Cardinality(L!FreeNodes(h)) \in Nat
<1>1. IsFiniteSet(Nodes) /\ L!FreeNodes(h) \subseteq Nodes
  BY ListAssumption DEF L!FreeNodes
<1> QED
  BY <1>1, FS_Subset, FS_CardinalityType

LEMMA CopyTurnIs ==
  ASSUME NEW h, NEW c \in Seq(Data), Len(c) <= Cardinality(L!FreeNodes(h)), NEW back \in BOOLEAN,
         NEW k \in 1..Len(c), NEW st, Copying(h, c, back, k - 1, st)
  PROVE  Copying(h, c, back, k, IF back THEN L!PrependTo(st, c[k]) ELSE L!AppendTo(st, c[k]))
<1> DEFINE g == st.heap
           Free == L!FreeNodes(g)
           d == c[k]
<1>1. Len(c) \in Nat /\ k \in 1..Len(c) /\ d \in Data
  BY LenProperties, ElementOfSeq
<1>2. PICK t, a : CopyingAs(h, c, back, k - 1, g, st.first, t, a)
  BY DEF Copying
<1>3. /\ g \in Heap /\ IsList(g, st.first, t, a) /\ Step(h, <<>>, g, t) /\ Len(a) = k - 1
      /\ \A j \in 1..(k - 1) : a[j] = IF back THEN c[((k - 1) - j) + 1] ELSE c[j]
      /\ Cardinality(Free) + (k - 1) = Cardinality(L!FreeNodes(h))
  BY <1>2 DEF CopyingAs
<1>4. Cardinality(Free) \in Nat /\ Cardinality(L!FreeNodes(h)) \in Nat /\ IsFiniteSet(Free)
  BY FreeAreFinite
<1> HIDE DEF Free, d, g
<1>5. Free # {}
  <2>1. Cardinality(Free) # 0
    BY <1>1, <1>3, <1>4
  <2> QED
    BY <2>1, FS_EmptySet, Zenon
<1> DEFINE app == L!bctbx_list_append(g, st.first, d)
           pre == L!bctbx_list_prepend(g, st.first, d)
<1>6. PICK n : Longer(g, t, a, d, n, app, pre)
  <2>1. g \in Heap /\ IsList(g, st.first, t, a) /\ d \in Data /\ L!FreeNodes(g) # {}
    BY <1>1, <1>3, <1>5 DEF Free
  <2> QED
    BY <2>1, AppendIs
<1>6a. /\ n \in Free
       /\ IsList(app.heap, app.first, t \o <<n>>, a \o <<d>>) /\ Step(g, t, app.heap, t \o <<n>>)
       /\ L!FreeNodes(app.heap) = Free \ {n}
       /\ IsList(pre.heap, pre.first, <<n>> \o t, <<d>> \o a) /\ Step(g, t, pre.heap, <<n>> \o t)
       /\ L!FreeNodes(pre.heap) = Free \ {n}
  BY <1>6, Zenon DEF Longer, Free
<1>7. L!AppendTo(st, d) = app /\ L!PrependTo(st, d) = pre
  BY DEF L!AppendTo, L!PrependTo, g
<1> HIDE DEF app, pre
<1>8. Cardinality(Free \ {n}) + k = Cardinality(L!FreeNodes(h))
  <2>1. Cardinality(Free \ {n}) = Cardinality(Free) - 1
    BY <1>4, <1>6a, FS_RemoveElement, Zenon
  <2> QED
    BY <1>1, <1>3, <1>4, <2>1
<1>9. a \in Seq(Data) /\ <<d>> \in Seq(Data) /\ Len(<<d>>) = 1 /\ <<d>>[1] = d /\ Len(a) = k - 1
  <2>1. a \in Seq(Data)
    BY <1>3, ListElements
  <2> QED
    BY <1>1, <1>3, <2>1
<1>10. CASE ~back
  <2> DEFINE b == a \o <<d>>
  <2>1. Len(b) = k /\ \A j \in 1..k : b[j] = IF j <= k - 1 THEN a[j] ELSE d
    <3>1. Len(b) = Len(a) + Len(<<d>>) /\ \A j \in 1..(Len(a) + Len(<<d>>)) : b[j] = IF j <= Len(a) THEN a[j] ELSE <<d>>[j - Len(a)]
      BY <1>9, ConcatProperties
    <3>2. Len(a) + Len(<<d>>) = k /\ \A j \in 1..k : ~(j <= k - 1) => j - Len(a) = 1
      BY <1>1, <1>9
    <3> HIDE DEF b
    <3> QED
      BY <1>9, <3>1, <3>2
  <2> HIDE DEF b
  <2>2. \A j \in 1..k : b[j] = c[j]
    <3>1. \A j \in 1..k : (j <= k - 1 => j \in 1..(k - 1)) /\ (~(j <= k - 1) => j = k)
      BY <1>1
    <3> QED
      BY <1>3, <1>10, <2>1, <3>1 DEF d
  <2>3. app.heap \in Heap /\ Step(h, <<>>, app.heap, t \o <<n>>)
    <3>1. app.heap \in Heap
      BY <1>6a DEF Step
    <3> QED
      BY <1>3, <1>6a, <3>1, StepsCompose
  <2>4. CopyingAs(h, c, back, k, app.heap, app.first, t \o <<n>>, b)
    BY <1>6a, <1>8, <1>10, <2>1, <2>2, <2>3, Zenon DEF CopyingAs, b
  <2>5. Copying(h, c, back, k, app)
    BY <2>4 DEF Copying
  <2> QED
    BY <1>7, <1>10, <2>5 DEF d
<1>11. CASE back
  <2> DEFINE b == <<d>> \o a
  <2>1. Len(b) = k /\ \A j \in 1..k : b[j] = IF j = 1 THEN d ELSE a[j - 1]
    <3>1. Len(b) = Len(<<d>>) + Len(a) /\ \A j \in 1..(Len(<<d>>) + Len(a)) : b[j] = IF j <= Len(<<d>>) THEN <<d>>[j] ELSE a[j - Len(<<d>>)]
      BY <1>9, ConcatProperties
    <3>2. Len(<<d>>) + Len(a) = k /\ \A j \in 1..k : (j <= Len(<<d>>) <=> j = 1) /\ j - Len(<<d>>) = j - 1
      BY <1>1, <1>9
    <3> HIDE DEF b
    <3> QED
      BY <1>9, <3>1, <3>2
  <2> HIDE DEF b
  <2>2. \A j \in 1..k : b[j] = c[(k - j) + 1]
    <3> SUFFICES ASSUME NEW j \in 1..k PROVE b[j] = c[(k - j) + 1]
      OBVIOUS
    <3>1. j = 1 => (k - j) + 1 = k
      BY <1>1
    <3>2. j # 1 => j - 1 \in 1..(k - 1) /\ ((k - 1) - (j - 1)) + 1 = (k - j) + 1
      BY <1>1
    <3> QED
      BY <1>3, <1>11, <2>1, <3>1, <3>2 DEF d
  <2>3. pre.heap \in Heap /\ Step(h, <<>>, pre.heap, <<n>> \o t)
    <3>1. pre.heap \in Heap
      BY <1>6a DEF Step
    <3> QED
      BY <1>3, <1>6a, <3>1, StepsCompose
  <2>4. CopyingAs(h, c, back, k, pre.heap, pre.first, <<n>> \o t, b)
    BY <1>6a, <1>8, <1>11, <2>1, <2>2, <2>3 DEF CopyingAs, b
  <2>5. Copying(h, c, back, k, pre)
    BY <2>4 DEF Copying
  <2> QED
    BY <1>7, <1>11, <2>5, Zenon DEF d
<1> QED
  BY <1>10, <1>11

\* A copy from nothing, where as many nodes are free, as the turns give it.
LEMMA CopyEnds ==
  ASSUME NEW h \in Heap, NEW c \in Seq(Data), Len(c) <= Cardinality(L!FreeNodes(h)), NEW back \in BOOLEAN,
         NEW K, K[0] = [heap |-> h, first |-> 0],
         \A i \in 1..Len(c) : K[i] = IF back THEN L!PrependTo(K[i - 1], c[i]) ELSE L!AppendTo(K[i - 1], c[i])
  PROVE  Becomes(h, <<>>, K[Len(c)], IF back THEN [i \in 1..Len(c) |-> c[(Len(c) - i) + 1]] ELSE c)
<1> DEFINE Size == Len(c)
           S == {i \in 0..Size : Copying(h, c, back, i, K[i])}
           b == IF back THEN [i \in 1..Size |-> c[(Size - i) + 1]] ELSE c
<1>1. Size \in Nat
  BY LenProperties
<1>2. 0 \in S
  <2>1. IsList(h, 0, <<>>, <<>>)
    <3>1. DOMAIN <<>> = {} /\ Len(<<>>) = 0 /\ <<>> \in Seq(Nodes) /\ <<>> \in Seq(Data)
      OBVIOUS
    <3>2. Distinct(<<>>)
      BY <3>1 DEF Distinct
    <3>3. 1..0 = {}
      OBVIOUS
    <3> QED
      BY <3>1, <3>2, <3>3 DEF IsList
  <2>2. Cardinality(L!FreeNodes(h)) \in Nat
    BY FreeAreFinite
  <2>3. CopyingAs(h, c, back, 0, h, 0, <<>>, <<>>)
    BY <2>1, <2>2, NoStep DEF CopyingAs
  <2>4. K[0].heap = h /\ K[0].first = 0
    OBVIOUS
  <2> QED
    BY <1>1, <2>3, <2>4 DEF Copying
<1>3. ASSUME NEW k \in 1..Size, k - 1 \in S PROVE k \in S
  <2>1. Copying(h, c, back, k - 1, K[k - 1])
    BY <1>3
  <2>2. Copying(h, c, back, k, IF back THEN L!PrependTo(K[k - 1], c[k]) ELSE L!AppendTo(K[k - 1], c[k]))
    BY <1>3, <2>1, CopyTurnIs
  <2>3. K[k] = IF back THEN L!PrependTo(K[k - 1], c[k]) ELSE L!AppendTo(K[k - 1], c[k])
    BY <1>3
  <2>4. k \in 0..Size
    BY <1>1, <1>3
  <2> QED
    BY <2>2, <2>3, <2>4
<1> DEFINE x == K[Size]
<1>4. Copying(h, c, back, Size, x)
  <2> HIDE DEF S
  <2>1. \A k \in 0..Size : k \in S
    BY <1>1, <1>2, <1>3, UpTo, Zenon
  <2> QED
    BY <1>1, <2>1 DEF S
<1> HIDE DEF x
<1>5. PICK t, a : CopyingAs(h, c, back, Size, x.heap, x.first, t, a)
  BY <1>4 DEF Copying
<1>6. IsList(x.heap, x.first, t, a) /\ Step(h, <<>>, x.heap, t) /\ Len(a) = Size
      /\ \A j \in 1..Size : a[j] = IF back THEN c[(Size - j) + 1] ELSE c[j]
  BY <1>5 DEF CopyingAs
<1>7. a = b
  <2>1. a \in Seq(Data)
    BY <1>6, ListElements
  <2>2. b \in Seq(Data) /\ Len(b) = Size /\ \A j \in 1..Size : b[j] = IF back THEN c[(Size - j) + 1] ELSE c[j]
    <3>1. \A j \in 1..Size : (Size - j) + 1 \in 1..Size
      BY <1>1
    <3>2. \A j \in 1..Size : c[(Size - j) + 1] \in Data
      BY <3>1, ElementOfSeq
    <3> DEFINE v == [i \in 1..Size |-> c[(Size - i) + 1]]
    <3>3. v \in [1..Size -> Data]
      BY <3>2
    <3>4. v \in Seq(Data) /\ Len(v) = Size
      BY <1>1, <3>3
    <3>5. \A j \in 1..Size : v[j] = c[(Size - j) + 1]
      OBVIOUS
    <3> HIDE DEF v
    <3>6. b = IF back THEN v ELSE c
      BY DEF v
    <3> QED
      BY <3>4, <3>5, <3>6
  <2> HIDE DEF b, Size
  <2> QED
    BY <1>6, <2>1, <2>2, SeqEqual
<1>8. Becomes(h, <<>>, x, b)
  BY <1>6, <1>7, Zenon DEF Becomes
<1> QED
  BY <1>8 DEF x

\* What the two copies become.
LEMMA CopyIs ==
  ASSUME NEW h \in Heap, NEW c \in Seq(Data), Len(c) <= Cardinality(L!FreeNodes(h))
  PROVE  /\ Becomes(h, <<>>, L!bctbx_list_copy(h, c), c)
         /\ Becomes(h, <<>>, L!bctbx_list_copy_reverse(h, c), L!Reverse(c))
<1>1. Becomes(h, <<>>, L!bctbx_list_copy(h, c), c)
  <2>1. PICK K : /\ L!bctbx_list_copy(h, c) = K[Len(c)] /\ K[0] = [heap |-> h, first |-> 0]
                 /\ \A i \in 1..Len(c) : K[i] = L!AppendTo(K[i - 1], c[i])
    BY CopiesAre
  <2>2. \A i \in 1..Len(c) : K[i] = IF FALSE THEN L!PrependTo(K[i - 1], c[i]) ELSE L!AppendTo(K[i - 1], c[i])
    BY <2>1
  <2>3. Becomes(h, <<>>, K[Len(c)], IF FALSE THEN [i \in 1..Len(c) |-> c[(Len(c) - i) + 1]] ELSE c)
    BY <2>1, <2>2, CopyEnds, Zenon
  <2> QED
    BY <2>1, <2>3
<1>2. Becomes(h, <<>>, L!bctbx_list_copy_reverse(h, c), L!Reverse(c))
  <2>1. PICK K : /\ L!bctbx_list_copy_reverse(h, c) = K[Len(c)] /\ K[0] = [heap |-> h, first |-> 0]
                 /\ \A i \in 1..Len(c) : K[i] = L!PrependTo(K[i - 1], c[i])
    BY CopiesAre
  <2>2. \A i \in 1..Len(c) : K[i] = IF TRUE THEN L!PrependTo(K[i - 1], c[i]) ELSE L!AppendTo(K[i - 1], c[i])
    BY <2>1
  <2>3. Becomes(h, <<>>, K[Len(c)], IF TRUE THEN [i \in 1..Len(c) |-> c[(Len(c) - i) + 1]] ELSE c)
    BY <2>1, <2>2, CopyEnds, Zenon
  <2>4. L!Reverse(c) = [i \in 1..Len(c) |-> c[(Len(c) - i) + 1]]
    BY DEF L!Reverse
  <2> QED
    BY <2>1, <2>3, <2>4
<1> QED
  BY <1>1, <1>2

LEMMA TwoSwapped ==
  ASSUME NEW h, NEW p, NEW s, NEW c, NEW q, NEW t, NEW e, TwoLists(h, p, s, c, q, t, e)
  PROVE  TwoLists(h, q, t, e, p, s, c)
BY DEF TwoLists

\* What changes the one list keeps the other.
LEMMA OneChanges ==
  ASSUME NEW h, NEW p, NEW s, NEW c, NEW q, NEW t, NEW e, TwoLists(h, p, s, c, q, t, e),
         NEW r, NEW a, Becomes(h, s, r, a)
  PROVE  \E u : TwoLists(r.heap, r.first, u, a, q, t, e)
<1> DEFINE g == r.heap
<1>1. PICK u : IsList(g, r.first, u, a) /\ Step(h, s, g, u)
  BY DEF Becomes
<1> HIDE DEF g
<1>2. /\ IsList(h, q, t, e) /\ (\A n : ~(In(n, s) /\ In(n, t)))
      /\ \A n \in Nodes : h[n].used => In(n, s) \/ In(n, t)
  BY DEF TwoLists
<1>3. \A n : In(n, t) => n \in Nodes /\ h[n].used
  BY <1>2, ListElements
<1>4. \A n : In(n, u) => n \in Nodes
  BY <1>1, ListElements
<1>5. g \in Heap /\ (\A n \in Nodes : h[n].used /\ ~In(n, s) => g[n] = h[n] /\ ~In(n, u))
      /\ \A n \in Nodes : g[n].used => In(n, u) \/ (h[n].used /\ ~In(n, s))
  BY <1>1 DEF Step
<1>6. IsList(g, q, t, e)
  <2>1. \A n \in Nodes : In(n, t) => g[n] = h[n]
    BY <1>2, <1>3, <1>5
  <2> QED
    BY <1>2, <2>1, ListFrame
<1>7. \A n : ~(In(n, u) /\ In(n, t))
  BY <1>2, <1>3, <1>5
<1>8. \A n \in Nodes : g[n].used => In(n, u) \/ In(n, t)
  BY <1>2, <1>5
<1>9. TwoLists(g, r.first, u, a, q, t, e)
  BY <1>1, <1>5, <1>6, <1>7, <1>8 DEF TwoLists
<1> QED
  BY <1>9 DEF g

\* The assignment of a call to the list l.
SetAs(l, r, a, f, c, g, f2, c2) ==
    g = r.heap /\ f2 = [f EXCEPT ![l] = r.first] /\ c2 = [c EXCEPT ![l] = a]

LEMMA SetKeeps ==
  ASSUME NEW h, NEW f, NEW c, ListState(h, f, c), NEW l \in L!Lists
  PROVE  \E s : /\ h \in Heap /\ IsList(h, f[l], s, c[l])
                /\ \A r, a, g, f2, c2 : Becomes(h, s, r, a) /\ SetAs(l, r, a, f, c, g, f2, c2) => ListState(g, f2, c2)
<1>1. PICK s, t : TwoLists(h, f[1], s, c[1], f[2], t, c[2])
  BY Zenon DEF ListState
<1>2. DOMAIN f = {1, 2} /\ DOMAIN c = {1, 2} /\ f = [m \in L!Lists |-> f[m]] /\ c = [m \in L!Lists |-> c[m]]
  BY DEF ListState, L!Lists
<1> DEFINE v == IF l = 1 THEN s ELSE t
<1>3. h \in Heap /\ IsList(h, f[l], v, c[l])
  BY <1>1 DEF TwoLists, L!Lists
<1>4. ASSUME NEW r, NEW a, NEW g, NEW f2, NEW c2, Becomes(h, v, r, a), SetAs(l, r, a, f, c, g, f2, c2)
      PROVE  ListState(g, f2, c2)
  <2>1. g = r.heap /\ f2 = [f EXCEPT ![l] = r.first] /\ c2 = [c EXCEPT ![l] = a]
    BY <1>4 DEF SetAs
  <2>2. f2 = [m \in L!Lists |-> f2[m]] /\ c2 = [m \in L!Lists |-> c2[m]]
    BY <1>2, <2>1, Zenon
  <2>3. f2[l] = r.first /\ c2[l] = a /\ \A m \in {1, 2} : m # l => f2[m] = f[m] /\ c2[m] = c[m]
    BY <1>2, <2>1, Zenon DEF L!Lists
  <2>4. CASE l = 1
    <3>1. Becomes(h, s, r, a)
      BY <1>4, <2>4
    <3>2. PICK u : TwoLists(r.heap, r.first, u, a, f[2], t, c[2])
      BY <1>1, <3>1, OneChanges
    <3>3. TwoLists(g, f2[1], u, c2[1], f2[2], t, c2[2])
      BY <2>1, <2>3, <2>4, <3>2
    <3> QED
      BY <2>2, <3>3 DEF ListState
  <2>5. CASE l = 2
    <3>1. Becomes(h, t, r, a)
      BY <1>4, <2>5
    <3>2. TwoLists(h, f[2], t, c[2], f[1], s, c[1])
      BY <1>1, TwoSwapped
    <3>3. PICK u : TwoLists(r.heap, r.first, u, a, f[1], s, c[1])
      BY <3>1, <3>2, OneChanges
    <3>4. TwoLists(g, f2[2], u, c2[2], f2[1], s, c2[1])
      BY <2>1, <2>3, <2>5, <3>3
    <3>5. TwoLists(g, f2[1], s, c2[1], f2[2], u, c2[2])
      BY <3>4, TwoSwapped
    <3> QED
      BY <2>2, <3>5 DEF ListState
  <2> QED
    BY <2>4, <2>5 DEF L!Lists
<1> HIDE DEF v
<1> QED
  BY <1>3, <1>4

LEMMA ListInit == L!Init => ListInv
<1> SUFFICES ASSUME L!Init PROVE ListInv
  OBVIOUS
<1>1. heap = [n \in Nodes |-> L!FreeNode] /\ first = [l \in L!Lists |-> 0] /\ content = [l \in L!Lists |-> <<>>]
  BY DEF L!Init
<1>2. L!FreeNode \in ListNode /\ ~L!FreeNode.used
  BY DEF L!FreeNode, ListNode
<1>3. heap \in Heap /\ \A n \in Nodes : ~heap[n].used
  BY <1>1, <1>2 DEF Heap
<1>4. <<>> \in Seq(Nodes) /\ <<>> \in Seq(Data) /\ Len(<<>>) = 0 /\ 1..0 = {} /\ DOMAIN <<>> = {}
  OBVIOUS
<1>5. IsList(heap, 0, <<>>, <<>>) /\ \A n : ~In(n, <<>>)
  BY <1>4 DEF IsList, Distinct, In
<1>6. TwoLists(heap, 0, <<>>, <<>>, 0, <<>>, <<>>)
  BY <1>3, <1>5 DEF TwoLists
<1>7. first[1] = 0 /\ first[2] = 0 /\ content[1] = <<>> /\ content[2] = <<>>
  BY <1>1 DEF L!Lists
<1>8. first = [l \in L!Lists |-> first[l]] /\ content = [l \in L!Lists |-> content[l]]
  BY <1>1
<1> QED
  BY <1>6, <1>7, <1>8 DEF ListInv, ListState

\* The calls that add to a list.
LEMMA AddKeeps ==
  ASSUME ListInv, NEW l \in L!Lists, NEW d \in Data, L!Add(l, d)
  PROVE  ListInv'
<1> DEFINE p == first[l]
           c == content[l]
<1>1. PICK s : /\ heap \in Heap /\ IsList(heap, p, s, c)
               /\ \A r, a, g, f2, c2 : Becomes(heap, s, r, a) /\ SetAs(l, r, a, first, content, g, f2, c2) => ListState(g, f2, c2)
  BY SetKeeps DEF ListInv
<1> HIDE DEF p, c
<1>2. \A r, a : Becomes(heap, s, r, a) /\ L!Set(l, r, a) => ListInv'
  <2> SUFFICES ASSUME NEW r, NEW a, Becomes(heap, s, r, a), L!Set(l, r, a) PROVE ListInv'
    OBVIOUS
  <2>1. SetAs(l, r, a, first, content, heap', first', content')
    BY Zenon DEF L!Set, SetAs
  <2> QED
    BY <1>1, <2>1 DEF ListInv
<1>3. s \in Seq(Nodes) /\ c \in Seq(Data) /\ Len(c) = Len(s) /\ DOMAIN c = 1..Len(s) /\ Len(s) \in Nat
  BY <1>1, ListElements
<1>4. L!FreeNodes(heap) # {}
  BY DEF L!Add
<1> DEFINE app == L!bctbx_list_append(heap, p, d)
           pre == L!bctbx_list_prepend(heap, p, d)
<1>5. Becomes(heap, s, app, Append(c, d)) /\ Becomes(heap, s, pre, <<d>> \o c)
  <2>1. PICK n : Longer(heap, s, c, d, n, app, pre)
    BY <1>1, <1>4, AppendIs
  <2> HIDE DEF app, pre
  <2>2. Append(c, d) = c \o <<d>>
    BY <1>3, PutAtEnds
  <2>3. Becomes(heap, s, app, c \o <<d>>)
    BY <2>1 DEF Becomes, Longer
  <2>4. Becomes(heap, s, pre, <<d>> \o c)
    BY <2>1 DEF Becomes, Longer
  <2> QED
    BY <2>2, <2>3, <2>4
<1>6. CASE L!Set(l, app, Append(c, d))
  BY <1>2, <1>5, <1>6
<1>7. CASE L!Set(l, pre, <<d>> \o c)
  BY <1>2, <1>5, <1>7
<1>8. CASE L!Set(l, L!bctbx_list_insert_sorted(heap, p, d), L!InsertAt(c, L!Place(l, d), d))
  <2> DEFINE i == FirstOf(c, {e \in Data : d <= e})
  <2>1. L!SelectInSeq(c, LAMBDA e : d <= e) = i
    BY <1>3, Selected, Zenon
  <2>2. L!Place(l, d) = IF i = 0 THEN Len(c) + 1 ELSE i
    BY <2>1, Zenon DEF L!Place, c
  <2>3. Becomes(heap, s, L!bctbx_list_insert_sorted(heap, p, d), L!InsertAt(c, IF i = 0 THEN Len(c) + 1 ELSE i, d))
    BY <1>1, <1>4, InsertSortedIs
  <2>4. Becomes(heap, s, L!bctbx_list_insert_sorted(heap, p, d), L!InsertAt(c, L!Place(l, d), d))
    BY <2>2, <2>3, Zenon
  <2> QED
    BY <1>2, <1>8, <2>4
<1>9. ASSUME NEW i \in DOMAIN c, L!Set(l, L!bctbx_list_insert(heap, p, L!Chain(heap, p)[i], d), L!InsertAt(c, i, d))
      PROVE  ListInv'
  <2>1. L!Chain(heap, p) = s
    BY <1>1, ChainIs
  <2>2. Becomes(heap, s, L!bctbx_list_insert(heap, p, s[i], d), L!InsertAt(c, i, d))
    BY <1>1, <1>3, <1>4, InsertBeforeIs
  <2>3. L!Set(l, L!bctbx_list_insert(heap, p, s[i], d), L!InsertAt(c, i, d))
    BY <1>9, <2>1, Zenon
  <2> QED
    BY <1>2, <2>2, <2>3
<1>10. CASE L!Set(l, L!bctbx_list_insert(heap, p, 0, d), Append(c, d))
  <2>1. L!bctbx_list_insert(heap, p, 0, d) = app
    BY DEF L!bctbx_list_insert
  <2>2. L!Set(l, app, Append(c, d))
    BY <1>10, <2>1, Zenon
  <2> QED
    BY <1>6, <2>2
<1> QED
  BY <1>6, <1>7, <1>8, <1>9, <1>10, Zenon DEF L!Add, p, c

\* The calls that remove from a list.
LEMMA TakeKeeps ==
  ASSUME ListInv, NEW l \in L!Lists, L!Take(l)
  PROVE  ListInv'
<1> DEFINE p == first[l]
           c == content[l]
<1>1. PICK s : /\ heap \in Heap /\ IsList(heap, p, s, c)
               /\ \A r, a, g, f2, c2 : Becomes(heap, s, r, a) /\ SetAs(l, r, a, first, content, g, f2, c2) => ListState(g, f2, c2)
  BY SetKeeps DEF ListInv
<1> HIDE DEF p, c
<1>2. \A r, a : Becomes(heap, s, r, a) /\ L!Set(l, r, a) => ListInv'
  <2> SUFFICES ASSUME NEW r, NEW a, Becomes(heap, s, r, a), L!Set(l, r, a) PROVE ListInv'
    OBVIOUS
  <2>1. SetAs(l, r, a, first, content, heap', first', content')
    BY Zenon DEF L!Set, SetAs
  <2> QED
    BY <1>1, <2>1 DEF ListInv
<1>3. c \in Seq(Data)
  BY <1>1, ListElements
<1>4. ASSUME NEW Sel
      PROVE  Becomes(heap, s, L!bctbx_list_erase_link(heap, p, L!bctbx_list_find_custom(heap, p, Sel)), L!Without(c, FirstOf(c, Sel)))
  <2> DEFINE r == L!bctbx_list_erase_link(heap, p, L!bctbx_list_find_custom(heap, p, Sel))
             i == FirstOf(c, Sel)
             t == IF i = 0 THEN s ELSE Cut(s, i)
  <2>1. IsList(r.heap, r.first, t, L!Without(c, i)) /\ Step(heap, s, r.heap, t)
    BY <1>1, RemoveIs
  <2> HIDE DEF r, i, t
  <2>2. Becomes(heap, s, r, L!Without(c, i))
    BY <2>1 DEF Becomes
  <2> QED
    BY <2>2 DEF r, i
<1>5. ASSUME NEW d \in Data, L!Set(l, L!bctbx_list_remove(heap, p, d), L!Without(c, L!SelectInSeq(c, LAMBDA e : e = d)))
      PROVE  ListInv'
  <2> DEFINE r == L!bctbx_list_erase_link(heap, p, L!bctbx_list_find_custom(heap, p, {d}))
  <2>1. L!bctbx_list_remove(heap, p, d) = r
    BY Zenon DEF L!bctbx_list_remove, L!bctbx_list_find
  <2>2. L!SelectInSeq(c, LAMBDA e : e = d) = FirstOf(c, {d})
    BY <1>3, Selected, Zenon
  <2>3. L!Set(l, r, L!Without(c, FirstOf(c, {d})))
    BY <1>5, <2>1, <2>2, Zenon
  <2>4. Becomes(heap, s, r, L!Without(c, FirstOf(c, {d})))
    BY <1>4, Zenon
  <2> HIDE DEF r
  <2> QED
    BY <1>2, <2>3, <2>4
<1>6. ASSUME NEW Sel \in SUBSET Data, L!Set(l, L!bctbx_list_remove_custom(heap, p, Sel), L!Kept(c, Sel))
      PROVE  ListInv'
  <2>1. Becomes(heap, s, L!bctbx_list_remove_custom(heap, p, Sel), L!Kept(c, Sel))
    BY <1>1, RemoveCustomBecomes
  <2> QED
    BY <1>2, <1>6, <2>1
<1>7. ASSUME NEW Sel \in SUBSET Data, L!Set(l, L!bctbx_list_delete_custom(heap, p, Sel), L!Without(c, L!SelectInSeq(c, LAMBDA e : e \in Sel)))
      PROVE  ListInv'
  <2> DEFINE r == L!bctbx_list_erase_link(heap, p, L!bctbx_list_find_custom(heap, p, Sel))
  <2>1. L!bctbx_list_delete_custom(heap, p, Sel) = r
    BY Zenon DEF L!bctbx_list_delete_custom
  <2>2. L!SelectInSeq(c, LAMBDA e : e \in Sel) = FirstOf(c, Sel)
    BY <1>3, Selected, Zenon
  <2>3. L!Set(l, r, L!Without(c, FirstOf(c, Sel)))
    BY <1>7, <2>1, <2>2, Zenon
  <2>4. Becomes(heap, s, r, L!Without(c, FirstOf(c, Sel)))
    BY <1>4, Zenon
  <2> HIDE DEF r
  <2> QED
    BY <1>2, <2>3, <2>4
<1>8. CASE p # 0 /\ L!Set(l, L!bctbx_list_pop_front(heap, p), Tail(c))
  <2> DEFINE r == L!bctbx_list_pop_front(heap, p)
  <2>1. IsList(r.heap, r.first, Cut(s, 1), Tail(c)) /\ Step(heap, s, r.heap, Cut(s, 1))
    BY <1>1, <1>8, PopIs
  <2> HIDE DEF r
  <2>2. Becomes(heap, s, r, Tail(c))
    BY <2>1 DEF Becomes
  <2> QED
    BY <1>2, <1>8, <2>2 DEF r
<1>9. CASE L!Set(l, L!bctbx_list_free(heap, p), <<>>)
  <2> DEFINE r == L!bctbx_list_free(heap, p)
  <2>1. IsList(r.heap, r.first, <<>>, <<>>) /\ Step(heap, s, r.heap, <<>>)
    BY <1>1, FreeIs
  <2> HIDE DEF r
  <2>2. Becomes(heap, s, r, <<>>)
    BY <2>1 DEF Becomes
  <2> QED
    BY <1>2, <1>9, <2>2 DEF r
<1> QED
  BY <1>5, <1>6, <1>7, <1>8, <1>9, Zenon DEF L!Take, p, c

\* The two pointers of the lists, both assigned.
BothAre(g, f, a, b) == g = [f EXCEPT ![1] = a, ![2] = b]

LEMMA BothSet ==
  ASSUME NEW f, DOMAIN f = {1, 2}, NEW a, NEW b, NEW g, BothAre(g, f, a, b)
  PROVE  g[1] = a /\ g[2] = b /\ g = [l \in {1, 2} |-> g[l]]
<1>0. g = [f EXCEPT ![1] = a, ![2] = b]
  BY DEF BothAre
<1>1. DOMAIN g = {1, 2} /\ g[1] = a /\ g[2] = b
  BY <1>0
<1>2. g = [l \in DOMAIN g |-> g[l]]
  BY <1>0, Zenon
<1> QED
  BY <1>1, <1>2

\* A node of the first list is put at either end of the second.
LEMMA MoveKeeps ==
  ASSUME ListInv, L!Move
  PROVE  ListInv'
<1> DEFINE p == first[1]
           q == first[2]
           c == content[1]
           e == content[2]
<1>1. PICK s, t : TwoLists(heap, p, s, c, q, t, e)
  BY Zenon DEF ListInv, ListState
<1>2. /\ heap \in Heap /\ IsList(heap, p, s, c) /\ IsList(heap, q, t, e) /\ (\A n : ~(In(n, s) /\ In(n, t)))
      /\ \A n \in Nodes : heap[n].used => In(n, s) \/ In(n, t)
  BY <1>1 DEF TwoLists
<1>3. /\ s \in Seq(Nodes) /\ c \in Seq(Data) /\ DOMAIN c = 1..Len(s) /\ Len(s) \in Nat /\ Len(c) = Len(s)
      /\ (\A i \in 1..Len(s) : s[i] \in Nodes /\ s[i] # 0 /\ c[i] \in Data /\ In(s[i], s))
      /\ (\A n : In(n, s) => n \in Nodes /\ heap[n].used) /\ (\A n : In(n, t) => n \in Nodes /\ heap[n].used)
      /\ t \in Seq(Nodes) /\ e \in Seq(Data) /\ Distinct(s)
  <2> HIDE DEF p, q, c, e
  <2>1. /\ s \in Seq(Nodes) /\ c \in Seq(Data) /\ DOMAIN c = 1..Len(s) /\ Len(s) \in Nat /\ Len(c) = Len(s)
        /\ (\A i \in 1..Len(s) : s[i] \in Nodes /\ s[i] # 0 /\ c[i] \in Data /\ In(s[i], s))
        /\ (\A n : In(n, s) => n \in Nodes /\ heap[n].used)
    BY <1>2, ListElements
  <2>2. (\A n : In(n, t) => n \in Nodes /\ heap[n].used) /\ t \in Seq(Nodes) /\ e \in Seq(Data)
    BY <1>2, ListElements
  <2>3. Distinct(s)
    BY <1>2 DEF IsList
  <2> QED
    BY <2>1, <2>2, <2>3
<1>4. DOMAIN first = {1, 2}
  BY DEF ListInv, ListState, L!Lists
<1>5. L!Chain(heap, p) = s
  BY <1>2, ChainIs
<1> DEFINE Link(i) == L!bctbx_list_unlink(heap, p, s[i])
           AtEnd(i) == L!bctbx_list_concat(Link(i).heap, q, s[i])
           AtStart(i) == L!bctbx_list_concat(Link(i).heap, s[i], q)
<1>6. PICK i \in DOMAIN c :
         \/ /\ heap' = AtEnd(i).heap /\ first' = [first EXCEPT ![1] = Link(i).first, ![2] = AtEnd(i).first]
            /\ content' = <<L!Without(c, i), Append(e, c[i])>>
         \/ /\ heap' = AtStart(i).heap /\ first' = [first EXCEPT ![1] = Link(i).first, ![2] = AtStart(i).first]
            /\ content' = <<L!Without(c, i), <<c[i]>> \o e>>
  BY <1>5, Zenon DEF L!Move
<1> DEFINE x == s[i]
           u == Link(i)
           g == u.heap
           d == c[i]
           s2 == Cut(s, i)
           c2 == Cut(c, i)
<1>7. i \in 1..Len(s) /\ x \in Nodes /\ x # 0 /\ d \in Data /\ In(x, s)
  BY <1>3, <1>6
<1>8. L!Without(c, i) = c2
  <2>1. i # 0
    BY <1>3, <1>7
  <2> QED
    BY <2>1, Zenon DEF L!Without, L!RemoveAt, Cut
<1>9. /\ IsList(g, u.first, s2, c2) /\ IsList(g, x, <<x>>, <<d>>) /\ g \in Heap
      /\ \A n \in Nodes : g[n].used = heap[n].used /\ (~In(n, s) => g[n] = heap[n])
  <2>1. Unlinked(u, heap, s, c, i)
    BY <1>2, <1>7, UnlinkIs
  <2> QED
    BY <2>1 DEF Unlinked
<1>10. \A n : In(n, s2) <=> In(n, s) /\ n # x
  BY <1>3, <1>7, CutElements
<1> DEFINE a == AtEnd(i)
           b == AtStart(i)
<1>11. a = L!bctbx_list_concat(g, q, x) /\ b = L!bctbx_list_concat(g, x, q)
  OBVIOUS
<1>12. \/ heap' = a.heap /\ first' = [first EXCEPT ![1] = u.first, ![2] = a.first] /\ content' = <<c2, Append(e, d)>>
       \/ heap' = b.heap /\ first' = [first EXCEPT ![1] = u.first, ![2] = b.first] /\ content' = <<c2, <<d>> \o e>>
  BY <1>6, <1>8, Zenon
<1> HIDE DEF p, q, c, e, x, u, g, d, s2, c2, a, b, Link, AtEnd, AtStart
<1>13. IsList(g, q, t, e)
  <2>1. \A n \in Nodes : In(n, t) => g[n] = heap[n]
    BY <1>2, <1>9
  <2> QED
    BY <1>2, <2>1, ListFrame
<1>14. <<x>> \in Seq(Nodes) /\ \A n : In(n, <<x>>) <=> n = x
  BY <1>7, OneElement
<1>15. \A n : ~(In(n, t) /\ In(n, <<x>>)) /\ ~(In(n, <<x>>) /\ In(n, t))
  BY <1>2, <1>7, <1>14
<1>16. /\ IsList(a.heap, a.first, t \o <<x>>, e \o <<d>>) /\ Step(g, t \o <<x>>, a.heap, t \o <<x>>)
       /\ \A n : In(n, t \o <<x>>) <=> In(n, t) \/ n = x
  <2>1. IsList(a.heap, a.first, t \o <<x>>, e \o <<d>>) /\ Step(g, t \o <<x>>, a.heap, t \o <<x>>)
    BY <1>9, <1>11, <1>13, <1>15, ConcatIs
  <2>2. \A n : In(n, t \o <<x>>) <=> In(n, t) \/ In(n, <<x>>)
    BY <1>3, <1>14, ConcatElements, Zenon
  <2> QED
    BY <1>14, <2>1, <2>2
<1>17. /\ IsList(b.heap, b.first, <<x>> \o t, <<d>> \o e) /\ Step(g, <<x>> \o t, b.heap, <<x>> \o t)
       /\ \A n : In(n, <<x>> \o t) <=> In(n, t) \/ n = x
  <2>1. IsList(b.heap, b.first, <<x>> \o t, <<d>> \o e) /\ Step(g, <<x>> \o t, b.heap, <<x>> \o t)
    BY <1>9, <1>11, <1>13, <1>15, ConcatIs
  <2>2. \A n : In(n, <<x>> \o t) <=> In(n, <<x>>) \/ In(n, t)
    BY <1>3, <1>14, ConcatElements, Zenon
  <2> QED
    BY <1>14, <2>1, <2>2
<1>18. ASSUME NEW k, NEW w, NEW v, NEW y, IsList(k, y, w, v), Step(g, w, k, w), \A n : In(n, w) <=> In(n, t) \/ n = x
       PROVE  TwoLists(k, u.first, s2, c2, y, w, v)
  <2>1. \A n \in Nodes : In(n, s2) => g[n].used /\ ~In(n, w)
    BY <1>2, <1>3, <1>9, <1>10, <1>18
  <2>2. k \in Heap /\ \A n \in Nodes : In(n, s2) => k[n] = g[n]
    BY <1>18, <2>1 DEF Step
  <2>3. IsList(k, u.first, s2, c2)
    BY <1>9, <2>2, ListFrame
  <2>4. \A n : ~(In(n, s2) /\ In(n, w))
    BY <1>3, <1>10, <2>1
  <2>5. \A n \in Nodes : k[n].used => In(n, s2) \/ In(n, w)
    BY <1>2, <1>9, <1>10, <1>18 DEF Step
  <2> QED
    BY <1>18, <2>2, <2>3, <2>4, <2>5 DEF TwoLists
<1>19. ASSUME NEW k, NEW y, NEW v, heap' = k, first' = [first EXCEPT ![1] = u.first, ![2] = y], content' = <<c2, v>>,
              NEW w, TwoLists(k, u.first, s2, c2, y, w, v)
       PROVE  ListInv'
  <2>1. first'[1] = u.first /\ first'[2] = y /\ first' = [l \in {1, 2} |-> first'[l]]
    <3>1. BothAre(first', first, u.first, y)
      BY <1>19, Zenon DEF BothAre
    <3> QED
      BY <1>4, <3>1, BothSet
  <2>2. content'[1] = c2 /\ content'[2] = v /\ content' = [l \in {1, 2} |-> content'[l]]
    <3>1. DOMAIN <<c2, v>> = 1..2 /\ <<c2, v>>[1] = c2 /\ <<c2, v>>[2] = v /\ 1..2 = {1, 2}
      OBVIOUS
    <3>2. <<c2, v>> = [l \in {1, 2} |-> <<c2, v>>[l]]
      BY <3>1
    <3> QED
      BY <1>19, <3>1, <3>2
  <2>3. TwoLists(heap', first'[1], s2, content'[1], first'[2], w, content'[2])
    BY <1>19, <2>1, <2>2
  <2> QED
    BY <2>1, <2>2, <2>3 DEF ListInv, ListState, L!Lists
<1>20. Append(e, d) = e \o <<d>>
  BY <1>3, <1>7, PutAtEnds, Zenon
<1>21. CASE heap' = a.heap /\ first' = [first EXCEPT ![1] = u.first, ![2] = a.first] /\ content' = <<c2, Append(e, d)>>
  <2>1. TwoLists(a.heap, u.first, s2, c2, a.first, t \o <<x>>, e \o <<d>>)
    BY <1>16, <1>18
  <2> QED
    BY <1>19, <1>20, <1>21, <2>1, Zenon
<1>22. CASE heap' = b.heap /\ first' = [first EXCEPT ![1] = u.first, ![2] = b.first] /\ content' = <<c2, <<d>> \o e>>
  <2>1. TwoLists(b.heap, u.first, s2, c2, b.first, <<x>> \o t, <<d>> \o e)
    BY <1>17, <1>18
  <2> QED
    BY <1>19, <1>22, <2>1, Zenon
<1> QED
  BY <1>12, <1>21, <1>22

\* The second list at the end of the first.
LEMMA ConcatKeeps ==
  ASSUME ListInv, L!Concat
  PROVE  ListInv'
<1> DEFINE p == first[1]
           q == first[2]
           c == content[1]
           e == content[2]
           r == L!bctbx_list_concat(heap, p, q)
<1>1. PICK s, t : TwoLists(heap, p, s, c, q, t, e)
  BY Zenon DEF ListInv, ListState
<1>2. DOMAIN first = {1, 2}
  BY DEF ListInv, ListState, L!Lists
<1>3. heap' = r.heap /\ first' = [first EXCEPT ![1] = r.first, ![2] = 0] /\ content' = <<c \o e, <<>>>>
  BY Zenon DEF L!Concat
<1> HIDE DEF p, q, c, e
<1>4. /\ heap \in Heap /\ IsList(heap, p, s, c) /\ IsList(heap, q, t, e) /\ (\A n : ~(In(n, s) /\ In(n, t)))
      /\ \A n \in Nodes : heap[n].used => In(n, s) \/ In(n, t)
  BY <1>1 DEF TwoLists
<1>5. IsList(r.heap, r.first, s \o t, c \o e) /\ Step(heap, s \o t, r.heap, s \o t)
  BY <1>4, ConcatIs
<1>6. \A n : In(n, s \o t) <=> In(n, s) \/ In(n, t)
  <2>1. s \in Seq(Nodes) /\ t \in Seq(Nodes)
    BY <1>4, ListElements
  <2> QED
    BY <2>1, ConcatElements
<1> HIDE DEF r
<1>7. r.heap \in Heap /\ \A n \in Nodes : r.heap[n].used => In(n, s \o t)
  BY <1>4, <1>5, <1>6 DEF Step
<1>8. IsList(r.heap, 0, <<>>, <<>>) /\ \A n : ~In(n, <<>>)
  <2>1. <<>> \in Seq(Nodes) /\ <<>> \in Seq(Data) /\ Len(<<>>) = 0 /\ 1..0 = {} /\ DOMAIN <<>> = {}
    OBVIOUS
  <2> QED
    BY <2>1 DEF IsList, Distinct, In
<1>9. TwoLists(r.heap, r.first, s \o t, c \o e, 0, <<>>, <<>>)
  BY <1>5, <1>7, <1>8 DEF TwoLists
<1>10. first'[1] = r.first /\ first'[2] = 0 /\ first' = [l \in {1, 2} |-> first'[l]]
  <2>1. BothAre(first', first, r.first, 0)
    BY <1>3, Zenon DEF BothAre
  <2> QED
    BY <1>2, <2>1, BothSet
<1> DEFINE v == c \o e
<1>11. content' = <<v, <<>>>>
  BY <1>3
<1> HIDE DEF v
<1>12. content'[1] = v /\ content'[2] = <<>> /\ content' = [l \in {1, 2} |-> content'[l]]
  <2>1. DOMAIN <<v, <<>>>> = 1..2 /\ <<v, <<>>>>[1] = v /\ <<v, <<>>>>[2] = <<>> /\ 1..2 = {1, 2}
    OBVIOUS
  <2>2. <<v, <<>>>> = [l \in {1, 2} |-> <<v, <<>>>>[l]]
    BY <2>1
  <2> QED
    BY <1>11, <2>1, <2>2
<1>13. TwoLists(heap', first'[1], s \o t, content'[1], first'[2], <<>>, content'[2])
  BY <1>3, <1>9, <1>10, <1>12 DEF v
<1> QED
  BY <1>10, <1>12, <1>13 DEF ListInv, ListState, L!Lists

\* A copy into the second list, which is empty.
LEMMA CopyKeeps ==
  ASSUME ListInv, L!Copy
  PROVE  ListInv'
<1> DEFINE p == first[1]
           c == content[1]
<1>1. PICK s, t : TwoLists(heap, p, s, c, first[2], t, content[2])
  BY Zenon DEF ListInv, ListState
<1>2. heap \in Heap /\ IsList(heap, p, s, c) /\ IsList(heap, first[2], t, content[2])
  BY <1>1 DEF TwoLists
<1>3. t = <<>>
  <2>1. first[2] = 0
    BY DEF L!Copy
  <2> QED
    BY <1>2, <2>1, ListElements
<1>4. PICK s2 : /\ IsList(heap, first[2], s2, content[2])
                /\ \A r, a, g, f2, c2 : Becomes(heap, s2, r, a) /\ SetAs(2, r, a, first, content, g, f2, c2) => ListState(g, f2, c2)
  <2>1. 2 \in L!Lists
    BY DEF L!Lists
  <2> QED
    BY <2>1, SetKeeps DEF ListInv
<1>5. s2 = <<>>
  <2>1. first[2] = 0
    BY DEF L!Copy
  <2> QED
    BY <1>4, <2>1, ListElements
<1>6. \A r, a : Becomes(heap, <<>>, r, a) /\ L!Set(2, r, a) => ListInv'
  <2> SUFFICES ASSUME NEW r, NEW a, Becomes(heap, <<>>, r, a), L!Set(2, r, a) PROVE ListInv'
    OBVIOUS
  <2>1. SetAs(2, r, a, first, content, heap', first', content')
    BY Zenon DEF L!Set, SetAs
  <2> QED
    BY <1>4, <1>5, <2>1 DEF ListInv
<1>7. /\ L!DataOf(heap, L!Chain(heap, p)) = c /\ L!bctbx_list_size(heap, p) = Len(c) /\ c \in Seq(Data)
  BY <1>2, ListRead, ListElements
<1>8. Len(c) <= Cardinality(L!FreeNodes(heap))
  <2>1. L!bctbx_list_size(heap, p) <= Cardinality(L!FreeNodes(heap))
    BY Zenon DEF L!Copy, L!Cardinality, Cardinality
  <2> QED
    BY <1>7, <2>1
<1>9. /\ Becomes(heap, <<>>, L!bctbx_list_copy(heap, c), c)
      /\ Becomes(heap, <<>>, L!bctbx_list_copy_reverse(heap, c), L!Reverse(c))
  BY <1>2, <1>7, <1>8, CopyIs
<1>10. L!Set(2, L!bctbx_list_copy(heap, c), c) \/ L!Set(2, L!bctbx_list_copy_reverse(heap, c), L!Reverse(c))
  BY <1>7, Zenon DEF L!Copy
<1> HIDE DEF p, c
<1> QED
  BY <1>6, <1>9, <1>10

LEMMA ListStep ==
  ASSUME ListInv, L!Next \/ UNCHANGED listVars
  PROVE  ListInv'
<1>1. CASE L!Next
  <2>1. ASSUME NEW l \in L!Lists, L!Take(l) PROVE ListInv'
    BY <2>1, TakeKeeps
  <2>2. ASSUME NEW l \in L!Lists, NEW d \in Data, L!Add(l, d) PROVE ListInv'
    BY <2>2, AddKeeps
  <2> QED
    BY <1>1, <2>1, <2>2, MoveKeeps, ConcatKeeps, CopyKeeps DEF L!Next
<1>2. CASE UNCHANGED listVars
  BY <1>2 DEF listVars, ListInv
<1> QED
  BY <1>1, <1>2

\* What is read from a list that is well linked.
LEMMA ListIsRead ==
  ASSUME NEW h \in Heap, NEW p, NEW s, NEW c, IsList(h, p, s, c)
  PROVE  /\ L!Chain(h, p) = s /\ L!DataOf(h, s) = c
         /\ \A i \in DOMAIN s : h[s[i]].prev = (IF i = 1 THEN 0 ELSE s[i - 1])
         /\ L!bctbx_list_size(h, p) = Len(c)
         /\ s # <<>> => L!bctbx_list_first_elem(h, L!bctbx_list_last_elem(h, p)) = p
         /\ \A d \in Data : LET i == L!bctbx_list_index(h, p, d)
                            IN  IF i = -1 THEN d \notin ToSet(c) ELSE c[i + 1] = d
         /\ \A n : n \in ToSet(s) <=> In(n, s)
<1>1. L!Chain(h, p) = s
  BY ChainIs
<1>2. /\ L!DataOf(h, s) = c /\ L!bctbx_list_size(h, p) = Len(c)
      /\ L!bctbx_list_last_elem(h, p) = IF s = <<>> THEN 0 ELSE s[Len(s)]
  BY <1>1, ListRead
<1>3. c \in Seq(Data) /\ DOMAIN c = 1..Len(c) /\ DOMAIN s = 1..Len(s) /\ Len(c) \in Nat
  BY ListElements
<1>4. \A i \in DOMAIN s : h[s[i]].prev = (IF i = 1 THEN 0 ELSE s[i - 1])
  BY <1>3, ListLinks
<1>5. s # <<>> => L!bctbx_list_first_elem(h, L!bctbx_list_last_elem(h, p)) = p
  BY <1>2, FirstIs
<1>6. ASSUME NEW d \in Data
      PROVE  LET i == L!bctbx_list_index(h, p, d) IN IF i = -1 THEN d \notin ToSet(c) ELSE c[i + 1] = d
  <2> DEFINE j == FirstOf(c, {d})
             i == L!bctbx_list_index(h, p, d)
  <2>1. L!SelectInSeq(c, LAMBDA e : e = d) = j
    BY <1>3, Selected, Zenon
  <2>2. i = j - 1
    BY <1>1, <1>2, <2>1, Zenon DEF L!bctbx_list_index
  <2>3. /\ j \in 0..Len(c) /\ (j # 0 => c[j] \in {d}) /\ (j = 0 => \A k \in 1..Len(c) : c[k] \notin {d})
    BY <1>3, FirstOfIs
  <2> HIDE DEF i, j
  <2>4. (i = -1 <=> j = 0) /\ i + 1 = j
    BY <1>3, <2>2, <2>3
  <2>5. j = 0 => d \notin ToSet(c)
    BY <1>3, <2>3 DEF ToSet
  <2> QED
    BY <2>3, <2>4, <2>5 DEF i
<1>7. \A n : n \in ToSet(s) <=> In(n, s)
  BY DEF ToSet, In
<1> QED
  BY <1>1, <1>2, <1>4, <1>5, <1>6, <1>7

LEMMA ListRight == ListInv => ListIsSequence
<1> SUFFICES ASSUME ListInv PROVE ListIsSequence
  OBVIOUS
<1>1. PICK s, t : TwoLists(heap, first[1], s, content[1], first[2], t, content[2])
  BY Zenon DEF ListInv, ListState
<1>2. /\ heap \in Heap /\ IsList(heap, first[1], s, content[1]) /\ IsList(heap, first[2], t, content[2])
      /\ (\A n : ~(In(n, s) /\ In(n, t))) /\ \A n \in Nodes : heap[n].used => In(n, s) \/ In(n, t)
  BY <1>1 DEF TwoLists
<1> DEFINE u(l) == IF l = 1 THEN s ELSE t
           chain == [l \in L!Lists |-> L!Chain(heap, first[l])]
<1>3. \A l \in L!Lists : IsList(heap, first[l], u(l), content[l])
  BY <1>2 DEF L!Lists
<1>4. \A l \in L!Lists : chain[l] = u(l)
  BY <1>2, <1>3, ListIsRead
<1>5. \A n : (n \in ToSet(u(1)) <=> In(n, s)) /\ (n \in ToSet(u(2)) <=> In(n, t))
  <2>1. \A n : n \in ToSet(s) <=> In(n, s)
    BY <1>2, ListIsRead
  <2>2. \A n : n \in ToSet(t) <=> In(n, t)
    BY <1>2, ListIsRead
  <2> QED
    BY <2>1, <2>2
<1>6. chain[1] = u(1) /\ chain[2] = u(2)
  BY <1>4 DEF L!Lists
<1> HIDE DEF u, chain
<1>7. ASSUME NEW l \in L!Lists
      PROVE  LET w == chain[l]
             IN  /\ L!DataOf(heap, w) = content[l]
                 /\ \A i \in DOMAIN w : heap[w[i]].prev = (IF i = 1 THEN 0 ELSE w[i - 1])
                 /\ L!bctbx_list_size(heap, first[l]) = Len(content[l])
                 /\ w # <<>> => L!bctbx_list_first_elem(heap, L!bctbx_list_last_elem(heap, first[l])) = first[l]
                 /\ \A d \in Data : LET i == L!bctbx_list_index(heap, first[l], d)
                                    IN  IF i = -1 THEN d \notin ToSet(content[l]) ELSE content[l][i + 1] = d
  <2>1. IsList(heap, first[l], u(l), content[l]) /\ chain[l] = u(l)
    BY <1>3, <1>4
  <2> DEFINE w == u(l)
             p == first[l]
             c == content[l]
  <2> HIDE DEF w, p, c
  <2>2. IsList(heap, p, w, c)
    BY <2>1 DEF w, p, c
  <2>3. /\ L!DataOf(heap, w) = c
        /\ \A i \in DOMAIN w : heap[w[i]].prev = (IF i = 1 THEN 0 ELSE w[i - 1])
        /\ L!bctbx_list_size(heap, p) = Len(c)
        /\ w # <<>> => L!bctbx_list_first_elem(heap, L!bctbx_list_last_elem(heap, p)) = p
        /\ \A d \in Data : LET i == L!bctbx_list_index(heap, p, d)
                           IN  IF i = -1 THEN d \notin ToSet(c) ELSE c[i + 1] = d
    BY <1>2, <2>2, ListIsRead
  <2> QED
    BY <2>1, <2>3, Zenon DEF w, p, c
<1>8. ToSet(chain[1]) \cap ToSet(chain[2]) = {}
  BY <1>2, <1>5, <1>6
<1>9. {n \in Nodes : heap[n].used} = ToSet(chain[1]) \cup ToSet(chain[2])
  <2>1. \A n : In(n, s) \/ In(n, t) => n \in Nodes /\ heap[n].used
    BY <1>2, ListElements
  <2> QED
    BY <1>2, <1>5, <1>6, <2>1
<1> QED
  BY <1>7, <1>8, <1>9, Zenon DEF ListIsSequence, chain

\* Any nodes and any data: whatever calls were made on two lists, each is the
\* sequence its calls stand for, in both directions, and no node is in two.
THEOREM ListsHold == Spec => []ListIsSequence
<1>1. Init => ListInv
  BY ListInit DEF Init
<1>2. ListInv /\ [Next]_vars => ListInv'
  BY ListStep DEF Next, Utilities, Logging, vars, utilVars, logVars
<1>3. ListInv => ListIsSequence
  BY ListRight
<1> QED
  BY <1>1, <1>2, <1>3, PTL DEF Spec
=============================================================================
