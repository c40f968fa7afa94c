---------------------------- MODULE AnswerProofs ----------------------------
(***************************************************************************)
(* The parts that compute one answer from what they are given: a value      *)
(* crosses to another heap exactly when it is a finite tree of portable     *)
(* types, and then whole, for any heaps and any values; and in a function   *)
(* of any length the jumps land where they were meant to, however many are  *)
(* widened.                                                                 *)
(***************************************************************************)
EXTENDS Portable, LongJumps, FiniteSetTheorems, SequenceTheorems, WellFoundedInduction, TLAPS

-----------------------------------------------------------------------------
(* Numbers and levels *)

\* What holds of 0, and of each natural after one of which it holds, holds of all.
LEMMA AllNaturals ==
  ASSUME NEW S, 0 \in S, \A n \in Nat \ {0} : n - 1 \in S => n \in S
  PROVE  Nat \subseteq S
<1> DEFINE bad == Nat \ S
<1> SUFFICES ASSUME bad # {}
             PROVE  FALSE
  OBVIOUS
<1>1. PICK m \in bad : \A j \in bad : ~ (j < m)
  <2>1. IsWellFoundedOn(OpToRel(<, Nat), Nat)
    BY NatLessThanWellFounded
  <2> bad \subseteq Nat
    OBVIOUS
  <2> HIDE DEF bad
  <2>2. \E m \in bad : \A j \in bad : ~ (<<j, m>> \in OpToRel(<, Nat))
    BY <2>1, WFMin, Zenon
  <2> QED  BY <2>2 DEF OpToRel
<1>2. m \in Nat \ {0}
  BY <1>1
<1>3. m - 1 \in S
  <2>1. m - 1 \in Nat /\ m - 1 < m
    BY <1>2
  <2> QED  BY <1>1, <2>1
<1> QED  BY <1>1, <1>2, <1>3

\* As many containers as there are.
Levels == Cardinality(Containers)

LEMMA LevelsIs == Levels \in Nat
  BY PortableAssumption, FS_CardinalityType DEF Levels

-----------------------------------------------------------------------------
(* Trees *)

\* The first m sets of trees.
Grows(f, m) ==
    f = [n \in 0 .. m - 1 |-> IF n = 0 THEN Leaves
                              ELSE Leaves \cup [kind : Kinds, items : Seq(f[n - 1])]]

LEMMA GrowsExists ==
  ASSUME NEW m \in Nat
  PROVE  \E f : Grows(f, m)
<1> DEFINE S == {k \in Nat : \E f : Grows(f, k)}
<1>1. 0 \in S
  <2>1. Grows([n \in 0 .. 0 - 1 |-> {}], 0)
    <3>1. 0 .. 0 - 1 = {}
      OBVIOUS
    <3> QED  BY <3>1 DEF Grows
  <2> QED  BY <2>1
<1>2. ASSUME NEW k \in Nat \ {0}, k - 1 \in S
      PROVE  k \in S
  <2>1. PICK f : Grows(f, k - 1)
    BY <1>2
  <2> DEFINE Next_(h, n) == IF n = 0 THEN Leaves ELSE Leaves \cup [kind : Kinds, items : Seq(h[n - 1])]
             g == [n \in 0 .. k - 1 |-> Next_(f, n)]
  <2>2. ASSUME NEW n \in 0 .. k - 1
        PROVE  Next_(f, n) = Next_(g, n)
    <3>1. CASE n = 0
      BY <3>1
    <3>2. CASE n # 0
      <4>1. n - 1 \in 0 .. (k - 1) - 1 /\ n - 1 \in 0 .. k - 1
        BY <3>2
      <4>2. f[n - 1] = Next_(f, n - 1)
        BY <2>1, <4>1 DEF Grows
      <4>3. g[n - 1] = f[n - 1]
        BY <4>1, <4>2
      <4> QED  BY <4>3
    <3> QED  BY <3>1, <3>2
  <2>3. g = [n \in 0 .. k - 1 |-> Next_(g, n)]
    BY <2>2
  <2> HIDE DEF g
  <2>4. Grows(g, k)
    BY <2>3 DEF Grows
  <2> QED  BY <2>4
<1> HIDE DEF S
<1>3. Nat \subseteq S
  BY <1>1, <1>2, AllNaturals
<1> QED  BY <1>3 DEF S

\* The trees of n containers one within another at most.
TreesOf(n) == (CHOOSE f : Grows(f, Levels + 1))[n]

\* Each level holds the leaves, and containers of the level below.
LEMMA TreesIs ==
  /\ TreesOf(0) = Leaves
  /\ \A n \in 1 .. Levels : TreesOf(n) = Leaves \cup [kind : Kinds, items : Seq(TreesOf(n - 1))]
  /\ PortableValues = TreesOf(Levels)
<1> DEFINE f == CHOOSE h : Grows(h, Levels + 1)
<1>1. Grows(f, Levels + 1)
  BY LevelsIs, GrowsExists
<1>2. \A n : TreesOf(n) = f[n]
  BY DEF TreesOf
<1>3. PortableValues = f[Levels]
  <2>1. (Levels + 1) - 1 = Levels
    BY LevelsIs
  <2>2. f = CHOOSE h : h = [n \in 0 .. Levels |-> IF n = 0 THEN Leaves
                              ELSE Leaves \cup [kind : Kinds, items : Seq(h[n - 1])]]
    BY <2>1 DEF Grows
  <2> HIDE DEF f
  <2> QED  BY <2>2 DEF PortableValues, Levels
<1> HIDE DEF f
<1>4. \A n \in 0 .. Levels : f[n] = IF n = 0 THEN Leaves
                                    ELSE Leaves \cup [kind : Kinds, items : Seq(f[n - 1])]
  <2>1. 0 .. Levels = 0 .. (Levels + 1) - 1
    BY LevelsIs
  <2> QED  BY <1>1, <2>1 DEF Grows
<1>5. TreesOf(0) = Leaves
  <2>1. 0 \in 0 .. Levels
    BY LevelsIs
  <2>2. f[0] = Leaves
    BY <1>4, <2>1, Zenon
  <2> QED  BY <1>2, <2>2
<1>6. ASSUME NEW n \in 1 .. Levels
      PROVE  TreesOf(n) = Leaves \cup [kind : Kinds, items : Seq(TreesOf(n - 1))]
  <2>1. n \in 0 .. Levels /\ n # 0
    BY LevelsIs
  <2>2. f[n] = Leaves \cup [kind : Kinds, items : Seq(f[n - 1])]
    BY <1>4, <2>1
  <2>3. f[n] = TreesOf(n) /\ f[n - 1] = TreesOf(n - 1)
    BY <1>2, Zenon
  <2> QED  BY <2>2, <2>3, Zenon
<1>7. PortableValues = TreesOf(Levels)
  BY <1>2, <1>3, Zenon
<1> QED  BY <1>5, <1>6, <1>7

\* A level holds the one below.
LEMMA TreesGrow ==
  ASSUME NEW n \in 1 .. Levels
  PROVE  TreesOf(n - 1) \subseteq TreesOf(n)
<1> DEFINE S == {k \in Nat : k \in 1 .. Levels => TreesOf(k - 1) \subseteq TreesOf(k)}
<1>1. 0 \in S
  OBVIOUS
<1>2. ASSUME NEW k \in Nat \ {0}, k - 1 \in S
      PROVE  k \in S
  <2> SUFFICES ASSUME k \in 1 .. Levels
               PROVE  TreesOf(k - 1) \subseteq TreesOf(k)
    OBVIOUS
  <2>1. TreesOf(k) = Leaves \cup [kind : Kinds, items : Seq(TreesOf(k - 1))]
    BY TreesIs
  <2>2. CASE k = 1
    BY <2>1, <2>2, TreesIs
  <2>3. CASE k # 1
    <3>1. k - 1 \in 1 .. Levels /\ (k - 1) - 1 = k - 2
      BY <2>3, LevelsIs
    <3>2. TreesOf(k - 1) = Leaves \cup [kind : Kinds, items : Seq(TreesOf(k - 2))]
      BY <3>1, TreesIs
    <3>3. TreesOf(k - 2) \subseteq TreesOf(k - 1)
      BY <1>2, <3>1
    <3>4. Seq(TreesOf(k - 2)) \subseteq Seq(TreesOf(k - 1))
      BY <3>3
    <3> QED  BY <2>1, <3>2, <3>4
  <2> QED  BY <2>2, <2>3
<1> HIDE DEF S
<1>3. Nat \subseteq S
  BY <1>1, <1>2, AllNaturals
<1> QED  BY <1>3, LevelsIs DEF S

\* No level holds more than the last.
LEMMA TreesWithin ==
  ASSUME NEW n \in 0 .. Levels
  PROVE  TreesOf(n) \subseteq PortableValues
<1> DEFINE S == {k \in Nat : k <= Levels => TreesOf(Levels - k) \subseteq TreesOf(Levels)}
<1>1. 0 \in S
  BY LevelsIs
<1>2. ASSUME NEW k \in Nat \ {0}, k - 1 \in S
      PROVE  k \in S
  <2> SUFFICES ASSUME k <= Levels
               PROVE  TreesOf(Levels - k) \subseteq TreesOf(Levels)
    OBVIOUS
  <2>1. Levels - (k - 1) \in 1 .. Levels /\ (Levels - (k - 1)) - 1 = Levels - k
    BY LevelsIs
  <2>2. TreesOf(Levels - k) \subseteq TreesOf(Levels - (k - 1))
    <3> DEFINE l == Levels - (k - 1)
    <3>1. l \in 1 .. Levels /\ l - 1 = Levels - k
      BY <2>1
    <3> HIDE DEF l
    <3>2. TreesOf(l - 1) \subseteq TreesOf(l)
      BY <3>1, TreesGrow
    <3> QED  BY <3>1, <3>2 DEF l
  <2>3. TreesOf(Levels - (k - 1)) \subseteq TreesOf(Levels)
    BY <1>2, LevelsIs
  <2> QED  BY <2>2, <2>3
<1> HIDE DEF S
<1>3. Nat \subseteq S
  BY <1>1, <1>2, AllNaturals
<1>4. Levels - n \in S /\ Levels - n <= Levels /\ Levels - (Levels - n) = n
  BY <1>3, LevelsIs
<1>5. TreesOf(Levels - (Levels - n)) \subseteq TreesOf(Levels)
  BY <1>4 DEF S
<1> QED  BY <1>4, <1>5, TreesIs

\* What a tree is.
LEMMA TreeFields ==
  ASSUME NEW n \in 0 .. Levels, NEW pv \in TreesOf(n)
  PROVE  \/ \E v \in Scalars : pv = Leaf(v)
         \/ /\ n > 0 /\ pv.kind \in Kinds /\ pv.items \in Seq(TreesOf(n - 1))
            /\ pv = Container(pv.kind, pv.items)
<1>1. CASE n = 0
  BY <1>1, TreesIs DEF Leaves
<1>2. CASE n # 0
  <2>1. n \in 1 .. Levels
    BY <1>2, LevelsIs
  <2>2. TreesOf(n) = Leaves \cup [kind : Kinds, items : Seq(TreesOf(n - 1))]
    BY <2>1, TreesIs
  <2> DEFINE Q == Seq(TreesOf(n - 1))
  <2> HIDE DEF Q
  <2>3. pv \in Leaves \/ pv \in [kind : Kinds, items : Q]
    BY <2>2 DEF Q
  <2>4. pv \in [kind : Kinds, items : Q] => pv.kind \in Kinds /\ pv.items \in Q /\ pv = Container(pv.kind, pv.items)
    BY DEF Container
  <2> QED  BY <2>1, <2>3, <2>4 DEF Leaves, Q
<1> QED  BY <1>1, <1>2

-----------------------------------------------------------------------------
(* Copying *)

\* What the constants promise of a heap.
LEMMA HeapIs ==
  ASSUME NEW heap \in Heaps, NEW c \in Containers
  PROVE  /\ heap[c].kind \in Kinds /\ heap[c].items \in Seq(Sendable)
         /\ DOMAIN heap[c].items = 1 .. Len(heap[c].items)
         /\ \A i \in DOMAIN heap[c].items : heap[c].items[i] \in Sendable
<1>1. heap[c] \in [kind : Kinds, items : Seq(Sendable)]
  BY PortableAssumption
<1>2. heap[c].items \in Seq(Sendable)
  BY <1>1
<1> QED  BY <1>1, <1>2

\* The copy of v while those on the trail are being copied, if f says what copies are under longer trails.
CopyOf(heap, f, trail, v) ==
    IF v \in Scalars THEN Leaf(v)
    ELSE IF v \in Foreign \cup trail THEN Refused
    ELSE LET parts == [i \in DOMAIN heap[v].items |-> f[trail \cup {v}][heap[v].items[i]]]
         IN IF \E i \in DOMAIN parts : parts[i] = Refused THEN Refused
            ELSE Container(heap[v].kind, parts)

Copies(heap, f, trails) == f = [trail \in trails |-> [v \in Sendable |-> CopyOf(heap, f, trail, v)]]

\* The trails with fewer than n containers left.
Left(n) == {trail \in SUBSET Containers : Cardinality(Containers \ trail) < n}

\* A container that is not on a trail makes it longer.
LEMMA LeftOver ==
  ASSUME NEW trail \in SUBSET Containers
  PROVE  /\ Cardinality(Containers \ trail) \in 0 .. Levels
         /\ \A v \in Containers \ trail :
               Cardinality(Containers \ (trail \cup {v})) = Cardinality(Containers \ trail) - 1
<1>1. IsFiniteSet(Containers) /\ IsFiniteSet(Containers \ trail)
      /\ Cardinality(Containers \ trail) <= Cardinality(Containers)
  <2>1. Containers \ trail \in SUBSET Containers
    OBVIOUS
  <2> QED  BY <2>1, PortableAssumption, FS_Subset
<1>2. Cardinality(Containers \ trail) \in 0 .. Levels
  BY <1>1, LevelsIs, FS_CardinalityType DEF Levels
<1>3. ASSUME NEW v \in Containers \ trail
      PROVE  Cardinality(Containers \ (trail \cup {v})) = Cardinality(Containers \ trail) - 1
  <2>1. Containers \ (trail \cup {v}) = (Containers \ trail) \ {v}
    OBVIOUS
  <2> QED  BY <1>1, <2>1, FS_RemoveElement
<1> QED  BY <1>2, <1>3

LEMMA CopiesExist ==
  ASSUME NEW heap \in Heaps
  PROVE  \E f : Copies(heap, f, SUBSET Containers)
<1> DEFINE S == {n \in Nat : \E f : Copies(heap, f, Left(n))}
<1>1. 0 \in S
  <2>1. Left(0) = {}
    <3>1. \A trail \in SUBSET Containers : Cardinality(Containers \ trail) \in Nat
      BY LeftOver, LevelsIs
    <3> QED  BY <3>1 DEF Left
  <2>2. Copies(heap, [trail \in {} |-> {}], Left(0))
    BY <2>1 DEF Copies
  <2> QED  BY <2>2
<1>2. ASSUME NEW n \in Nat \ {0}, n - 1 \in S
      PROVE  n \in S
  <2>1. PICK f : Copies(heap, f, Left(n - 1))
    BY <1>2
  <2> DEFINE g == [trail \in Left(n) |-> [v \in Sendable |-> CopyOf(heap, f, trail, v)]]
  <2>2. ASSUME NEW trail \in Left(n), NEW v \in Sendable
        PROVE  CopyOf(heap, f, trail, v) = CopyOf(heap, g, trail, v)
    <3>1. CASE v \in Scalars \/ v \in Foreign \cup trail
      BY <3>1 DEF CopyOf
    <3>2. CASE ~ (v \in Scalars \/ v \in Foreign \cup trail)
      <4> DEFINE longer == trail \cup {v}
      <4>1. v \in Containers \ trail /\ trail \in SUBSET Containers
        BY <3>2 DEF Sendable, Left
      <4>2. longer \in Left(n - 1) /\ longer \in Left(n)
        <5>1. Cardinality(Containers \ longer) = Cardinality(Containers \ trail) - 1
          BY <4>1, LeftOver
        <5>2. Cardinality(Containers \ trail) \in Nat /\ Cardinality(Containers \ trail) < n
          BY <4>1, LeftOver, LevelsIs DEF Left
        <5>3. longer \in SUBSET Containers
          BY <4>1
        <5> HIDE DEF longer
        <5> QED  BY <5>1, <5>2, <5>3 DEF Left
      <4>3. f[longer] = [u \in Sendable |-> CopyOf(heap, f, longer, u)]
        BY <2>1, <4>2 DEF Copies
      <4>4. g[longer] = f[longer]
        BY <4>2, <4>3
      <4> HIDE DEF g
      <4> QED  BY <4>4 DEF CopyOf
    <3> QED  BY <3>1, <3>2
  <2>3. g = [trail \in Left(n) |-> [v \in Sendable |-> CopyOf(heap, g, trail, v)]]
    BY <2>2
  <2> HIDE DEF g
  <2> QED  BY <2>3 DEF Copies
<1>3. Nat \subseteq S
  <2> HIDE DEF S
  <2> QED  BY <1>1, <1>2, AllNaturals
<1>4. Left(Levels + 1) = SUBSET Containers
  <2>1. ASSUME NEW trail \in SUBSET Containers
        PROVE  trail \in Left(Levels + 1)
    BY LeftOver, LevelsIs DEF Left
  <2> QED  BY <2>1 DEF Left
<1>5. Levels + 1 \in S
  BY <1>3, LevelsIs
<1> QED  BY <1>4, <1>5

\* Copy, unfolded once.
LEMMA CopyIs ==
  ASSUME NEW heap \in Heaps, NEW trail \in SUBSET Containers, NEW v \in Sendable
  PROVE  Copy(heap)[trail][v] = CopyOf(heap, Copy(heap), trail, v)
<1> DEFINE f == CHOOSE h : Copies(heap, h, SUBSET Containers)
<1>1. Copies(heap, f, SUBSET Containers)
  BY CopiesExist
<1>2. Copy(heap) = f
  BY DEF Copy, Copies, CopyOf
<1> HIDE DEF f
<1>3. f[trail] = [u \in Sendable |-> CopyOf(heap, f, trail, u)]
  BY <1>1 DEF Copies
<1> QED  BY <1>2, <1>3

\* What is copied is a scalar, or refused, or a container all of whose items are copied.
LEMMA CopyOfScalar ==
  ASSUME NEW heap \in Heaps, NEW trail \in SUBSET Containers, NEW v \in Scalars
  PROVE  Copy(heap)[trail][v] = Leaf(v)
  BY CopyIs DEF CopyOf, Sendable

LEMMA CopyRefused ==
  ASSUME NEW heap \in Heaps, NEW trail \in SUBSET Containers, NEW v \in Foreign \cup trail
  PROVE  Copy(heap)[trail][v] = Refused
<1>1. v \in Sendable /\ v \notin Scalars
  BY PortableAssumption DEF Sendable
<1>2. Copy(heap)[trail][v] = CopyOf(heap, Copy(heap), trail, v)
  BY <1>1, CopyIs
<1> QED  BY <1>1, <1>2 DEF CopyOf

LEMMA CopyOfContainer ==
  ASSUME NEW heap \in Heaps, NEW trail \in SUBSET Containers, NEW v \in Containers \ trail
  PROVE  LET parts == [i \in DOMAIN heap[v].items |-> Copy(heap)[trail \cup {v}][heap[v].items[i]]]
         IN Copy(heap)[trail][v] = IF \E i \in DOMAIN heap[v].items : parts[i] = Refused THEN Refused
                                   ELSE Container(heap[v].kind, parts)
<1>1. v \in Sendable /\ v \notin Scalars /\ v \notin Foreign \cup trail
  BY PortableAssumption DEF Sendable
<1>2. Copy(heap)[trail][v] = CopyOf(heap, Copy(heap), trail, v)
  BY <1>1, CopyIs
<1> QED  BY <1>1, <1>2 DEF CopyOf

-----------------------------------------------------------------------------
(* Groupchats filled entry by entry *)

\* The first m rounds of the loop.
Fills(f, parts, m) ==
    f = [n \in 0 .. m - 1 |-> IF n = 0 THEN <<>> ELSE SetEntry(f[n - 1], parts[2 * n - 1], parts[2 * n])]

LEMMA FillsExist ==
  ASSUME NEW parts, NEW m \in Nat
  PROVE  \E f : Fills(f, parts, m)
<1> DEFINE S == {k \in Nat : \E f : Fills(f, parts, k)}
<1>1. 0 \in S
  <2>1. Fills([n \in 0 .. 0 - 1 |-> {}], parts, 0)
    <3>1. 0 .. 0 - 1 = {}
      OBVIOUS
    <3> QED  BY <3>1 DEF Fills
  <2> QED  BY <2>1
<1>2. ASSUME NEW k \in Nat \ {0}, k - 1 \in S
      PROVE  k \in S
  <2>1. PICK f : Fills(f, parts, k - 1)
    BY <1>2
  <2> DEFINE Round(h, n) == IF n = 0 THEN <<>> ELSE SetEntry(h[n - 1], parts[2 * n - 1], parts[2 * n])
             g == [n \in 0 .. k - 1 |-> Round(f, n)]
  <2>2. ASSUME NEW n \in 0 .. k - 1
        PROVE  Round(f, n) = Round(g, n)
    <3>1. CASE n = 0
      BY <3>1
    <3>2. CASE n # 0
      <4>1. n - 1 \in 0 .. (k - 1) - 1 /\ n - 1 \in 0 .. k - 1
        BY <3>2
      <4>2. f[n - 1] = Round(f, n - 1)
        BY <2>1, <4>1 DEF Fills
      <4>3. g[n - 1] = f[n - 1]
        BY <4>1, <4>2
      <4> QED  BY <4>3
    <3> QED  BY <3>1, <3>2
  <2>3. g = [n \in 0 .. k - 1 |-> Round(g, n)]
    BY <2>2
  <2> HIDE DEF g
  <2>4. Fills(g, parts, k)
    BY <2>3 DEF Fills
  <2> QED  BY <2>4
<1> HIDE DEF S
<1>3. Nat \subseteq S
  BY <1>1, <1>2, AllNaturals
<1> QED  BY <1>3 DEF S

\* No scalar is a key twice.
KeysApart(parts) ==
    \A i, j \in 1 .. Len(parts) :
        i % 2 = 1 /\ j % 2 = 1 /\ i < j /\ parts[j].kind \in Scalars => parts[i] # parts[j]

\* A key that is not there yet becomes the last.
LEMMA SetEntryIs ==
  ASSUME NEW S, NEW parts \in Seq(S), KeysApart(parts),
         NEW n \in Nat \ {0}, 2 * n <= Len(parts)
  PROVE  SetEntry(SubSeq(parts, 1, 2 * (n - 1)), parts[2 * n - 1], parts[2 * n]) = SubSeq(parts, 1, 2 * n)
<1> DEFINE shorter == SubSeq(parts, 1, 2 * (n - 1))
           key == parts[2 * n - 1]
           at == {i \in DOMAIN shorter : i % 2 = 1 /\ key.kind \in Scalars /\ shorter[i] = key}
<1>1. /\ shorter \in Seq(S) /\ Len(shorter) = 2 * (n - 1)
      /\ DOMAIN shorter = 1 .. 2 * (n - 1)
      /\ \A i \in 1 .. 2 * (n - 1) : shorter[i] = parts[i]
  BY SubSeqProperties
<1>2. 2 * n - 1 \in 1 .. Len(parts) /\ (2 * n - 1) % 2 = 1 /\ 2 * n \in 1 .. Len(parts)
      /\ \A i \in 1 .. 2 * (n - 1) : i \in 1 .. Len(parts) /\ i < 2 * n - 1
  OBVIOUS
<1> HIDE DEF shorter
<1>3. at = {}
  <2> SUFFICES ASSUME NEW i \in DOMAIN shorter, i % 2 = 1, key.kind \in Scalars, shorter[i] = key
               PROVE  FALSE
    OBVIOUS
  <2>1. i \in 1 .. Len(parts) /\ i < 2 * n - 1 /\ parts[i] = key
    BY <1>1, <1>2
  <2> QED  BY <1>2, <2>1 DEF KeysApart
<1>4. SetEntry(shorter, key, parts[2 * n]) = shorter \o <<key, parts[2 * n]>>
  <2> HIDE DEF key
  <2> QED  BY <1>3 DEF SetEntry
<1>5. shorter \o <<key, parts[2 * n]>> = SubSeq(parts, 1, 2 * n)
  <2> DEFINE two == <<key, parts[2 * n]>>
             longer == SubSeq(parts, 1, 2 * n)
  <2>1. two \in Seq(S) /\ Len(two) = 2 /\ two[1] = parts[2 * n - 1] /\ two[2] = parts[2 * n]
    BY <1>2
  <2>2. longer \in Seq(S) /\ Len(longer) = 2 * n /\ \A i \in 1 .. 2 * n : longer[i] = parts[i]
    BY <1>2, SubSeqProperties
  <2> HIDE DEF two, longer
  <2>3. /\ shorter \o two \in Seq(S)
        /\ Len(shorter \o two) = Len(shorter) + Len(two)
        /\ \A i \in 1 .. Len(shorter) + Len(two) :
              (shorter \o two)[i] = IF i <= Len(shorter) THEN shorter[i] ELSE two[i - Len(shorter)]
    <3>1. shorter \in Seq(S) /\ two \in Seq(S)
      BY <1>1, <2>1
    <3> QED  BY ONLY <3>1, ConcatProperties
  <2>4. Len(shorter) + Len(two) = 2 * n
    BY <1>1, <2>1
  <2>6. ASSUME NEW i \in 1 .. 2 * n
        PROVE  (shorter \o two)[i] = longer[i]
    <3>1. (shorter \o two)[i] = IF i <= 2 * (n - 1) THEN shorter[i] ELSE two[i - 2 * (n - 1)]
      BY <1>1, <2>3, <2>4
    <3>2. CASE i <= 2 * (n - 1)
      BY <1>1, <2>2, <3>1, <3>2
    <3>3. CASE i = 2 * n - 1
      <4>1. i - 2 * (n - 1) = 1 /\ ~ (i <= 2 * (n - 1))
        BY <3>3
      <4> QED  BY <2>1, <2>2, <3>1, <3>3, <4>1
    <3>4. CASE i = 2 * n
      <4>1. i - 2 * (n - 1) = 2 /\ ~ (i <= 2 * (n - 1))
        BY <3>4
      <4> QED  BY <2>1, <2>2, <3>1, <3>4, <4>1
    <3>5. i <= 2 * (n - 1) \/ i = 2 * n - 1 \/ i = 2 * n
      OBVIOUS
    <3> QED  BY <3>2, <3>3, <3>4, <3>5
  <2>5. shorter \o two = longer
    BY <2>2, <2>3, <2>4, <2>6, SeqEqual
  <2> QED  BY <2>5 DEF two, longer
<1> QED  BY <1>4, <1>5 DEF shorter

\* A groupchat whose keys differ has the entries it is filled with.
LEMMA EntriesIs ==
  ASSUME NEW S, NEW parts \in Seq(S), Len(parts) % 2 = 0, KeysApart(parts)
  PROVE  Entries(parts) = parts
<1> DEFINE half == Len(parts) \div 2
<1>1. half \in Nat /\ 2 * half = Len(parts)
  OBVIOUS
<1> HIDE DEF half
<1> DEFINE f == CHOOSE h : Fills(h, parts, half + 1)
<1>2. Fills(f, parts, half + 1)
  <2>1. half + 1 \in Nat
    BY <1>1
  <2>2. \E h : Fills(h, parts, half + 1)
    BY <2>1, FillsExist
  <2> QED  BY <2>2
<1>3. 0 .. (half + 1) - 1 = 0 .. half
  BY <1>1
<1>4. Entries(parts) = f[half]
  BY <1>3 DEF Entries, Fills, half
<1> HIDE DEF f
<1>5. \A n \in 0 .. half : f[n] = IF n = 0 THEN <<>> ELSE SetEntry(f[n - 1], parts[2 * n - 1], parts[2 * n])
  BY <1>2, <1>3 DEF Fills
<1> DEFINE T == {n \in Nat : n <= half => f[n] = SubSeq(parts, 1, 2 * n)}
<1>6. 0 \in T
  <2>1. 0 \in 0 .. half /\ 2 * 0 = 0
    BY <1>1
  <2>2. f[0] = <<>>
    BY <1>5, <2>1, Zenon
  <2>3. SubSeq(parts, 1, 0) = <<>>
    BY EmptySeq, SubSeqProperties
  <2> QED  BY <2>1, <2>2, <2>3
<1>7. ASSUME NEW n \in Nat \ {0}, n - 1 \in T
      PROVE  n \in T
  <2> SUFFICES ASSUME n <= half
               PROVE  f[n] = SubSeq(parts, 1, 2 * n)
    OBVIOUS
  <2>1. n \in 0 .. half /\ n # 0 /\ 2 * n <= Len(parts) /\ n - 1 <= half
    BY <1>1
  <2>2. f[n] = SetEntry(f[n - 1], parts[2 * n - 1], parts[2 * n])
    BY <1>5, <2>1
  <2>3. f[n - 1] = SubSeq(parts, 1, 2 * (n - 1))
    BY <1>7, <2>1
  <2>4. SetEntry(SubSeq(parts, 1, 2 * (n - 1)), parts[2 * n - 1], parts[2 * n]) = SubSeq(parts, 1, 2 * n)
    BY <2>1, SetEntryIs
  <2> QED  BY <2>2, <2>3, <2>4
<1>8. half \in T
  <2> HIDE DEF T
  <2>1. Nat \subseteq T
    BY <1>6, <1>7, AllNaturals
  <2> QED  BY <1>1, <2>1
<1>9. f[half] = SubSeq(parts, 1, Len(parts))
  BY <1>1, <1>8
<1>10. SubSeq(parts, 1, Len(parts)) = parts
  OBVIOUS
<1> QED  BY <1>4, <1>9, <1>10

-----------------------------------------------------------------------------
(* Turning trees into values, and looking at them *)

\* The trees of fewer than n levels.
Below(n) == IF n = 0 THEN {} ELSE TreesOf(n - 1)

\* The items of a tree are trees of a level less.
LEMMA ItemsBelow ==
  ASSUME NEW n \in 1 .. Levels + 1, NEW pv \in Below(n)
  PROVE  /\ DOMAIN pv.items = 1 .. Len(pv.items)
         /\ \A i \in DOMAIN pv.items : pv.items[i] \in Below(n - 1) /\ pv.items[i] \in Below(n)
<1>1. n - 1 \in 0 .. Levels /\ pv \in TreesOf(n - 1)
  BY LevelsIs DEF Below
<1>2. CASE \E v \in Scalars : pv = Leaf(v)
  <2>1. pv.items = <<>>
    BY <1>2 DEF Leaf
  <2> QED  BY <2>1
<1>3. CASE n - 1 > 0 /\ pv.items \in Seq(TreesOf((n - 1) - 1))
  <2>1. Below(n - 1) = TreesOf((n - 1) - 1)
    BY <1>3 DEF Below
  <2>2. n - 1 \in 1 .. Levels
    BY <1>1, <1>3
  <2>3. TreesOf((n - 1) - 1) \subseteq TreesOf(n - 1)
    BY <2>2, TreesGrow
  <2>4. Below(n) = TreesOf(n - 1)
    BY DEF Below
  <2>5. DOMAIN pv.items = 1 .. Len(pv.items) /\ \A i \in 1 .. Len(pv.items) : pv.items[i] \in TreesOf((n - 1) - 1)
    BY <1>3
  <2> QED  BY <2>1, <2>3, <2>4, <2>5
<1> QED  BY <1>1, <1>2, <1>3, TreeFields

\* What portable_to_value makes of a tree, if f says what it makes of its items.
ValueOf(f, pv) ==
    LET parts == [i \in DOMAIN pv.items |-> f[pv.items[i]]]
    IN Container(pv.kind, IF pv.kind = "groupchat" THEN Entries(parts) ELSE parts)

Values(f, pvs) == f = [pv \in pvs |-> ValueOf(f, pv)]

LEMMA ValuesExist == \E f : Values(f, PortableValues)
<1> DEFINE S == {n \in Nat : n <= Levels + 1 => \E f : Values(f, Below(n))}
<1>1. 0 \in S
  <2>1. Values([pv \in {} |-> {}], Below(0))
    BY DEF Values, Below
  <2> QED  BY <2>1
<1>2. ASSUME NEW n \in Nat \ {0}, n - 1 \in S
      PROVE  n \in S
  <2> SUFFICES ASSUME n <= Levels + 1
               PROVE  \E f : Values(f, Below(n))
    OBVIOUS
  <2>1. PICK f : Values(f, Below(n - 1))
    BY <1>2, LevelsIs
  <2> DEFINE g == [pv \in Below(n) |-> ValueOf(f, pv)]
  <2>2. ASSUME NEW pv \in Below(n)
        PROVE  ValueOf(f, pv) = ValueOf(g, pv)
    <3>1. n \in 1 .. Levels + 1
      BY LevelsIs
    <3>2. ASSUME NEW i \in DOMAIN pv.items
          PROVE  f[pv.items[i]] = g[pv.items[i]]
      <4>1. pv.items[i] \in Below(n - 1) /\ pv.items[i] \in Below(n)
        BY <3>1, ItemsBelow
      <4>2. f[pv.items[i]] = ValueOf(f, pv.items[i])
        BY <2>1, <4>1 DEF Values
      <4>3. g[pv.items[i]] = ValueOf(f, pv.items[i])
        BY <4>1
      <4> QED  BY <4>2, <4>3
    <3>3. [i \in DOMAIN pv.items |-> f[pv.items[i]]] = [i \in DOMAIN pv.items |-> g[pv.items[i]]]
      BY <3>2
    <3> HIDE DEF g
    <3> QED  BY <3>3 DEF ValueOf
  <2>3. g = [pv \in Below(n) |-> ValueOf(g, pv)]
    BY <2>2
  <2> HIDE DEF g
  <2> QED  BY <2>3 DEF Values
<1>3. Nat \subseteq S
  <2> HIDE DEF S
  <2> QED  BY <1>1, <1>2, AllNaturals
<1>4. Below(Levels + 1) = PortableValues
  <2>1. Levels + 1 # 0 /\ (Levels + 1) - 1 = Levels
    BY LevelsIs
  <2> QED  BY <2>1, TreesIs DEF Below
<1>5. Levels + 1 \in Nat
  BY LevelsIs
<1>6. \E f : Values(f, Below(Levels + 1))
  BY <1>3, <1>5
<1> QED  BY <1>4, <1>6

\* ToValue, unfolded once.
LEMMA ToValueIs ==
  ASSUME NEW pv \in PortableValues
  PROVE  ToValue[pv] = ValueOf(ToValue, pv)
<1> DEFINE f == CHOOSE h : Values(h, PortableValues)
<1>1. Values(f, PortableValues)
  BY ValuesExist
<1>2. ToValue = f
  BY DEF ToValue, Values, ValueOf
<1> HIDE DEF f
<1> QED  BY <1>1, <1>2 DEF Values

\* The values that a tree looks like, if f says it of its items.
LikeOf(heap, f, pv) ==
    {v \in Sendable :
        IF v \in Scalars THEN pv = Leaf(v)
        ELSE /\ v \in Containers
             /\ pv.kind = heap[v].kind /\ DOMAIN pv.items = DOMAIN heap[v].items
             /\ \A i \in DOMAIN pv.items : heap[v].items[i] \in f[pv.items[i]]}

Likes(heap, f, pvs) == f = [pv \in pvs |-> LikeOf(heap, f, pv)]

LEMMA LikesExist ==
  ASSUME NEW heap
  PROVE  \E f : Likes(heap, f, PortableValues)
<1> DEFINE S == {n \in Nat : n <= Levels + 1 => \E f : Likes(heap, f, Below(n))}
<1>1. 0 \in S
  <2>1. Likes(heap, [pv \in {} |-> {}], Below(0))
    BY DEF Likes, Below
  <2> QED  BY <2>1
<1>2. ASSUME NEW n \in Nat \ {0}, n - 1 \in S
      PROVE  n \in S
  <2> SUFFICES ASSUME n <= Levels + 1
               PROVE  \E f : Likes(heap, f, Below(n))
    OBVIOUS
  <2>1. PICK f : Likes(heap, f, Below(n - 1))
    BY <1>2, LevelsIs
  <2> DEFINE g == [pv \in Below(n) |-> LikeOf(heap, f, pv)]
  <2>2. ASSUME NEW pv \in Below(n)
        PROVE  LikeOf(heap, f, pv) = LikeOf(heap, g, pv)
    <3>1. n \in 1 .. Levels + 1
      BY LevelsIs
    <3>2. ASSUME NEW i \in DOMAIN pv.items
          PROVE  f[pv.items[i]] = g[pv.items[i]]
      <4>1. pv.items[i] \in Below(n - 1) /\ pv.items[i] \in Below(n)
        BY <3>1, ItemsBelow
      <4>2. f[pv.items[i]] = LikeOf(heap, f, pv.items[i])
        BY <2>1, <4>1 DEF Likes
      <4>3. g[pv.items[i]] = LikeOf(heap, f, pv.items[i])
        BY <4>1
      <4> QED  BY <4>2, <4>3
    <3> HIDE DEF g
    <3> QED  BY <3>2 DEF LikeOf
  <2>3. g = [pv \in Below(n) |-> LikeOf(heap, g, pv)]
    BY <2>2
  <2> HIDE DEF g
  <2> QED  BY <2>3 DEF Likes
<1>3. Nat \subseteq S
  <2> HIDE DEF S
  <2> QED  BY <1>1, <1>2, AllNaturals
<1>4. Below(Levels + 1) = PortableValues
  <2>1. Levels + 1 # 0 /\ (Levels + 1) - 1 = Levels
    BY LevelsIs
  <2> QED  BY <2>1, TreesIs DEF Below
<1>5. Levels + 1 \in Nat
  BY LevelsIs
<1>6. \E f : Likes(heap, f, Below(Levels + 1))
  BY <1>3, <1>5
<1> QED  BY <1>4, <1>6

\* LooksLike, unfolded once.
LEMMA LooksLikeIs ==
  ASSUME NEW heap, NEW pv \in PortableValues
  PROVE  LooksLike(heap)[pv] = LikeOf(heap, LooksLike(heap), pv)
<1> DEFINE f == CHOOSE h : Likes(heap, h, PortableValues)
<1>1. Likes(heap, f, PortableValues)
  BY LikesExist
<1>2. LooksLike(heap) = f
  BY DEF LooksLike, Likes, LikeOf
<1> HIDE DEF f
<1> QED  BY <1>1, <1>2 DEF Likes

-----------------------------------------------------------------------------
(* What is not refused looks the same *)

\* A copy that has a scalar's kind is that scalar's.
LEMMA ScalarCopies ==
  ASSUME NEW heap \in Heaps, NEW trail \in SUBSET Containers, NEW v \in Sendable,
         Copy(heap)[trail][v].kind \in Scalars
  PROVE  v \in Scalars /\ Copy(heap)[trail][v].kind = v
<1>1. CASE v \in Scalars
  <2>1. Copy(heap)[trail][v] = Leaf(v)
    BY <1>1, CopyOfScalar
  <2> QED  BY <1>1, <2>1 DEF Leaf
<1>2. CASE v \in Foreign \cup trail
  <2>1. Copy(heap)[trail][v] = Refused
    BY <1>2, CopyRefused
  <2> QED  BY <2>1, PortableAssumption DEF Refused
<1>3. CASE v \in Containers \ trail
  <2>1. heap[v].kind \in Kinds
    BY <1>3, HeapIs
  <2>2. Copy(heap)[trail][v].kind \in {"refused", heap[v].kind}
    <3> DEFINE parts == [i \in DOMAIN heap[v].items |-> Copy(heap)[trail \cup {v}][heap[v].items[i]]]
    <3>1. Copy(heap)[trail][v] = Refused \/ Copy(heap)[trail][v] = Container(heap[v].kind, parts)
      BY <1>3, CopyOfContainer
    <3> HIDE DEF parts
    <3> QED  BY <3>1 DEF Refused, Container
  <2> QED  BY <2>1, <2>2, PortableAssumption
<1> QED  BY <1>1, <1>2, <1>3 DEF Sendable

\* What was said of the copies under trails that leave n containers.
Copied(heap, trail, v, n) ==
    LET pv == Copy(heap)[trail][v] IN
    \/ pv = Refused
    \/ /\ pv \in TreesOf(n)
       /\ ToValue[pv] = pv
       /\ v \in LooksLike(heap)[pv]

\* A scalar crosses as itself.
LEMMA ScalarIsCopied ==
  ASSUME NEW heap \in Heaps, NEW trail \in SUBSET Containers, NEW v \in Scalars, NEW n \in 0 .. Levels
  PROVE  Copied(heap, trail, v, n)
<1> DEFINE pv == Leaf(v)
<1>1. Copy(heap)[trail][v] = pv
  BY CopyOfScalar
<1>2. pv \in TreesOf(n)
  <2>1. pv \in Leaves
    BY DEF Leaves
  <2>2. CASE n = 0
    BY <2>1, <2>2, TreesIs
  <2>3. CASE n # 0
    <3>1. n \in 1 .. Levels
      BY <2>3, LevelsIs
    <3> QED  BY <2>1, <3>1, TreesIs
  <2> QED  BY <2>2, <2>3
<1>3. pv \in PortableValues
  BY <1>2, TreesWithin
<1>4. ToValue[pv] = pv
  <2>1. v # "groupchat" /\ pv.kind = v /\ pv.items = <<>>
    BY PortableAssumption DEF Kinds, Leaf
  <2>2. [i \in DOMAIN pv.items |-> ToValue[pv.items[i]]] = <<>>
    BY <2>1
  <2>3. ToValue[pv] = Container(pv.kind, <<>>)
    BY <1>3, <2>1, <2>2, ToValueIs DEF ValueOf
  <2> QED  BY <2>1, <2>3 DEF Container, Leaf
<1>5. v \in LooksLike(heap)[pv]
  <2>1. LooksLike(heap)[pv] = LikeOf(heap, LooksLike(heap), pv)
    BY <1>3, LooksLikeIs
  <2>2. v \in Sendable
    BY DEF Sendable
  <2> QED  BY <2>1, <2>2 DEF LikeOf
<1> HIDE DEF pv
<1> QED  BY <1>1, <1>2, <1>4, <1>5 DEF Copied

\* A container crosses whole if its items do.
LEMMA ContainerIsCopied ==
  ASSUME NEW heap \in Heaps, NEW trail \in SUBSET Containers, NEW v \in Containers \ trail,
         NEW n \in 1 .. Levels,
         \A u \in Sendable : Copied(heap, trail \cup {v}, u, n - 1)
  PROVE  Copied(heap, trail, v, n)
<1> DEFINE items == heap[v].items
           longer == trail \cup {v}
           parts == [i \in DOMAIN items |-> Copy(heap)[longer][items[i]]]
           pv == Container(heap[v].kind, parts)
<1>1. /\ heap[v].kind \in Kinds /\ items \in Seq(Sendable)
      /\ DOMAIN items = 1 .. Len(items) /\ Len(items) \in Nat
      /\ \A i \in DOMAIN items : items[i] \in Sendable
  BY HeapIs
<1>2. longer \in SUBSET Containers
  OBVIOUS
<1>3. Copy(heap)[trail][v] = IF \E i \in DOMAIN items : parts[i] = Refused THEN Refused ELSE pv
  BY CopyOfContainer
<1>4. \A i \in DOMAIN items : parts[i] = Copy(heap)[longer][items[i]]
  OBVIOUS
<1>5. DOMAIN parts = DOMAIN items
  OBVIOUS
<1>6. pv.kind = heap[v].kind /\ pv.items = parts
  BY DEF Container
<1> SUFFICES ASSUME \A i \in DOMAIN items : parts[i] # Refused
             PROVE  Copied(heap, trail, v, n)
  BY <1>3 DEF Copied
<1>7. \A i \in DOMAIN items : /\ parts[i] \in TreesOf(n - 1) /\ ToValue[parts[i]] = parts[i]
                              /\ items[i] \in LooksLike(heap)[parts[i]]
  BY <1>1, <1>4 DEF Copied
<1>8. parts \in Seq(TreesOf(n - 1)) /\ Len(parts) = Len(items)
  <2>1. parts = [i \in 1 .. Len(items) |-> Copy(heap)[longer][items[i]]]
    BY <1>1
  <2> HIDE DEF parts
  <2>2. parts \in [1 .. Len(items) -> TreesOf(n - 1)]
    BY <1>1, <1>4, <1>7, <2>1
  <2> QED  BY <1>1, <2>2
<1> HIDE DEF parts
<1>9. pv \in TreesOf(n)
  <2> DEFINE Q == Seq(TreesOf(n - 1))
  <2>1. TreesOf(n) = Leaves \cup [kind : Kinds, items : Q]
    BY TreesIs
  <2> HIDE DEF Q
  <2>2. parts \in Q
    BY <1>8 DEF Q
  <2>3. Container(heap[v].kind, parts) \in [kind : Kinds, items : Q]
    BY <1>1, <2>2 DEF Container
  <2> QED  BY <2>1, <2>3
<1>10. pv \in PortableValues
  <2>1. n \in 0 .. Levels
    BY LevelsIs
  <2> HIDE DEF pv
  <2> QED  BY <1>9, <2>1, TreesWithin
<1> HIDE DEF pv
<1>11. ToValue[pv] = pv
  <2>1. [i \in DOMAIN pv.items |-> ToValue[pv.items[i]]] = parts
    <3>1. [i \in DOMAIN parts |-> ToValue[parts[i]]] = [i \in DOMAIN parts |-> parts[i]]
      BY <1>5, <1>7
    <3>2. parts = [i \in DOMAIN parts |-> parts[i]]
      BY <1>8
    <3> QED  BY <1>6, <3>1, <3>2
  <2>2. ToValue[pv] = Container(pv.kind, IF pv.kind = "groupchat" THEN Entries(parts) ELSE parts)
    BY <1>10, <2>1, ToValueIs DEF ValueOf
  <2>3. pv.kind = "groupchat" => Entries(parts) = parts
    <3> SUFFICES ASSUME pv.kind = "groupchat"
                 PROVE  Entries(parts) = parts
      OBVIOUS
    <3>1. /\ Len(items) % 2 = 0
          /\ \A i, j \in {k \in DOMAIN items : k % 2 = 1} : items[i] = items[j] => i = j
      BY <1>6, PortableAssumption
    <3>2. ASSUME NEW i \in 1 .. Len(parts), NEW j \in 1 .. Len(parts),
                 i % 2 = 1, j % 2 = 1, i < j, parts[j].kind \in Scalars, parts[i] = parts[j]
          PROVE  FALSE
      <4>1. items[i] \in Sendable /\ items[j] \in Sendable /\ i \in DOMAIN items /\ j \in DOMAIN items
        BY <1>1, <1>8
      <4>2. items[i] = parts[i].kind /\ items[j] = parts[j].kind
        <5>1. Copy(heap)[longer][items[i]].kind \in Scalars /\ Copy(heap)[longer][items[j]].kind \in Scalars
          BY <1>4, <3>2, <4>1
        <5>2. Copy(heap)[longer][items[i]].kind = items[i]
          BY <1>2, <4>1, <5>1, ScalarCopies
        <5>3. Copy(heap)[longer][items[j]].kind = items[j]
          BY <1>2, <4>1, <5>1, ScalarCopies
        <5> QED  BY <1>4, <4>1, <5>2, <5>3
      <4>3. i = j
        BY <3>1, <3>2, <4>1, <4>2
      <4> QED  BY <3>2, <4>3
    <3>3. KeysApart(parts)
      BY <3>2 DEF KeysApart
    <3> QED  BY <1>8, <3>1, <3>3, EntriesIs
  <2>4. ToValue[pv] = Container(pv.kind, parts)
    BY <2>2, <2>3
  <2> QED  BY <1>6, <2>4 DEF pv
<1>12. v \in LooksLike(heap)[pv]
  <2>1. LooksLike(heap)[pv] = LikeOf(heap, LooksLike(heap), pv)
    BY <1>10, LooksLikeIs
  <2>2. v \in Sendable /\ v \notin Scalars
    BY PortableAssumption DEF Sendable
  <2> QED  BY <1>5, <1>6, <1>7, <2>1, <2>2 DEF LikeOf
<1>13. Copy(heap)[trail][v] = pv
  BY <1>3, <1>5
<1> QED  BY <1>9, <1>11, <1>12, <1>13 DEF Copied

\* So everything does.
LEMMA AllCopied ==
  ASSUME NEW heap \in Heaps, NEW v \in Sendable
  PROVE  Copied(heap, {}, v, Levels)
<1> DEFINE S == {n \in Nat : \A trail \in SUBSET Containers, u \in Sendable :
                                Cardinality(Containers \ trail) = n => Copied(heap, trail, u, n)}
<1>1. ASSUME NEW n \in Nat, n # 0 => n - 1 \in S
      PROVE  n \in S
  <2> SUFFICES ASSUME NEW trail \in SUBSET Containers, NEW u \in Sendable,
                      Cardinality(Containers \ trail) = n
               PROVE  Copied(heap, trail, u, n)
    OBVIOUS
  <2>1. n \in 0 .. Levels
    BY LeftOver
  <2>2. CASE u \in Scalars
    BY <2>1, <2>2, ScalarIsCopied
  <2>3. CASE u \in Foreign \cup trail
    BY <2>3, CopyRefused DEF Copied
  <2>4. CASE u \in Containers \ trail
    <3>1. Cardinality(Containers \ (trail \cup {u})) = n - 1 /\ trail \cup {u} \in SUBSET Containers
      BY <2>4, LeftOver
    <3>2. Cardinality(Containers \ (trail \cup {u})) \in Nat
      <4> DEFINE longer == trail \cup {u}
      <4>1. longer \in SUBSET Containers
        BY <3>1
      <4> HIDE DEF longer
      <4>2. Cardinality(Containers \ longer) \in 0 .. Levels
        BY <4>1, LeftOver
      <4> QED  BY <4>2, LevelsIs DEF longer
    <3>3. n # 0 /\ n \in 1 .. Levels
      BY <2>1, <3>1, <3>2, LevelsIs
    <3>4. \A w \in Sendable : Copied(heap, trail \cup {u}, w, n - 1)
      BY <1>1, <3>1, <3>3
    <3> QED  BY <2>4, <3>3, <3>4, ContainerIsCopied
  <2> QED  BY <2>2, <2>3, <2>4 DEF Sendable
<1>2. Levels \in S
  <2>1. 0 \in S /\ \A n \in Nat \ {0} : n - 1 \in S => n \in S
    BY <1>1
  <2> HIDE DEF S
  <2> QED  BY <2>1, AllNaturals, LevelsIs
<1>3. Containers \ {} = Containers /\ {} \in SUBSET Containers
  OBVIOUS
<1> QED  BY <1>2, <1>3 DEF Levels

-----------------------------------------------------------------------------
(* What is refused *)

\* What is copied under any trail is a finite tree: it is in each set that holds what its items build.
LEMMA CopiedIsPortable ==
  ASSUME NEW heap \in Heaps, NEW v \in Sendable, Copy(heap)[{}][v] # Refused
  PROVE  v \in Portables(heap)
<1> SUFFICES ASSUME NEW P \in SUBSET Sendable, Builds(heap, P)
             PROVE  v \in P
  BY DEF Portables
<1> DEFINE S == {n \in Nat : \A trail \in SUBSET Containers, u \in Sendable :
                                Cardinality(Containers \ trail) = n /\ Copy(heap)[trail][u] # Refused => u \in P}
<1>1. ASSUME NEW n \in Nat, n # 0 => n - 1 \in S
      PROVE  n \in S
  <2> SUFFICES ASSUME NEW trail \in SUBSET Containers, NEW u \in Sendable,
                      Cardinality(Containers \ trail) = n, Copy(heap)[trail][u] # Refused
               PROVE  u \in P
    OBVIOUS
  <2>1. CASE u \in Scalars
    BY <2>1 DEF Builds
  <2>2. CASE u \in Containers \ trail
    <3> DEFINE longer == trail \cup {u}
    <3>1. Cardinality(Containers \ longer) = n - 1 /\ longer \in SUBSET Containers
      BY <2>2, LeftOver
    <3>2. n # 0
      <4> HIDE DEF longer
      <4>1. Cardinality(Containers \ longer) \in 0 .. Levels
        BY <3>1, LeftOver
      <4> QED  BY <3>1, <4>1, LevelsIs
    <3>3. ASSUME NEW i \in DOMAIN heap[u].items
          PROVE  heap[u].items[i] \in P
      <4>1. Copy(heap)[longer][heap[u].items[i]] # Refused
        BY <2>2, CopyOfContainer
      <4>2. heap[u].items[i] \in Sendable
        BY <2>2, HeapIs
      <4> HIDE DEF longer
      <4> QED  BY <1>1, <3>1, <3>2, <4>1, <4>2
    <3>4. ItemsOf(heap, u) \subseteq P
      BY <3>3 DEF ItemsOf
    <3> QED  BY <2>2, <3>4 DEF Builds
  <2>3. u \notin Foreign \cup trail
    BY CopyRefused
  <2> QED  BY <2>1, <2>2, <2>3 DEF Sendable
<1>2. Levels \in S
  <2>1. 0 \in S /\ \A n \in Nat \ {0} : n - 1 \in S => n \in S
    BY <1>1
  <2> HIDE DEF S
  <2> QED  BY <2>1, AllNaturals, LevelsIs
<1>3. Containers \ {} = Containers /\ {} \in SUBSET Containers
  OBVIOUS
<1> QED  BY <1>2, <1>3 DEF Levels

\* The portable values are themselves such a set.
LEMMA PortablesBuild ==
  ASSUME NEW heap \in Heaps
  PROVE  Builds(heap, Portables(heap))
<1> SUFFICES ASSUME NEW v \in Sendable, v \in Scalars \/ (v \in Containers /\ ItemsOf(heap, v) \subseteq Portables(heap)),
                    NEW S \in SUBSET Sendable, Builds(heap, S)
             PROVE  v \in S
  BY DEF Builds, Portables
<1>1. Portables(heap) \subseteq S
  BY DEF Portables
<1>2. v \in Scalars \/ (v \in Containers /\ ItemsOf(heap, v) \subseteq S)
  BY <1>1
<1> QED  BY <1>2 DEF Builds

\* Everything that v leads to, itself among it.
Closed(heap, S) == \A c \in S : ItemsOf(heap, c) \subseteq S
LeadsTo(heap, v) == {u \in Sendable : \A S \in SUBSET Sendable : v \in S /\ Closed(heap, S) => u \in S}

LEMMA ItemsSendable ==
  ASSUME NEW heap \in Heaps, NEW v
  PROVE  ItemsOf(heap, v) \subseteq Sendable
  BY HeapIs DEF ItemsOf

LEMMA LeadsToItself ==
  ASSUME NEW heap \in Heaps, NEW v \in Sendable
  PROVE  v \in LeadsTo(heap, v) /\ Closed(heap, LeadsTo(heap, v))
<1>1. v \in LeadsTo(heap, v)
  BY DEF LeadsTo
<1>2. ASSUME NEW c \in LeadsTo(heap, v), NEW u \in ItemsOf(heap, c)
      PROVE  u \in LeadsTo(heap, v)
  <2>1. u \in Sendable
    BY ItemsSendable
  <2>2. ASSUME NEW S \in SUBSET Sendable, v \in S, Closed(heap, S)
        PROVE  u \in S
    <3>1. c \in S
      BY <2>2 DEF LeadsTo
    <3> QED  BY <2>2, <3>1 DEF Closed
  <2> QED  BY <2>1, <2>2 DEF LeadsTo
<1> QED  BY <1>1, <1>2 DEF Closed

\* What v leads to is v, and what its items lead to.
LEMMA LeadsThroughItems ==
  ASSUME NEW heap \in Heaps, NEW v \in Sendable
  PROVE  /\ \A w \in ItemsOf(heap, v) : LeadsTo(heap, w) \subseteq LeadsTo(heap, v)
         /\ \A u \in LeadsTo(heap, v) : u = v \/ \E w \in ItemsOf(heap, v) : u \in LeadsTo(heap, w)
<1>1. ASSUME NEW w \in ItemsOf(heap, v), NEW u \in LeadsTo(heap, w)
      PROVE  u \in LeadsTo(heap, v)
  <2>1. v \in LeadsTo(heap, v) /\ Closed(heap, LeadsTo(heap, v)) /\ LeadsTo(heap, v) \in SUBSET Sendable
    BY LeadsToItself DEF LeadsTo
  <2>2. w \in LeadsTo(heap, v)
    BY <2>1 DEF Closed
  <2> QED  BY <2>1, <2>2 DEF LeadsTo
<1>2. ASSUME NEW u \in LeadsTo(heap, v)
      PROVE  u = v \/ \E w \in ItemsOf(heap, v) : u \in LeadsTo(heap, w)
  <2> DEFINE S == {x \in Sendable : x = v \/ \E w \in ItemsOf(heap, v) : x \in LeadsTo(heap, w)}
  <2>1. v \in S
    OBVIOUS
  <2>2. ASSUME NEW c \in S, NEW x \in ItemsOf(heap, c)
        PROVE  x \in S
    <3>1. x \in Sendable
      BY ItemsSendable
    <3>2. CASE c = v
      <4>1. x \in LeadsTo(heap, x)
        BY <3>1, LeadsToItself
      <4> QED  BY <2>2, <3>1, <3>2, <4>1
    <3>3. CASE c # v
      <4>1. PICK w \in ItemsOf(heap, v) : c \in LeadsTo(heap, w)
        BY <3>3
      <4>2. w \in Sendable
        BY ItemsSendable
      <4>3. x \in LeadsTo(heap, w)
        BY <2>2, <4>1, <4>2, LeadsToItself DEF Closed
      <4> QED  BY <3>1, <4>3
    <3> QED  BY <3>2, <3>3
  <2>3. Closed(heap, S)
    BY <2>2 DEF Closed
  <2>4. u \in S
    <3>1. S \in SUBSET Sendable
      OBVIOUS
    <3> HIDE DEF S
    <3> QED  BY <2>1, <2>3, <3>1 DEF LeadsTo
  <2> QED  BY <2>4
<1> QED  BY <1>1, <1>2

\* No portable value leads back to itself.
LEMMA PortablesEnd ==
  ASSUME NEW heap \in Heaps, NEW v \in Portables(heap), NEW w \in ItemsOf(heap, v)
  PROVE  v \notin LeadsTo(heap, w)
<1> SUFFICES ASSUME v \in LeadsTo(heap, w)
             PROVE  FALSE
  OBVIOUS
<1> DEFINE S == {u \in Portables(heap) : v \notin LeadsTo(heap, u)}
<1>1. v \in Sendable /\ v \in Containers /\ v \notin Scalars
  BY PortableAssumption DEF Portables, ItemsOf
<1>2. ASSUME NEW u \in Sendable, u \in Scalars \/ (u \in Containers /\ ItemsOf(heap, u) \subseteq S)
      PROVE  u \in S
  <2>1. u \in Portables(heap)
    <3>1. S \subseteq Portables(heap)
      OBVIOUS
    <3> HIDE DEF S
    <3>2. u \in Scalars \/ (u \in Containers /\ ItemsOf(heap, u) \subseteq Portables(heap))
      BY <1>2, <3>1
    <3> QED  BY <3>2, PortablesBuild DEF Builds
  <2>2. ASSUME v \in LeadsTo(heap, u)
        PROVE  FALSE
    <3>1. u = v \/ \E x \in ItemsOf(heap, u) : v \in LeadsTo(heap, x)
      BY <2>2, LeadsThroughItems
    <3>2. CASE u \in Scalars
      <4>1. ItemsOf(heap, u) = {}
        BY <3>2, PortableAssumption DEF ItemsOf
      <4> QED  BY <1>1, <3>1, <3>2, <4>1
    <3>3. CASE ItemsOf(heap, u) \subseteq S
      <4>1. u = v
        BY <3>1, <3>3
      <4>2. w \in S
        BY <3>3, <4>1
      <4> QED  BY <4>2
    <3> QED  BY <1>2, <3>2, <3>3
  <2> QED  BY <2>1, <2>2
<1>3. Builds(heap, S)
  BY <1>2 DEF Builds
<1>4. v \in S
  <2>1. S \in SUBSET Sendable
    BY DEF Portables
  <2> HIDE DEF S
  <2> QED  BY <1>3, <2>1 DEF Portables
<1> QED  BY <1>1, <1>4, LeadsToItself

\* So a portable value is copied, for the trail never meets it again.
LEMMA PortableIsCopied ==
  ASSUME NEW heap \in Heaps, NEW v \in Portables(heap)
  PROVE  Copy(heap)[{}][v] # Refused
<1> DEFINE S == {u \in Portables(heap) : \A trail \in SUBSET Containers :
                    trail \cap LeadsTo(heap, u) = {} => Copy(heap)[trail][u] # Refused}
<1>1. ASSUME NEW u \in Sendable, u \in Scalars \/ (u \in Containers /\ ItemsOf(heap, u) \subseteq S)
      PROVE  u \in S
  <2>1. u \in Portables(heap)
    <3>1. S \subseteq Portables(heap)
      OBVIOUS
    <3> HIDE DEF S
    <3>2. u \in Scalars \/ (u \in Containers /\ ItemsOf(heap, u) \subseteq Portables(heap))
      BY <1>1, <3>1
    <3> QED  BY <3>2, PortablesBuild DEF Builds
  <2>2. ASSUME NEW trail \in SUBSET Containers, trail \cap LeadsTo(heap, u) = {}
        PROVE  Copy(heap)[trail][u] # Refused
    <3>1. CASE u \in Scalars
      <4>1. Copy(heap)[trail][u] = Leaf(u)
        BY <3>1, CopyOfScalar
      <4> QED  BY <3>1, <4>1, PortableAssumption DEF Leaf, Refused
    <3>2. CASE u \in Containers /\ ItemsOf(heap, u) \subseteq S
      <4> DEFINE longer == trail \cup {u}
                 parts == [i \in DOMAIN heap[u].items |-> Copy(heap)[longer][heap[u].items[i]]]
      <4>1. u \in Containers \ trail
        BY <2>2, <3>2, LeadsToItself
      <4>2. ASSUME NEW i \in DOMAIN heap[u].items
            PROVE  parts[i] # Refused
        <5> DEFINE w == heap[u].items[i]
        <5>1. w \in ItemsOf(heap, u)
          BY <3>2 DEF ItemsOf
        <5>2. u \notin LeadsTo(heap, w)
          BY <2>1, <5>1, PortablesEnd
        <5>3. LeadsTo(heap, w) \subseteq LeadsTo(heap, u)
          BY <5>1, LeadsThroughItems
        <5>4. longer \in SUBSET Containers /\ longer \cap LeadsTo(heap, w) = {}
          BY <2>2, <3>2, <5>2, <5>3
        <5>5. w \in S
          BY <3>2, <5>1
        <5>6. parts[i] = Copy(heap)[longer][w]
          OBVIOUS
        <5> HIDE DEF longer, w, parts
        <5> QED  BY <5>4, <5>5, <5>6
      <4>3. Copy(heap)[trail][u] = Container(heap[u].kind, parts)
        BY <4>1, <4>2, CopyOfContainer
      <4>4. heap[u].kind \in Kinds
        BY <3>2, HeapIs
      <4> HIDE DEF parts
      <4> QED  BY <4>3, <4>4 DEF Container, Refused, Kinds
    <3> QED  BY <1>1, <3>1, <3>2
  <2> QED  BY <2>1, <2>2
<1>2. Builds(heap, S)
  BY <1>1 DEF Builds
<1>3. v \in S
  <2>1. S \in SUBSET Sendable
    BY DEF Portables
  <2> HIDE DEF S
  <2> QED  BY <1>2, <2>1 DEF Portables
<1>4. {} \in SUBSET Containers /\ {} \cap LeadsTo(heap, v) = {}
  OBVIOUS
<1> QED  BY <1>3, <1>4

-----------------------------------------------------------------------------
(* The specification *)

\* What the receiver has is what the sender's value turns into.
CrossedInv ==
    sent # <<>> => \E heap \in Heaps, v \in Sendable : sent = <<heap, v>> /\ received = Crossed(heap, v)

LEMMA CrossedIsWhole == CrossedInv => PortableCrossesWhole
<1> SUFFICES ASSUME CrossedInv, sent # <<>>
             PROVE  PortableCrossesWhole
  BY DEF PortableCrossesWhole
<1>1. PICK heap \in Heaps, v \in Sendable : sent = <<heap, v>> /\ received = Crossed(heap, v)
  BY DEF CrossedInv
<1> DEFINE pv == Copy(heap)[{}][v]
<1>2. sent[1] = heap /\ sent[2] = v
  BY <1>1
<1>3. received = IF pv = Refused THEN Refused ELSE ToValue[pv]
  BY <1>1 DEF Crossed, FromValue
<1>4. pv = Refused \/ (pv \in TreesOf(Levels) /\ ToValue[pv] = pv /\ v \in LooksLike(heap)[pv])
  BY AllCopied DEF Copied
<1>5. v \in Portables(heap) <=> pv # Refused
  BY CopiedIsPortable, PortableIsCopied
<1>6. TreesOf(Levels) = PortableValues
  BY TreesIs
<1> HIDE DEF pv
<1> QED  BY <1>2, <1>3, <1>4, <1>5, <1>6 DEF PortableCrossesWhole

\* Whatever the heap, a value crosses exactly when it is a finite tree of portable types, and the receiver's
\* looks the same all the way down; all others, cycles and parts of the heap, are refused (portable.c).
THEOREM ValuesCrossWhole == PortableSpec => []PortableCrossesWhole
<1>1. PortableInit => CrossedInv
  BY DEF PortableInit, CrossedInv
<1>2. CrossedInv /\ [PortableNext]_portableVars => CrossedInv'
  <2> SUFFICES ASSUME CrossedInv, [PortableNext]_portableVars
               PROVE  CrossedInv'
    OBVIOUS
  <2>1. CASE PortableNext
    BY <2>1 DEF PortableNext, Cross, CrossedInv
  <2>2. CASE UNCHANGED portableVars
    BY <2>2 DEF CrossedInv, portableVars
  <2> QED  BY <2>1, <2>2
<1> QED  BY <1>1, <1>2, CrossedIsWhole, PTL DEF PortableSpec
-----------------------------------------------------------------------------
(* Running totals *)

\* t[n] for n up to k, where each is the one before plus w[n].
Totals(t, w, k) == t = [n \in 0 .. k |-> IF n = 0 THEN 0 ELSE t[n - 1] + w[n]]

LEMMA TotalsExist ==
  ASSUME NEW N \in Nat, NEW w \in [1 .. N -> Int], NEW k \in 0 .. N
  PROVE  \E t \in [0 .. k -> Int] : Totals(t, w, k)
<1> DEFINE S == {j \in Nat : j <= N => \E t \in [0 .. j -> Int] : Totals(t, w, j)}
<1>1. 0 \in S
  <2> DEFINE t == [n \in 0 .. 0 |-> 0]
  <2>1. t \in [0 .. 0 -> Int] /\ Totals(t, w, 0)
    BY DEF Totals
  <2> QED  BY <2>1
<1>2. ASSUME NEW j \in Nat \ {0}, j - 1 \in S
      PROVE  j \in S
  <2> SUFFICES ASSUME j <= N
               PROVE  \E t \in [0 .. j -> Int] : Totals(t, w, j)
    OBVIOUS
  <2>1. PICK t \in [0 .. j - 1 -> Int] : Totals(t, w, j - 1)
    BY <1>2
  <2> DEFINE u == [n \in 0 .. j |-> IF n = j THEN t[j - 1] + w[j] ELSE t[n]]
  <2>2. u \in [0 .. j -> Int]
    OBVIOUS
  <2>3. u = [n \in 0 .. j |-> IF n = 0 THEN 0 ELSE u[n - 1] + w[n]]
    <3>1. ASSUME NEW n \in 0 .. j
          PROVE  u[n] = IF n = 0 THEN 0 ELSE u[n - 1] + w[n]
      <4>1. CASE n = j
        BY <4>1
      <4>2. CASE n \in 0 .. j - 1
        <5>1. t[n] = IF n = 0 THEN 0 ELSE t[n - 1] + w[n]
          BY <2>1, <4>2 DEF Totals
        <5>2. n # 0 => u[n - 1] = t[n - 1]
          BY <4>2
        <5> QED  BY <4>2, <5>1, <5>2
      <4> QED  BY <4>1, <4>2
    <3> QED  BY <3>1
  <2> QED  BY <2>2, <2>3 DEF Totals
<1> HIDE DEF S
<1>3. Nat \subseteq S
  BY <1>1, <1>2, AllNaturals
<1> QED  BY <1>3 DEF S

LEMMA AppendTotal ==
  ASSUME NEW N \in Nat, NEW t \in [0 .. N -> Int], NEW n \in 1 .. N
  PROVE  LET b == [k \in 1 .. n |-> t[k - 1]]
         IN b[n] = t[n - 1] /\ Append(b, t[n]) = [k \in 1 .. n + 1 |-> t[k - 1]]
<1> DEFINE b == [k \in 1 .. n |-> t[k - 1]]
           c == Append(b, t[n])
<1>1. b \in Seq(Int) /\ Len(b) = n /\ t[n] \in Int
  OBVIOUS
<1>2. b[n] = t[n - 1]
  OBVIOUS
<1>3. \A k \in 1 .. n : b[k] = t[k - 1]
  OBVIOUS
<1> HIDE DEF b
<1>4. c \in Seq(Int) /\ Len(c) = n + 1 /\ c[n + 1] = t[n] /\ \A k \in 1 .. n : c[k] = b[k]
  BY <1>1
<1> HIDE DEF c
<1>5. c = [k \in 1 .. n + 1 |-> c[k]]
  BY <1>4
<1>6. ASSUME NEW k \in 1 .. n + 1
      PROVE  c[k] = t[k - 1]
  <2>1. CASE k \in 1 .. n
    BY <1>3, <1>4, <2>1
  <2>2. CASE k = n + 1
    <3>1. k - 1 = n
      BY <2>2
    <3> QED  BY <1>4, <2>2, <3>1
  <2> QED  BY <2>1, <2>2
<1>7. c = [k \in 1 .. n + 1 |-> t[k - 1]]
  BY <1>5, <1>6
<1> QED  BY <1>2, <1>7 DEF b, c

\* The sequences that Sums goes through.
Summing(f, w) ==
    f = [n \in 0 .. Len(w) |->
            IF n = 0 THEN <<0>> ELSE LET before == f[n - 1] IN Append(before, before[n] + w[n])]

LEMMA SummingExists ==
  ASSUME NEW N \in Nat, NEW w \in [1 .. N -> Int]
  PROVE  \E f : Summing(f, w)
<1>1. PICK t \in [0 .. N -> Int] : Totals(t, w, N)
  BY TotalsExist
<1> DEFINE f == [n \in 0 .. N |-> [k \in 1 .. n + 1 |-> t[k - 1]]]
<1>2. Len(w) = N
  OBVIOUS
<1>3. ASSUME NEW n \in 0 .. N
      PROVE  f[n] = IF n = 0 THEN <<0>> ELSE LET before == f[n - 1] IN Append(before, before[n] + w[n])
  <2>1. CASE n = 0
    <3>1. t[0] = 0
      BY <1>1 DEF Totals
    <3>2. [k \in 1 .. 0 + 1 |-> t[k - 1]] = <<0>>
      BY <3>1
    <3> QED  BY <2>1, <3>2
  <2>2. CASE n # 0
    <3> DEFINE b == f[n - 1]
    <3>1. b = [k \in 1 .. n |-> t[k - 1]]
      BY <2>2
    <3>2. t[n] = t[n - 1] + w[n]
      BY <1>1, <2>2 DEF Totals
    <3>3. f[n] = [k \in 1 .. n + 1 |-> t[k - 1]]
      OBVIOUS
    <3>4. n \in 1 .. N
      BY <2>2
    <3> HIDE DEF b, f
    <3>5. b[n] = t[n - 1] /\ Append(b, t[n]) = f[n]
      BY <3>1, <3>3, <3>4, AppendTotal
    <3>6. f[n] = Append(b, b[n] + w[n])
      BY <3>2, <3>5
    <3> QED  BY <2>2, <3>6 DEF b
  <2> QED  BY <2>1, <2>2
<1>4. f = [n \in 0 .. N |-> IF n = 0 THEN <<0>> ELSE LET before == f[n - 1] IN Append(before, before[n] + w[n])]
  <2> DEFINE g == [n \in 0 .. N |-> IF n = 0 THEN <<0>> ELSE LET before == f[n - 1] IN Append(before, before[n] + w[n])]
  <2>1. \A n \in 0 .. N : f[n] = g[n]
    BY <1>3
  <2> QED  BY <2>1
<1> HIDE DEF f
<1> QED  BY <1>2, <1>4 DEF Summing

\* From 0, each is the one before plus what w has there.
LEMMA SumsIs ==
  ASSUME NEW N \in Nat, NEW w \in [1 .. N -> Int]
  PROVE  /\ Sums(w) \in [1 .. N + 1 -> Int]
         /\ Sums(w)[1] = 0
         /\ \A n \in 1 .. N : Sums(w)[n + 1] = Sums(w)[n] + w[n]
<1> DEFINE f == CHOOSE h : Summing(h, w)
<1>1. Summing(f, w)
  BY SummingExists
<1>2. Sums(w) = f[Len(w)]
  <2>1. f = CHOOSE h : h = [n \in 0 .. Len(w) |->
              IF n = 0 THEN <<0>> ELSE LET before == h[n - 1] IN Append(before, before[n] + w[n])]
    BY DEF Summing
  <2> HIDE DEF f
  <2> QED  BY <2>1 DEF Sums
<1> HIDE DEF f
<1>3. Len(w) = N
  OBVIOUS
<1>4. PICK t \in [0 .. N -> Int] : Totals(t, w, N)
  BY TotalsExist
<1> DEFINE S == {n \in Nat : n <= N => f[n] = [k \in 1 .. n + 1 |-> t[k - 1]]}
<1>5. 0 \in S
  <2>1. f[0] = <<0>>
    BY <1>1, <1>3 DEF Summing
  <2>2. t[0] = 0
    BY <1>4 DEF Totals
  <2>3. [k \in 1 .. 0 + 1 |-> t[k - 1]] = <<0>>
    BY <2>2
  <2> QED  BY <2>1, <2>3
<1>6. ASSUME NEW n \in Nat \ {0}, n - 1 \in S
      PROVE  n \in S
  <2> SUFFICES ASSUME n <= N
               PROVE  f[n] = [k \in 1 .. n + 1 |-> t[k - 1]]
    OBVIOUS
  <2> DEFINE b == f[n - 1]
  <2>1. n \in 1 .. N
    OBVIOUS
  <2>2. f[n] = Append(b, b[n] + w[n])
    <3>1. n \in 0 .. Len(w) /\ n # 0
      BY <1>3, <2>1
    <3> HIDE DEF S
    <3> QED  BY <1>1, <3>1 DEF Summing
  <2>3. b = [k \in 1 .. n |-> t[k - 1]]
    BY <1>6
  <2>4. t[n] = t[n - 1] + w[n]
    BY <1>4, <2>1 DEF Totals
  <2> HIDE DEF b
  <2>5. b[n] = t[n - 1] /\ Append(b, t[n]) = [k \in 1 .. n + 1 |-> t[k - 1]]
    BY <2>1, <2>3, AppendTotal
  <2> QED  BY <2>2, <2>4, <2>5
<1> HIDE DEF S
<1>7. N \in S
  BY <1>5, <1>6, AllNaturals
<1>8. Sums(w) = [k \in 1 .. N + 1 |-> t[k - 1]]
  BY <1>2, <1>3, <1>7 DEF S
<1>9. t[0] = 0 /\ \A n \in 1 .. N : t[n] = t[n - 1] + w[n]
  BY <1>4 DEF Totals
<1> QED  BY <1>8, <1>9

\* Where nothing is taken away they do not fall, and where nothing is added they stay.
LEMMA SumsRise ==
  ASSUME NEW N \in Nat, NEW w \in [1 .. N -> Int], NEW i \in 1 .. N + 1, NEW j \in i .. N + 1,
         \A k \in i .. j - 1 : w[k] >= 0
  PROVE  /\ Sums(w)[i] <= Sums(w)[j]
         /\ (\A k \in i .. j - 1 : w[k] = 0) => Sums(w)[i] = Sums(w)[j]
<1> DEFINE s == Sums(w)
<1>1. s \in [1 .. N + 1 -> Int] /\ \A n \in 1 .. N : s[n + 1] = s[n] + w[n]
  BY SumsIs
<1> HIDE DEF s
<1> DEFINE S == {d \in Nat : i + d <= j => /\ s[i] <= s[i + d]
                                           /\ (\A k \in i .. j - 1 : w[k] = 0) => s[i] = s[i + d]}
<1>2. 0 \in S
  BY <1>1
<1>3. ASSUME NEW d \in Nat \ {0}, d - 1 \in S
      PROVE  d \in S
  <2> SUFFICES ASSUME i + d <= j
               PROVE  /\ s[i] <= s[i + d]
                      /\ (\A k \in i .. j - 1 : w[k] = 0) => s[i] = s[i + d]
    OBVIOUS
  <2> DEFINE n == i + (d - 1)
  <2>1. n \in i .. j - 1 /\ n \in 1 .. N /\ n + 1 = i + d
    OBVIOUS
  <2>2. s[i] <= s[n] /\ ((\A k \in i .. j - 1 : w[k] = 0) => s[i] = s[n])
    BY <1>3
  <2> HIDE DEF n
  <2>3. s[n + 1] = s[n] + w[n] /\ w[n] >= 0
    BY <1>1, <2>1
  <2>4. s[i] \in Int /\ s[n] \in Int /\ w[n] \in Int
    BY <1>1, <2>1
  <2>5. s[n] <= s[n + 1]
    BY <2>3, <2>4
  <2>6. ASSUME \A k \in i .. j - 1 : w[k] = 0
        PROVE  s[i] = s[n + 1]
    BY <2>1, <2>2, <2>3, <2>4, <2>6
  <2>7. s[i] <= s[n + 1]
    BY <2>2, <2>3, <2>4
  <2> QED  BY <2>1, <2>6, <2>7
<1> HIDE DEF S
<1>4. j - i \in S
  BY <1>2, <1>3, AllNaturals
<1>5. i + (j - i) = j
  OBVIOUS
<1> QED  BY <1>4, <1>5 DEF S, s

-----------------------------------------------------------------------------
(* Where instructions start *)

LEMMA OffsetsIs ==
  ASSUME NEW code \in Codes
  PROVE  /\ Offsets(code) \in [1 .. Len(code) + 1 -> Int]
         /\ Offsets(code)[1] = 0
         /\ \A i \in DOMAIN code : Offsets(code)[i + 1] = Offsets(code)[i] + Width(code[i].op)
         /\ \A i \in 1 .. Len(code) + 1 : \A j \in i .. Len(code) + 1 : Offsets(code)[i] <= Offsets(code)[j]
<1> DEFINE N == Len(code)
           w == [i \in DOMAIN code |-> Width(code[i].op)]
<1>1. N \in Nat /\ DOMAIN code = 1 .. N /\ w \in [1 .. N -> Nat]
  BY CodesAssumption
<1>2. Offsets(code) = Sums(w)
  BY DEF Offsets
<1>3. \A i \in DOMAIN code : w[i] = Width(code[i].op)
  OBVIOUS
<1> HIDE DEF w, N
<1>4. w \in [1 .. N -> Int]
  BY <1>1
<1>5. /\ Sums(w) \in [1 .. N + 1 -> Int]
      /\ Sums(w)[1] = 0
      /\ \A n \in 1 .. N : Sums(w)[n + 1] = Sums(w)[n] + w[n]
  BY <1>1, <1>4, SumsIs
<1>6. ASSUME NEW i \in 1 .. N + 1, NEW j \in i .. N + 1
      PROVE  Sums(w)[i] <= Sums(w)[j]
  <2>1. \A k \in i .. j - 1 : w[k] >= 0
    BY <1>1
  <2> QED  BY <1>1, <1>4, <2>1, SumsRise
<1> QED  BY <1>1, <1>2, <1>3, <1>5, <1>6 DEF N

\* A jump takes three bytes.
LEMMA BehindAJump ==
  ASSUME NEW code \in Codes, NEW i \in Sites(code), NEW j \in i + 1 .. Len(code) + 1
  PROVE  Offsets(code)[i] + 3 <= Offsets(code)[j]
<1>1. Len(code) \in Nat /\ DOMAIN code = 1 .. Len(code) /\ i \in DOMAIN code
  BY CodesAssumption DEF Sites
<1>2. Width(code[i].op) = 3
  BY DEF Sites, Width, JumpOps, CondJumpOps
<1>3. Offsets(code)[i + 1] = Offsets(code)[i] + 3
  BY <1>1, <1>2, OffsetsIs
<1>4. i + 1 \in 1 .. Len(code) + 1 /\ j \in (i + 1) .. Len(code) + 1
  BY <1>1
<1>5. Offsets(code)[i + 1] <= Offsets(code)[j]
  BY <1>4, OffsetsIs
<1> QED  BY <1>3, <1>5

\* What each instruction grows by when those in long are wide.
Growths(code, long) == [i \in DOMAIN code |-> IF i \in Sites(code) THEN RelaxSize(code[i].op, i \in long) - 3 ELSE 0]

LEMMA PrefixIs ==
  ASSUME NEW code \in Codes, NEW long
  PROVE  LET cum == Prefix(code, long)
         IN /\ cum \in [1 .. Len(code) + 1 -> Int]
            /\ cum[1] = 0
            /\ \A i \in DOMAIN code : cum[i + 1] = cum[i] + Growths(code, long)[i]
            /\ \A i \in 1 .. Len(code) + 1 : \A j \in i .. Len(code) + 1 :
                /\ cum[i] <= cum[j]
                /\ (\A k \in i .. j - 1 : Growths(code, long)[k] = 0) => cum[i] = cum[j]
<1> DEFINE N == Len(code)
           w == Growths(code, long)
<1>1. N \in Nat /\ DOMAIN code = 1 .. N
  BY CodesAssumption
<1>2. w \in [1 .. N -> Nat]
  BY <1>1 DEF Growths, RelaxSize
<1>3. Prefix(code, long) = Sums(w)
  BY DEF Prefix, Growths
<1> HIDE DEF w, N
<1>4. w \in [1 .. N -> Int]
  BY <1>2
<1>5. /\ Sums(w) \in [1 .. N + 1 -> Int]
      /\ Sums(w)[1] = 0
      /\ \A n \in 1 .. N : Sums(w)[n + 1] = Sums(w)[n] + w[n]
  BY <1>1, <1>4, SumsIs
<1>6. ASSUME NEW i \in 1 .. N + 1, NEW j \in i .. N + 1
      PROVE  /\ Sums(w)[i] <= Sums(w)[j]
             /\ (\A k \in i .. j - 1 : w[k] = 0) => Sums(w)[i] = Sums(w)[j]
  <2>1. \A k \in i .. j - 1 : w[k] >= 0
    BY <1>1, <1>2
  <2> QED  BY <1>1, <1>4, <2>1, SumsRise
<1> QED  BY <1>1, <1>3, <1>5, <1>6 DEF N, w

LEMMA MaxIs ==
  ASSUME NEW N \in Nat, NEW S \in SUBSET (1 .. N), S # {}
  PROVE  Max(S) \in S /\ \A x \in S : x <= Max(S)
<1> DEFINE P == {n \in Nat : (\E x \in S : x >= N - n) => \E x \in S : \A y \in S : x >= y}
<1>1. 0 \in P
  BY DEF P
<1>2. ASSUME NEW n \in Nat \ {0}, n - 1 \in P
      PROVE  n \in P
  <2> SUFFICES ASSUME NEW x \in S, x >= N - n
               PROVE  \E m \in S : \A y \in S : m >= y
    OBVIOUS
  <2>1. CASE \E y \in S : y >= N - (n - 1)
    BY <1>2, <2>1
  <2>2. CASE \A y \in S : ~ (y >= N - (n - 1))
    <3>1. \A y \in S : x >= y
      BY <2>2
    <3> QED  BY <3>1
  <2> QED  BY <2>1, <2>2
<1> HIDE DEF P
<1>3. N \in P
  BY <1>1, <1>2, AllNaturals
<1>4. \E x \in S : \A y \in S : x >= y
  <2>1. \E x \in S : x >= N - N
    <3>1. N - N = 0
      OBVIOUS
    <3>2. PICK x \in S : TRUE
      OBVIOUS
    <3>3. x \in 1 .. N
      OBVIOUS
    <3> QED  BY <3>1, <3>2, <3>3
  <2> QED  BY <1>3, <2>1 DEF P
<1>5. Max(S) \in S /\ \A y \in S : Max(S) >= y
  BY <1>4 DEF Max
<1> QED  BY <1>5

\* An instruction moves by what the jumps before it have grown.
LEMMA ShiftIs ==
  ASSUME NEW code \in Codes, NEW long, NEW t \in 1 .. Len(code) + 1
  PROVE  Shift(code, Prefix(code, long), Offsets(code)[t]) = Offsets(code)[t] + Prefix(code, long)[t]
<1> DEFINE N == Len(code)
           at == Offsets(code)
           cum == Prefix(code, long)
           starts == {i \in Sites(code) : at[i] <= at[t] - 3}
<1>1. N \in Nat /\ DOMAIN code = 1 .. N
  BY CodesAssumption
<1>2. Sites(code) \subseteq 1 .. N
  BY <1>1 DEF Sites
<1>3. at \in [1 .. N + 1 -> Int] /\ cum \in [1 .. N + 1 -> Int]
  BY OffsetsIs, PrefixIs
<1>4. ASSUME NEW i \in Sites(code)
      PROVE  at[i] <= at[t] - 3 <=> i < t
  <2>1. CASE i < t
    <3>1. t \in i + 1 .. Len(code) + 1
      BY <1>1, <1>2, <2>1
    <3>2. at[i] + 3 <= at[t]
      BY <3>1, BehindAJump
    <3> QED  BY <1>2, <1>3, <2>1, <3>2
  <2>2. CASE ~ (i < t)
    <3>1. i \in t .. Len(code) + 1
      BY <1>1, <1>2, <2>2
    <3>2. at[t] <= at[i]
      BY <3>1, OffsetsIs
    <3> QED  BY <1>2, <1>3, <2>2, <3>2
  <2> QED  BY <2>1, <2>2
<1>5. Shift(code, cum, at[t]) = at[t] + (IF starts = {} THEN 0 ELSE cum[Max(starts) + 1])
  BY DEF Shift, Growth
<1>6. cum[t] = IF starts = {} THEN 0 ELSE cum[Max(starts) + 1]
  <2>1. starts = {i \in Sites(code) : i < t}
    BY <1>4
  <2> HIDE DEF starts, at
  <2>2. CASE starts = {}
    <3>1. \A k \in 1 .. t - 1 : Growths(code, long)[k] = 0
      BY <1>1, <2>1, <2>2 DEF Growths
    <3>2. 1 \in 1 .. Len(code) + 1 /\ t \in 1 .. Len(code) + 1
      BY <1>1
    <3>3. cum[1] = cum[t] /\ cum[1] = 0
      BY <3>1, <3>2, PrefixIs
    <3> QED  BY <2>2, <3>3
  <2>3. CASE starts # {}
    <3> DEFINE m == Max(starts)
    <3>1. m \in starts /\ \A x \in starts : x <= m
      BY <1>1, <1>2, <2>1, <2>3, MaxIs
    <3> HIDE DEF m
    <3>2. m + 1 \in 1 .. Len(code) + 1 /\ t \in m + 1 .. Len(code) + 1
      BY <1>1, <1>2, <2>1, <3>1
    <3>3. \A k \in m + 1 .. t - 1 : Growths(code, long)[k] = 0
      BY <1>1, <1>2, <2>1, <3>1 DEF Growths
    <3>4. cum[m + 1] = cum[t]
      BY <3>2, <3>3, PrefixIs
    <3> QED  BY <2>3, <3>4 DEF m
  <2> QED  BY <2>2, <2>3
<1> QED  BY <1>5, <1>6

-----------------------------------------------------------------------------
(* Which jumps are widened *)

Rounds(f, code, maxShort) ==
    f = [n \in 0 .. Len(code) |-> IF n = 0 THEN {} ELSE Marked(code, f[n - 1], maxShort)]

LEMMA RoundsExist ==
  ASSUME NEW code \in Codes, NEW maxShort
  PROVE  \E f : Rounds(f, code, maxShort)
<1> DEFINE N == Len(code)
           Upto(f, j) == f = [n \in 0 .. j |-> IF n = 0 THEN {} ELSE Marked(code, f[n - 1], maxShort)]
           S == {j \in Nat : \E f : Upto(f, j)}
<1>1. N \in Nat
  BY CodesAssumption
<1>2. 0 \in S
  <2> DEFINE f == [n \in 0 .. 0 |-> {}]
  <2>1. f = [n \in 0 .. 0 |-> IF n = 0 THEN {} ELSE Marked(code, f[n - 1], maxShort)]
    <3>1. \A n \in 0 .. 0 : n = 0
      OBVIOUS
    <3> QED  BY <3>1
  <2>2. Upto(f, 0)
    BY <2>1
  <2> QED  BY <2>2
<1>3. ASSUME NEW j \in Nat \ {0}, j - 1 \in S
      PROVE  j \in S
  <2>1. PICK f : Upto(f, j - 1)
    BY <1>3
  <2> DEFINE g == [n \in 0 .. j |-> IF n = j THEN Marked(code, f[j - 1], maxShort) ELSE f[n]]
  <2>2. ASSUME NEW n \in 0 .. j
        PROVE  g[n] = IF n = 0 THEN {} ELSE Marked(code, g[n - 1], maxShort)
    <3>1. CASE n = j
      <4>1. g[n - 1] = f[j - 1]
        BY <3>1
      <4> QED  BY <3>1, <4>1
    <3>2. CASE n \in 0 .. j - 1
      <4>1. f[n] = IF n = 0 THEN {} ELSE Marked(code, f[n - 1], maxShort)
        BY <2>1, <3>2
      <4>2. n # 0 => g[n - 1] = f[n - 1]
        BY <3>2
      <4>3. g[n] = f[n]
        BY <3>2
      <4> QED  BY <4>1, <4>2, <4>3
    <3> QED  BY <3>1, <3>2
  <2>3. Upto(g, j)
    <3> DEFINE h == [n \in 0 .. j |-> IF n = 0 THEN {} ELSE Marked(code, g[n - 1], maxShort)]
    <3>1. \A n \in 0 .. j : g[n] = h[n]
      BY <2>2
    <3> QED  BY <3>1
  <2> HIDE DEF g
  <2> QED  BY <2>3
<1> HIDE DEF S
<1>4. N \in S
  BY <1>1, <1>2, <1>3, AllNaturals
<1> QED  BY <1>4 DEF S, Rounds

\* What is marked stays marked, and the rounds end: each but the last marks a jump more.
LEMMA MarkingEnds ==
  ASSUME NEW code \in Codes, NEW maxShort
  PROVE  /\ MarkedAll(code, maxShort) \subseteq Sites(code)
         /\ Marked(code, MarkedAll(code, maxShort), maxShort) = MarkedAll(code, maxShort)
<1> DEFINE N == Len(code)
           f == CHOOSE g : Rounds(g, code, maxShort)
<1>1. Rounds(f, code, maxShort)
  BY RoundsExist
<1>2. MarkedAll(code, maxShort) = f[CHOOSE n \in 0 .. N : Marked(code, f[n], maxShort) = f[n]]
  BY DEF MarkedAll, Rounds
<1> HIDE DEF f
<1>3. N \in Nat /\ Sites(code) \subseteq 1 .. N
  BY CodesAssumption DEF Sites
<1>4. f[0] = {} /\ \A n \in 1 .. N : f[n] = Marked(code, f[n - 1], maxShort)
  <2>1. \A n \in 0 .. N : f[n] = IF n = 0 THEN {} ELSE Marked(code, f[n - 1], maxShort)
    BY <1>1 DEF Rounds
  <2> QED  BY <1>3, <2>1
<1>5. \A long : long \subseteq Marked(code, long, maxShort) /\ Marked(code, long, maxShort) \subseteq long \cup Sites(code)
  BY DEF Marked
<1> DEFINE S == {n \in Nat : n <= N => f[n] \subseteq Sites(code)}
<1>6. 0 \in S
  BY <1>4
<1>7. ASSUME NEW n \in Nat \ {0}, n - 1 \in S
      PROVE  n \in S
  BY <1>4, <1>5, <1>7
<1> HIDE DEF S
<1>8. \A n \in 0 .. N : f[n] \subseteq Sites(code)
  <2>1. Nat \subseteq S
    BY <1>6, <1>7, AllNaturals
  <2> QED  BY <2>1 DEF S
<1>9. \E n \in 0 .. N : Marked(code, f[n], maxShort) = f[n]
  <2> SUFFICES ASSUME \A n \in 0 .. N : Marked(code, f[n], maxShort) # f[n]
               PROVE  FALSE
    OBVIOUS
  <2>1. IsFiniteSet(1 .. N) /\ Cardinality(1 .. N) = N
    BY <1>3, FS_Interval
  <2>2. ASSUME NEW s \in SUBSET (1 .. N)
        PROVE  IsFiniteSet(s) /\ Cardinality(s) \in 0 .. N
    <3>1. IsFiniteSet(s) /\ Cardinality(s) <= N
      BY <2>1, FS_Subset
    <3>2. Cardinality(s) \in Nat
      BY <3>1, FS_CardinalityType
    <3> QED  BY <1>3, <3>1, <3>2
  <2>3. ASSUME NEW s \in SUBSET (1 .. N), NEW r \in SUBSET s, r # s
        PROVE  Cardinality(r) < Cardinality(s)
    <3>1. IsFiniteSet(s) /\ Cardinality(s) \in Nat /\ Cardinality(r) \in Nat
      BY <1>3, <2>2, <2>3
    <3>2. Cardinality(r) <= Cardinality(s) /\ (Cardinality(s) = Cardinality(r) => s = r)
      BY <3>1, FS_Subset
    <3> QED  BY <2>3, <3>1, <3>2
  <2> DEFINE T == {n \in Nat : n <= N => Cardinality(f[n]) >= n}
  <2>4. 0 \in T
    BY <1>3, <1>4, <1>8, <2>2
  <2>5. ASSUME NEW n \in Nat \ {0}, n - 1 \in T
        PROVE  n \in T
    <3> SUFFICES ASSUME n <= N
                 PROVE  Cardinality(f[n]) >= n
      OBVIOUS
    <3>1. n \in 1 .. N /\ n - 1 \in 0 .. N
      OBVIOUS
    <3>2. f[n] \in SUBSET (1 .. N) /\ f[n - 1] \in SUBSET f[n] /\ f[n - 1] # f[n]
      BY <1>3, <1>4, <1>5, <1>8, <3>1
    <3>3. Cardinality(f[n - 1]) < Cardinality(f[n])
      BY <2>3, <3>2
    <3>4. Cardinality(f[n - 1]) >= n - 1
      BY <2>5, <3>1
    <3>5. Cardinality(f[n - 1]) \in Nat /\ Cardinality(f[n]) \in Nat
      BY <1>3, <2>2, <3>2
    <3> QED  BY <3>3, <3>4, <3>5
  <2> HIDE DEF T
  <2>6. Cardinality(f[N]) >= N
    <3>1. N \in T
      BY <1>3, <2>4, <2>5, AllNaturals
    <3> QED  BY <1>3, <3>1 DEF T
  <2> DEFINE next == Marked(code, f[N], maxShort)
  <2>7. next \in SUBSET (1 .. N) /\ f[N] \in SUBSET next /\ f[N] # next
    BY <1>3, <1>5, <1>8
  <2> HIDE DEF next
  <2>8. Cardinality(f[N]) < Cardinality(next)
    BY <2>3, <2>7
  <2>9. Cardinality(next) \in 0 .. N /\ Cardinality(f[N]) \in 0 .. N
    BY <1>3, <1>8, <2>2, <2>7
  <2> QED  BY <1>3, <2>6, <2>8, <2>9
<1> DEFINE n == CHOOSE k \in 0 .. N : Marked(code, f[k], maxShort) = f[k]
<1>10. n \in 0 .. N /\ Marked(code, f[n], maxShort) = f[n]
  BY <1>9
<1>11. MarkedAll(code, maxShort) = f[n]
  BY <1>2
<1> HIDE DEF n
<1> QED  BY <1>8, <1>10, <1>11

\* A jump that is not widened reaches its target in the end.
LEMMA UnmarkedFit ==
  ASSUME NEW code \in Codes, NEW maxShort, NEW i \in Sites(code) \ MarkedAll(code, maxShort)
  PROVE  LET cum == Prefix(code, MarkedAll(code, maxShort))
             at == Offsets(code)
             to == TargetOf(code, i)
         IN Fits(Reach(code[i].op, at[i] + cum[i], 3, at[to] + cum[to]), maxShort)
<1> DEFINE long == MarkedAll(code, maxShort)
           to == TargetOf(code, i)
<1>1. i \in 1 .. Len(code) + 1 /\ to \in 1 .. Len(code) + 1
  BY CodesAssumption DEF Sites
<1>2. Fits(Reach(code[i].op, Shift(code, Prefix(code, long), Offsets(code)[i]), 3,
                 Shift(code, Prefix(code, long), Offsets(code)[to])), maxShort)
  BY MarkingEnds DEF Marked
<1> HIDE DEF long, to
<1> QED  BY <1>1, <1>2, ShiftIs DEF long, to

-----------------------------------------------------------------------------
(* What goes out *)

LEMMA BytesOfOne ==
  ASSUME NEW x, x.bytes \in Int
  PROVE  Bytes(<<x>>) = x.bytes
<1> DEFINE w == [i \in DOMAIN <<x>> |-> <<x>>[i].bytes]
<1>1. w \in [1 .. 1 -> Int] /\ w[1] = x.bytes
  OBVIOUS
<1>2. Bytes(<<x>>) = Sums(w)[2]
  BY DEF Bytes
<1> HIDE DEF w
<1>3. 1 \in Nat /\ 1 \in 1 .. 1 /\ 1 + 1 = 2
  OBVIOUS
<1>4. Sums(w)[1] = 0 /\ Sums(w)[1 + 1] = Sums(w)[1] + w[1]
  BY <1>1, <1>3, SumsIs
<1> QED  BY <1>1, <1>2, <1>3, <1>4

LEMMA BytesOfThree ==
  ASSUME NEW x, NEW y, NEW z, x.bytes \in Int, y.bytes \in Int, z.bytes \in Int
  PROVE  Bytes(<<x, y, z>>) = x.bytes + y.bytes + z.bytes
<1> DEFINE p == <<x, y, z>>
           w == [i \in DOMAIN p |-> p[i].bytes]
<1>1. DOMAIN p = 1 .. 3 /\ p[1] = x /\ p[2] = y /\ p[3] = z /\ Len(p) = 3
  OBVIOUS
<1>2. Bytes(p) = Sums(w)[4]
  BY <1>1 DEF Bytes
<1>3. w \in [1 .. 3 -> Int] /\ w[1] = x.bytes /\ w[2] = y.bytes /\ w[3] = z.bytes
  <2> HIDE DEF p
  <2>1. \A i \in 1 .. 3 : i = 1 \/ i = 2 \/ i = 3
    OBVIOUS
  <2>2. w = [i \in 1 .. 3 |-> p[i].bytes]
    BY <1>1
  <2>3. \A i \in 1 .. 3 : p[i].bytes \in Int
    BY <1>1, <2>1
  <2> QED  BY <1>1, <2>2, <2>3
<1> HIDE DEF w
<1>4. Sums(w)[1] = 0 /\ \A n \in 1 .. 3 : Sums(w)[n + 1] = Sums(w)[n] + w[n]
  BY <1>3, SumsIs
<1>5. Sums(w)[2] = Sums(w)[1] + w[1] /\ Sums(w)[3] = Sums(w)[2] + w[2] /\ Sums(w)[4] = Sums(w)[3] + w[3]
  BY <1>4
<1> QED  BY <1>2, <1>3, <1>4, <1>5

\* Relaxed's Piece.
PieceOf(code, long, maxShort, i, newPos) ==
    IF i \in Sites(code)
    THEN Jump(code[i].op, i \in long, newPos, Shift(code, Prefix(code, long), Offsets(code)[TargetOf(code, i)]))
    ELSE <<Unmoved(code, i, maxShort)>>

\* A widened ITER_NEXT takes more than its share.
EachIsShort(code, long) == \A i \in long : code[i].op # "ITER_NEXT"

LEMMA JumpBytes ==
  ASSUME NEW op \in JumpOps, NEW long \in BOOLEAN, op = "ITER_NEXT" => ~ long, NEW pos, NEW target
  PROVE  Bytes(Jump(op, long, pos, target)) = RelaxSize(op, long)
<1>1. \A o, b, t : Out(o, b, t).bytes = b
  BY DEF Out
<1>2. CASE ~ long
  <2>1. Jump(op, long, pos, target) = <<Out(op, 3, Reach(op, pos, 3, target))>>
    BY <1>2 DEF Jump
  <2> QED  BY <1>1, <1>2, <2>1, BytesOfOne DEF RelaxSize
<1>3. CASE long /\ op \in {"LOOP", "JUMP"}
  <2>1. \E o : Jump(op, long, pos, target) = <<Out(o, 5, Reach(op, pos, 5, target))>>
    BY <1>3 DEF Jump
  <2>2. RelaxSize(op, long) = 5
    BY <1>3 DEF RelaxSize, CondJumpOps
  <2> QED  BY <1>1, <2>1, <2>2, BytesOfOne
<1>4. CASE long /\ op \in CondJumpOps
  <2>1. Jump(op, long, pos, target)
            = <<Out(op, 3, 3), Out("JUMP", 3, 5), Out("JUMP_LONG", 5, Reach(op, pos, 11, target))>>
    BY <1>4 DEF Jump, CondJumpOps
  <2>2. RelaxSize(op, long) = 11
    BY <1>4 DEF RelaxSize
  <2>3. Bytes(Jump(op, long, pos, target)) = 3 + 3 + 5
    BY <1>1, <2>1, BytesOfThree
  <2> QED  BY <2>2, <2>3
<1> QED  BY <1>2, <1>3, <1>4 DEF JumpOps

LEMMA PieceBytes ==
  ASSUME NEW code \in Codes, NEW long, EachIsShort(code, long), NEW maxShort, NEW i \in DOMAIN code, NEW newPos
  PROVE  Bytes(PieceOf(code, long, maxShort, i, newPos)) = Width(code[i].op) + Growths(code, long)[i]
<1>1. CASE i \in Sites(code)
  <2>1. code[i].op \in JumpOps /\ Width(code[i].op) = 3
    BY <1>1 DEF Sites, Width, JumpOps, CondJumpOps
  <2>2. Growths(code, long)[i] = RelaxSize(code[i].op, i \in long) - 3
    BY <1>1 DEF Growths
  <2>3. Bytes(PieceOf(code, long, maxShort, i, newPos)) = RelaxSize(code[i].op, i \in long)
    <3>1. (i \in long) \in BOOLEAN /\ (code[i].op = "ITER_NEXT" => ~ (i \in long))
      BY DEF EachIsShort
    <3> QED  BY <1>1, <2>1, <3>1, JumpBytes DEF PieceOf
  <2>4. RelaxSize(code[i].op, i \in long) \in Nat
    BY DEF RelaxSize
  <2> QED  BY <2>1, <2>2, <2>3, <2>4
<1>2. CASE i \notin Sites(code)
  <2>1. Growths(code, long)[i] = 0
    BY <1>2 DEF Growths
  <2>2. Unmoved(code, i, maxShort).bytes = Width(code[i].op)
    BY DEF Unmoved, Out, Width, JumpOps, CondJumpOps
  <2>3. Width(code[i].op) \in Nat
    BY CodesAssumption
  <2>4. Bytes(<<Unmoved(code, i, maxShort)>>) = Width(code[i].op)
    BY <2>2, <2>3, BytesOfOne
  <2> QED  BY <1>2, <2>1, <2>3, <2>4 DEF PieceOf
<1> QED  BY <1>1, <1>2

\* Relaxed's out.
Emitting(f, code, long, maxShort) ==
    f = [n \in 0 .. Len(code) |->
            IF n = 0 THEN [pieces |-> <<>>, bytes |-> 0]
            ELSE LET before == f[n - 1]
                     piece == PieceOf(code, long, maxShort, n, before.bytes)
                 IN [pieces |-> Append(before.pieces, piece), bytes |-> before.bytes + Bytes(piece)]]

\* The new place of an instruction.
NewPos(code, long, i) == Offsets(code)[i] + Prefix(code, long)[i]

LEMMA NewPosIs ==
  ASSUME NEW code \in Codes, NEW long
  PROVE  /\ \A i \in 1 .. Len(code) + 1 : NewPos(code, long, i) \in Int
         /\ NewPos(code, long, 1) = 0
         /\ \A i \in DOMAIN code :
                NewPos(code, long, i + 1) = NewPos(code, long, i) + (Width(code[i].op) + Growths(code, long)[i])
<1> DEFINE N == Len(code)
           at == Offsets(code)
           cum == Prefix(code, long)
<1>1. N \in Nat /\ DOMAIN code = 1 .. N
  BY CodesAssumption
<1>2. /\ at \in [1 .. N + 1 -> Int] /\ at[1] = 0
      /\ \A i \in 1 .. N : at[i + 1] = at[i] + Width(code[i].op)
  BY <1>1, OffsetsIs
<1>3. /\ cum \in [1 .. N + 1 -> Int] /\ cum[1] = 0
      /\ \A i \in 1 .. N : cum[i + 1] = cum[i] + Growths(code, long)[i]
  BY <1>1, PrefixIs
<1>4. \A i \in 1 .. N : Width(code[i].op) \in Nat /\ Growths(code, long)[i] \in Int
  BY <1>1, CodesAssumption DEF Growths, RelaxSize
<1>5. \A i : NewPos(code, long, i) = at[i] + cum[i]
  BY DEF NewPos
<1> HIDE DEF at, cum, N
<1>6. \A i \in 1 .. N + 1 : NewPos(code, long, i) \in Int
  <2>1. \A i \in 1 .. N + 1 : at[i] + cum[i] \in Int
    BY <1>2, <1>3
  <2> QED  BY <1>5, <2>1
<1>7. NewPos(code, long, 1) = 0
  BY <1>2, <1>3, <1>5
<1>8. ASSUME NEW i \in 1 .. N
      PROVE  NewPos(code, long, i + 1) = NewPos(code, long, i) + (Width(code[i].op) + Growths(code, long)[i])
  <2>1. i \in 1 .. N + 1 /\ i + 1 \in 1 .. N + 1
    BY <1>1
  <2>2. at[i] \in Int /\ cum[i] \in Int
    BY <1>2, <1>3, <2>1
  <2>3. at[i + 1] = at[i] + Width(code[i].op) /\ cum[i + 1] = cum[i] + Growths(code, long)[i]
    BY <1>2, <1>3
  <2>4. at[i + 1] + cum[i + 1] = (at[i] + cum[i]) + (Width(code[i].op) + Growths(code, long)[i])
    BY <1>4, <2>2, <2>3
  <2> QED  BY <1>5, <2>4
<1> QED  BY <1>1, <1>6, <1>7, <1>8 DEF N

\* What is out after n instructions.
OutAfter(code, long, maxShort, n) ==
    [pieces |-> [i \in 1 .. n |-> PieceOf(code, long, maxShort, i, NewPos(code, long, i))],
     bytes |-> NewPos(code, long, n + 1)]

LEMMA OutGrows ==
  ASSUME NEW code \in Codes, NEW long, EachIsShort(code, long), NEW maxShort, NEW n \in DOMAIN code
  PROVE  LET before == OutAfter(code, long, maxShort, n - 1)
             piece == PieceOf(code, long, maxShort, n, before.bytes)
         IN OutAfter(code, long, maxShort, n)
              = [pieces |-> Append(before.pieces, piece), bytes |-> before.bytes + Bytes(piece)]
<1> DEFINE P(i) == PieceOf(code, long, maxShort, i, NewPos(code, long, i))
           b == [i \in 1 .. n - 1 |-> P(i)]
           before == OutAfter(code, long, maxShort, n - 1)
<1>1. n \in Nat \ {0} /\ n \in 1 .. Len(code) /\ (n - 1) + 1 = n
  BY CodesAssumption
<1>2. before.pieces = b /\ before.bytes = NewPos(code, long, n)
  BY <1>1 DEF OutAfter
<1>3. Append(b, P(n)) = [i \in 1 .. n |-> P(i)]
  <2> DEFINE A == {P(i) : i \in 1 .. n}
             c == Append(b, P(n))
  <2> HIDE DEF P
  <2>1. b \in Seq(A) /\ Len(b) = n - 1 /\ P(n) \in A
    BY <1>1
  <2>2. \A i \in 1 .. n - 1 : b[i] = P(i)
    BY <1>1
  <2> HIDE DEF b, A
  <2>3. c \in Seq(A) /\ Len(c) = n /\ c[n] = P(n) /\ \A i \in 1 .. n - 1 : c[i] = b[i]
    BY <1>1, <2>1
  <2> HIDE DEF c
  <2>4. c = [i \in 1 .. n |-> c[i]]
    BY <2>3
  <2>5. \A i \in 1 .. n : c[i] = P(i)
    <3>1. \A i \in 1 .. n : i = n \/ i \in 1 .. n - 1
      BY <1>1
    <3> QED  BY <2>2, <2>3, <3>1
  <2> QED  BY <2>4, <2>5 DEF c
<1>4. NewPos(code, long, n + 1) = NewPos(code, long, n) + Bytes(P(n))
  BY NewPosIs, PieceBytes
<1>5. OutAfter(code, long, maxShort, n) = [pieces |-> [i \in 1 .. n |-> P(i)], bytes |-> NewPos(code, long, n + 1)]
  BY DEF OutAfter
<1> HIDE DEF before, b
<1>6. PieceOf(code, long, maxShort, n, before.bytes) = P(n)
  BY <1>2
<1> HIDE DEF P
<1> QED  BY <1>2, <1>3, <1>4, <1>5, <1>6 DEF before

\* Each piece goes out at its instruction's new place.
LEMMA RelaxedIs ==
  ASSUME NEW code \in Codes, NEW maxShort, EachIsShort(code, MarkedAll(code, maxShort))
  PROVE  LET long == MarkedAll(code, maxShort)
         IN /\ Relaxed(code, maxShort).pieces
                 = [i \in DOMAIN code |-> PieceOf(code, long, maxShort, i, NewPos(code, long, i))]
            /\ Relaxed(code, maxShort).lines = [i \in DOMAIN code |-> NewPos(code, long, i)]
<1> DEFINE long == MarkedAll(code, maxShort)
           N == Len(code)
           After(n) == OutAfter(code, long, maxShort, n)
           f == CHOOSE g : Emitting(g, code, long, maxShort)
<1>1. N \in Nat /\ DOMAIN code = 1 .. N
  BY CodesAssumption
<1>2. After(0) = [pieces |-> <<>>, bytes |-> 0]
  <2>1. 0 + 1 = 1 /\ NewPos(code, long, 1) = 0
    BY NewPosIs
  <2>2. [i \in 1 .. 0 |-> PieceOf(code, long, maxShort, i, NewPos(code, long, i))] = <<>>
    OBVIOUS
  <2> QED  BY <2>1, <2>2 DEF OutAfter
<1>3. Emitting(f, code, long, maxShort)
  <2> DEFINE g == [n \in 0 .. N |-> After(n)]
  <2>1. ASSUME NEW n \in 0 .. N
        PROVE  g[n] = IF n = 0 THEN [pieces |-> <<>>, bytes |-> 0]
                      ELSE LET before == g[n - 1]
                               piece == PieceOf(code, long, maxShort, n, before.bytes)
                           IN [pieces |-> Append(before.pieces, piece), bytes |-> before.bytes + Bytes(piece)]
    <3>1. CASE n = 0
      BY <1>2, <3>1
    <3>2. CASE n # 0
      <4>1. n \in DOMAIN code /\ g[n - 1] = After(n - 1) /\ g[n] = After(n)
        BY <1>1, <3>2
      <4> HIDE DEF g
      <4> QED  BY <3>2, <4>1, OutGrows
    <3> QED  BY <3>1, <3>2
  <2>2. g = [n \in 0 .. N |->
                IF n = 0 THEN [pieces |-> <<>>, bytes |-> 0]
                ELSE LET before == g[n - 1]
                         piece == PieceOf(code, long, maxShort, n, before.bytes)
                     IN [pieces |-> Append(before.pieces, piece), bytes |-> before.bytes + Bytes(piece)]]
    <3> DEFINE h == [n \in 0 .. N |->
                IF n = 0 THEN [pieces |-> <<>>, bytes |-> 0]
                ELSE LET before == g[n - 1]
                         piece == PieceOf(code, long, maxShort, n, before.bytes)
                     IN [pieces |-> Append(before.pieces, piece), bytes |-> before.bytes + Bytes(piece)]]
    <3>1. \A n \in 0 .. N : g[n] = h[n]
      BY <2>1
    <3> QED  BY <3>1
  <2> HIDE DEF g
  <2>3. Emitting(g, code, long, maxShort)
    BY <2>2 DEF Emitting
  <2> QED  BY <2>3
<1>4. Relaxed(code, maxShort) =
        [pieces |-> f[N].pieces, lines |-> [i \in DOMAIN code |-> Shift(code, Prefix(code, long), Offsets(code)[i])]]
  BY DEF Relaxed, Emitting, PieceOf
<1> HIDE DEF f
<1> DEFINE S == {n \in Nat : n <= N => f[n] = After(n)}
<1>5. \A n \in 0 .. N : f[n] = IF n = 0 THEN [pieces |-> <<>>, bytes |-> 0]
                      ELSE LET before == f[n - 1]
                               piece == PieceOf(code, long, maxShort, n, before.bytes)
                           IN [pieces |-> Append(before.pieces, piece), bytes |-> before.bytes + Bytes(piece)]
  BY <1>3 DEF Emitting
<1>6. 0 \in S
  <2>1. f[0] = [pieces |-> <<>>, bytes |-> 0]
    <3>1. 0 \in 0 .. N
      BY <1>1
    <3> HIDE DEF N
    <3> QED  BY <1>5, <3>1, Zenon
  <2> QED  BY <1>2, <2>1
<1>7. ASSUME NEW n \in Nat \ {0}, n - 1 \in S
      PROVE  n \in S
  <2> SUFFICES ASSUME n <= N
               PROVE  f[n] = After(n)
    OBVIOUS
  <2>1. n \in DOMAIN code /\ n \in 0 .. N /\ n # 0 /\ f[n - 1] = After(n - 1)
    BY <1>1, <1>7
  <2> HIDE DEF S, N, After
  <2>2. LET before == After(n - 1)
            piece == PieceOf(code, long, maxShort, n, before.bytes)
        IN After(n) = [pieces |-> Append(before.pieces, piece), bytes |-> before.bytes + Bytes(piece)]
    BY <2>1, OutGrows DEF After
  <2> QED  BY <1>5, <2>1, <2>2
<1> HIDE DEF S
<1>8. f[N] = After(N)
  <2>1. N \in S
    BY <1>1, <1>6, <1>7, AllNaturals
  <2> QED  BY <1>1, <2>1 DEF S
<1>9. Relaxed(code, maxShort).pieces = [i \in DOMAIN code |-> PieceOf(code, long, maxShort, i, NewPos(code, long, i))]
  BY <1>1, <1>4, <1>8 DEF OutAfter
<1>10. \A i \in DOMAIN code : Shift(code, Prefix(code, long), Offsets(code)[i]) = NewPos(code, long, i)
  <2>1. \A i \in DOMAIN code : i \in 1 .. Len(code) + 1
    BY <1>1
  <2> QED  BY <2>1, ShiftIs DEF NewPos
<1> QED  BY <1>4, <1>9, <1>10

-----------------------------------------------------------------------------
(* Where jumps land *)

\* JumpsLand for one function.
Lands(code, maxShort, out) ==
    LET pieces == out.pieces
        at == Starts(pieces)
    IN \A i \in DOMAIN code :
        /\ out.lines[i] = at[i]
        /\ i \in Sites(code) => Taken(pieces[i], at[i]) = at[TargetOf(code, i)]
        /\ Len(pieces[i]) = 3 => at[i] + 6 + pieces[i][2].to = at[i + 1]
        /\ \A j \in DOMAIN pieces[i] :
                pieces[i][j].op \notin {"JUMP_LONG", "LOOP_LONG"} => Fits(pieces[i][j].to, maxShort)
        /\ code[i].op = "TRY_PUSH" =>
            LET end == at[i + 1]
                Named(n) == IF n = -1 THEN -1 ELSE at[i + 1 + n]
            IN /\ Handler(pieces[i][1].to, end, maxShort) = Named(code[i].n)
               /\ Handler(pieces[i][1].else, end, maxShort) = Named(code[i].else)

LEMMA JumpLands ==
  ASSUME NEW op \in JumpOps, NEW i, NEW wide, op = "ITER_NEXT" => i \notin wide, NEW pos \in Int, NEW target \in Int,
         NEW maxShort \in MaxShorts, i \notin wide => Fits(Reach(op, pos, 3, target), maxShort)
  PROVE  LET piece == Jump(op, i \in wide, pos, target)
         IN /\ Taken(piece, pos) = target
            /\ Len(piece) = 3 => piece[2].to = 5 /\ Bytes(piece) = 11
            /\ \A j \in DOMAIN piece : piece[j].op \notin {"JUMP_LONG", "LOOP_LONG"} => Fits(piece[j].to, maxShort)
<1> DEFINE long == i \in wide
           piece == Jump(op, long, pos, target)
<1>1. \A o, b, t : Out(o, b, t).op = o /\ Out(o, b, t).bytes = b /\ Out(o, b, t).to = t
  BY DEF Out
<1>2. ASSUME NEW o, NEW size \in {3, 5}, piece = <<Out(o, size, Reach(op, pos, size, target))>>,
             o \in {"LOOP", "LOOP_LONG"} <=> op = "LOOP",
             o \notin {"JUMP_LONG", "LOOP_LONG"} => Fits(Reach(op, pos, size, target), maxShort)
      PROVE  /\ Taken(piece, pos) = target
             /\ Len(piece) = 3 => piece[2].to = 5 /\ Bytes(piece) = 11
             /\ \A j \in DOMAIN piece : piece[j].op \notin {"JUMP_LONG", "LOOP_LONG"} => Fits(piece[j].to, maxShort)
  <2>1. Len(piece) = 1 /\ DOMAIN piece = {1} /\ piece[1] = Out(o, size, Reach(op, pos, size, target))
    BY <1>2
  <2> HIDE DEF piece
  <2>2. Taken(piece, pos) = target
    <3>1. Taken(piece, pos) = IF o \in {"LOOP", "LOOP_LONG"} THEN pos + size - Reach(op, pos, size, target)
                              ELSE pos + size + Reach(op, pos, size, target)
      BY <1>1, <2>1 DEF Taken
    <3> QED  BY <1>2, <3>1 DEF Reach
  <2> QED  BY <1>1, <1>2, <2>1, <2>2
<1>3. CASE ~ long
  <2>1. piece = <<Out(op, 3, Reach(op, pos, 3, target))>>
    BY <1>3 DEF Jump
  <2>2. op \in {"LOOP", "LOOP_LONG"} <=> op = "LOOP"
    BY DEF JumpOps, CondJumpOps
  <2> HIDE DEF piece
  <2> QED  BY <1>2, <1>3, <2>1, <2>2 DEF piece
<1>4. CASE long /\ op = "LOOP"
  <2>1. piece = <<Out("LOOP_LONG", 5, Reach(op, pos, 5, target))>>
    BY <1>4 DEF Jump
  <2> HIDE DEF piece
  <2> QED  BY <1>2, <1>4, <2>1 DEF piece
<1>5. CASE long /\ op = "JUMP"
  <2>1. piece = <<Out("JUMP_LONG", 5, Reach(op, pos, 5, target))>>
    BY <1>5 DEF Jump
  <2>2. "JUMP_LONG" \in {"LOOP", "LOOP_LONG"} <=> op = "LOOP"
    BY <1>5
  <2>3. long
    BY <1>5
  <2> HIDE DEF piece
  <2> QED  BY <1>2, <2>1, <2>2, <2>3 DEF piece
<1>6. CASE long /\ op \in CondJumpOps
  <2>1. piece = <<Out(op, 3, 3), Out("JUMP", 3, 5), Out("JUMP_LONG", 5, Reach(op, pos, 11, target))>>
    BY <1>6 DEF Jump, CondJumpOps
  <2>2. Bytes(piece) = 3 + 3 + 5
    BY <1>1, <2>1, BytesOfThree
  <2>3. /\ Len(piece) = 3 /\ DOMAIN piece = 1 .. 3
        /\ piece[1] = Out(op, 3, 3) /\ piece[2] = Out("JUMP", 3, 5)
        /\ piece[3] = Out("JUMP_LONG", 5, Reach(op, pos, 11, target))
    BY <2>1
  <2> HIDE DEF piece
  <2>4. Taken(piece, pos) = pos + 11 + Reach(op, pos, 11, target)
    <3>1. op \notin {"LOOP", "LOOP_LONG"}
      BY <1>6 DEF CondJumpOps
    <3>2. (pos + 3) + 3 = pos + 6
      OBVIOUS
    <3> QED  BY <1>1, <2>3, <3>1, <3>2 DEF Taken
  <2>5. Taken(piece, pos) = target
    BY <1>6, <2>4 DEF CondJumpOps, Reach
  <2>6. Fits(3, maxShort) /\ Fits(5, maxShort)
    BY CodesAssumption DEF Fits
  <2>7. ASSUME NEW j \in DOMAIN piece, piece[j].op \notin {"JUMP_LONG", "LOOP_LONG"}
        PROVE  Fits(piece[j].to, maxShort)
    <3>1. j = 1 \/ j = 2 \/ j = 3
      BY <2>3
    <3> QED  BY <1>1, <2>3, <2>6, <2>7, <3>1
  <2>8. piece[2].to = 5 /\ Bytes(piece) = 11
    BY <1>1, <2>2, <2>3
  <2> QED  BY <2>5, <2>7, <2>8 DEF piece
<1> QED  BY <1>3, <1>4, <1>5, <1>6 DEF JumpOps

\* Where pieces of the right sizes start.
LEMMA StartsAre ==
  ASSUME NEW code \in Codes, NEW long, NEW pieces, DOMAIN pieces = DOMAIN code,
         \A i \in DOMAIN code : Bytes(pieces[i]) = Width(code[i].op) + Growths(code, long)[i]
  PROVE  \A i \in 1 .. Len(code) + 1 : Starts(pieces)[i] = NewPos(code, long, i)
<1> DEFINE N == Len(code)
           w == [i \in DOMAIN pieces |-> Bytes(pieces[i])]
<1>1. N \in Nat /\ DOMAIN code = 1 .. N
  BY CodesAssumption
<1>2. \A i \in 1 .. N : Width(code[i].op) \in Nat /\ Growths(code, long)[i] \in Int
  BY <1>1, CodesAssumption DEF Growths, RelaxSize
<1>3. \A i \in 1 .. N : w[i] = Width(code[i].op) + Growths(code, long)[i]
  BY <1>1
<1>4. w \in [1 .. N -> Int]
  BY <1>1, <1>2
<1>5. Starts(pieces) = Sums(w)
  BY DEF Starts
<1> HIDE DEF w, N
<1>6. Sums(w)[1] = 0 /\ \A n \in 1 .. N : Sums(w)[n + 1] = Sums(w)[n] + w[n]
  BY <1>1, <1>4, SumsIs
<1> DEFINE S == {n \in Nat : n <= N => Sums(w)[n + 1] = NewPos(code, long, n + 1)}
<1>7. 0 \in S
  BY <1>6, NewPosIs
<1>8. ASSUME NEW n \in Nat \ {0}, n - 1 \in S
      PROVE  n \in S
  <2> SUFFICES ASSUME n <= N
               PROVE  Sums(w)[n + 1] = NewPos(code, long, n + 1)
    OBVIOUS
  <2>1. n \in 1 .. N /\ (n - 1) + 1 = n
    BY <1>1
  <2>2. Sums(w)[n] = NewPos(code, long, n)
    <3>1. n - 1 \in Nat /\ n - 1 <= N
      BY <1>1
    <3> QED  BY <1>8, <2>1, <3>1
  <2>3. NewPos(code, long, n + 1) = NewPos(code, long, n) + (Width(code[n].op) + Growths(code, long)[n])
    BY <1>1, <2>1, NewPosIs
  <2> QED  BY <1>3, <1>6, <2>1, <2>2, <2>3
<1> HIDE DEF S
<1>9. Nat \subseteq S
  BY <1>7, <1>8, AllNaturals
<1>10. ASSUME NEW i \in 1 .. N + 1
       PROVE  Sums(w)[i] = NewPos(code, long, i)
  <2>1. i - 1 \in Nat /\ i - 1 <= N /\ (i - 1) + 1 = i
    BY <1>1
  <2> QED  BY <1>9, <2>1 DEF S
<1> QED  BY <1>5, <1>10 DEF N

\* A handler that is near enough, with nothing widened on the way, is found.
LEMMA HandlersLand ==
  ASSUME NEW code \in Codes, NEW long, NEW maxShort \in MaxShorts,
         NEW i \in DOMAIN code, code[i].op = "TRY_PUSH", NEW n \in {code[i].n, code[i].else},
         n # -1 => /\ Offsets(code)[i + 1 + n] - Offsets(code)[i + 1] < maxShort
                   /\ long \cap (i + 1 .. i + n) = {}
  PROVE  LET offset == TryOffset(Offsets(code), i, n, maxShort)
         IN /\ Fits(offset, maxShort)
            /\ Handler(offset, NewPos(code, long, i + 1), maxShort)
                 = IF n = -1 THEN -1 ELSE NewPos(code, long, i + 1 + n)
<1> DEFINE N == Len(code)
           at == Offsets(code)
           cum == Prefix(code, long)
           offset == TryOffset(at, i, n, maxShort)
<1>1. N \in Nat /\ DOMAIN code = 1 .. N /\ i \in 1 .. N /\ maxShort \in Nat
  BY CodesAssumption
<1>2. n \in {-1} \cup 0 .. N - i
  BY CodesAssumption
<1>3. CASE n = -1
  <2>1. offset = maxShort
    BY <1>3 DEF TryOffset
  <2> HIDE DEF offset
  <2> QED  BY <1>1, <1>3, <2>1 DEF Fits, Handler, offset
<1>4. CASE n # -1
  <2>1. n \in 0 .. N - i
    BY <1>2, <1>4
  <2>2. i + 1 \in 1 .. N + 1 /\ i + 1 + n \in i + 1 .. N + 1
    BY <1>1, <2>1
  <2>3. at \in [1 .. N + 1 -> Int] /\ at[i + 1] <= at[i + 1 + n]
    BY <2>2, OffsetsIs
  <2>4. at[i + 1] \in Int /\ at[i + 1 + n] \in Int
    BY <1>1, <2>2, <2>3
  <2> DEFINE d == at[i + 1 + n] - at[i + 1]
  <2>5. d \in 0 .. maxShort - 1
    BY <1>1, <1>4, <2>3, <2>4
  <2>6. offset = d % (maxShort + 1)
    BY <1>4 DEF TryOffset
  <2>7. at[i + 1 + n] = at[i + 1] + d
    BY <2>4
  <2> HIDE DEF d, offset
  <2>8. offset = d
    BY <1>1, <2>5, <2>6
  <2>9. cum[i + 1] = cum[i + 1 + n]
    <3>1. ASSUME NEW k \in i + 1 .. (i + 1 + n) - 1
          PROVE  Growths(code, long)[k] = 0
      <4>1. k \in DOMAIN code /\ k \in i + 1 .. i + n
        BY <1>1, <2>1
      <4>2. k \notin long
        BY <1>4, <4>1
      <4> QED  BY <4>1, <4>2 DEF Growths, RelaxSize
    <3> DEFINE b == i + 1 + n
               a == i + 1
    <3>2. a \in 1 .. Len(code) + 1 /\ b \in a .. Len(code) + 1 /\ \A k \in a .. b - 1 : Growths(code, long)[k] = 0
      BY <2>2, <3>1
    <3> HIDE DEF a, b
    <3>3. cum[a] = cum[b]
      BY <3>2, PrefixIs
    <3> QED  BY <3>3 DEF a, b
  <2>10. cum[i + 1] \in Int
    BY <1>1, <2>2, PrefixIs
  <2>11. NewPos(code, long, i + 1 + n) = NewPos(code, long, i + 1) + d
    <3>1. NewPos(code, long, i + 1 + n) = at[i + 1 + n] + cum[i + 1 + n] /\ NewPos(code, long, i + 1) = at[i + 1] + cum[i + 1]
      BY DEF NewPos
    <3> HIDE DEF at, cum
    <3>2. d \in Int
      BY <2>5
    <3> QED  BY <2>4, <2>7, <2>9, <2>10, <3>1, <3>2
  <2>12. Fits(offset, maxShort) /\ offset # maxShort
    BY <1>1, <2>5, <2>8 DEF Fits
  <2> QED  BY <1>4, <2>8, <2>11, <2>12 DEF Handler, offset
<1> QED  BY <1>3, <1>4

LEMMA RelaxedLands ==
  ASSUME NEW code \in Codes, NEW maxShort \in MaxShorts, NeedsRelax(code, maxShort), Spared(code, maxShort)
  PROVE  Lands(code, maxShort, Relaxed(code, maxShort))
<1> DEFINE long == MarkedAll(code, maxShort)
           N == Len(code)
           new(i) == NewPos(code, long, i)
           out == Relaxed(code, maxShort)
           pieces == out.pieces
           at == Starts(pieces)
<1>1. N \in Nat /\ DOMAIN code = 1 .. N
  BY CodesAssumption
<1>2. EachIsShort(code, long)
  BY DEF Spared, EachIsShort
<1>3. /\ pieces = [i \in DOMAIN code |-> PieceOf(code, long, maxShort, i, new(i))]
      /\ out.lines = [i \in DOMAIN code |-> new(i)]
  BY <1>2, RelaxedIs
<1> HIDE DEF out
<1>4. DOMAIN pieces = DOMAIN code /\ \A i \in DOMAIN code : pieces[i] = PieceOf(code, long, maxShort, i, new(i))
  BY <1>3
<1>5. \A i \in DOMAIN code : Bytes(pieces[i]) = Width(code[i].op) + Growths(code, long)[i]
  BY <1>2, <1>4, PieceBytes
<1> HIDE DEF pieces
<1>6. \A i \in 1 .. N + 1 : at[i] = new(i)
  BY <1>4, <1>5, StartsAre
<1> HIDE DEF at, long
<1>7. \A i \in 1 .. N + 1 : new(i) \in Int
  BY NewPosIs
<1>8. ASSUME NEW i \in DOMAIN code
      PROVE  /\ out.lines[i] = at[i]
             /\ i \in Sites(code) => Taken(pieces[i], at[i]) = at[TargetOf(code, i)]
             /\ Len(pieces[i]) = 3 => at[i] + 6 + pieces[i][2].to = at[i + 1]
             /\ \A j \in DOMAIN pieces[i] :
                    pieces[i][j].op \notin {"JUMP_LONG", "LOOP_LONG"} => Fits(pieces[i][j].to, maxShort)
             /\ code[i].op = "TRY_PUSH" =>
                    \A n \in {code[i].n, code[i].else} :
                        /\ pieces[i][1].to = TryOffset(Offsets(code), i, code[i].n, maxShort)
                        /\ pieces[i][1].else = TryOffset(Offsets(code), i, code[i].else, maxShort)
                        /\ Handler(TryOffset(Offsets(code), i, n, maxShort), at[i + 1], maxShort)
                             = IF n = -1 THEN -1 ELSE at[i + 1 + n]
  <2> DEFINE op == code[i].op
             to == TargetOf(code, i)
             piece == pieces[i]
  <2>1. i \in 1 .. N + 1 /\ i + 1 \in 1 .. N + 1
    BY <1>1
  <2>2. at[i] = new(i) /\ at[i + 1] = new(i + 1) /\ new(i) \in Int /\ new(i + 1) \in Int
    BY <1>6, <1>7, <2>1
  <2>3. out.lines[i] = at[i]
    BY <1>3, <2>2
  <2>4. at[i + 1] = at[i] + (Width(op) + Growths(code, long)[i]) /\ Bytes(piece) = Width(op) + Growths(code, long)[i]
    BY <1>5, <2>2, NewPosIs
  <2>5. CASE i \in Sites(code)
    <3>1. op \in JumpOps /\ op # "TRY_PUSH"
      BY <2>5 DEF Sites, JumpOps, CondJumpOps
    <3>2. to \in 1 .. N + 1
      BY <3>1, CodesAssumption
    <3>3. at[to] = new(to) /\ new(to) \in Int
      BY <1>6, <1>7, <3>2
    <3>4. Shift(code, Prefix(code, long), Offsets(code)[to]) = new(to)
      BY <3>2, ShiftIs DEF NewPos
    <3>5. piece = Jump(op, i \in long, new(i), new(to))
      BY <1>4, <2>5, <3>4 DEF PieceOf
    <3>6. i \notin long => Fits(Reach(op, new(i), 3, new(to)), maxShort)
      BY <2>5, UnmarkedFit DEF long, NewPos
    <3>7. op = "ITER_NEXT" => i \notin long
      BY <1>2 DEF EachIsShort
    <3> HIDE DEF to, op, piece
    <3>8. /\ Taken(piece, new(i)) = new(to)
          /\ Len(piece) = 3 => piece[2].to = 5 /\ Bytes(piece) = 11
          /\ \A j \in DOMAIN piece : piece[j].op \notin {"JUMP_LONG", "LOOP_LONG"} => Fits(piece[j].to, maxShort)
      <4> DEFINE pos == new(i)
                 target == new(to)
      <4>1. /\ (op = "ITER_NEXT" => i \notin long) /\ pos \in Int /\ target \in Int
            /\ i \notin long => Fits(Reach(op, pos, 3, target), maxShort)
            /\ piece = Jump(op, i \in long, pos, target)
        BY <2>2, <3>3, <3>5, <3>6, <3>7
      <4> HIDE DEF pos, target
      <4>2. /\ Taken(piece, pos) = target
            /\ Len(piece) = 3 => piece[2].to = 5 /\ Bytes(piece) = 11
            /\ \A j \in DOMAIN piece : piece[j].op \notin {"JUMP_LONG", "LOOP_LONG"} => Fits(piece[j].to, maxShort)
        <5> DEFINE jump == Jump(op, i \in long, pos, target)
        <5>1. /\ Taken(jump, pos) = target
              /\ Len(jump) = 3 => jump[2].to = 5 /\ Bytes(jump) = 11
              /\ \A j \in DOMAIN jump : jump[j].op \notin {"JUMP_LONG", "LOOP_LONG"} => Fits(jump[j].to, maxShort)
          BY <3>1, <4>1, JumpLands, Zenon
        <5>2. piece = jump
          BY <4>1
        <5> HIDE DEF jump
        <5> QED  BY <5>1, <5>2
      <4> QED  BY <4>2 DEF pos, target
    <3> HIDE DEF new
    <3>9. Len(piece) = 3 => at[i] + 6 + piece[2].to = at[i + 1]
      BY <2>2, <2>4, <3>8
    <3> QED  BY <2>2, <2>3, <2>5, <3>1, <3>3, <3>8, <3>9 DEF to, op, piece
  <2>6. CASE i \notin Sites(code)
    <3>1. piece = <<Unmoved(code, i, maxShort)>>
      BY <1>4, <2>6 DEF PieceOf
    <3>2. Len(piece) = 1 /\ DOMAIN piece = {1} /\ piece[1] = Unmoved(code, i, maxShort)
      BY <3>1
    <3>3. CASE op # "TRY_PUSH"
      <4>1. Unmoved(code, i, maxShort).to = 0
        BY <3>3 DEF Unmoved, Out
      <4>2. Fits(0, maxShort)
        BY CodesAssumption DEF Fits
      <4> HIDE DEF piece
      <4> QED  BY <2>3, <2>6, <3>2, <3>3, <4>1, <4>2 DEF piece
    <3>4. CASE op = "TRY_PUSH"
      <4>1. /\ Unmoved(code, i, maxShort).to = TryOffset(Offsets(code), i, code[i].n, maxShort)
            /\ Unmoved(code, i, maxShort).else = TryOffset(Offsets(code), i, code[i].else, maxShort)
        BY <3>4 DEF Unmoved, Out
      <4>2. ASSUME NEW n \in {code[i].n, code[i].else}
            PROVE  /\ Fits(TryOffset(Offsets(code), i, n, maxShort), maxShort)
                   /\ Handler(TryOffset(Offsets(code), i, n, maxShort), at[i + 1], maxShort)
                        = IF n = -1 THEN -1 ELSE at[i + 1 + n]
        <5>1. n # -1 => /\ Offsets(code)[i + 1 + n] - Offsets(code)[i + 1] < maxShort
                        /\ long \cap (i + 1 .. i + n) = {}
          BY <3>4 DEF Spared, long
        <5>2. n # -1 => i + 1 + n \in 1 .. N + 1
          <6>1. n \in {-1} \cup 0 .. N - i
            BY <3>4, CodesAssumption
          <6> QED  BY <1>1, <6>1
        <5>3. n # -1 => at[i + 1 + n] = new(i + 1 + n)
          BY <1>6, <5>2
        <5> HIDE DEF new
        <5> QED  BY <2>2, <3>4, <5>1, <5>3, HandlersLand DEF new
      <4> HIDE DEF piece
      <4> QED  BY <2>3, <2>6, <3>2, <3>4, <4>1, <4>2 DEF piece
    <3> QED  BY <3>3, <3>4
  <2> QED  BY <2>5, <2>6
<1> HIDE DEF N, new
<1> QED  BY <1>8 DEF Lands, at, pieces, out

LEMMA UnrelaxedLands ==
  ASSUME NEW code \in Codes, NEW maxShort \in MaxShorts, ~ NeedsRelax(code, maxShort), Spared(code, maxShort)
  PROVE  Lands(code, maxShort, Unrelaxed(code, maxShort))
<1> DEFINE N == Len(code)
           old == Offsets(code)
           out == Unrelaxed(code, maxShort)
           pieces == out.pieces
           at == Starts(pieces)
           P(i) == IF i \in Sites(code) THEN Out(code[i].op, 3, Reach(code[i].op, old[i], 3, old[TargetOf(code, i)]))
                   ELSE Unmoved(code, i, maxShort)
<1>1. N \in Nat /\ DOMAIN code = 1 .. N
  BY CodesAssumption
<1>2. pieces = [i \in DOMAIN code |-> <<P(i)>>] /\ out.lines = [i \in DOMAIN code |-> old[i]]
  BY DEF Unrelaxed
<1>3. \A i \in DOMAIN code : P(i).bytes = Width(code[i].op) /\ Width(code[i].op) \in Nat
  <2> TAKE i \in DOMAIN code
  <2>1. CASE i \in Sites(code)
    BY <2>1 DEF Sites, Out, Width, JumpOps, CondJumpOps
  <2>2. CASE i \notin Sites(code)
    BY <2>2, CodesAssumption DEF Unmoved, Out, Width, JumpOps, CondJumpOps
  <2> QED  BY <2>1, <2>2
<1> HIDE DEF P, out
<1>4. \A i \in DOMAIN code : Bytes(<<P(i)>>) = Width(code[i].op)
  BY <1>3, BytesOfOne
<1>5. at = old
  <2>1. [i \in DOMAIN pieces |-> Bytes(pieces[i])] = [i \in DOMAIN code |-> Width(code[i].op)]
    BY <1>2, <1>4
  <2> QED  BY <2>1 DEF Starts, Offsets
<1>6. \A i \in 1 .. N + 1 : old[i] \in Int
  BY OffsetsIs
<1>7. \A i \in DOMAIN code : pieces[i] = <<P(i)>>
  BY <1>2
<1> HIDE DEF at, pieces
<1>8. ASSUME NEW i \in DOMAIN code
      PROVE  /\ out.lines[i] = at[i]
             /\ i \in Sites(code) => Taken(pieces[i], at[i]) = at[TargetOf(code, i)]
             /\ Len(pieces[i]) = 3 => at[i] + 6 + pieces[i][2].to = at[i + 1]
             /\ \A j \in DOMAIN pieces[i] :
                    pieces[i][j].op \notin {"JUMP_LONG", "LOOP_LONG"} => Fits(pieces[i][j].to, maxShort)
             /\ code[i].op = "TRY_PUSH" =>
                    \A n \in {code[i].n, code[i].else} :
                        /\ pieces[i][1].to = TryOffset(Offsets(code), i, code[i].n, maxShort)
                        /\ pieces[i][1].else = TryOffset(Offsets(code), i, code[i].else, maxShort)
                        /\ Handler(TryOffset(Offsets(code), i, n, maxShort), at[i + 1], maxShort)
                             = IF n = -1 THEN -1 ELSE at[i + 1 + n]
  <2> DEFINE op == code[i].op
             to == TargetOf(code, i)
             piece == pieces[i]
  <2>1. i \in 1 .. N + 1 /\ out.lines[i] = at[i]
    BY <1>1, <1>2, <1>5
  <2>2. Len(piece) = 1 /\ DOMAIN piece = {1} /\ piece[1] = P(i)
    BY <1>7
  <2> HIDE DEF piece
  <2>3. CASE i \in Sites(code)
    <3>1. op \in JumpOps /\ op # "TRY_PUSH" /\ op # "LOOP_LONG"
      BY <2>3 DEF Sites, JumpOps, CondJumpOps
    <3>2. to \in 1 .. N + 1
      BY <3>1, CodesAssumption
    <3>3. piece[1].op = op /\ piece[1].bytes = 3 /\ piece[1].to = Reach(op, old[i], 3, old[to])
      BY <2>2, <2>3 DEF P, Out
    <3>4. old[i] \in Int /\ old[to] \in Int
      BY <1>6, <2>1, <3>2
    <3>5. Taken(piece, old[i]) = old[to]
      <4>1. Taken(piece, old[i]) = IF op = "LOOP" THEN old[i] + 3 - Reach(op, old[i], 3, old[to])
                                   ELSE old[i] + 3 + Reach(op, old[i], 3, old[to])
        BY <2>2, <3>1, <3>3 DEF Taken
      <4> HIDE DEF op, to, old
      <4> QED  BY <3>4, <4>1 DEF Reach
    <3>6. Fits(Reach(op, old[i], 3, old[to]), maxShort)
      BY <2>3 DEF NeedsRelax
    <3> HIDE DEF op, to, old
    <3> QED  BY <1>5, <2>1, <2>2, <2>3, <3>1, <3>3, <3>5, <3>6 DEF op, to, piece
  <2>4. CASE i \notin Sites(code)
    <3>1. piece[1] = Unmoved(code, i, maxShort)
      BY <2>2, <2>4 DEF P
    <3>2. CASE op # "TRY_PUSH"
      <4>1. Unmoved(code, i, maxShort).to = 0
        BY <3>2 DEF Unmoved, Out
      <4>2. Fits(0, maxShort)
        BY CodesAssumption DEF Fits
      <4> QED  BY <2>1, <2>2, <2>4, <3>1, <3>2, <4>1, <4>2 DEF piece
    <3>3. CASE op = "TRY_PUSH"
      <4>1. /\ Unmoved(code, i, maxShort).to = TryOffset(old, i, code[i].n, maxShort)
            /\ Unmoved(code, i, maxShort).else = TryOffset(old, i, code[i].else, maxShort)
        BY <3>3 DEF Unmoved, Out
      <4>2. ASSUME NEW n \in {code[i].n, code[i].else}
            PROVE  /\ Fits(TryOffset(old, i, n, maxShort), maxShort)
                   /\ Handler(TryOffset(old, i, n, maxShort), at[i + 1], maxShort)
                        = IF n = -1 THEN -1 ELSE at[i + 1 + n]
        <5>1. n # -1 => old[i + 1 + n] - old[i + 1] < maxShort /\ {} \cap (i + 1 .. i + n) = {}
          BY <3>3 DEF Spared
        <5>2. n # -1 => i + 1 + n \in 1 .. N + 1
          <6>1. n \in {-1} \cup 0 .. N - i
            BY <3>3, CodesAssumption
          <6> QED  BY <1>1, <6>1
        <5>3. \A k \in 1 .. N + 1 : NewPos(code, {}, k) = old[k]
          <6>1. ASSUME NEW k \in 1 .. N + 1
                PROVE  Prefix(code, {})[k] = 0
            <7>1. 1 \in 1 .. Len(code) + 1 /\ k \in 1 .. Len(code) + 1
              BY <1>1
            <7>2. \A j \in 1 .. k - 1 : Growths(code, {})[j] = 0
              BY <1>1 DEF Growths, RelaxSize
            <7> QED  BY <7>1, <7>2, PrefixIs
          <6> QED  BY <1>6, <6>1 DEF NewPos
        <5>4. i + 1 \in 1 .. N + 1
          BY <1>1
        <5>5. /\ Fits(TryOffset(old, i, n, maxShort), maxShort)
              /\ Handler(TryOffset(old, i, n, maxShort), NewPos(code, {}, i + 1), maxShort)
                        = IF n = -1 THEN -1 ELSE NewPos(code, {}, i + 1 + n)
          BY <3>3, <5>1, HandlersLand
        <5> HIDE DEF old
        <5> QED  BY <1>5, <5>2, <5>3, <5>4, <5>5
      <4> QED  BY <2>1, <2>2, <2>4, <3>1, <3>3, <4>1, <4>2 DEF piece
    <3> QED  BY <3>2, <3>3
  <2> QED  BY <2>3, <2>4
<1> HIDE DEF N, old
<1> QED  BY <1>8 DEF Lands, at, pieces, out

\* What has been finished lands.
LandedInv ==
    emitted # <<>> => \E code \in Codes, maxShort \in MaxShorts :
                        emitted = <<code, maxShort>> /\ final = Finished(code, maxShort)

\* However long a function is and whatever has to be widened, jumps, handlers and lines meet the instructions
\* they name, if no for-each jump is widened, none within a sketchy, and handlers are near (chunk_finish).
THEOREM EveryJumpLands == JumpSpec => []SparedJumpsLand
<1>1. JumpInit => LandedInv
  BY DEF JumpInit, LandedInv
<1>2. LandedInv /\ [JumpNext]_jumpVars => LandedInv'
  <2> SUFFICES ASSUME LandedInv, [JumpNext]_jumpVars
               PROVE  LandedInv'
    OBVIOUS
  <2>1. CASE JumpNext
    BY <2>1 DEF JumpNext, FinishChunk, LandedInv
  <2>2. CASE UNCHANGED jumpVars
    BY <2>2 DEF LandedInv, jumpVars
  <2> QED  BY <2>1, <2>2
<1>3. LandedInv => SparedJumpsLand
  <2> SUFFICES ASSUME LandedInv, emitted # <<>>, Spared(emitted[1], emitted[2])
               PROVE  JumpsLand
    BY DEF SparedJumpsLand
  <2>1. PICK code \in Codes, maxShort \in MaxShorts :
            emitted = <<code, maxShort>> /\ final = Finished(code, maxShort)
    BY DEF LandedInv
  <2>2. emitted[1] = code /\ emitted[2] = maxShort
    BY <2>1
  <2>3. Lands(code, maxShort, final)
    BY <2>1, <2>2, RelaxedLands, UnrelaxedLands DEF Finished
  <2> QED  BY <2>2, <2>3 DEF Lands, JumpsLand
<1> QED  BY <1>1, <1>2, <1>3, PTL DEF JumpSpec
=============================================================================
