--------------------------- MODULE GroupChatProofs ---------------------------
(***************************************************************************)
(* A groupchat's index leads to every string key's entry and nowhere else,  *)
(* and groupchats implement ordered maps, for any keys, hashes and          *)
(* thresholds, as long as clear is called without an index only.            *)
(***************************************************************************)
EXTENDS GroupChat, FiniteSetTheorems, SequenceTheorems, WellFoundedInduction, TLAPS

\* A probe from h comes to position i before it comes to an empty place.
Reached(ix, c, h, i) ==
    \E m \in 0 .. c - 1 : /\ ix[Place(h, m, c)] = i
                          /\ \A j \in 0 .. m - 1 : ix[Place(h, j, c)] # Empty

\* What an index of capacity c holds for the first n slots: positions of string keys' entries only,
\* none twice, and each of them where a probe for its key finds it.
Sound(ix, c, s, n) ==
    /\ \A p \in 0 .. c - 1 : ix[p] # Empty => ix[p] \in 1 .. n /\ s[ix[p]].key \in StringKeys
    /\ \A p, q \in 0 .. c - 1 : p # q /\ ix[p] # Empty => ix[p] # ix[q]
    /\ \A i \in 1 .. n : s[i].key \in StringKeys => Reached(ix, c, Hash[s[i].key], i)

IsIndex(ix, c, s, n) ==
    /\ c \in Nat \ {0}
    /\ ix \in [0 .. c - 1 -> Int]
    /\ ~ Full(n, c)
    /\ Sound(ix, c, s, n)

\* Entries with a key each.
Distinct(s, n) ==
    /\ n \in Nat /\ 1 .. n \subseteq DOMAIN s
    /\ \A i \in 1 .. n : s[i].key \in Keys
    /\ \A i, j \in 1 .. n : s[i].key = s[j].key => i = j

\* The inductive invariant.
ChatInv(s, n, ix) ==
    /\ Distinct(s, n)
    /\ ix # NoIndex => n >= IndexMin /\ IsIndex(ix, Size(ix), s, n)

Good(g) == ChatInv(g.slots, g.count, g.index)

-----------------------------------------------------------------------------
(* Numbers *)

LEMMA ModOf ==
  ASSUME NEW c \in Nat \ {0}, NEW q \in Nat, NEW p \in 0 .. c - 1
  PROVE  (c * q + p) % c = p
  OBVIOUS

LEMMA PlaceInside ==
  ASSUME NEW h \in Nat, NEW n \in Nat, NEW c \in Nat \ {0}
  PROVE  Place(h, n, c) \in 0 .. c - 1
<1> DEFINE x == h + n
<1>1. x \in Nat  OBVIOUS
<1> HIDE DEF x
<1>2. x % c \in 0 .. c - 1  BY <1>1
<1> QED  BY <1>2 DEF Place, x

\* A probe comes to every place.
LEMMA PlaceOnto ==
  ASSUME NEW h \in Nat, NEW c \in Nat \ {0}, NEW p \in 0 .. c - 1
  PROVE  \E n \in 0 .. c - 1 : Place(h, n, c) = p
<1> DEFINE r == h % c
           q == h \div c
<1>1. r \in Nat /\ r < c /\ q \in Nat /\ h = c * q + r
  OBVIOUS
<1>2. CASE r <= p
  <2> DEFINE n == p - r
  <2>1. n \in 0 .. c - 1 /\ h + n = c * q + p
    BY <1>1, <1>2
  <2>2. (c * q + p) % c = p
    BY <1>1, ModOf
  <2> QED  BY <2>1, <2>2 DEF Place
<1>3. CASE ~ (r <= p)
  <2> DEFINE n == p - r + c
  <2>1. n \in 0 .. c - 1 /\ h + n = c * (q + 1) + p
    BY <1>1, <1>3
  <2>2. (c * (q + 1) + p) % c = p
    <3>1. q + 1 \in Nat  BY <1>1
    <3> HIDE DEF q
    <3> QED  BY <3>1, ModOf
  <2> QED  BY <2>1, <2>2 DEF Place
<1> QED  BY <1>2, <1>3

\* The least of some naturals.
LEMMA MinIs ==
  ASSUME NEW S, S \subseteq Nat, S # {}
  PROVE  Min(S) \in S /\ \A j \in S : Min(S) <= j
<1>1. PICK m \in S : \A j \in S : ~ (j < m)
  <2>1. IsWellFoundedOn(OpToRel(<, Nat), Nat)
    BY NatLessThanWellFounded
  <2>2. \E m \in S : \A j \in S : ~ (<<j, m>> \in OpToRel(<, Nat))
    BY <2>1, WFMin, Zenon
  <2>3. PICK m \in S : \A j \in S : ~ (<<j, m>> \in OpToRel(<, Nat))
    BY <2>2
  <2>4. \A j \in S : ~ (j < m)
    BY <2>3 DEF OpToRel
  <2> QED  BY <2>4
<1>2. m \in S /\ \A j \in S : m <= j
  BY <1>1
<1> QED  BY <1>2 DEF Min

\* What is not full has room.
LEMMA NotFull ==
  ASSUME NEW n \in Nat, NEW c \in Nat, ~ Full(n, c)
  PROVE  n < c
<1>1. LoadNum \in Nat /\ LoadDen \in Nat /\ LoadNum <= LoadDen
  BY ChatAssumption
<1>2. n * LoadDen < c * LoadNum
  BY <1>1 DEF Full
<1>3. c * LoadNum <= c * LoadDen
  BY <1>1
<1>4. CASE c <= n
  <2>1. c * LoadDen <= n * LoadDen
    BY <1>1, <1>4
  <2> HIDE DEF Full
  <2> QED  BY <1>1, <1>2, <1>3, <2>1
<1> QED  BY <1>4

\* An index with room has an empty place.
LEMMA HasEmpty ==
  ASSUME NEW c \in Nat, NEW ix \in [0 .. c - 1 -> Int], NEW s, NEW n \in Nat, n < c, Sound(ix, c, s, n)
  PROVE  \E p \in 0 .. c - 1 : ix[p] = Empty
<1> SUFFICES ASSUME \A p \in 0 .. c - 1 : ix[p] # Empty
             PROVE  FALSE
  OBVIOUS
<1> DEFINE P == 0 .. c - 1
           Q == 1 .. n
<1>1. IsFiniteSet(P) /\ Cardinality(P) = c
  <2>1. 0 \in Int /\ c - 1 \in Int  OBVIOUS
  <2>2. IsFiniteSet(0 .. c - 1) /\ Cardinality(0 .. c - 1) = IF 0 > c - 1 THEN 0 ELSE (c - 1) - 0 + 1
    BY <2>1, FS_Interval, Zenon
  <2> QED  BY <2>2
<1>2. IsFiniteSet(Q) /\ Cardinality(Q) = n
  <2>1. 1 \in Int /\ n \in Int  OBVIOUS
  <2>2. IsFiniteSet(1 .. n) /\ Cardinality(1 .. n) = IF 1 > n THEN 0 ELSE n - 1 + 1
    BY <2>1, FS_Interval, Zenon
  <2> QED  BY <2>2
<1>3. ix \in [P -> Q]
  BY DEF Sound
<1>4. \A p, q \in P : p # q => ix[p] # ix[q]
  BY DEF Sound
<1> HIDE DEF P, Q
<1>5. Cardinality(Q) < Cardinality(P)
  BY <1>1, <1>2
<1>6. \E p, q \in P : p # q /\ ix[p] = ix[q]
  BY <1>1, <1>2, <1>3, <1>5, FS_PigeonHole
<1> QED  BY <1>4, <1>6

\* Where a probe ends.
LEMMA ProbeEnds ==
  ASSUME NEW h \in Nat, NEW c \in Nat \ {0}, NEW ends \in SUBSET (0 .. c - 1), ends # {}
  PROVE  \E m \in 0 .. c - 1 :
            /\ Probe(ends, h, c) = Place(h, m, c)
            /\ Place(h, m, c) \in ends
            /\ \A j \in 0 .. m - 1 : Place(h, j, c) \notin ends
<1> DEFINE steps == {n \in 0 .. c - 1 : Place(h, n, c) \in ends}
<1>1. steps # {}
  <2>1. PICK p \in 0 .. c - 1 : p \in ends
    OBVIOUS
  <2>2. PICK n \in 0 .. c - 1 : Place(h, n, c) = p
    BY PlaceOnto
  <2>3. n \in steps
    BY <2>1, <2>2
  <2> QED  BY <2>3
<1>2. Probe(ends, h, c) = Place(h, Min(steps), c)
  BY <1>1 DEF Probe
<1>3. Min(steps) \in steps /\ \A j \in steps : Min(steps) <= j
  <2>1. steps \subseteq Nat
    OBVIOUS
  <2> HIDE DEF steps
  <2> QED  BY <1>1, <2>1, MinIs
<1>4. PICK m : m = Min(steps) /\ m \in steps /\ \A j \in steps : m <= j
  BY <1>3
<1>5. m \in 0 .. c - 1 /\ Place(h, m, c) \in ends
  BY <1>4
<1>6. \A j \in 0 .. m - 1 : Place(h, j, c) \notin ends
  <2> SUFFICES ASSUME NEW j \in 0 .. m - 1, Place(h, j, c) \in ends
               PROVE  FALSE
    OBVIOUS
  <2>1. j \in 0 .. c - 1 /\ j < m
    BY <1>5
  <2>2. j \in steps
    BY <2>1
  <2> QED  BY <1>4, <1>5, <2>1, <2>2
<1>7. Probe(ends, h, c) = Place(h, m, c)
  BY <1>2, <1>4
<1> QED  BY <1>5, <1>6, <1>7

-----------------------------------------------------------------------------
(* Putting positions into an index *)

LEMMA EmptyIs == Empty \in Int /\ \A i \in Nat : i # Empty
  BY DEF Empty

LEMMA SizeIs ==
  ASSUME NEW c \in Nat, NEW ix \in [0 .. c - 1 -> Int]
  PROVE  DOMAIN ix = 0 .. c - 1 /\ Size(ix) = c
<1>1. 0 \in Int /\ c - 1 \in Int  OBVIOUS
<1>2. Cardinality(0 .. c - 1) = IF 0 > c - 1 THEN 0 ELSE (c - 1) - 0 + 1
  BY <1>1, FS_Interval, Zenon
<1> QED  BY <1>2 DEF Size

\* An index in which a probe for hash h comes to an empty place in its m-th step, and then holds i.
Fills(to, ix, c, h, i, m) ==
    /\ Place(h, m, c) \in 0 .. c - 1
    /\ ix[Place(h, m, c)] = Empty
    /\ \A j \in 0 .. m - 1 : ix[Place(h, j, c)] # Empty
    /\ to = [ix EXCEPT ![Place(h, m, c)] = i]

\* index_insert changes one place, an empty one, at which a probe for the hash then arrives.
LEMMA InsertFills ==
  ASSUME NEW c \in Nat \ {0}, NEW ix \in [0 .. c - 1 -> Int], NEW s, NEW n \in Nat, n < c, Sound(ix, c, s, n),
         NEW h \in Nat, NEW i \in Nat
  PROVE  \E m \in 0 .. c - 1 : Fills(IndexInsert(ix, h, i), ix, c, h, i, m)
<1> DEFINE ends == EmptyPlaces(ix)
<1>1. DOMAIN ix = 0 .. c - 1 /\ Size(ix) = c
  BY SizeIs
<1>2. ends \in SUBSET (0 .. c - 1) /\ ends # {}
  BY <1>1, HasEmpty DEF EmptyPlaces
<1>3. \A p \in 0 .. c - 1 : p \in ends <=> ix[p] = Empty
  BY <1>1 DEF EmptyPlaces
<1>4. IndexInsert(ix, h, i) = [ix EXCEPT ![Probe(ends, h, c)] = i]
  BY <1>1 DEF IndexInsert
<1> HIDE DEF ends
<1>5. PICK m \in 0 .. c - 1 :
            /\ Probe(ends, h, c) = Place(h, m, c)
            /\ Place(h, m, c) \in ends
            /\ \A j \in 0 .. m - 1 : Place(h, j, c) \notin ends
  BY <1>2, ProbeEnds
<1>6. \A j \in 0 .. m - 1 : ix[Place(h, j, c)] # Empty
  <2> SUFFICES ASSUME NEW j \in 0 .. m - 1
               PROVE  ix[Place(h, j, c)] # Empty
    OBVIOUS
  <2>1. j \in Nat  OBVIOUS
  <2>2. Place(h, j, c) \in 0 .. c - 1
    BY <2>1, PlaceInside
  <2> QED  BY <1>3, <1>5, <2>2
<1>7. Place(h, m, c) \in 0 .. c - 1 /\ ix[Place(h, m, c)] = Empty
  BY <1>2, <1>3, <1>5
<1> QED  BY <1>4, <1>5, <1>6, <1>7 DEF Fills

\* Filling an empty place disturbs no probe that arrives.
LEMMA ReachedKept ==
  ASSUME NEW c \in Nat \ {0}, NEW ix \in [0 .. c - 1 -> Int], NEW to \in [0 .. c - 1 -> Int],
         NEW filling \in 0 .. c - 1, ix[filling] = Empty, NEW n \in Nat,
         \A p \in 0 .. c - 1 : to[p] = IF p = filling THEN n ELSE ix[p],
         NEW h \in Nat, NEW i \in Nat, Reached(ix, c, h, i)
  PROVE  Reached(to, c, h, i)
<1>1. PICK m \in 0 .. c - 1 : /\ ix[Place(h, m, c)] = i
                              /\ \A j \in 0 .. m - 1 : ix[Place(h, j, c)] # Empty
  BY DEF Reached
<1>2. Place(h, m, c) \in 0 .. c - 1 /\ m \in Nat
  <2>1. m \in Nat  OBVIOUS
  <2> QED  BY <2>1, PlaceInside
<1>3. to[Place(h, m, c)] = i
  BY <1>1, <1>2, EmptyIs
<1>4. \A j \in 0 .. m - 1 : to[Place(h, j, c)] # Empty
  <2> SUFFICES ASSUME NEW j \in 0 .. m - 1
               PROVE  to[Place(h, j, c)] # Empty
    OBVIOUS
  <2>1. j \in Nat  OBVIOUS
  <2>2. Place(h, j, c) \in 0 .. c - 1
    BY <2>1, PlaceInside
  <2>3. ix[Place(h, j, c)] # Empty
    BY <1>1
  <2> QED  BY <2>2, <2>3, EmptyIs
<1> QED  BY <1>3, <1>4 DEF Reached

\* An index for n slots, with the next slot's position if that is a string key's, is one for n + 1.
LEMMA InsertedSound ==
  ASSUME NEW c \in Nat \ {0}, NEW ix \in [0 .. c - 1 -> Int], NEW s, NEW n \in Nat, n < c, Sound(ix, c, s, n)
  PROVE  /\ Inserted(ix, s, n + 1) \in [0 .. c - 1 -> Int]
         /\ Sound(Inserted(ix, s, n + 1), c, s, n + 1)
<1> DEFINE i == n + 1
           h == Hash[s[i].key]
           to == Inserted(ix, s, i)
<1>1. i \in Nat /\ 1 .. i = (1 .. n) \cup {i} /\ i \notin 1 .. n
  OBVIOUS
<1>2. CASE s[i].key \notin StringKeys
  <2>1. to = ix
    BY <1>2 DEF Inserted
  <2> HIDE DEF to, i
  <2>2. Sound(ix, c, s, i)
    BY <1>1, <1>2 DEF Sound
  <2> QED  BY <2>1, <2>2 DEF to, i
<1>3. CASE s[i].key \in StringKeys
  <2>1. h \in Nat
    BY <1>3, ChatAssumption
  <2>2. to = IndexInsert(ix, h, i)
    BY <1>3 DEF Inserted
  <2> HIDE DEF to, i, h
  <2>11. PICK m \in 0 .. c - 1 : Fills(to, ix, c, h, i, m)
    BY <1>1, <2>1, <2>2, InsertFills
  <2>3. /\ Place(h, m, c) \in 0 .. c - 1
        /\ ix[Place(h, m, c)] = Empty
        /\ \A j \in 0 .. m - 1 : ix[Place(h, j, c)] # Empty
        /\ to = [ix EXCEPT ![Place(h, m, c)] = i]
    BY <2>11 DEF Fills
  <2>4. PICK f \in 0 .. c - 1 : f = Place(h, m, c)
    BY <2>3
  <2>5. to \in [0 .. c - 1 -> Int] /\ \A p \in 0 .. c - 1 : to[p] = IF p = f THEN i ELSE ix[p]
    BY <1>1, <2>3, <2>4
  <2>6. ix[f] = Empty
    BY <2>3, <2>4
  <2>7. ASSUME NEW p \in 0 .. c - 1, to[p] # Empty
        PROVE  to[p] \in 1 .. i /\ s[to[p]].key \in StringKeys
    BY <1>1, <1>3, <2>5, <2>7 DEF Sound
  <2>8. ASSUME NEW p \in 0 .. c - 1, NEW q \in 0 .. c - 1, p # q, to[p] # Empty
        PROVE  to[p] # to[q]
    <3>1. CASE p = f
      <4>1. to[p] = i /\ to[q] = ix[q]
        BY <2>5, <2>8, <3>1
      <4>2. ix[q] # Empty => ix[q] \in 1 .. n
        BY DEF Sound
      <4> QED  BY <1>1, <4>1, <4>2, EmptyIs
    <3>2. CASE q = f
      <4>1. to[q] = i /\ to[p] = ix[p]
        BY <2>5, <2>8, <3>2
      <4>2. ix[p] # Empty => ix[p] \in 1 .. n
        BY DEF Sound
      <4> QED  BY <1>1, <2>8, <4>1, <4>2
    <3>3. CASE p # f /\ q # f
      BY <2>5, <2>8, <3>3 DEF Sound
    <3> QED  BY <3>1, <3>2, <3>3
  <2>9. ASSUME NEW k \in 1 .. i, s[k].key \in StringKeys
        PROVE  Reached(to, c, Hash[s[k].key], k)
    <3>1. CASE k = i
      <4>1. Hash[s[k].key] = h
        BY <3>1 DEF h
      <4>2. to[Place(h, m, c)] = i
        BY <2>4, <2>5
      <4>3. \A j \in 0 .. m - 1 : to[Place(h, j, c)] # Empty
        <5> SUFFICES ASSUME NEW j \in 0 .. m - 1
                     PROVE  to[Place(h, j, c)] # Empty
          OBVIOUS
        <5>1. j \in Nat  OBVIOUS
        <5>2. Place(h, j, c) \in 0 .. c - 1
          BY <2>1, <5>1, PlaceInside
        <5>3. ix[Place(h, j, c)] # Empty
          BY <2>3
        <5> QED  BY <1>1, <2>5, <5>2, <5>3, EmptyIs
      <4> QED  BY <3>1, <4>1, <4>2, <4>3 DEF Reached
    <3>2. CASE k # i
      <4>4. k \in 1 .. n
        BY ONLY <1>1, <2>9, <3>2, Zenon
      <4>1. k \in 1 .. n /\ k \in Nat
        BY <4>4
      <4>2. Reached(ix, c, Hash[s[k].key], k)
        BY <2>9, <4>1 DEF Sound
      <4>3. Hash[s[k].key] \in Nat
        BY <2>9, ChatAssumption
      <4>5. PICK g \in Nat : g = Hash[s[k].key]
        BY <4>3
      <4>6. Reached(ix, c, g, k)
        BY <4>2, <4>5
      <4>7. Reached(to, c, g, k)
        BY <1>1, <2>5, <2>6, <4>1, <4>6, ReachedKept
      <4> QED  BY <4>5, <4>7
    <3> QED  BY <3>1, <3>2
  <2>10. Sound(to, c, s, i)
    BY <2>7, <2>8, <2>9 DEF Sound
  <2> QED  BY <2>5, <2>10 DEF to, i
<1> QED  BY <1>2, <1>3

-----------------------------------------------------------------------------
(* Rebuilding an index *)

\* What a set of naturals holds that holds 0 and, with each below n, the next.
LEMMA UpTo ==
  ASSUME NEW n \in Nat, NEW S, 0 \in S, \A i \in 1 .. n : i - 1 \in S => i \in S
  PROVE  0 .. n \subseteq S
<1> SUFFICES ASSUME ~ (0 .. n \subseteq S)
             PROVE  FALSE
  OBVIOUS
<1> DEFINE bad == {i \in 0 .. n : i \notin S}
<1>1. bad \subseteq Nat /\ bad # {}
  OBVIOUS
<1>2. Min(bad) \in bad /\ \A j \in bad : Min(bad) <= j
  <2> HIDE DEF bad
  <2> QED  BY <1>1, MinIs
<1>3. PICK m : m \in bad /\ \A j \in bad : m <= j
  BY <1>2
<1>4. m \in 1 .. n
  BY <1>3
<1>5. m - 1 \in S
  <2>1. m - 1 \in 0 .. n /\ m - 1 < m
    BY <1>4
  <2> QED  BY <1>3, <2>1
<1> QED  BY <1>3, <1>4, <1>5

\* The loop of rebuild_index that doubles what is wanted.
Doubles(f, n, m) ==
    f = [d \in 0 .. m |-> IF d = 0 THEN SmallestIndex
                          ELSE IF Full(n, f[d - 1]) THEN 2 * f[d - 1] ELSE f[d - 1]]

LEMMA DoublesExists ==
  ASSUME NEW n
  PROVE  \A m \in Nat : \E f : Doubles(f, n, m)
<1> DEFINE S == {m \in Nat : \E f : Doubles(f, n, m)}
<1>1. 0 \in S
  <2> DEFINE f == [d \in 0 .. 0 |-> SmallestIndex]
  <2>1. Doubles(f, n, 0)
    BY DEF Doubles
  <2> QED  BY <2>1
<1>2. ASSUME NEW m \in Nat \ {0}, m - 1 \in S
      PROVE  m \in S
  <2>1. PICK f : Doubles(f, n, m - 1)
    BY <1>2
  <2> DEFINE g == [d \in 0 .. m |-> IF d <= m - 1 THEN f[d]
                                    ELSE IF Full(n, f[m - 1]) THEN 2 * f[m - 1] ELSE f[m - 1]]
  <2>2. \A d \in 0 .. m : g[d] = IF d = 0 THEN SmallestIndex
                                 ELSE IF Full(n, g[d - 1]) THEN 2 * g[d - 1] ELSE g[d - 1]
    <3> SUFFICES ASSUME NEW d \in 0 .. m
                 PROVE  g[d] = IF d = 0 THEN SmallestIndex
                               ELSE IF Full(n, g[d - 1]) THEN 2 * g[d - 1] ELSE g[d - 1]
      OBVIOUS
    <3>1. CASE d <= m - 1
      <4>1. f[d] = IF d = 0 THEN SmallestIndex
                   ELSE IF Full(n, f[d - 1]) THEN 2 * f[d - 1] ELSE f[d - 1]
        BY <2>1, <3>1 DEF Doubles
      <4>2. g[d] = f[d] /\ (d # 0 => g[d - 1] = f[d - 1])
        BY <3>1
      <4> HIDE DEF g
      <4> QED  BY <4>1, <4>2
    <3>2. CASE ~ (d <= m - 1)
      <4>1. d = m /\ g[d - 1] = f[m - 1]
        BY <3>2
      <4>2. g[d] = IF Full(n, f[m - 1]) THEN 2 * f[m - 1] ELSE f[m - 1]
        BY <3>2
      <4> HIDE DEF g
      <4> QED  BY <1>2, <4>1, <4>2
    <3> QED  BY <3>1, <3>2
  <2>3. Doubles(g, n, m)
    <3>1. g = [d \in 0 .. m |-> g[d]]
      OBVIOUS
    <3> HIDE DEF g
    <3> QED  BY <2>2, <3>1 DEF Doubles
  <2> QED  BY <2>3
<1>3. ASSUME NEW m \in Nat
      PROVE  m \in S
  <2>1. \A i \in 1 .. m : i - 1 \in S => i \in S
    BY <1>2
  <2> HIDE DEF S
  <2>2. 0 .. m \subseteq S
    BY <1>1, <2>1, UpTo
  <2> QED  BY <2>2
<1> QED  BY <1>3

\* A capacity for n entries: that many do not fill it.
LEMMA CapacityForIs ==
  ASSUME NEW n \in Nat
  PROVE  CapacityFor(n) \in Nat \ {0} /\ ~ Full(n, CapacityFor(n))
<1> DEFINE wanted == CHOOSE f : Doubles(f, n, n)
<1>1. CapacityFor(n) = wanted[n]
  BY DEF CapacityFor, Doubles
<1>2. Doubles(wanted, n, n)
  BY DoublesExists
<1> HIDE DEF wanted
<1>3. LoadNum \in Nat /\ LoadDen \in Nat /\ SmallestIndex \in Nat \ {0} /\ LoadDen < SmallestIndex * LoadNum
  BY ChatAssumption
<1> DEFINE S == {d \in 0 .. n : wanted[d] \in Nat \ {0} /\ (Full(n, wanted[d]) => wanted[d] >= SmallestIndex * (d + 1))}
<1>4. 0 \in S
  BY <1>2, <1>3 DEF Doubles
<1>5. ASSUME NEW d \in 1 .. n, d - 1 \in S
      PROVE  d \in S
  <2>1. wanted[d] = IF Full(n, wanted[d - 1]) THEN 2 * wanted[d - 1] ELSE wanted[d - 1]
    BY <1>2 DEF Doubles
  <2>2. PICK w \in Nat \ {0} : w = wanted[d - 1]
    BY <1>5
  <2>3. CASE Full(n, w)
    <3>1. w >= SmallestIndex * ((d - 1) + 1)
      BY <1>5, <2>2, <2>3
    <3>2. wanted[d] = 2 * w /\ 2 * w \in Nat \ {0}
      BY <2>1, <2>2, <2>3
    <3>3. w >= SmallestIndex * d
      BY <3>1
    <3>4. 2 * w >= SmallestIndex * (d + 1)
      <4>1. SmallestIndex * (d + 1) = SmallestIndex * d + SmallestIndex
        BY <1>3
      <4>2. SmallestIndex * d >= SmallestIndex
        BY <1>3
      <4>3. SmallestIndex * d \in Nat
        BY <1>3
      <4> QED  BY <1>3, <3>3, <4>1, <4>2, <4>3
    <3> QED  BY <3>2, <3>4
  <2>4. CASE ~ Full(n, w)
    BY <2>1, <2>2, <2>4
  <2> QED  BY <2>3, <2>4
<1>6. n \in S
  <2> HIDE DEF S
  <2>1. 0 .. n \subseteq S
    BY <1>4, <1>5, UpTo
  <2> QED  BY <2>1
<1>7. PICK w \in Nat \ {0} : w = wanted[n] /\ (Full(n, w) => w >= SmallestIndex * (n + 1))
  BY <1>6
<1>8. ~ Full(n, w)
  <2> SUFFICES ASSUME n * LoadDen >= w * LoadNum, w >= SmallestIndex * (n + 1)
               PROVE  FALSE
    BY <1>7 DEF Full
  <2> DEFINE load == SmallestIndex * LoadNum
  <2>1. w * LoadNum >= (SmallestIndex * (n + 1)) * LoadNum
    <3>1. SmallestIndex * (n + 1) \in Nat
      BY <1>3
    <3> QED  BY <1>3, <3>1
  <2>2. (SmallestIndex * (n + 1)) * LoadNum = load * (n + 1)
    BY <1>3
  <2>3. load \in Nat /\ LoadDen + 1 <= load
    BY <1>3
  <2> HIDE DEF load
  <2>4. load * (n + 1) >= (LoadDen + 1) * (n + 1)
    BY <1>3, <2>3
  <2>5. (LoadDen + 1) * (n + 1) = n * LoadDen + LoadDen + n + 1
    BY <1>3
  <2> QED  BY <1>3, <2>1, <2>2, <2>4, <2>5
<1> QED  BY <1>1, <1>7, <1>8

\* The loop of rebuild_index that inserts the first m positions, in an index of capacity c.
Builds(f, s, c, m) ==
    f = [i \in 0 .. m |-> IF i = 0 THEN Blank(c) ELSE Inserted(f[i - 1], s, i)]

LEMMA BuildsExists ==
  ASSUME NEW s, NEW c
  PROVE  \A m \in Nat : \E f : Builds(f, s, c, m)
<1> DEFINE S == {m \in Nat : \E f : Builds(f, s, c, m)}
<1>1. 0 \in S
  <2> DEFINE f == [i \in 0 .. 0 |-> Blank(c)]
  <2>1. Builds(f, s, c, 0)
    BY DEF Builds
  <2> QED  BY <2>1
<1>2. ASSUME NEW m \in Nat \ {0}, m - 1 \in S
      PROVE  m \in S
  <2>1. PICK f : Builds(f, s, c, m - 1)
    BY <1>2
  <2> DEFINE g == [i \in 0 .. m |-> IF i <= m - 1 THEN f[i] ELSE Inserted(f[m - 1], s, m)]
  <2>2. \A i \in 0 .. m : g[i] = IF i = 0 THEN Blank(c) ELSE Inserted(g[i - 1], s, i)
    <3> SUFFICES ASSUME NEW i \in 0 .. m
                 PROVE  g[i] = IF i = 0 THEN Blank(c) ELSE Inserted(g[i - 1], s, i)
      OBVIOUS
    <3>1. CASE i <= m - 1
      <4>1. f[i] = IF i = 0 THEN Blank(c) ELSE Inserted(f[i - 1], s, i)
        <5>1. i \in 0 .. m - 1
          BY <3>1
        <5> QED  BY <2>1, <5>1 DEF Builds
      <4>2. g[i] = f[i] /\ (i # 0 => g[i - 1] = f[i - 1])
        BY <3>1
      <4> HIDE DEF g
      <4> QED  BY <4>1, <4>2
    <3>2. CASE ~ (i <= m - 1)
      <4>1. i = m /\ g[i - 1] = f[m - 1] /\ g[i] = Inserted(f[m - 1], s, m)
        BY <3>2
      <4> HIDE DEF g
      <4> QED  BY <1>2, <4>1
    <3> QED  BY <3>1, <3>2
  <2>3. Builds(g, s, c, m)
    <3>1. g = [i \in 0 .. m |-> g[i]]
      OBVIOUS
    <3> HIDE DEF g
    <3>2. g = [i \in 0 .. m |-> IF i = 0 THEN Blank(c) ELSE Inserted(g[i - 1], s, i)]
      BY <2>2, <3>1
    <3> QED  BY <3>2 DEF Builds
  <2> QED  BY <2>3
<1>3. ASSUME NEW m \in Nat
      PROVE  m \in S
  <2>1. \A i \in 1 .. m : i - 1 \in S => i \in S
    BY <1>2
  <2> HIDE DEF S
  <2>2. 0 .. m \subseteq S
    BY <1>1, <2>1, UpTo
  <2> QED  BY <2>2
<1> QED  BY <1>3

\* rebuild_index makes an index for the slots it is given, whatever was there before.
LEMMA IndexOfIs ==
  ASSUME NEW s, NEW n \in Nat
  PROVE  IsIndex(IndexOf(s, n), CapacityFor(n), s, n)
<1> DEFINE c == CapacityFor(n)
           ix == CHOOSE f : Builds(f, s, c, n)
<1>1. IndexOf(s, n) = ix[n]
  BY DEF IndexOf, Builds
<1>2. c \in Nat \ {0} /\ ~ Full(n, c)
  BY CapacityForIs
<1> HIDE DEF c
<1>3. Builds(ix, s, c, n)
  BY BuildsExists
<1> HIDE DEF ix
<1>4. n < c
  BY <1>2, NotFull
<1> DEFINE S == {i \in 0 .. n : ix[i] \in [0 .. c - 1 -> Int] /\ Sound(ix[i], c, s, i)}
<1>5. 0 \in S
  <2>1. ix[0] = [p \in 0 .. c - 1 |-> Empty]
    BY <1>3 DEF Builds, Blank
  <2>2. ix[0] \in [0 .. c - 1 -> Int] /\ \A p \in 0 .. c - 1 : ix[0][p] = Empty
    BY <2>1, EmptyIs
  <2>3. Sound(ix[0], c, s, 0)
    BY <2>2 DEF Sound
  <2> QED  BY <2>2, <2>3
<1>6. ASSUME NEW i \in 1 .. n, i - 1 \in S
      PROVE  i \in S
  <2>1. ix[i] = Inserted(ix[i - 1], s, i)
    <3>1. i \in 0 .. n /\ i # 0
      OBVIOUS
    <3> QED  BY <1>3, <3>1 DEF Builds
  <2>2. PICK k \in Nat : k = i - 1
    OBVIOUS
  <2>3. PICK x \in [0 .. c - 1 -> Int] : x = ix[k] /\ Sound(x, c, s, k)
    BY <1>6, <2>2
  <2>4. k < c /\ k + 1 = i
    BY <1>2, <1>4, <2>2
  <2>5. Inserted(x, s, k + 1) \in [0 .. c - 1 -> Int] /\ Sound(Inserted(x, s, k + 1), c, s, k + 1)
    BY <1>2, <2>3, <2>4, InsertedSound
  <2> QED  BY <2>1, <2>2, <2>3, <2>4, <2>5
<1>7. n \in S
  <2> HIDE DEF S
  <2>1. 0 .. n \subseteq S
    BY <1>5, <1>6, UpTo
  <2> QED  BY <2>1
<1> QED  BY <1>1, <1>2, <1>7 DEF IsIndex, c

-----------------------------------------------------------------------------
(* Lookup *)

\* What a key's position is: where its entry is, or Empty if it has none.
IsAt(at, s, n, k) ==
    \/ at \in 1 .. n /\ s[at].key = k
    \/ at = Empty /\ \A i \in 1 .. n : s[i].key # k

LEMMA ScanFinds ==
  ASSUME NEW g, NEW k, g.count \in Nat
  PROVE  IsAt(Scan(g, k), g.slots, g.count, k)
<1> DEFINE at == {i \in 1 .. g.count : g.slots[i].key = k}
<1>1. CASE at = {}
  BY <1>1 DEF Scan, IsAt
<1>2. CASE at # {}
  <2>1. Scan(g, k) = Min(at)
    BY <1>2 DEF Scan
  <2>2. Min(at) \in at
    <3>1. at \subseteq Nat
      OBVIOUS
    <3> HIDE DEF at
    <3> QED  BY <1>2, <3>1, MinIs
  <2>3. PICK m \in at : m = Min(at)
    BY <2>2
  <2> QED  BY <2>1, <2>3 DEF IsAt
<1> QED  BY <1>1, <1>2

\* A probe for a string key ends at its entry's position, or at an empty place if it has none.
LEMMA ProbeFinds ==
  ASSUME NEW g, NEW c, NEW k \in StringKeys, IsIndex(g.index, c, g.slots, g.count), Distinct(g.slots, g.count)
  PROVE  \E p \in 0 .. c - 1 :
            /\ Probe(Stops(g, k), Hash[k], Size(g.index)) = p
            /\ IsAt(g.index[p], g.slots, g.count, k)
<1> DEFINE h == Hash[k]
           ends == Stops(g, k)
<1>1. c \in Nat \ {0} /\ g.index \in [0 .. c - 1 -> Int] /\ Sound(g.index, c, g.slots, g.count) /\ ~ Full(g.count, c)
  BY DEF IsIndex
<1>2. DOMAIN g.index = 0 .. c - 1 /\ Size(g.index) = c
  BY <1>1, SizeIs
<1>3. g.count \in Nat /\ g.count < c
  BY <1>1, NotFull DEF Distinct
<1>4. h \in Nat
  BY ChatAssumption
<1>5. \A p \in 0 .. c - 1 : p \in ends <=> g.index[p] = Empty \/ g.slots[g.index[p]].key = k
  BY <1>2 DEF Stops
<1>6. ends \in SUBSET (0 .. c - 1)
  BY <1>2 DEF Stops
<1>7. ends # {}
  <2>1. PICK p \in 0 .. c - 1 : g.index[p] = Empty
    BY <1>1, <1>3, HasEmpty
  <2> QED  BY <1>5, <2>1
<1> HIDE DEF ends, h
<1>8. PICK m \in 0 .. c - 1 :
            /\ Probe(ends, h, c) = Place(h, m, c)
            /\ Place(h, m, c) \in ends
            /\ \A j \in 0 .. m - 1 : Place(h, j, c) \notin ends
  BY <1>1, <1>4, <1>6, <1>7, ProbeEnds
<1>9. PICK p \in 0 .. c - 1 : p = Place(h, m, c) /\ p \in ends
  BY <1>6, <1>8
<1>10. CASE g.index[p] # Empty
  <2>1. g.slots[g.index[p]].key = k /\ g.index[p] \in 1 .. g.count
    BY <1>1, <1>5, <1>9, <1>10 DEF Sound
  <2> QED  BY <1>2, <1>8, <1>9, <2>1 DEF IsAt, ends, h
<1>11. CASE g.index[p] = Empty
  <2>1. ASSUME NEW i \in 1 .. g.count, g.slots[i].key = k
        PROVE  FALSE
    <3>1. Reached(g.index, c, h, i)
      BY <1>1, <2>1 DEF Sound, h
    <3>2. PICK q \in 0 .. c - 1 : /\ g.index[Place(h, q, c)] = i
                                  /\ \A j \in 0 .. q - 1 : g.index[Place(h, j, c)] # Empty
      BY <3>1 DEF Reached
    <3>3. q \in Nat /\ m \in Nat /\ i \in Nat
      BY <1>3
    <3>4. Place(h, q, c) \in 0 .. c - 1
      BY <1>1, <1>4, <3>3, PlaceInside
    <3>5. Place(h, q, c) \in ends
      BY <1>5, <2>1, <3>2, <3>4
    <3>6. m <= q
      <4>1. CASE q < m
        <5>1. q \in 0 .. m - 1
          BY <3>3, <4>1
        <5> QED  BY <1>8, <3>5, <5>1
      <4> QED  BY <3>3, <4>1
    <3>7. CASE m < q
      <4>1. m \in 0 .. q - 1
        BY <3>3, <3>7
      <4> QED  BY <1>9, <1>11, <3>2, <4>1
    <3>8. CASE m = q
      BY <1>9, <1>11, <3>2, <3>3, <3>8, EmptyIs
    <3> QED  BY <3>3, <3>6, <3>7, <3>8
  <2> QED  BY <1>2, <1>8, <1>9, <1>11, <2>1 DEF IsAt, ends, h
<1> QED  BY <1>10, <1>11

\* groupchat_find finds every key's entry, and only that.
LEMMA FindFinds ==
  ASSUME NEW g, NEW k \in Keys, Good(g)
  PROVE  IsAt(Find(g, k), g.slots, g.count, k)
<1>1. g.count \in Nat /\ Distinct(g.slots, g.count)
  BY DEF Good, ChatInv, Distinct
<1>2. CASE g.index # NoIndex /\ k \in StringKeys
  <2>1. IsIndex(g.index, Size(g.index), g.slots, g.count)
    BY <1>2 DEF Good, ChatInv
  <2>2. PICK p \in 0 .. Size(g.index) - 1 :
            /\ Probe(Stops(g, k), Hash[k], Size(g.index)) = p
            /\ IsAt(g.index[p], g.slots, g.count, k)
    BY <1>1, <1>2, <2>1, ProbeFinds
  <2>3. p # Empty
    BY DEF Empty
  <2> QED  BY <1>2, <2>2, <2>3 DEF Find
<1>3. CASE ~ (g.index # NoIndex /\ k \in StringKeys)
  <2>1. Find(g, k) = Scan(g, k)
    BY <1>3 DEF Find
  <2> QED  BY <1>1, <2>1, ScanFinds
<1> QED  BY <1>2, <1>3

-----------------------------------------------------------------------------
(* What set and remove keep *)

\* Slots with the same keys, up to n.
SameKeys(s, t, n) ==
    /\ 1 .. n \subseteq DOMAIN t
    /\ \A i \in 1 .. n : t[i].key = s[i].key

LEMMA SoundOfSameKeys ==
  ASSUME NEW ix, NEW c, NEW s, NEW t, NEW n, Sound(ix, c, s, n), SameKeys(s, t, n)
  PROVE  Sound(ix, c, t, n)
<1>1. \A p \in 0 .. c - 1 : ix[p] # Empty => ix[p] \in 1 .. n /\ t[ix[p]].key \in StringKeys
  BY DEF Sound, SameKeys
<1>2. \A p, q \in 0 .. c - 1 : p # q /\ ix[p] # Empty => ix[p] # ix[q]
  BY DEF Sound
<1>3. ASSUME NEW i \in 1 .. n, t[i].key \in StringKeys
      PROVE  Reached(ix, c, Hash[t[i].key], i)
  <2>1. t[i].key = s[i].key
    BY DEF SameKeys
  <2> QED  BY <1>3, <2>1 DEF Sound
<1> QED  BY <1>1, <1>2, <1>3 DEF Sound

LEMMA DistinctOfSameKeys ==
  ASSUME NEW s, NEW t, NEW n, Distinct(s, n), SameKeys(s, t, n)
  PROVE  Distinct(t, n)
  BY DEF Distinct, SameKeys

\* The fields of a groupchat.
LEMMA Fields ==
  ASSUME NEW s, NEW n, NEW ix
  PROVE  Chat(s, n, ix).slots = s /\ Chat(s, n, ix).count = n /\ Chat(s, n, ix).index = ix
  BY DEF Chat

LEMMA RebuiltGood ==
  ASSUME NEW s, NEW n, NEW ix, Distinct(s, n), n >= IndexMin
  PROVE  /\ Good(Rebuilt(Chat(s, n, ix)))
         /\ Rebuilt(Chat(s, n, ix)).slots = s /\ Rebuilt(Chat(s, n, ix)).count = n
<1>1. n \in Nat
  BY DEF Distinct
<1>2. PICK new : new = IndexOf(s, n)
  OBVIOUS
<1>3. Rebuilt(Chat(s, n, ix)) = Chat(s, n, new)
  BY <1>2, Fields DEF Rebuilt
<1>4. IsIndex(new, CapacityFor(n), s, n)
  BY <1>1, <1>2, IndexOfIs
<1>5. Size(new) = CapacityFor(n)
  BY <1>4, SizeIs DEF IsIndex
<1> QED  BY <1>3, <1>4, <1>5, Fields DEF Good, ChatInv

\* What an entry that was added leaves, when the index was one for the entries before it.
LEMMA IndexedGood ==
  ASSUME NEW s, NEW n \in Nat, NEW ix, Distinct(s, n + 1),
         ix # NoIndex => n >= IndexMin /\ IsIndex(ix, Size(ix), s, n)
  PROVE  /\ Good(Indexed(Chat(s, n + 1, ix)))
         /\ Indexed(Chat(s, n + 1, ix)).slots = s /\ Indexed(Chat(s, n + 1, ix)).count = n + 1
<1> DEFINE i == n + 1
           g == Chat(s, i, ix)
<1>1. g.slots = s /\ g.count = i /\ g.index = ix /\ i \in Nat
  BY Fields
<1>2. IndexMin \in Nat
  BY ChatAssumption
<1>3. CASE ix = NoIndex /\ i >= IndexMin
  <2>1. Indexed(g) = Rebuilt(g)
    BY <1>1, <1>3 DEF Indexed
  <2> QED  BY <1>3, <2>1, RebuiltGood
<1>4. CASE ix = NoIndex /\ ~ (i >= IndexMin)
  <2>1. Indexed(g) = g
    BY <1>1, <1>4 DEF Indexed
  <2> QED  BY <1>1, <1>4, <2>1 DEF Good, ChatInv
<1>5. CASE ix # NoIndex /\ Full(i, Size(ix))
  <2>1. Indexed(g) = Rebuilt(g)
    BY <1>1, <1>5 DEF Indexed
  <2>2. i >= IndexMin
    BY <1>2, <1>5
  <2> QED  BY <2>1, <2>2, RebuiltGood
<1>6. CASE ix # NoIndex /\ ~ Full(i, Size(ix))
  <2>1. PICK c : c = Size(ix)
    OBVIOUS
  <2>2. /\ c \in Nat \ {0} /\ ix \in [0 .. c - 1 -> Int] /\ Sound(ix, c, s, n) /\ ~ Full(i, c) /\ ~ Full(n, c)
        /\ n >= IndexMin
    BY <1>6, <2>1 DEF IsIndex
  <2>3. n < c
    BY <2>2, NotFull
  <2>4. PICK to : to = Inserted(ix, s, n + 1)
    OBVIOUS
  <2>5. to \in [0 .. c - 1 -> Int] /\ Sound(to, c, s, n + 1)
    BY <2>2, <2>3, <2>4, InsertedSound
  <2>6. Indexed(g) = Chat(s, i, to)
    BY <1>1, <1>6, <2>4 DEF Indexed
  <2>7. Size(to) = c
    BY <2>2, <2>5, SizeIs
  <2>8. i >= IndexMin
    BY <1>2, <2>2
  <2>9. IsIndex(to, Size(to), s, i)
    BY <2>2, <2>5, <2>7 DEF IsIndex
  <2>10. ChatInv(s, i, to)
    BY <2>8, <2>9 DEF ChatInv
  <2> QED  BY <2>6, <2>10, Fields DEF Good
<1> QED  BY <1>3, <1>4, <1>5, <1>6

\* The slots after groupchat_set.
PutSlots(g, e, s) ==
    LET at == Find(g, e.key)
    IN \/ /\ at \in 1 .. g.count /\ g.slots[at].key = e.key
          /\ s = Written(g.slots, at, e)
          /\ Put(g, e).count = g.count
       \/ /\ at = Empty /\ \A i \in 1 .. g.count : g.slots[i].key # e.key
          /\ s = Written(g.slots, g.count + 1, e)
          /\ Put(g, e).count = g.count + 1

LEMMA PutGood ==
  ASSUME NEW g, NEW e, e.key \in Keys, Good(g)
  PROVE  Good(Put(g, e)) /\ PutSlots(g, e, Put(g, e).slots)
<1>1. PICK s, n, ix : s = g.slots /\ n = g.count /\ ix = g.index
  OBVIOUS
<1>2. Distinct(s, n) /\ n \in Nat /\ (ix # NoIndex => n >= IndexMin /\ IsIndex(ix, Size(ix), s, n))
  BY <1>1 DEF Good, ChatInv, Distinct
<1>3. PICK k \in Keys : k = e.key
  OBVIOUS
<1>4. PICK at : at = Find(g, k)
  OBVIOUS
<1>5. IsAt(at, s, n, k)
  BY <1>1, <1>4, FindFinds
<1>6. CASE at \in 1 .. n /\ s[at].key = k
  <2>1. at # Empty
    BY <1>2, <1>6, EmptyIs
  <2>2. PICK t : t = Written(s, at, e)
    OBVIOUS
  <2>3. Put(g, e) = Chat(t, n, ix)
    BY <1>1, <1>3, <1>4, <2>1, <2>2 DEF Put
  <2>4. SameKeys(s, t, n)
    <3>1. 1 .. n \subseteq DOMAIN s
      BY <1>2 DEF Distinct
    <3>2. 1 .. n \subseteq DOMAIN t /\ \A i \in 1 .. n : t[i] = IF i = at THEN e ELSE s[i]
      BY <2>2, <3>1 DEF Written
    <3> QED  BY <1>3, <1>6, <3>2 DEF SameKeys
  <2>5. ChatInv(t, n, ix)
    <3>1. Distinct(t, n)
      BY <1>2, <2>4, DistinctOfSameKeys
    <3>2. ASSUME ix # NoIndex
          PROVE  n >= IndexMin /\ IsIndex(ix, Size(ix), t, n)
      <4>1. PICK c : c = Size(ix)
        OBVIOUS
      <4>2. n >= IndexMin /\ IsIndex(ix, c, s, n)
        BY <1>2, <3>2, <4>1
      <4>3. Sound(ix, c, t, n)
        BY <2>4, <4>2, SoundOfSameKeys DEF IsIndex
      <4> QED  BY <4>1, <4>2, <4>3 DEF IsIndex
    <3> QED  BY <3>1, <3>2 DEF ChatInv
  <2> QED  BY <1>1, <1>3, <1>4, <1>6, <2>2, <2>3, <2>5, Fields DEF Good, PutSlots
<1>7. CASE at = Empty /\ \A i \in 1 .. n : s[i].key # k
  <2>1. PICK t : t = Written(s, n + 1, e)
    OBVIOUS
  <2>2. Put(g, e) = Indexed(Chat(t, n + 1, ix))
    BY <1>1, <1>3, <1>4, <1>7, <2>1 DEF Put
  <2>3. 1 .. n \subseteq DOMAIN s /\ 1 .. n + 1 = (1 .. n) \cup {n + 1} /\ n + 1 \notin 1 .. n /\ n + 1 \in Nat
    BY <1>2 DEF Distinct
  <2>4. /\ 1 .. n + 1 \subseteq DOMAIN t
        /\ \A i \in 1 .. n : t[i] = s[i]
        /\ t[n + 1] = e
    BY <2>1, <2>3 DEF Written
  <2>5. SameKeys(s, t, n)
    BY <2>3, <2>4 DEF SameKeys
  <2>6. Distinct(t, n + 1)
    <3>1. \A i \in 1 .. n + 1 : t[i].key \in Keys
      BY <1>2, <1>3, <2>3, <2>4 DEF Distinct
    <3>2. ASSUME NEW i \in 1 .. n + 1, NEW j \in 1 .. n + 1, t[i].key = t[j].key
          PROVE  i = j
      <4>1. i \in 1 .. n \/ i = n + 1
        BY <2>3
      <4>2. j \in 1 .. n \/ j = n + 1
        BY <2>3
      <4> QED  BY <1>2, <1>3, <1>7, <2>4, <3>2, <4>1, <4>2 DEF Distinct
    <3> QED  BY <2>3, <2>4, <3>1, <3>2 DEF Distinct
  <2>7. ASSUME ix # NoIndex
        PROVE  n >= IndexMin /\ IsIndex(ix, Size(ix), t, n)
    <3>1. PICK c : c = Size(ix)
      OBVIOUS
    <3>2. n >= IndexMin /\ IsIndex(ix, c, s, n)
      BY <1>2, <2>7, <3>1
    <3>3. Sound(ix, c, t, n)
      BY <2>5, <3>2, SoundOfSameKeys DEF IsIndex
    <3> QED  BY <3>1, <3>2, <3>3 DEF IsIndex
  <2>8. /\ Good(Indexed(Chat(t, n + 1, ix)))
        /\ Indexed(Chat(t, n + 1, ix)).slots = t /\ Indexed(Chat(t, n + 1, ix)).count = n + 1
    BY <1>2, <2>6, <2>7, IndexedGood
  <2> QED  BY <1>1, <1>3, <1>4, <1>7, <2>1, <2>2, <2>8 DEF PutSlots
<1> QED  BY <1>5, <1>6, <1>7 DEF IsAt

\* The slots without the one at at.
Closed(s, n, at) == [i \in 1 .. n - 1 |-> IF i < at THEN s[i] ELSE s[i + 1]]

LEMMA WithoutGood ==
  ASSUME NEW g, Good(g), NEW at \in 1 .. g.count
  PROVE  /\ Good(Without(g, at))
         /\ Without(g, at).slots = Closed(g.slots, g.count, at)
         /\ Without(g, at).count = g.count - 1
<1>1. PICK s, n, ix : s = g.slots /\ n = g.count /\ ix = g.index
  OBVIOUS
<1>2. Distinct(s, n) /\ n \in Nat /\ at \in 1 .. n /\ n - 1 \in Nat
  BY <1>1 DEF Good, ChatInv, Distinct
<1>3. PICK t : t = Closed(s, n, at)
  OBVIOUS
<1>4. PICK m \in Nat : m = n - 1
  BY <1>2
<1>5. Without(g, at) = Reindexed(Chat(t, m, ix))
  BY <1>1, <1>3, <1>4 DEF Without, Closed
<1>6. Distinct(t, m)
  <2>1. DOMAIN t = 1 .. m /\ \A i \in 1 .. m : t[i] = s[IF i < at THEN i ELSE i + 1]
    BY <1>3, <1>4 DEF Closed
  <2>2. \A i \in 1 .. m : (IF i < at THEN i ELSE i + 1) \in 1 .. n
    BY <1>2, <1>4
  <2>3. \A i \in 1 .. m : t[i].key \in Keys
    BY <1>2, <2>1, <2>2 DEF Distinct
  <2>4. ASSUME NEW i \in 1 .. m, NEW j \in 1 .. m, t[i].key = t[j].key
        PROVE  i = j
    <3>1. PICK a \in 1 .. n : a = (IF i < at THEN i ELSE i + 1)
      BY <2>2
    <3>2. PICK b \in 1 .. n : b = (IF j < at THEN j ELSE j + 1)
      BY <2>2
    <3>3. s[a].key = s[b].key
      BY <2>1, <2>4, <3>1, <3>2
    <3>4. a = b
      BY <1>2, <3>3 DEF Distinct
    <3> QED  BY <1>2, <3>1, <3>2, <3>4
  <2> QED  BY <2>1, <2>3, <2>4 DEF Distinct
<1>7. IndexMin \in Nat
  BY ChatAssumption
<1>8. CASE ix = NoIndex
  <2>1. Without(g, at) = Chat(t, m, ix)
    BY <1>5, <1>8, Fields DEF Reindexed
  <2> QED  BY <1>1, <1>3, <1>4, <1>6, <1>8, <2>1, Fields DEF Good, ChatInv
<1>9. CASE ix # NoIndex /\ m < IndexMin
  <2>1. Without(g, at) = Chat(t, m, NoIndex)
    BY <1>5, <1>9, Fields DEF Reindexed
  <2> QED  BY <1>1, <1>3, <1>4, <1>6, <1>9, <2>1, Fields DEF Good, ChatInv
<1>10. CASE ix # NoIndex /\ m >= IndexMin
  <2>1. Without(g, at) = Rebuilt(Chat(t, m, ix))
    BY <1>5, <1>7, <1>10, Fields DEF Reindexed
  <2> QED  BY <1>1, <1>3, <1>4, <1>6, <1>10, <2>1, RebuiltGood
<1> QED  BY <1>7, <1>8, <1>9, <1>10

-----------------------------------------------------------------------------
(* Groupchats as ordered maps *)

LEMMA LiveIs ==
  ASSUME NEW g, g.count \in Nat
  PROVE  /\ DOMAIN Live(g) = 1 .. g.count /\ Len(Live(g)) = g.count
         /\ Live(g) = [i \in 1 .. g.count |-> g.slots[i]]
         /\ \A i \in 1 .. g.count : Live(g)[i] = g.slots[i]
<1> DEFINE S == {g.slots[i] : i \in 1 .. g.count}
<1>1. PICK n \in Nat : n = g.count
  OBVIOUS
<1>2. Live(g) = [i \in 1 .. n |-> g.slots[i]]
  BY <1>1 DEF Live
<1>3. Live(g) \in [1 .. n -> S]
  BY <1>1, <1>2
<1>4. Live(g) \in Seq(S)
  <2> HIDE DEF S
  <2> QED  BY <1>3
<1>5. Len(Live(g)) = n
  <2>1. Len(Live(g)) \in Nat /\ DOMAIN Live(g) = 1 .. Len(Live(g))
    BY <1>4, LenProperties
  <2>2. DOMAIN Live(g) = 1 .. n
    BY <1>3
  <2>3. PICK m \in Nat : m = Len(Live(g)) /\ 1 .. m = 1 .. n
    BY <2>1, <2>2
  <2>4. m = n
    BY <2>3
  <2> QED  BY <2>3, <2>4
<1> QED  BY <1>1, <1>2, <1>3, <1>5

\* Appending to slots.
LEMMA AppendIs ==
  ASSUME NEW n \in Nat, NEW es, es = [i \in 1 .. n |-> es[i]], NEW e
  PROVE  Append(es, e) = [i \in 1 .. n + 1 |-> IF i = n + 1 THEN e ELSE es[i]]
<1> DEFINE S == {es[i] : i \in 1 .. n} \cup {e}
<1>1. es \in [1 .. n -> S] /\ e \in S
  OBVIOUS
<1> HIDE DEF S
<1>2. es \in Seq(S)
  BY <1>1
<1>3. Len(es) = n
  <2>1. Len(es) \in Nat /\ DOMAIN es = 1 .. Len(es)
    BY <1>2, LenProperties
  <2>2. DOMAIN es = 1 .. n
    BY <1>1
  <2>3. PICK m \in Nat : m = Len(es) /\ 1 .. m = 1 .. n
    BY <2>1, <2>2
  <2>4. m = n
    BY <2>3
  <2> QED  BY <2>3, <2>4
<1> DEFINE longer == Append(es, e)
<1>4. /\ longer \in Seq(S) /\ Len(longer) = n + 1
      /\ \A i \in 1 .. n : longer[i] = es[i]
      /\ longer[n + 1] = e
  BY <1>1, <1>2, <1>3, AppendProperties
<1> HIDE DEF longer
<1>5. longer = [i \in 1 .. n + 1 |-> longer[i]]
  BY ONLY <1>4, n \in Nat
<1>6. \A i \in 1 .. n + 1 : longer[i] = IF i = n + 1 THEN e ELSE es[i]
  BY ONLY <1>4, n \in Nat
<1>7. longer = [i \in 1 .. n + 1 |-> IF i = n + 1 THEN e ELSE es[i]]
  BY ONLY <1>5, <1>6
<1> QED  BY <1>7 DEF longer

\* What the keys of a groupchat's entries are.
LEMMA KeysAre ==
  ASSUME NEW g, g.count \in Nat, NEW k
  PROVE  k \in Map!KeysOf(Live(g)) <=> \E i \in 1 .. g.count : g.slots[i].key = k
<1>1. PICK es, n : es = Live(g) /\ n = g.count /\ DOMAIN es = 1 .. n /\ \A i \in 1 .. n : es[i] = g.slots[i]
  BY LiveIs
<1>2. Map!KeysOf(es) = {es[i].key : i \in 1 .. n}
  BY <1>1 DEF Map!KeysOf
<1> QED  BY <1>1, <1>2

\* groupchat_set does to the entries what setting does to an ordered map.
LEMMA PutLive ==
  ASSUME NEW g, NEW e, e.key \in Keys, Good(g)
  PROVE  Live(Put(g, e)) = Map!Put(Live(g), e)
<1>1. PICK s, n : s = g.slots /\ n = g.count /\ n \in Nat /\ Distinct(s, n)
  <2>1. g.count \in Nat /\ Distinct(g.slots, g.count)
    BY DEF Good, ChatInv, Distinct
  <2> QED  BY <2>1
<1>2. PICK t, m : t = Put(g, e).slots /\ m = Put(g, e).count
  OBVIOUS
<1>3. PutSlots(g, e, t) /\ Live(Put(g, e)) = [i \in 1 .. m |-> t[i]]
  BY <1>2, PutGood DEF Live
<1>4. PICK es : es = Live(g) /\ DOMAIN es = 1 .. n /\ es = [i \in 1 .. n |-> s[i]] /\ \A i \in 1 .. n : es[i] = s[i]
  BY <1>1, LiveIs
<1>5. e.key \in Map!KeysOf(es) <=> \E i \in 1 .. n : s[i].key = e.key
  <2>1. PICK k : k = e.key
    OBVIOUS
  <2>2. k \in Map!KeysOf(Live(g)) <=> \E i \in 1 .. g.count : g.slots[i].key = k
    BY <1>1, KeysAre
  <2> QED  BY <1>1, <1>4, <2>1, <2>2
<1>6. PICK at : at = Find(g, e.key)
  OBVIOUS
<1>7. CASE at \in 1 .. n /\ s[at].key = e.key /\ t = Written(s, at, e) /\ m = n
  <2>1. Map!Put(es, e) = [i \in 1 .. n |-> IF es[i].key = e.key THEN e ELSE es[i]]
    BY <1>4, <1>5, <1>7 DEF Map!Put
  <2>2. \A i \in 1 .. n : t[i] = IF i = at THEN e ELSE s[i]
    BY <1>1, <1>7 DEF Written, Distinct
  <2>3. \A i \in 1 .. n : i = at <=> s[i].key = e.key
    BY <1>1, <1>7 DEF Distinct
  <2>4. \A i \in 1 .. n : t[i] = IF es[i].key = e.key THEN e ELSE es[i]
    BY <1>4, <2>2, <2>3
  <2> QED  BY <1>3, <1>4, <1>7, <2>1, <2>4
<1>8. CASE at = Empty /\ (\A i \in 1 .. n : s[i].key # e.key) /\ t = Written(s, n + 1, e) /\ m = n + 1
  <2>1. Map!Put(es, e) = Append(es, e)
    BY <1>5, <1>8 DEF Map!Put
  <2>2. es = [i \in 1 .. n |-> es[i]]
    BY <1>4
  <2>3. Append(es, e) = [i \in 1 .. n + 1 |-> IF i = n + 1 THEN e ELSE es[i]]
    BY <1>1, <2>2, AppendIs
  <2>4. \A i \in 1 .. n + 1 : t[i] = IF i = n + 1 THEN e ELSE es[i]
    <3>1. 1 .. n + 1 = (1 .. n) \cup {n + 1} /\ n + 1 \notin 1 .. n
      BY <1>1
    <3>2. 1 .. n \subseteq DOMAIN s
      BY <1>1 DEF Distinct
    <3>3. \A i \in 1 .. n + 1 : t[i] = IF i = n + 1 THEN e ELSE s[i]
      BY <1>8, <3>1, <3>2 DEF Written
    <3> QED  BY <1>4, <3>1, <3>3
  <2> QED  BY <1>3, <1>4, <1>8, <2>1, <2>3, <2>4
<1> QED  BY <1>1, <1>2, <1>3, <1>6, <1>7, <1>8 DEF PutSlots

\* groupchat_remove takes an entry out of the map.
LEMMA WithoutLive ==
  ASSUME NEW g, Good(g), NEW k, NEW at \in 1 .. g.count, g.slots[at].key = k
  PROVE  Live(Without(g, at)) = Map!Without(Live(g), k)
<1>1. PICK s, n : s = g.slots /\ n = g.count /\ n \in Nat /\ Distinct(s, n)
  <2>1. g.count \in Nat /\ Distinct(g.slots, g.count)
    BY DEF Good, ChatInv, Distinct
  <2> QED  BY <2>1
<1>2. Live(Without(g, at)) = [i \in 1 .. n - 1 |-> Closed(s, n, at)[i]]
  BY <1>1, WithoutGood DEF Live
<1>3. PICK es : es = Live(g) /\ DOMAIN es = 1 .. n /\ Len(es) = n /\ \A i \in 1 .. n : es[i] = s[i]
  BY <1>1, LiveIs
<1>4. k \in Map!KeysOf(es)
  BY <1>1, <1>3, KeysAre
<1>5. Map!PlaceOf(es, k) = at
  <2>1. at \in DOMAIN es /\ es[at].key = k
    BY <1>1, <1>3
  <2>2. \A i \in DOMAIN es : es[i].key = k => i = at
    BY <1>1, <1>3 DEF Distinct
  <2> QED  BY <2>1, <2>2 DEF Map!PlaceOf
<1>6. Map!Without(es, k) = [i \in 1 .. n - 1 |-> IF i < at THEN es[i] ELSE es[i + 1]]
  BY <1>3, <1>4, <1>5 DEF Map!Without
<1>7. \A i \in 1 .. n - 1 : Closed(s, n, at)[i] = IF i < at THEN es[i] ELSE es[i + 1]
  <2>1. \A i \in 1 .. n - 1 : i \in 1 .. n /\ i + 1 \in 1 .. n
    BY <1>1
  <2>2. \A i \in 1 .. n - 1 : Closed(s, n, at)[i] = IF i < at THEN s[i] ELSE s[i + 1]
    BY DEF Closed
  <2> QED  BY <1>3, <2>1, <2>2
<1> QED  BY <1>2, <1>3, <1>6, <1>7

-----------------------------------------------------------------------------
(* Whole groupchats at once *)

\* The loop of m_merge, groupchat_new and m_from_pairs, for the first m of the entries.
Puts(f, g, es, m) == f = [i \in 0 .. m |-> IF i = 0 THEN g ELSE Put(f[i - 1], es[i])]

LEMMA PutsExists ==
  ASSUME NEW g, NEW es
  PROVE  \A m \in Nat : \E f : Puts(f, g, es, m)
<1> DEFINE S == {m \in Nat : \E f : Puts(f, g, es, m)}
<1>1. 0 \in S
  <2> DEFINE f == [i \in 0 .. 0 |-> g]
  <2>1. Puts(f, g, es, 0)
    BY DEF Puts
  <2> QED  BY <2>1
<1>2. ASSUME NEW m \in Nat \ {0}, m - 1 \in S
      PROVE  m \in S
  <2>1. PICK f : Puts(f, g, es, m - 1)
    BY <1>2
  <2> DEFINE h == [i \in 0 .. m |-> IF i <= m - 1 THEN f[i] ELSE Put(f[m - 1], es[m])]
  <2>2. \A i \in 0 .. m : h[i] = IF i = 0 THEN g ELSE Put(h[i - 1], es[i])
    <3> SUFFICES ASSUME NEW i \in 0 .. m
                 PROVE  h[i] = IF i = 0 THEN g ELSE Put(h[i - 1], es[i])
      OBVIOUS
    <3>1. CASE i <= m - 1
      <4>1. f[i] = IF i = 0 THEN g ELSE Put(f[i - 1], es[i])
        <5>1. i \in 0 .. m - 1
          BY <3>1
        <5> QED  BY <2>1, <5>1 DEF Puts
      <4>2. h[i] = f[i] /\ (i # 0 => h[i - 1] = f[i - 1])
        BY <3>1
      <4> HIDE DEF h
      <4> QED  BY <4>1, <4>2
    <3>2. CASE ~ (i <= m - 1)
      <4>1. i = m /\ h[i - 1] = f[m - 1] /\ h[i] = Put(f[m - 1], es[m])
        BY <3>2
      <4> HIDE DEF h
      <4> QED  BY <1>2, <4>1
    <3> QED  BY <3>1, <3>2
  <2>3. Puts(h, g, es, m)
    <3>1. h = [i \in 0 .. m |-> h[i]]
      OBVIOUS
    <3> HIDE DEF h
    <3>2. h = [i \in 0 .. m |-> IF i = 0 THEN g ELSE Put(h[i - 1], es[i])]
      BY <2>2, <3>1
    <3> QED  BY <3>2 DEF Puts
  <2> QED  BY <2>3
<1>3. ASSUME NEW m \in Nat
      PROVE  m \in S
  <2>1. \A i \in 1 .. m : i - 1 \in S => i \in S
    BY <1>2
  <2> HIDE DEF S
  <2>2. 0 .. m \subseteq S
    BY <1>1, <2>1, UpTo
  <2> QED  BY <2>2
<1> QED  BY <1>3

\* The same for the map.
MapPuts(f, chat, es, m) == f = [i \in 0 .. m |-> IF i = 0 THEN chat ELSE Map!Put(f[i - 1], es[i])]

LEMMA MapPutsExists ==
  ASSUME NEW chat, NEW es
  PROVE  \A m \in Nat : \E f : MapPuts(f, chat, es, m)
<1> DEFINE S == {m \in Nat : \E f : MapPuts(f, chat, es, m)}
<1>1. 0 \in S
  <2> DEFINE f == [i \in 0 .. 0 |-> chat]
  <2>1. MapPuts(f, chat, es, 0)
    BY DEF MapPuts
  <2> QED  BY <2>1
<1>2. ASSUME NEW m \in Nat \ {0}, m - 1 \in S
      PROVE  m \in S
  <2>1. PICK f : MapPuts(f, chat, es, m - 1)
    BY <1>2
  <2> DEFINE h == [i \in 0 .. m |-> IF i <= m - 1 THEN f[i] ELSE Map!Put(f[m - 1], es[m])]
  <2>2. \A i \in 0 .. m : h[i] = IF i = 0 THEN chat ELSE Map!Put(h[i - 1], es[i])
    <3> SUFFICES ASSUME NEW i \in 0 .. m
                 PROVE  h[i] = IF i = 0 THEN chat ELSE Map!Put(h[i - 1], es[i])
      OBVIOUS
    <3>1. CASE i <= m - 1
      <4>1. f[i] = IF i = 0 THEN chat ELSE Map!Put(f[i - 1], es[i])
        <5>1. i \in 0 .. m - 1
          BY <3>1
        <5> QED  BY <2>1, <5>1 DEF MapPuts
      <4>2. h[i] = f[i] /\ (i # 0 => h[i - 1] = f[i - 1])
        BY <3>1
      <4> HIDE DEF h
      <4> QED  BY <4>1, <4>2
    <3>2. CASE ~ (i <= m - 1)
      <4>1. i = m /\ h[i - 1] = f[m - 1] /\ h[i] = Map!Put(f[m - 1], es[m])
        BY <3>2
      <4> HIDE DEF h
      <4> QED  BY <1>2, <4>1
    <3> QED  BY <3>1, <3>2
  <2>3. MapPuts(h, chat, es, m)
    <3>1. h = [i \in 0 .. m |-> h[i]]
      OBVIOUS
    <3> HIDE DEF h
    <3>2. h = [i \in 0 .. m |-> IF i = 0 THEN chat ELSE Map!Put(h[i - 1], es[i])]
      BY <2>2, <3>1
    <3> QED  BY <3>2 DEF MapPuts
  <2> QED  BY <2>3
<1>3. ASSUME NEW m \in Nat
      PROVE  m \in S
  <2>1. \A i \in 1 .. m : i - 1 \in S => i \in S
    BY <1>2
  <2> HIDE DEF S
  <2>2. 0 .. m \subseteq S
    BY <1>1, <2>1, UpTo
  <2> QED  BY <2>2
<1> QED  BY <1>3

\* Entries that may be put into a groupchat.
Givable(es) == Len(es) \in Nat /\ \A i \in 1 .. Len(es) : es[i].key \in Keys

\* Putting many entries keeps the invariant and does to the map what it should.
LEMMA PutAllIs ==
  ASSUME NEW g, Good(g), NEW es, Givable(es)
  PROVE  Good(PutAll(g, es)) /\ Live(PutAll(g, es)) = Map!PutAll(Live(g), es)
<1> DEFINE n == Len(es)
           chat == Live(g)
           put == CHOOSE f : Puts(f, g, es, n)
           mput == CHOOSE f : MapPuts(f, chat, es, n)
<1>1. PutAll(g, es) = put[n]
  BY DEF PutAll, Puts
<1>2. Map!PutAll(chat, es) = mput[n]
  BY DEF Map!PutAll, MapPuts
<1>3. n \in Nat /\ \A i \in 1 .. n : es[i].key \in Keys
  BY DEF Givable
<1> HIDE DEF n, chat
<1>4. Puts(put, g, es, n)
  BY <1>3, PutsExists
<1>5. MapPuts(mput, chat, es, n)
  BY <1>3, MapPutsExists
<1> HIDE DEF put, mput
<1> DEFINE S == {i \in 0 .. n : Good(put[i]) /\ Live(put[i]) = mput[i]}
<1>6. 0 \in S
  <2>1. put[0] = g
    BY <1>3, <1>4 DEF Puts
  <2>2. mput[0] = chat
    BY <1>3, <1>5 DEF MapPuts
  <2> QED  BY <1>3, <2>1, <2>2 DEF chat
<1>7. ASSUME NEW i \in 1 .. n, i - 1 \in S
      PROVE  i \in S
  <2>1. i \in 0 .. n /\ i # 0
    BY <1>3
  <2>2. put[i] = Put(put[i - 1], es[i])
    BY <1>4, <2>1 DEF Puts
  <2>3. mput[i] = Map!Put(mput[i - 1], es[i])
    BY <1>5, <2>1 DEF MapPuts
  <2>4. PICK x : x = put[i - 1] /\ Good(x) /\ Live(x) = mput[i - 1]
    BY <1>7
  <2>5. PICK e : e = es[i] /\ e.key \in Keys
    BY <1>3
  <2>6. Good(Put(x, e)) /\ Live(Put(x, e)) = Map!Put(Live(x), e)
    BY <2>4, <2>5, PutGood, PutLive
  <2> QED  BY <2>1, <2>2, <2>3, <2>4, <2>5, <2>6
<1>8. n \in S
  <2> HIDE DEF S
  <2>1. 0 .. n \subseteq S
    BY <1>3, <1>6, <1>7, UpTo
  <2> QED  BY <1>3, <2>1
<1> QED  BY <1>1, <1>2, <1>8 DEF chat

-----------------------------------------------------------------------------
(* Steps *)

\* The invariant, of the groupchat there is.
ChatIndexInv == ChatInv(slots, filled, index)

LEMMA ThisGood ==
  ASSUME ChatIndexInv
  PROVE  /\ Good(This) /\ This.slots = slots /\ This.count = filled /\ This.index = index
         /\ filled \in Nat
  BY Fields DEF ChatIndexInv, This, Good, ChatInv, Distinct

LEMMA BecomesGood ==
  ASSUME NEW g, Good(g), Becomes(g)
  PROVE  ChatIndexInv' /\ Live(This)' = Live(g)
<1>1. slots' = g.slots /\ filled' = g.count /\ index' = g.index
  BY DEF Becomes
<1>2. ChatIndexInv'
  BY <1>1 DEF ChatIndexInv, Good
<1>3. Live(This)' = [i \in 1 .. filled' |-> slots'[i]]
  BY DEF Live, This, Chat
<1> QED  BY <1>1, <1>2, <1>3 DEF Live

LEMMA SameChat ==
  ASSUME ChatIndexInv, UNCHANGED <<slots, filled, index>>
  PROVE  ChatIndexInv' /\ Live(This)' = Live(This)
  BY DEF ChatIndexInv, Live, This

LEMMA NoEntries ==
  ASSUME NEW s
  PROVE  ChatInv(s, 0, NoIndex) /\ [i \in 1 .. 0 |-> s[i]] = <<>>
<1>1. 1 .. 0 = {} /\ 0 \in Nat
  OBVIOUS
<1> QED  BY <1>1 DEF ChatInv, Distinct

LEMMA FreshGood == Good(Fresh) /\ Live(Fresh) = <<>>
  BY NoEntries DEF Fresh, Good, Live, Chat

\* A key's value is what the map says.
LEMMA GetAnswers ==
  ASSUME ChatIndexInv, NEW k \in Keys
  PROVE  (IF Find(This, k) = Empty THEN NotThere ELSE slots[Find(This, k)].value) = Map!ValueOf(Live(This), k)
<1>1. Good(This) /\ This.slots = slots /\ This.count = filled /\ filled \in Nat
  BY ThisGood
<1>2. PICK at : at = Find(This, k) /\ IsAt(at, slots, filled, k)
  BY <1>1, FindFinds
<1>3. PICK es : /\ es = Live(This) /\ DOMAIN es = 1 .. filled
                /\ \A i \in 1 .. filled : es[i] = slots[i]
  BY <1>1, LiveIs
<1>4. k \in Map!KeysOf(es) <=> \E i \in 1 .. filled : slots[i].key = k
  BY <1>1, <1>3, KeysAre
<1>5. CASE at = Empty /\ \A i \in 1 .. filled : slots[i].key # k
  BY <1>2, <1>3, <1>4, <1>5 DEF Map!ValueOf
<1>6. CASE at \in 1 .. filled /\ slots[at].key = k
  <2>1. at # Empty
    BY <1>1, <1>6, EmptyIs
  <2>2. Map!PlaceOf(es, k) = at
    <3>1. at \in DOMAIN es /\ es[at].key = k
      BY <1>3, <1>6
    <3>2. \A i \in DOMAIN es : es[i].key = k => i = at
      BY <1>3, <1>6 DEF ChatIndexInv, ChatInv, Distinct
    <3> QED  BY <3>1, <3>2 DEF Map!PlaceOf
  <2>3. Map!ValueOf(es, k) = es[at].value
    BY <1>4, <1>6, <2>2 DEF Map!ValueOf
  <2> QED  BY <1>2, <1>3, <1>6, <2>1, <2>3
<1> QED  BY <1>2, <1>5, <1>6 DEF IsAt

\* What every step does: it keeps the invariant, and is a step of the map or none.
Implements == ChatIndexInv' /\ [Map!Next]_<<Live(This), chatAnswer>>

LEMMA GetStep ==
  ASSUME ChatIndexInv, NEW k \in Keys, Get(k)
  PROVE  Implements
<1>1. ChatIndexInv' /\ Live(This)' = Live(This)
  BY SameChat DEF Get
<1>2. chatAnswer' = Map!ValueOf(Live(This), k)
  BY GetAnswers DEF Get
<1>3. Map!Get
  BY <1>1, <1>2 DEF Map!Get
<1> QED  BY <1>1, <1>3 DEF Implements, Map!Next

LEMMA RemoveStep ==
  ASSUME ChatIndexInv, NEW k \in Keys, RemoveKey(k)
  PROVE  Implements
<1>1. Good(This) /\ This.slots = slots /\ This.count = filled /\ filled \in Nat
  BY ThisGood
<1>2. PICK at : at = Scan(This, k) /\ IsAt(at, slots, filled, k)
  BY <1>1, ScanFinds
<1>3. k \in Map!KeysOf(Live(This)) <=> \E i \in 1 .. filled : slots[i].key = k
  BY <1>1, KeysAre
<1>4. CASE at # Empty /\ Becomes(Without(This, at)) /\ chatAnswer' = "removed"
  <2>1. at \in 1 .. filled /\ slots[at].key = k
    BY <1>2, <1>4 DEF IsAt
  <2>2. Good(Without(This, at)) /\ Live(Without(This, at)) = Map!Without(Live(This), k)
    BY <1>1, <2>1, WithoutGood, WithoutLive
  <2>3. ChatIndexInv' /\ Live(This)' = Map!Without(Live(This), k)
    BY <1>4, <2>2, BecomesGood
  <2>4. Map!RemoveKey
    BY <1>3, <1>4, <2>1, <2>3 DEF Map!RemoveKey
  <2> QED  BY <2>3, <2>4 DEF Implements, Map!Next
<1>5. CASE at = Empty /\ chatAnswer' = "KeyGhosted" /\ UNCHANGED <<slots, filled, index>>
  <2>1. ChatIndexInv' /\ Live(This)' = Live(This)
    BY <1>5, SameChat
  <2>2. k \notin Map!KeysOf(Live(This))
    BY <1>1, <1>2, <1>3, <1>5, EmptyIs DEF IsAt
  <2>3. Map!RemoveKey
    BY <1>5, <2>1, <2>2 DEF Map!RemoveKey, Map!Without
  <2> QED  BY <2>1, <2>3 DEF Implements, Map!Next
<1> QED  BY <1>2, <1>4, <1>5 DEF RemoveKey

LEMMA SetStep ==
  ASSUME ChatIndexInv, NEW k \in Keys, NEW v \in Vals, Set(k, v)
  PROVE  Implements
<1>1. Good(This)
  BY ThisGood
<1>2. PICK e : e = EntryOf(k, v) /\ e.key \in Keys /\ e = Map!Entry(k, v)
  BY DEF EntryOf, Map!Entry
<1>3. Good(Put(This, e)) /\ Live(Put(This, e)) = Map!Put(Live(This), e)
  BY <1>1, <1>2, PutGood, PutLive
<1>4. ChatIndexInv' /\ Live(This)' = Map!Put(Live(This), Map!Entry(k, v))
  BY <1>2, <1>3, BecomesGood DEF Set
<1>5. Map!Set
  BY <1>4 DEF Set, Map!Set
<1> QED  BY <1>4, <1>5 DEF Implements, Map!Next

LEMMA BatchGivable ==
  ASSUME NEW es \in Batches
  PROVE  Givable(es)
  BY ChatAssumption DEF Givable

LEMMA MergeStep ==
  ASSUME ChatIndexInv, NEW es \in Batches, Merge(es)
  PROVE  Implements
<1>1. Good(PutAll(This, es)) /\ Live(PutAll(This, es)) = Map!PutAll(Live(This), es)
  BY ThisGood, BatchGivable, PutAllIs
<1>2. ChatIndexInv' /\ Live(This)' = Map!PutAll(Live(This), es)
  BY <1>1, BecomesGood DEF Merge
<1>3. Map!Merge
  BY <1>2 DEF Merge, Map!Merge
<1> QED  BY <1>2, <1>3 DEF Implements, Map!Next

LEMMA FromPairsStep ==
  ASSUME ChatIndexInv, NEW es \in Batches, FromPairs(es)
  PROVE  Implements
<1>1. Good(PutAll(Fresh, es)) /\ Live(PutAll(Fresh, es)) = Map!PutAll(Live(Fresh), es)
  BY FreshGood, BatchGivable, PutAllIs
<1>2. ChatIndexInv' /\ Live(This)' = Map!PutAll(<<>>, es)
  BY <1>1, FreshGood, BecomesGood DEF FromPairs
<1>3. Map!Replace
  BY <1>2 DEF FromPairs, Map!Replace
<1> QED  BY <1>2, <1>3 DEF Implements, Map!Next

LEMMA CloneStep ==
  ASSUME ChatIndexInv, Clone
  PROVE  Implements
<1>1. Good(This) /\ This.slots = slots /\ This.count = filled /\ filled \in Nat
  BY ThisGood
<1>2. Givable(Live(This))
  <2>1. Len(Live(This)) = filled /\ \A i \in 1 .. filled : Live(This)[i] = slots[i]
    BY <1>1, LiveIs
  <2>2. \A i \in 1 .. filled : slots[i].key \in Keys
    BY DEF ChatIndexInv, ChatInv, Distinct
  <2> QED  BY <1>1, <2>1, <2>2 DEF Givable
<1>3. PICK es : es = Live(This) /\ Givable(es)
  BY <1>2
<1>4. Good(PutAll(Fresh, es)) /\ Live(PutAll(Fresh, es)) = Map!PutAll(Live(Fresh), es)
  BY <1>3, FreshGood, PutAllIs
<1>5. ChatIndexInv' /\ Live(This)' = Map!PutAll(<<>>, Live(This))
  BY <1>3, <1>4, FreshGood, BecomesGood DEF Clone
<1>6. Map!Replace
  BY <1>5 DEF Clone, Map!Replace
<1> QED  BY <1>5, <1>6 DEF Implements, Map!Next

\* clear leaves the index alone, so there must be none.
LEMMA ClearStep ==
  ASSUME ClearFrom < IndexMin, ChatIndexInv, Clear
  PROVE  Implements
<1>1. filled \in Nat /\ (index # NoIndex => filled >= IndexMin)
  BY DEF ChatIndexInv, ChatInv, Distinct
<1>2. index = NoIndex
  BY <1>1, ChatAssumption DEF Clear
<1>3. filled' = 0 /\ index' = NoIndex /\ slots' = slots /\ chatAnswer' = "groupchat"
  BY <1>2 DEF Clear
<1>4. ChatIndexInv'
  BY <1>3, NoEntries DEF ChatIndexInv
<1>5. Live(This)' = <<>>
  <2>1. Live(This)' = [i \in 1 .. filled' |-> slots'[i]]
    BY DEF Live, This, Chat
  <2> QED  BY <1>3, <2>1, NoEntries
<1>6. Map!Clear
  BY <1>3, <1>5 DEF Map!Clear
<1> QED  BY <1>4, <1>6 DEF Implements, Map!Next

LEMMA ChatStep ==
  ASSUME ClearFrom < IndexMin, ChatIndexInv, [ChatNext]_chatVars
  PROVE  Implements
<1>1. CASE UNCHANGED chatVars
  BY <1>1, SameChat DEF chatVars, Implements
<1>2. ASSUME NEW k \in Keys, Get(k) \/ RemoveKey(k) \/ \E v \in Vals : Set(k, v)
      PROVE  Implements
  BY <1>2, GetStep, RemoveStep, SetStep
<1>3. ASSUME NEW es \in Batches, Merge(es) \/ FromPairs(es)
      PROVE  Implements
  BY <1>3, MergeStep, FromPairsStep
<1>4. CASE Clone
  BY <1>4, CloneStep
<1>5. CASE Clear
  BY <1>5, ClearStep
<1> QED  BY <1>1, <1>2, <1>3, <1>4, <1>5 DEF ChatNext

LEMMA ChatStart ==
  ASSUME ChatInit
  PROVE  ChatIndexInv /\ Map!Init
<1>1. ChatIndexInv
  BY NoEntries DEF ChatInit, ChatIndexInv
<1>2. Live(This) = [i \in 1 .. 0 |-> slots[i]]
  BY DEF ChatInit, Live, This, Chat
<1>3. Live(This) = <<>>
  BY <1>2, NoEntries
<1> QED  BY <1>1, <1>3 DEF ChatInit, Map!Init

\* What the invariant says of the index.
LEMMA InvImpliesSound ==
  ASSUME ChatIndexInv
  PROVE  ChatIndexIsSound
<1> SUFFICES ASSUME index # NoIndex
             PROVE  /\ {index[p] : p \in DOMAIN index} \ {Empty} = {i \in 1 .. filled : slots[i].key \in StringKeys}
                    /\ \A p, q \in DOMAIN index : p # q /\ index[p] # Empty => index[p] # index[q]
                    /\ EmptyPlaces(index) # {}
  BY DEF ChatIndexIsSound, IndexIsExact, ProbesEnd
<1>1. PICK c : c = Size(index)
  OBVIOUS
<1>2. /\ c \in Nat \ {0} /\ index \in [0 .. c - 1 -> Int] /\ ~ Full(filled, c) /\ Sound(index, c, slots, filled)
      /\ filled \in Nat
  BY <1>1 DEF ChatIndexInv, ChatInv, IsIndex, Distinct
<1>3. DOMAIN index = 0 .. c - 1 /\ filled < c
  BY <1>2, NotFull
<1>4. ASSUME NEW i \in 1 .. filled, slots[i].key \in StringKeys
      PROVE  i # Empty /\ \E p \in DOMAIN index : index[p] = i
  <2>1. PICK h \in Nat : h = Hash[slots[i].key]
    BY <1>4, ChatAssumption
  <2>2. Reached(index, c, h, i)
    BY <1>2, <1>4, <2>1 DEF Sound
  <2>3. PICK m \in 0 .. c - 1 : index[Place(h, m, c)] = i
    BY <2>2 DEF Reached
  <2>4. m \in Nat
    OBVIOUS
  <2>5. Place(h, m, c) \in 0 .. c - 1
    BY <1>2, <2>4, PlaceInside
  <2>6. i \in Nat
    BY <1>2
  <2> QED  BY <1>3, <2>3, <2>5, <2>6, EmptyIs
<1>5. \A p \in DOMAIN index : index[p] # Empty => index[p] \in 1 .. filled /\ slots[index[p]].key \in StringKeys
  BY <1>2, <1>3 DEF Sound
<1>6. {index[p] : p \in DOMAIN index} \ {Empty} = {i \in 1 .. filled : slots[i].key \in StringKeys}
  BY <1>4, <1>5
<1>7. \A p, q \in DOMAIN index : p # q /\ index[p] # Empty => index[p] # index[q]
  BY <1>2, <1>3 DEF Sound
<1>8. EmptyPlaces(index) # {}
  BY <1>2, <1>3, HasEmpty DEF EmptyPlaces
<1> QED  BY <1>6, <1>7, <1>8

-----------------------------------------------------------------------------
(* Theorems *)

\* The invariant: keys are distinct, and the index, if there is one, has room, is there for enough
\* entries, holds the position of every string key's entry once and nothing else, and every probe
\* for a key comes to its entry before an empty place (groupchat_set, groupchat_remove,
\* rebuild_index, index_insert, index_drop).
THEOREM ChatInductive == ClearFrom < IndexMin => (ChatSpec => []ChatIndexInv)
<1> SUFFICES ASSUME ClearFrom < IndexMin
             PROVE  ChatSpec => []ChatIndexInv
  OBVIOUS
<1>1. ChatInit => ChatIndexInv
  BY ChatStart
<1>2. ChatIndexInv /\ [ChatNext]_chatVars => ChatIndexInv'
  BY ChatStep DEF Implements
<1> QED  BY <1>1, <1>2, PTL DEF ChatSpec

\* The index never holds a stale or a doubled position, and probing it always ends, for any keys,
\* hashes and thresholds (groupchat.c: index_insert to index_drop, rebuild_index).
THEOREM IndexLeadsToEntries == ClearFrom < IndexMin => (ChatSpec => []ChatIndexIsSound)
<1> SUFFICES ASSUME ClearFrom < IndexMin
             PROVE  ChatSpec => []ChatIndexIsSound
  OBVIOUS
<1>1. ChatSpec => []ChatIndexInv
  BY ChatInductive
<1>2. ChatIndexInv => ChatIndexIsSound
  BY InvImpliesSound
<1> QED  BY <1>1, <1>2, PTL

\* A groupchat is an ordered map: every lookup answers, and every change leaves, what one would
\* (groupchat.c, all operations).
THEOREM ImplementsOrderedMap == ClearFrom < IndexMin => (ChatSpec => ChatIsAnOrderedMap)
<1> SUFFICES ASSUME ClearFrom < IndexMin
             PROVE  ChatSpec => ChatIsAnOrderedMap
  OBVIOUS
<1>1. ChatInit => ChatIndexInv /\ Map!Init
  BY ChatStart
<1>2. ChatIndexInv /\ [ChatNext]_chatVars => ChatIndexInv' /\ [Map!Next]_<<Live(This), chatAnswer>>
  BY ChatStep DEF Implements
<1> QED  BY <1>1, <1>2, PTL DEF ChatSpec, ChatIsAnOrderedMap, Map!Spec
=============================================================================
