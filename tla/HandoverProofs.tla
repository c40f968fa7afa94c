--------------------------- MODULE HandoverProofs ---------------------------
(***************************************************************************)
(* What hands something over from one side to another.  A mailbox           *)
(* implements the bounded queue, for any Cap and any first capacity of its  *)
(* ring; an atomic write gives readers the whole old file or the whole new  *)
(* one, for any number of writers and readers.                              *)
(***************************************************************************)
EXTENDS Mailbox, AtomicFile, Integers, FiniteSetTheorems, SequenceTheorems, TLAPS

-----------------------------------------------------------------------------
(* The ring of a mailbox *)

RingPlaces == Dms \cup {None}

\* The inductive invariant: the ring is full of places, and the count and the head are within it.
Ring ==
    /\ Capacity \in Nat
    /\ items \in [0 .. Capacity - 1 -> RingPlaces]
    /\ count \in Nat /\ count <= Capacity /\ count <= Cap
    /\ head \in Nat /\ (head < Capacity \/ (head = 0 /\ Capacity = 0))

-----------------------------------------------------------------------------
(* RingPlaces of the ring *)

LEMMA AtPlace ==
  ASSUME NEW c \in Nat, NEW h \in Nat, NEW i \in Nat, h < c, i < c
  PROVE  (h + i) % c = IF h + i < c THEN h + i ELSE h + i - c
<1>1. CASE h + i < c
  <2> DEFINE x == h + i
  <2>1. x \in Nat /\ x < c  BY <1>1
  <2> HIDE DEF x
  <2>2. x % c = x  BY <2>1
  <2> QED  BY <1>1, <2>2 DEF x
<1>2. CASE ~ (h + i < c)
  <2> DEFINE x == h + i
  <2>1. x \in Nat /\ c <= x /\ x < 2 * c  BY <1>2
  <2> HIDE DEF x
  <2>2. x % c = x - c  BY <2>1
  <2> QED  BY <1>2, <2>2 DEF x
<1> QED  BY <1>1, <1>2

LEMMA AtInside ==
  ASSUME NEW c \in Nat, NEW h \in Nat, NEW i \in Nat, h < c, i < c
  PROVE  (h + i) % c \in 0 .. c - 1
  BY AtPlace

LEMMA AtDistinct ==
  ASSUME NEW c \in Nat, NEW h \in Nat, NEW i \in Nat, NEW j \in Nat, h < c, i < c, j < c, i # j
  PROVE  (h + i) % c # (h + j) % c
<1>1. (h + i) % c = IF h + i < c THEN h + i ELSE h + i - c  BY AtPlace
<1>2. (h + j) % c = IF h + j < c THEN h + j ELSE h + j - c  BY AtPlace
<1> DEFINE a == (h + i) % c
           b == (h + j) % c
<1>3. a = IF h + i < c THEN h + i ELSE h + i - c  BY <1>1
<1>4. b = IF h + j < c THEN h + j ELSE h + j - c  BY <1>2
<1> HIDE DEF a, b
<1>5. a # b  BY <1>3, <1>4
<1> QED  BY <1>5 DEF a, b

LEMMA AtNext ==
  ASSUME NEW c \in Nat, NEW h \in Nat, NEW i \in Nat, h < c, i + 1 < c
  PROVE  (((h + 1) % c) + i) % c = (h + (i + 1)) % c
<1> DEFINE g == (h + 1) % c
<1>1. g = IF h + 1 < c THEN h + 1 ELSE h + 1 - c
  <2>1. 1 \in Nat /\ 1 < c  OBVIOUS
  <2> QED  BY <2>1, AtPlace
<1>2. g \in Nat /\ g < c  BY <1>1
<1>3. (h + (i + 1)) % c = IF h + (i + 1) < c THEN h + (i + 1) ELSE h + (i + 1) - c
  <2>1. i + 1 \in Nat  OBVIOUS
  <2> QED  BY <2>1, AtPlace
<1> HIDE DEF g
<1>5. i \in Nat /\ i < c  OBVIOUS
<1>4. (g + i) % c = IF g + i < c THEN g + i ELSE g + i - c  BY <1>2, <1>5, AtPlace
<1> QED  BY <1>1, <1>3, <1>4 DEF g

\* The capacity of a ring is what its domain says.
LEMMA CapacityIs ==
  ASSUME NEW c \in Nat
  PROVE  Cardinality(0 .. c - 1) = c
<1>1. 0 \in Int /\ c - 1 \in Int  OBVIOUS
<1>2. Cardinality(0 .. c - 1) = IF 0 > c - 1 THEN 0 ELSE (c - 1) - 0 + 1
  BY <1>1, FS_Interval, Zenon
<1> QED  BY <1>2

-----------------------------------------------------------------------------
(* The queue in the ring *)

\* What a ring of capacity c holds, from h on.
Window(its, c, h, n) == [k \in 1 .. n |-> its[(h + (k - 1)) % c]]

LEMMA WindowType ==
  ASSUME NEW c \in Nat, NEW its \in [0 .. c - 1 -> RingPlaces], NEW h \in Nat, NEW n \in Nat,
         n <= c, h < c \/ n = 0
  PROVE  Window(its, c, h, n) \in Seq(RingPlaces) /\ Len(Window(its, c, h, n)) = n
<1>1. \A k \in 1 .. n : its[(h + (k - 1)) % c] \in RingPlaces
  <2> SUFFICES ASSUME NEW k \in 1 .. n
               PROVE  its[(h + (k - 1)) % c] \in RingPlaces
    OBVIOUS
  <2>1. k - 1 \in Nat /\ k - 1 < c /\ h < c  OBVIOUS
  <2>2. (h + (k - 1)) % c \in 0 .. c - 1  BY <2>1, AtInside
  <2> QED  BY <2>2
<1> QED  BY <1>1 DEF Window

LEMMA InOrderType ==
  ASSUME Ring
  PROVE  InOrder = Window(items, Capacity, head, count) /\ InOrder \in Seq(RingPlaces) /\ Len(InOrder) = count
<1>1. InOrder = Window(items, Capacity, head, count)
  BY DEF InOrder, At, Window
<1>2. count = 0 \/ head < Capacity  BY DEF Ring
<1> QED  BY <1>1, <1>2, WindowType DEF Ring

LEMMA InitRing ==
  ASSUME Cap \in Nat, MailboxInit
  PROVE  Ring /\ InOrder = <<>>
<1>1. items = [p \in {} |-> None] /\ DOMAIN items = {} /\ Cardinality(DOMAIN items) = 0
  BY FS_EmptySet DEF MailboxInit
<1>2. 0 .. 0 - 1 = {}  OBVIOUS
<1>3. Capacity = 0  BY <1>1 DEF Capacity
<1>4. items \in [0 .. Capacity - 1 -> RingPlaces]  BY <1>1, <1>2, <1>3
<1>5. Ring  BY <1>3, <1>4 DEF Ring, MailboxInit
<1>6. Len(InOrder) = 0 /\ InOrder \in Seq(RingPlaces)  BY <1>5, InOrderType DEF MailboxInit
<1> QED  BY <1>5, <1>6

-----------------------------------------------------------------------------
(* Steps *)

\* A ring of another capacity, or other items, in the next state.
LEMMA CapacityNext ==
  ASSUME NEW c \in Nat, items' \in [0 .. c - 1 -> RingPlaces]
  PROVE  Capacity' = c
  BY CapacityIs DEF Capacity

LEMMA GrowRing ==
  ASSUME Cap \in Nat, FirstCapacity \in Nat \ {0}, Ring, NEW d \in Dms,
         count < Cap, count = Capacity,
         items' = [Grown EXCEPT ![count] = d], head' = 0, count' = count + 1
  PROVE  Ring' /\ InOrder' = Append(InOrder, d)
<1> DEFINE w == WantedCapacity
<1>1. w \in Nat /\ count < w
  BY DEF WantedCapacity, Ring
<1>2. InOrder \in Seq(RingPlaces) /\ Len(InOrder) = count
  BY InOrderType
<1>3. items' \in [0 .. w - 1 -> RingPlaces]
  BY <1>1, <1>2 DEF Grown, RingPlaces, Ring
<1>4. Capacity' = w
  BY <1>1, <1>3, CapacityNext
<1>5. Ring'
  BY <1>1, <1>3, <1>4 DEF Ring
<1>6. InOrder' = Window(items', w, 0, count + 1)
  BY <1>4 DEF InOrder, At, Window
<1>8. InOrder' \in Seq(RingPlaces) /\ Len(InOrder') = count + 1
  <2> HIDE DEF w
  <2>1. count + 1 \in Nat /\ count + 1 <= w /\ 0 \in Nat /\ 0 < w
    BY <1>1 DEF Ring
  <2> DEFINE its == items'
             n == count + 1
  <2>2. its \in [0 .. w - 1 -> RingPlaces]
    BY <1>3
  <2> HIDE DEF its, n
  <2>3. n \in Nat /\ n <= w
    BY <2>1 DEF n
  <2>4. Window(its, w, 0, n) \in Seq(RingPlaces) /\ Len(Window(its, w, 0, n)) = n
    <3>1. w \in Nat  BY <1>1
    <3>2. 0 \in Nat  OBVIOUS
    <3>3. n \in Nat  BY <2>3
    <3>4. n <= w  BY <2>3
    <3>5. 0 < w \/ n = 0  BY <2>1
    <3> QED  BY <3>1, <3>2, <3>3, <3>4, <3>5, <2>2, WindowType
  <2> QED  BY <1>6, <2>4 DEF its, n
<1>7. \A n \in 1 .. count + 1 : InOrder'[n] = IF n = count + 1 THEN d ELSE InOrder[n]
  <2> SUFFICES ASSUME NEW n \in 1 .. count + 1
               PROVE  InOrder'[n] = IF n = count + 1 THEN d ELSE InOrder[n]
    OBVIOUS
  <2>1. count \in Nat /\ n - 1 \in Nat /\ n - 1 < w
    BY <1>1 DEF Ring
  <2>2. (0 + (n - 1)) % w = n - 1
    <3> HIDE DEF w
    <3> DEFINE k == n - 1
    <3>1. k \in Nat /\ k < w /\ w \in Nat /\ 0 \in Nat /\ 0 < w
      BY <1>1, <2>1
    <3> HIDE DEF k
    <3>2. (0 + k) % w = IF 0 + k < w THEN 0 + k ELSE 0 + k - w
      BY <3>1, AtPlace
    <3>3. (0 + k) % w = k
      BY <3>1, <3>2
    <3> QED  BY <3>3 DEF k
  <2>3. items'[n - 1] = IF n - 1 = count THEN d ELSE InOrder[n - 1 + 1]
    BY <2>1, <1>1 DEF Grown
  <2> QED  BY <2>1, <2>2, <2>3, <1>6 DEF Window
<1> QED  BY <1>2, <1>5, <1>7, <1>8
-----------------------------------------------------------------------------

\* A ring like another but for a place.
PutAt(put, its, c, place, d) == \A p \in 0 .. c - 1 : put[p] = IF p = place THEN d ELSE its[p]

\* What a ring of capacity c holds after its items or its window have changed.
LEMMA PutInWindow ==
  ASSUME NEW c \in Nat, NEW its \in [0 .. c - 1 -> RingPlaces], NEW h \in Nat, NEW n \in Nat, NEW d \in Dms,
         h < c, n < c, NEW put \in [0 .. c - 1 -> RingPlaces],
         PutAt(put, its, c, (h + n) % c, d)
  PROVE  Window(put, c, h, n + 1) = Append(Window(its, c, h, n), d)
<1>1. (h + n) % c \in 0 .. c - 1
  BY AtInside
<1>2. \A p \in 0 .. c - 1 : put[p] = IF p = (h + n) % c THEN d ELSE its[p]
  BY DEF PutAt
<1>3. n + 1 \in Nat /\ n + 1 <= c /\ n <= c /\ (h < c \/ n + 1 = 0) /\ (h < c \/ n = 0)
  OBVIOUS
<1>4. Window(its, c, h, n) \in Seq(RingPlaces) /\ Len(Window(its, c, h, n)) = n
  BY <1>3, WindowType
<1>5. \A k \in 1 .. n + 1 : put[(h + (k - 1)) % c] = IF k = n + 1 THEN d ELSE its[(h + (k - 1)) % c]
  <2> SUFFICES ASSUME NEW k \in 1 .. n + 1
               PROVE  put[(h + (k - 1)) % c] = IF k = n + 1 THEN d ELSE its[(h + (k - 1)) % c]
    OBVIOUS
  <2>1. k - 1 \in Nat /\ k - 1 < c
    OBVIOUS
  <2>2. (h + (k - 1)) % c \in 0 .. c - 1
    BY <2>1, AtInside
  <2>3. CASE k = n + 1
    <3>1. k - 1 = n  BY <2>3
    <3> QED  BY <1>1, <1>2, <2>3, <3>1
  <2>4. CASE k # n + 1
    <3>1. k - 1 # n  BY <2>4
    <3>2. (h + (k - 1)) % c # (h + n) % c
      BY <2>1, <3>1, AtDistinct
    <3> QED  BY <1>1, <1>2, <2>2, <2>4, <3>2
  <2> QED  BY <2>3, <2>4
<1>6. Window(put, c, h, n + 1) = Append(Window(its, c, h, n), d)
  <2>1. Window(put, c, h, n + 1) = [k \in 1 .. n + 1 |-> IF k = n + 1 THEN d ELSE its[(h + (k - 1)) % c]]
    BY <1>5 DEF Window
  <2>2. Append(Window(its, c, h, n), d) = [k \in 1 .. n + 1 |-> IF k = n + 1 THEN d ELSE Window(its, c, h, n)[k]]
    <3> DEFINE w == Window(its, c, h, n)
    <3>1. w \in Seq(RingPlaces) /\ Len(w) = n /\ n \in Nat /\ d \in RingPlaces
      BY <1>4 DEF RingPlaces
    <3> HIDE DEF w
    <3> DEFINE longer == Append(w, d)
    <3>2. /\ longer \in Seq(RingPlaces) /\ Len(longer) = n + 1
          /\ \A k \in 1 .. n : longer[k] = w[k]
          /\ longer[n + 1] = d
      BY <3>1, AppendProperties
    <3> HIDE DEF longer
    <3>3. longer = [k \in 1 .. n + 1 |-> longer[k]]
      BY ONLY <3>2, n \in Nat
    <3>4. \A k \in 1 .. n + 1 : longer[k] = IF k = n + 1 THEN d ELSE w[k]
      BY ONLY <3>2, n \in Nat
    <3>5. longer = [k \in 1 .. n + 1 |-> IF k = n + 1 THEN d ELSE w[k]]
      BY ONLY <3>3, <3>4
    <3> USE DEF longer
    <3> QED  BY ONLY <3>5 DEF w
  <2>3. \A k \in 1 .. n + 1 : k # n + 1 => Window(its, c, h, n)[k] = its[(h + (k - 1)) % c]
    BY DEF Window
  <2> QED  BY <2>1, <2>2, <2>3
<1> QED  BY <1>6

LEMMA TakeFromWindow ==
  ASSUME NEW c \in Nat, NEW its \in [0 .. c - 1 -> RingPlaces], NEW h \in Nat, NEW n \in Nat,
         h < c, n <= c, n > 0
  PROVE  /\ Window(its, c, h, n) # <<>>
         /\ Head(Window(its, c, h, n)) = its[h]
         /\ Window(its, c, (h + 1) % c, n - 1) = Tail(Window(its, c, h, n))
<1>1. (h < c \/ n = 0) /\ Window(its, c, h, n) \in Seq(RingPlaces) /\ Len(Window(its, c, h, n)) = n
  BY WindowType
<1>2. Window(its, c, h, n)[1] = its[h]
  <2>1. 0 \in Nat /\ 0 < c  OBVIOUS
  <2>2. (h + 0) % c = IF h + 0 < c THEN h + 0 ELSE h + 0 - c
    BY <2>1, AtPlace
  <2>3. (h + (1 - 1)) % c = h
    BY <2>2
  <2> QED  BY <2>3 DEF Window
<1>3. \A k \in 1 .. n - 1 : (((h + 1) % c) + (k - 1)) % c = (h + (k + 1 - 1)) % c
  <2> SUFFICES ASSUME NEW k \in 1 .. n - 1
               PROVE  (((h + 1) % c) + (k - 1)) % c = (h + (k + 1 - 1)) % c
    OBVIOUS
  <2> DEFINE i == k - 1
  <2>1. i \in Nat /\ i + 1 < c /\ k + 1 - 1 = i + 1
    OBVIOUS
  <2> HIDE DEF i
  <2>2. (((h + 1) % c) + i) % c = (h + (i + 1)) % c
    BY <2>1, AtNext
  <2> QED  BY <2>1, <2>2 DEF i
<1>4. Tail(Window(its, c, h, n)) = [k \in 1 .. n - 1 |-> Window(its, c, h, n)[k + 1]]
  BY <1>1
<1>5. \A k \in 1 .. n - 1 : Window(its, c, h, n)[k + 1] = its[(h + (k + 1 - 1)) % c]
  BY DEF Window
<1>6. Window(its, c, (h + 1) % c, n - 1) = [k \in 1 .. n - 1 |-> its[(((h + 1) % c) + (k - 1)) % c]]
  BY DEF Window
<1>7. \A k \in 1 .. n - 1 : its[(((h + 1) % c) + (k - 1)) % c] = Window(its, c, h, n)[k + 1]
  BY <1>3, <1>5
<1>8. Window(its, c, (h + 1) % c, n - 1) = Tail(Window(its, c, h, n))
  BY ONLY <1>4, <1>6, <1>7
<1>9. Window(its, c, h, n) # <<>> /\ Head(Window(its, c, h, n)) = its[h]
  BY ONLY <1>1, <1>2, n > 0, n \in Nat
<1> QED  BY <1>8, <1>9

LEMMA PushRing ==
  ASSUME Cap \in Nat, Ring, NEW d \in Dms,
         count < Cap, count # Capacity,
         items' = [items EXCEPT ![At(count, Capacity)] = d], head' = head, count' = count + 1
  PROVE  Ring' /\ InOrder' = Append(InOrder, d)
<1> DEFINE c == Capacity
<1>1. /\ c \in Nat /\ items \in [0 .. c - 1 -> RingPlaces]
      /\ head \in Nat /\ head < c /\ count \in Nat /\ count < c
  BY DEF Ring
<1>2. items' = [items EXCEPT ![(head + count) % c] = d]
  BY DEF At
<1>3. InOrder = Window(items, c, head, count)
  BY InOrderType
<1>4. /\ items' \in [0 .. c - 1 -> RingPlaces]
      /\ Window(items', c, head, count + 1) = Append(Window(items, c, head, count), d)
  <2> HIDE DEF c
  <2>1. (head + count) % c \in 0 .. c - 1
    BY <1>1, AtInside
  <2>2. items' \in [0 .. c - 1 -> RingPlaces]
    BY <1>1, <1>2, <2>1 DEF RingPlaces
  <2>3. PutAt(items', items, c, (head + count) % c, d)
    BY <1>1, <1>2, <2>1 DEF PutAt
  <2>4. Window(items', c, head, count + 1) = Append(Window(items, c, head, count), d)
    BY ONLY <1>1, <2>2, <2>3, d \in Dms, PutInWindow
  <2> QED  BY <2>2, <2>4
<1>5. Capacity' = c
  BY <1>1, <1>4, CapacityNext
<1>6. InOrder' = Window(items', c, head, count + 1)
  <2>1. InOrder' = [n \in 1 .. count' |-> items'[(head' + (n - 1)) % Capacity']]
    BY DEF InOrder, At
  <2> HIDE DEF c
  <2> QED  BY ONLY <2>1, <1>5, head' = head, count' = count + 1 DEF Window
<1>7. Ring'
  <2> HIDE DEF c
  <2>1. count + 1 \in Nat /\ count + 1 <= c /\ count + 1 <= Cap
    BY <1>1, c = Capacity DEF Ring
  <2> QED  BY ONLY <1>1, <1>4, <1>5, <2>1, head' = head, count' = count + 1 DEF Ring
<1>8. InOrder' = Append(InOrder, d)
  BY ONLY <1>3, <1>4, <1>6
<1> QED  BY <1>7, <1>8

LEMMA PopRing ==
  ASSUME Cap \in Nat, Ring, count > 0,
         head' = At(1, Capacity), count' = count - 1, items' = items
  PROVE  Ring' /\ InOrder # <<>> /\ items[head] = Head(InOrder) /\ InOrder' = Tail(InOrder)
<1> DEFINE c == Capacity
<1>1. /\ c \in Nat /\ items \in [0 .. c - 1 -> RingPlaces]
      /\ head \in Nat /\ head < c /\ count \in Nat /\ count <= c /\ count > 0
  BY DEF Ring
<1>2. InOrder = Window(items, c, head, count)
  BY InOrderType
<1>3. Capacity' = c
  BY DEF Capacity
<1>4. head' = (head + 1) % c
  BY DEF At
<1>5. InOrder' = Window(items, c, (head + 1) % c, count - 1)
  BY <1>3, <1>4 DEF InOrder, At, Window
<1>6. (head + 1) % c \in Nat /\ (head + 1) % c < c
  <2> DEFINE p == (head + 1) % c
  <2>1. p \in Nat /\ p < c
    <3> HIDE DEF c
    <3>1. CASE c = 1
      <4>1. head = 0  BY <1>1, <3>1
      <4> QED  BY <3>1, <4>1
    <3>2. CASE c # 1
      <4>1. 1 \in Nat /\ 1 < c  BY <1>1, <3>2
      <4>2. p = IF head + 1 < c THEN head + 1 ELSE head + 1 - c
        BY <1>1, <4>1, AtPlace
      <4> QED  BY <1>1, <4>1, <4>2
    <3> QED  BY <3>1, <3>2
  <2> QED  BY <2>1
<1>7. Ring'
  BY <1>1, <1>3, <1>4, <1>6 DEF Ring
<1>8. /\ Window(items, c, head, count) # <<>>
      /\ Head(Window(items, c, head, count)) = items[head]
      /\ Window(items, c, (head + 1) % c, count - 1) = Tail(Window(items, c, head, count))
  <2> HIDE DEF c
  <2> QED  BY <1>1, TakeFromWindow
<1> QED  BY <1>2, <1>5, <1>7, <1>8

LEMMA FreeRing ==
  ASSUME Cap \in Nat, items' = <<>>, count' = 0, head' = 0
  PROVE  Ring' /\ InOrder' = <<>>
<1>1. items' = [p \in {} |-> None] /\ DOMAIN items' = {} /\ Cardinality(DOMAIN items') = 0
  BY FS_EmptySet
<1>2. 0 .. 0 - 1 = {}  OBVIOUS
<1>3. Capacity' = 0  BY <1>1 DEF Capacity
<1>4. items' \in [0 .. Capacity' - 1 -> RingPlaces]  BY <1>1, <1>2, <1>3
<1>5. Ring'  BY <1>3, <1>4 DEF Ring
<1>6. InOrder' = [n \in 1 .. 0 |-> items'[(0 + (n - 1)) % 0]]  BY <1>3 DEF InOrder, At
<1>7. InOrder' = <<>>  BY <1>6
<1> QED  BY <1>5, <1>7

LEMMA SameRing ==
  ASSUME Ring, UNCHANGED <<items, count, head>>
  PROVE  Ring' /\ InOrder' = InOrder
  BY DEF Ring, InOrder, At, Capacity

-----------------------------------------------------------------------------
(* The refinement *)

\* A step keeps the invariant and is a step of the queue, or none.
LEMMA StepImplements ==
  ASSUME Cap \in Nat, FirstCapacity \in Nat \ {0}, Ring, [MailboxNext]_mailboxVars
  PROVE  Ring' /\ [Fifo!Next]_<<InOrder, out, released>>
<1> USE DEF Fifo!Next, Fifo!Push, Fifo!Pop, Fifo!Count, Fifo!Free
<1>1. InOrder \in Seq(RingPlaces) /\ Len(InOrder) = count /\ count \in Nat /\ count <= Cap
  BY InOrderType DEF Ring
<1>2. CASE UNCHANGED mailboxVars
  BY <1>2, SameRing DEF mailboxVars
<1>3. CASE out # <<"freed">> /\ Pop
  <2>1. CASE count > 0
    <3>1. Ring' /\ InOrder # <<>> /\ items[head] = Head(InOrder) /\ InOrder' = Tail(InOrder)
      BY <1>3, <2>1, PopRing DEF Pop
    <3>2. out' = <<"dm", Head(InOrder)>> /\ UNCHANGED released
      BY <1>3, <2>1, <3>1 DEF Pop
    <3> QED  BY <1>3, <3>1, <3>2
  <2>2. CASE count = 0
    <3>1. UNCHANGED <<items, count, head, released>> /\ out' = <<"empty">>
      BY <1>3, <2>2 DEF Pop
    <3>2. InOrder = <<>>
      BY <1>1, <2>2
    <3> QED  BY <1>3, <3>1, <3>2, SameRing
  <2> QED  BY <1>1, <2>1, <2>2
<1>4. CASE out # <<"freed">> /\ Count
  BY <1>1, <1>4, SameRing DEF Count
<1>5. CASE out # <<"freed">> /\ Free
  BY <1>5, FreeRing DEF Free
<1>6. ASSUME out # <<"freed">>, NEW d \in Dms, Push(d)
      PROVE  Ring' /\ [Fifo!Next]_<<InOrder, out, released>>
  <2>1. CASE count < Cap /\ count = Capacity
    <3>1. items' = [Grown EXCEPT ![count] = d] /\ head' = 0 /\ count' = count + 1
          /\ out' = <<>> /\ UNCHANGED released
      BY <1>6, <2>1, <1>1 DEF Push
    <3>2. Ring' /\ InOrder' = Append(InOrder, d)
      BY <2>1, <3>1, GrowRing
    <3> QED  BY <1>1, <1>6, <2>1, <3>1, <3>2
  <2>2. CASE count < Cap /\ count # Capacity
    <3>1. items' = [items EXCEPT ![At(count, Capacity)] = d] /\ head' = head /\ count' = count + 1
          /\ out' = <<>> /\ UNCHANGED released
      BY <1>6, <2>2, <1>1 DEF Push
    <3>2. Ring' /\ InOrder' = Append(InOrder, d)
      BY <2>2, <3>1, PushRing
    <3> QED  BY <1>1, <1>6, <2>2, <3>1, <3>2
  <2>3. CASE count >= Cap
    <3>1. UNCHANGED <<items, count, head, released>> /\ out' = <<"full">>
      BY <1>6, <2>3, <1>1 DEF Push
    <3> QED  BY <1>1, <1>6, <2>3, <3>1, SameRing
  <2> QED  BY <1>1, <2>1, <2>2, <2>3
<1> QED  BY <1>2, <1>3, <1>4, <1>5, <1>6 DEF MailboxNext, Freed

\* Dms come out of a mailbox in the order they went in, none lost or doubled by its ring's wrapping
\* and growth, whatever the capacities, and free lets go of what is left (interns.c: mailbox_push,
\* mailbox_pop, mailbox_free).
THEOREM MailboxImplementsFifo ==
  ASSUME Cap \in Nat, FirstCapacity \in Nat \ {0}
  PROVE  MailboxSpec => IsABoundedFifo
<1>1. MailboxInit => Ring /\ Fifo!Init
  BY InitRing DEF MailboxInit, Fifo!Init
<1>2. Ring /\ [MailboxNext]_mailboxVars => Ring' /\ [Fifo!Next]_<<InOrder, out, released>>
  BY StepImplements
<1> QED  BY <1>1, <1>2, PTL DEF MailboxSpec, IsABoundedFifo, Fifo!Spec

-----------------------------------------------------------------------------
(* Atomic writes *)

\* Writers are named apart from what else files and contents are called.
Apart == Torn \notin Files /\ NoFile \notin Files /\ First \notin Writers

WritersAt == {"start", "opened", "written", "durable", "renamed", "answered", "unsynced", "failed"}

\* Where a writer is once its file was moved into place.
MovedIn == {"renamed", "answered", "unsynced"}

FileTypes ==
    /\ names \in [Names -> Files \cup {NoFile}]
    /\ diskNames \in [Names -> Files \cup {NoFile}]
    /\ contents \in [Files -> Files \cup {Torn}]
    /\ diskContents \in [Files -> Files \cup {Torn}]
    /\ at \in [Writers -> WritersAt]
    /\ reading \in [Readers -> Files \cup {NoFile}]
    /\ seen \in [Readers -> Files \cup {Torn}]
    /\ versions \in Seq(Files)
    /\ up \in BOOLEAN

\* Files that have been moved into place.
Published(f) == f = First \/ (f \in Writers /\ at[f] \in MovedIn)

\* They are whole, and on the disk, as no writer touches them any more.
PublishedWhole == \A f \in Files : Published(f) => contents[f] = f /\ diskContents[f] = f

\* A writer's temporary name leads to its own file or nowhere, and to it while the writer needs it;
\* what has reached the disk before the rename is whole.
TempsAreOwn ==
    \A w \in Writers :
        /\ Mine(w) \in {NoFile, w}
        /\ Mine(w) = w => at[w] \notin MovedIn
        /\ up /\ at[w] \in {"opened", "written", "durable"} => Mine(w) = w
        /\ up /\ at[w] \in {"written", "durable"} => contents[w] = w
        /\ up /\ at[w] = "durable" => diskContents[w] = w

\* The target, for everybody and on the disk, is a published file, and so is what readers have open.
TargetPublished ==
    /\ names[TargetName] \in Files /\ Published(names[TargetName])
    /\ diskNames[TargetName] \in Files /\ Published(diskNames[TargetName])
    /\ \A r \in Readers : reading[r] # NoFile => Published(reading[r])
    /\ \A r \in Readers : seen[r] # Torn

FileInv == FileTypes /\ PublishedWhole /\ TempsAreOwn /\ TargetPublished

USE DEF MovedIn

LEMMA DistinctNames ==
  /\ TargetName \in Names
  /\ \A w \in Writers : Temp(w) \in Names /\ Temp(w) # TargetName
  /\ \A v, w \in Writers : Temp(v) = Temp(w) => v = w
  BY DEF TargetName, Names, Temp, Target

LEMMA InitFiles ==
  ASSUME Apart, FileInit
  PROVE  FileInv
<1>1. FileTypes
  BY DEF FileInit, FileTypes, Files, WritersAt
<1>2. PublishedWhole
  BY DEF FileInit, PublishedWhole, Published, Files, Apart
<1>3. TempsAreOwn
  BY DistinctNames DEF FileInit, TempsAreOwn, Mine, Apart, Files, NoFile
<1>4. TargetPublished
  BY DistinctNames DEF FileInit, TargetPublished, Published, Apart, Files
<1> QED  BY <1>1, <1>2, <1>3, <1>4 DEF FileInv

LEMMA OpenFiles ==
  ASSUME Apart, FileInv, NEW w \in Writers, Open(w)
  PROVE  FileInv'
<1>1. names' = [names EXCEPT ![Temp(w)] = w] /\ contents' = [contents EXCEPT ![w] = Torn]
  BY DEF Open, FileInv, TempsAreOwn
<1>2. at[w] = "start" /\ at' = [at EXCEPT ![w] = "opened"] /\ up
      /\ UNCHANGED <<diskNames, diskContents, reading, seen, versions, up>>
  BY DEF Open, Go
<1>3. FileTypes'
  BY <1>1, <1>2 DEF FileInv, FileTypes, Files, WritersAt
<1>4. \A f \in Files : Published(f)' => Published(f) /\ f # w
  BY <1>2 DEF FileInv, FileTypes, Published, Apart
<1>5. PublishedWhole'
  BY <1>1, <1>2, <1>4 DEF FileInv, FileTypes, PublishedWhole
<1>6. TempsAreOwn'
  BY <1>1, <1>2, DistinctNames DEF FileInv, FileTypes, TempsAreOwn, Mine, Files
<1>7. TargetPublished'
  BY <1>1, <1>2, DistinctNames DEF FileInv, FileTypes, TargetPublished, Published
<1> QED  BY <1>3, <1>5, <1>6, <1>7 DEF FileInv

LEMMA WriteFiles ==
  ASSUME Apart, FileInv, NEW w \in Writers, Write(w)
  PROVE  FileInv'
<1>1. /\ up /\ at[w] = "opened" /\ at' = [at EXCEPT ![w] = "written"] /\ Mine(w) = w
      /\ contents' = [f \in Files |-> IF f = w THEN w ELSE contents[f]]
      /\ UNCHANGED <<names, diskNames, diskContents, reading, seen, versions, up>>
  BY DEF Write, Go, FileInv, TempsAreOwn
<1>2. FileTypes'
  BY <1>1 DEF FileInv, FileTypes, Files, WritersAt
<1>3. \A f \in Files : Published(f)' => Published(f) /\ f # w
  BY <1>1 DEF FileInv, FileTypes, Published, Apart
<1>4. PublishedWhole'
  BY <1>1, <1>3 DEF FileInv, FileTypes, PublishedWhole
<1>5. TempsAreOwn'
  BY <1>1 DEF FileInv, FileTypes, TempsAreOwn, Mine, Files
<1>6. TargetPublished'
  BY <1>1 DEF FileInv, FileTypes, TargetPublished, Published
<1> QED  BY <1>2, <1>4, <1>5, <1>6 DEF FileInv

LEMMA SyncFiles ==
  ASSUME Apart, FileInv, NEW w \in Writers, Sync(w)
  PROVE  FileInv'
<1>1. /\ up /\ at[w] = "written" /\ at' = [at EXCEPT ![w] = "durable"]
      /\ Mine(w) = w /\ contents[w] = w
      /\ diskContents' = [f \in Files |-> IF f = w THEN contents[f] ELSE diskContents[f]]
      /\ UNCHANGED <<names, diskNames, contents, reading, seen, versions, up>>
  BY DEF Sync, Go, FileInv, TempsAreOwn
<1>2. FileTypes'
  BY <1>1 DEF FileInv, FileTypes, Files, WritersAt
<1>3. \A f \in Files : Published(f)' => Published(f) /\ f # w
  BY <1>1 DEF FileInv, FileTypes, Published, Apart
<1>4. PublishedWhole'
  BY <1>1, <1>3 DEF FileInv, FileTypes, PublishedWhole
<1>5. TempsAreOwn'
  BY <1>1 DEF FileInv, FileTypes, TempsAreOwn, Mine, Files
<1>6. TargetPublished'
  BY <1>1 DEF FileInv, FileTypes, TargetPublished, Published
<1> QED  BY <1>2, <1>4, <1>5, <1>6 DEF FileInv

LEMMA FailFiles ==
  ASSUME Apart, FileInv, NEW w \in Writers, Fail(w)
  PROVE  FileInv'
<1>1. /\ up /\ at[w] \in {"start", "opened", "written", "durable"} /\ at' = [at EXCEPT ![w] = "failed"]
      /\ UNCHANGED <<names, diskNames, contents, diskContents, reading, seen, versions, up>>
  BY DEF Fail, Go
<1>2. FileTypes'
  BY <1>1 DEF FileInv, FileTypes, Files, WritersAt
<1>3. \A f \in Files : Published(f)' <=> Published(f)
  BY <1>1 DEF FileInv, FileTypes, Published, Apart
<1>4. PublishedWhole'
  BY <1>1, <1>3 DEF FileInv, FileTypes, PublishedWhole
<1>5. TempsAreOwn'
  BY <1>1 DEF FileInv, FileTypes, TempsAreOwn, Mine, Files
<1>6. TargetPublished'
  BY <1>1 DEF FileInv, FileTypes, TargetPublished, Published
<1> QED  BY <1>2, <1>4, <1>5, <1>6 DEF FileInv

LEMMA RenameFiles ==
  ASSUME Apart, FileInv, NEW w \in Writers, Rename(w)
  PROVE  FileInv'
<1>1. /\ up /\ at[w] = "durable" /\ at' = [at EXCEPT ![w] = "renamed"]
      /\ contents[w] = w /\ diskContents[w] = w
      /\ names' = [names EXCEPT ![TargetName] = w, ![Temp(w)] = NoFile]
      /\ versions' = Append(versions, w)
      /\ UNCHANGED <<diskNames, contents, diskContents, reading, seen, up>>
  BY DEF Rename, Go, FileInv, TempsAreOwn
<1>2. FileTypes'
  <2>1. w \in Files /\ names \in [Names -> Files \cup {NoFile}] /\ versions \in Seq(Files)
    BY DEF FileInv, FileTypes, Files
  <2>2. names' \in [Names -> Files \cup {NoFile}]
    BY <1>1, <2>1
  <2>3. versions' \in Seq(Files)
    BY <1>1, <2>1
  <2>4. at' \in [Writers -> WritersAt]
    BY <1>1 DEF FileInv, FileTypes, WritersAt
  <2> QED  BY <1>1, <2>2, <2>3, <2>4 DEF FileInv, FileTypes
<1>3. \A f \in Files : (Published(f)' => Published(f) \/ f = w) /\ (Published(f) => Published(f)')
  BY <1>1 DEF FileInv, FileTypes, Published, Apart
<1>4. Published(w)'
  BY <1>1 DEF FileInv, FileTypes, Published
<1>5. PublishedWhole'
  BY <1>1, <1>3 DEF FileInv, FileTypes, PublishedWhole
<1>6. TempsAreOwn'
  <2>1. \A v \in Writers : names'[Temp(v)] = IF v = w THEN NoFile ELSE names[Temp(v)]
    BY <1>1, DistinctNames DEF FileInv, FileTypes
  <2>2. NoFile \notin Writers
    BY DEF Apart, Files
  <2>3. \A v \in Writers : at'[v] = IF v = w THEN "renamed" ELSE at[v]
    BY <1>1 DEF FileInv, FileTypes
  <2>4. TempsAreOwn
    BY DEF FileInv
  <2>5. UNCHANGED <<contents, diskContents, up>>
    BY <1>1
  <2> QED  BY <2>1, <2>2, <2>3, <2>4, <2>5 DEF TempsAreOwn, Mine
<1>7. TargetPublished'
  <2>1. names'[TargetName] = w /\ w \in Files
    BY <1>1, DistinctNames DEF FileInv, FileTypes, Files
  <2> QED  BY <1>1, <1>3, <1>4, <2>1 DEF FileInv, FileTypes, TargetPublished
<1> QED  BY <1>2, <1>5, <1>6, <1>7 DEF FileInv

LEMMA RenameFailsFiles ==
  ASSUME Apart, FileInv, NEW w \in Writers, RenameFails(w)
  PROVE  FileInv'
<1>1. /\ up /\ at[w] = "durable" /\ at' = [at EXCEPT ![w] = "failed"]
      /\ names' = [names EXCEPT ![Temp(w)] = NoFile]
      /\ UNCHANGED <<diskNames, contents, diskContents, reading, seen, versions, up>>
  BY DEF RenameFails, Go
<1>2. FileTypes'
  BY <1>1 DEF FileInv, FileTypes, Files, WritersAt
<1>3. \A f \in Files : Published(f)' <=> Published(f)
  BY <1>1 DEF FileInv, FileTypes, Published, Apart
<1>4. PublishedWhole'
  BY <1>1, <1>3 DEF FileInv, FileTypes, PublishedWhole
<1>5. TempsAreOwn'
  <2>1. \A v \in Writers : names'[Temp(v)] = IF v = w THEN NoFile ELSE names[Temp(v)]
    BY <1>1, DistinctNames DEF FileInv, FileTypes
  <2>2. NoFile \notin Writers
    BY DEF Apart, Files
  <2> QED  BY <1>1, <2>1, <2>2 DEF FileInv, FileTypes, TempsAreOwn, Mine
<1>6. TargetPublished'
  <2>1. names'[TargetName] = names[TargetName]
    BY <1>1, DistinctNames DEF FileInv, FileTypes
  <2> QED  BY <1>1, <1>3, <2>1 DEF FileInv, FileTypes, TargetPublished, Published
<1> QED  BY <1>2, <1>4, <1>5, <1>6 DEF FileInv

LEMMA DirectoryFiles ==
  ASSUME Apart, FileInv, NEW w \in Writers, SyncDirectory(w) \/ SkipDirectory(w)
  PROVE  FileInv'
<1>1. /\ up /\ at[w] = "renamed" /\ diskNames' \in {names, diskNames}
      /\ \E to \in {"answered", "unsynced"} : at' = [at EXCEPT ![w] = to]
      /\ UNCHANGED <<names, contents, diskContents, reading, seen, versions, up>>
  BY DEF SyncDirectory, SkipDirectory, Go
<1>2. FileTypes'
  BY <1>1 DEF FileInv, FileTypes, Files, WritersAt
<1>3. \A f \in Files : Published(f)' <=> Published(f)
  BY <1>1 DEF FileInv, FileTypes, Published, Apart
<1>4. PublishedWhole'
  BY <1>1, <1>3 DEF FileInv, FileTypes, PublishedWhole
<1>5. TempsAreOwn'
  BY <1>1 DEF FileInv, FileTypes, TempsAreOwn, Mine, Files
<1>6. TargetPublished'
  BY <1>1, <1>3 DEF FileInv, FileTypes, TargetPublished
<1> QED  BY <1>2, <1>4, <1>5, <1>6 DEF FileInv

LEMMA ReaderFiles ==
  ASSUME Apart, FileInv, NEW r \in Readers, OpenToRead(r) \/ Slurp(r)
  PROVE  FileInv'
<1>1. UNCHANGED <<names, diskNames, contents, diskContents, at, versions, up>>
  BY DEF OpenToRead, Slurp
<1>2. PublishedWhole' /\ TempsAreOwn'
  BY <1>1 DEF FileInv, PublishedWhole, TempsAreOwn, Published, Mine
<1>3. CASE OpenToRead(r)
  <2>1. reading' = [reading EXCEPT ![r] = names[TargetName]] /\ seen' = seen
    BY <1>3 DEF OpenToRead
  <2>2. FileTypes'
    BY <1>1, <2>1 DEF FileInv, FileTypes, TargetPublished
  <2>3. TargetPublished'
    BY <1>1, <2>1 DEF FileInv, FileTypes, TargetPublished, Published
  <2> QED  BY <1>2, <2>2, <2>3 DEF FileInv
<1>4. CASE Slurp(r)
  <2>1. reading' = [reading EXCEPT ![r] = NoFile] /\ seen' = [seen EXCEPT ![r] = contents[reading[r]]]
        /\ reading[r] # NoFile
    BY <1>4 DEF Slurp
  <2>2. reading[r] \in Files /\ contents[reading[r]] = reading[r]
    BY <2>1 DEF FileInv, FileTypes, TargetPublished, PublishedWhole
  <2>3. FileTypes'
    BY <1>1, <2>1, <2>2 DEF FileInv, FileTypes
  <2>4. TargetPublished'
    BY <1>1, <2>1, <2>2 DEF FileInv, FileTypes, TargetPublished, Published, Apart
  <2> QED  BY <1>2, <2>3, <2>4 DEF FileInv
<1> QED  BY <1>3, <1>4

\* What a crash leaves of the target's name and of a published file.
LEMMA CrashKeeps ==
  ASSUME Apart, FileInv, Crash
  PROVE  /\ names'[TargetName] \in {names[TargetName], diskNames[TargetName]}
         /\ names' \in [Names -> Files \cup {NoFile}]
         /\ \A w \in Writers : names'[Temp(w)] = NoFile
         /\ contents' \in [Files -> Files \cup {Torn}]
         /\ \A f \in Files : Published(f) => contents'[f] = f
<1>1. PICK g \in Kept(names[TargetName], diskNames[TargetName], {}) :
        names' = [n \in Names |-> IF n = TargetName THEN g ELSE NoFile]
  BY DEF Crash
<1>2. g \in {names[TargetName], diskNames[TargetName]}
  BY <1>1 DEF Kept
<1>3. PICK c \in [Files -> Files \cup {Torn}] :
        /\ \A f \in Files : c[f] \in Kept(contents[f], diskContents[f], {Torn})
        /\ contents' = c
  BY DEF Crash
<1>4. \A f \in Files : Published(f) => c[f] = f
  BY <1>3 DEF FileInv, PublishedWhole, Kept
<1> QED  BY <1>1, <1>2, <1>3, <1>4, DistinctNames DEF FileInv, TargetPublished

LEMMA CrashFiles ==
  ASSUME Apart, FileInv, Crash
  PROVE  FileInv'
<1>1. /\ up' = FALSE /\ diskNames' = names' /\ diskContents' = contents'
      /\ reading' = [r \in Readers |-> NoFile]
      /\ UNCHANGED <<at, seen, versions>>
  BY DEF Crash
<1>2. FileTypes'
  BY <1>1, CrashKeeps DEF FileInv, FileTypes
<1>3. \A f \in Files : Published(f)' <=> Published(f)
  BY <1>1 DEF Published
<1>4. PublishedWhole'
  BY <1>1, <1>3, CrashKeeps DEF PublishedWhole
<1>5. TempsAreOwn'
  BY <1>1, CrashKeeps DEF TempsAreOwn, Mine, Apart, Files
<1>6. TargetPublished'
  BY <1>1, <1>3, CrashKeeps DEF FileInv, TargetPublished
<1> QED  BY <1>2, <1>4, <1>5, <1>6 DEF FileInv

LEMMA StepFiles ==
  ASSUME Apart, FileInv, [FileNext]_fileVars
  PROVE  FileInv'
<1>1. CASE UNCHANGED fileVars
  BY <1>1 DEF fileVars, FileInv, FileTypes, PublishedWhole, TempsAreOwn, TargetPublished, Published, Mine
<1>2. CASE FileNext
  BY <1>2, OpenFiles, WriteFiles, SyncFiles, FailFiles, RenameFiles, RenameFailsFiles, DirectoryFiles,
     ReaderFiles, CrashFiles DEF FileNext
<1> QED  BY <1>1, <1>2

\* Whatever writers, readers and a loss of power do, whoever slurps the file gets one version of it,
\* whole (filez.c: write_atomic).
THEOREM NobodyReadsHalf ==
  ASSUME Apart
  PROVE  FileSpec => []ReadersSeeWhole
<1>1. FileInit => FileInv
  BY InitFiles
<1>2. FileInv /\ [FileNext]_fileVars => FileInv'
  BY StepFiles
<1>3. FileInv => ReadersSeeWhole
  BY DEF FileInv, TargetPublished, ReadersSeeWhole
<1> QED  BY <1>1, <1>2, <1>3, PTL DEF FileSpec

-----------------------------------------------------------------------------
(* Answered writes *)

\* The version everybody sees is the last one, until a crash; the one on the disk is no older than
\* any that was answered.
DiskIsNoOlder ==
    /\ up => versions # <<>> /\ versions[Len(versions)] = names[TargetName]
    /\ ~ up => names[TargetName] = diskNames[TargetName]
    /\ \A w \in Writers : at[w] \in MovedIn => \E i \in DOMAIN versions : versions[i] = w
    /\ \E k \in DOMAIN versions :
        /\ versions[k] = diskNames[TargetName]
        /\ \A w \in Writers : at[w] = "answered" => \E i \in 1 .. k : versions[i] = w

LEMMA InitNoOlder ==
  ASSUME Apart, FileInit
  PROVE  DiskIsNoOlder
<1>1. versions = <<First>> /\ up /\ names[TargetName] = First /\ diskNames[TargetName] = First
  BY DistinctNames DEF FileInit
<1>2. \A w \in Writers : at[w] = "start"
  BY DEF FileInit
<1>3. 1 \in DOMAIN versions /\ versions[1] = First /\ Len(versions) = 1 /\ versions # <<>>
  BY <1>1
<1> QED  BY <1>1, <1>2, <1>3 DEF DiskIsNoOlder

\* Most steps move nothing into place and answer nobody.
LEMMA QuietNoOlder ==
  ASSUME DiskIsNoOlder, versions' = versions, up' = up,
         names'[TargetName] = names[TargetName], diskNames'[TargetName] = diskNames[TargetName],
         \A w \in Writers : at'[w] \in MovedIn => at'[w] = at[w]
  PROVE  DiskIsNoOlder'
  BY DEF DiskIsNoOlder

LEMMA RenameNoOlder ==
  ASSUME Apart, FileInv, DiskIsNoOlder, NEW w \in Writers, Rename(w)
  PROVE  DiskIsNoOlder'
<1>1. /\ up /\ at' = [at EXCEPT ![w] = "renamed"]
      /\ names' = [names EXCEPT ![TargetName] = w, ![Temp(w)] = NoFile]
      /\ versions' = Append(versions, w)
      /\ UNCHANGED <<diskNames, up>>
  BY DEF Rename, Go, FileInv, TempsAreOwn
<1>2. names'[TargetName] = w
  BY <1>1, DistinctNames DEF FileInv, FileTypes
<1>3. versions \in Seq(Files) /\ w \in Files
  BY DEF FileInv, FileTypes, Files
<1>4. /\ Len(versions') = Len(versions) + 1 /\ versions' # <<>>
      /\ DOMAIN versions' = 1 .. Len(versions) + 1
      /\ versions'[Len(versions) + 1] = w
      /\ \A i \in DOMAIN versions : i \in DOMAIN versions' /\ versions'[i] = versions[i]
      /\ DOMAIN versions = 1 .. Len(versions) /\ Len(versions) \in Nat
  BY <1>1, <1>3
<1>5. \A v \in Writers : at'[v] = IF v = w THEN "renamed" ELSE at[v]
  BY <1>1 DEF FileInv, FileTypes
<1>6. up' => versions' # <<>> /\ versions'[Len(versions')] = names'[TargetName]
  BY <1>2, <1>4
<1>7. \A v \in Writers : at'[v] \in MovedIn => \E i \in DOMAIN versions' : versions'[i] = v
  BY <1>4, <1>5 DEF DiskIsNoOlder
<1>8. PICK k \in DOMAIN versions :
        /\ versions[k] = diskNames[TargetName]
        /\ \A v \in Writers : at[v] = "answered" => \E i \in 1 .. k : versions[i] = v
  BY DEF DiskIsNoOlder
<1>9. /\ k \in DOMAIN versions' /\ versions'[k] = diskNames'[TargetName]
      /\ \A v \in Writers : at'[v] = "answered" => \E i \in 1 .. k : versions'[i] = v
  BY <1>1, <1>4, <1>5, <1>8
<1>10. \E j \in DOMAIN versions' :
        /\ versions'[j] = diskNames'[TargetName]
        /\ \A v \in Writers : at'[v] = "answered" => \E i \in 1 .. j : versions'[i] = v
  BY <1>9
<1> QED  BY <1>1, <1>6, <1>7, <1>10 DEF DiskIsNoOlder

\* With the power on, the disk may take over the directory as it is.
LEMMA LastVersion ==
  ASSUME FileInv, DiskIsNoOlder, up
  PROVE  /\ Len(versions) \in DOMAIN versions /\ versions[Len(versions)] = names[TargetName]
         /\ \A v \in Writers :
                at[v] \in MovedIn => \E i \in 1 .. Len(versions) : versions[i] = v
<1>1. versions \in Seq(Files) /\ versions # <<>>
  BY DEF FileInv, FileTypes, DiskIsNoOlder
<1>2. Len(versions) \in DOMAIN versions /\ DOMAIN versions = 1 .. Len(versions)
  BY <1>1
<1> QED  BY <1>2 DEF DiskIsNoOlder

LEMMA SyncDirectoryNoOlder ==
  ASSUME FileInv, DiskIsNoOlder, NEW w \in Writers, SyncDirectory(w)
  PROVE  DiskIsNoOlder'
<1>1. /\ up /\ at[w] = "renamed" /\ at' = [at EXCEPT ![w] = "answered"] /\ diskNames' = names
      /\ UNCHANGED <<names, versions, up>>
  BY DEF SyncDirectory, Go
<1>2. \A v \in Writers : at'[v] \in MovedIn => at[v] \in MovedIn
  BY <1>1 DEF FileInv, FileTypes
<1>3. /\ Len(versions) \in DOMAIN versions /\ versions[Len(versions)] = names[TargetName]
      /\ \A v \in Writers :
             at[v] \in MovedIn => \E i \in 1 .. Len(versions) : versions[i] = v
  BY <1>1, LastVersion
<1>4. \E k \in DOMAIN versions :
        /\ versions[k] = diskNames'[TargetName]
        /\ \A v \in Writers : at'[v] = "answered" => \E i \in 1 .. k : versions[i] = v
  BY <1>1, <1>2, <1>3
<1> QED  BY <1>1, <1>2, <1>4 DEF DiskIsNoOlder

\* An answer for which nothing was synced promises nothing about the disk.
LEMMA SkipDirectoryNoOlder ==
  ASSUME FileInv, DiskIsNoOlder, NEW w \in Writers, SkipDirectory(w)
  PROVE  DiskIsNoOlder'
<1>1. /\ up /\ at[w] = "renamed" /\ at' = [at EXCEPT ![w] = "unsynced"]
      /\ UNCHANGED <<names, diskNames, versions, up>>
  BY DEF SkipDirectory, Go
<1>2. \A v \in Writers : (at'[v] \in MovedIn => at[v] \in MovedIn) /\ (at'[v] = "answered" => at[v] = "answered")
  BY <1>1 DEF FileInv, FileTypes
<1> QED  BY <1>1, <1>2 DEF DiskIsNoOlder

LEMMA CrashNoOlder ==
  ASSUME Apart, FileInv, DiskIsNoOlder, Crash
  PROVE  DiskIsNoOlder'
<1>1. up /\ up' = FALSE /\ diskNames' = names' /\ UNCHANGED <<at, versions>>
  BY DEF Crash
<1>2. names'[TargetName] \in {names[TargetName], diskNames[TargetName]}
  BY CrashKeeps
<1>3. /\ Len(versions) \in DOMAIN versions /\ versions[Len(versions)] = names[TargetName]
      /\ \A v \in Writers :
             at[v] \in MovedIn => \E i \in 1 .. Len(versions) : versions[i] = v
  BY <1>1, LastVersion
<1>4. \E k \in DOMAIN versions :
        /\ versions[k] = names'[TargetName]
        /\ \A v \in Writers : at[v] = "answered" => \E i \in 1 .. k : versions[i] = v
  BY <1>2, <1>3 DEF DiskIsNoOlder
<1> QED  BY <1>1, <1>4 DEF DiskIsNoOlder

LEMMA StepNoOlder ==
  ASSUME Apart, FileInv, DiskIsNoOlder, [FileNext]_fileVars
  PROVE  DiskIsNoOlder'
<1>1. CASE UNCHANGED fileVars
  BY <1>1, QuietNoOlder DEF fileVars
<1>2. ASSUME NEW w \in Writers, Open(w) \/ Write(w) \/ Sync(w) \/ Fail(w) \/ RenameFails(w)
      PROVE  DiskIsNoOlder'
  <2>1. /\ UNCHANGED <<diskNames, versions, up>>
        /\ \E to \in {"opened", "written", "durable", "failed"} : at' = [at EXCEPT ![w] = to]
    BY <1>2 DEF Open, Write, Sync, Fail, RenameFails, Go
  <2>2. names' = names \/ \E f \in Files \cup {NoFile} : names' = [names EXCEPT ![Temp(w)] = f]
    BY <1>2 DEF Open, Write, Sync, Fail, RenameFails, FileInv, TempsAreOwn, Files
  <2>3. names'[TargetName] = names[TargetName]
    BY <2>2, DistinctNames DEF FileInv, FileTypes
  <2>4. \A v \in Writers : at'[v] \in MovedIn => at'[v] = at[v]
    BY <2>1 DEF FileInv, FileTypes
  <2> QED  BY <2>1, <2>3, <2>4, QuietNoOlder
<1>3. ASSUME NEW r \in Readers, OpenToRead(r) \/ Slurp(r)
      PROVE  DiskIsNoOlder'
  BY <1>3, QuietNoOlder DEF OpenToRead, Slurp
<1> QED  BY <1>1, <1>2, <1>3, RenameNoOlder, SyncDirectoryNoOlder, SkipDirectoryNoOlder, CrashNoOlder DEF FileNext

LEMMA NoOlderSurvives ==
  ASSUME FileInv, DiskIsNoOlder
  PROVE  AnsweredSurvives
<1>1. contents[names[TargetName]] = names[TargetName]
  BY DEF FileInv, TargetPublished, PublishedWhole
<1>2. \A k \in DOMAIN versions : \A i \in 1 .. k : i \in DOMAIN versions /\ i <= k
  BY DEF FileInv, FileTypes
<1>3. CASE up
  BY <1>1, <1>2, <1>3, LastVersion DEF AnsweredSurvives
<1>4. CASE ~ up
  BY <1>1, <1>2, <1>4 DEF DiskIsNoOlder, AnsweredSurvives
<1> QED  BY <1>3, <1>4

\* What write_atomic answered for is in the file, or something that replaced it, until the power is lost
\* and also then if its directory was synced (platform.c: platform_replace_file).
THEOREM AnsweredWritesLast ==
  ASSUME Apart
  PROVE  FileSpec => []AnsweredSurvives
<1>1. FileInit => FileInv /\ DiskIsNoOlder
  BY InitFiles, InitNoOlder
<1>2. FileInv /\ DiskIsNoOlder /\ [FileNext]_fileVars => FileInv' /\ DiskIsNoOlder'
  BY StepFiles, StepNoOlder
<1>3. FileInv /\ DiskIsNoOlder => AnsweredSurvives
  BY NoOlderSurvives
<1> QED  BY <1>1, <1>2, <1>3, PTL DEF FileSpec
=============================================================================
