---------------------------- MODULE StashProofs ----------------------------
(***************************************************************************)
(* Stashes keep their promises, however long they are and whatever the      *)
(* functions answer that their methods call.  Where the code does not allow *)
(* for it, functions are taken not to change the stash or fail (Careful).   *)
(***************************************************************************)
EXTENDS Stash, SequenceTheorems, WellFoundedInduction, TLAPS

-----------------------------------------------------------------------------
(* Numbers, loops and sequences *)

\* What holds of 0, and of each natural after one of which it holds, holds of all.
LEMMA AllNaturals ==
  ASSUME NEW S, 0 \in S, \A n \in Nat \ {0} : n - 1 \in S => n \in S
  PROVE  Nat \subseteq S
<1> DEFINE bad == Nat \ S
<1> SUFFICES ASSUME bad # {}
             PROVE  FALSE
  OBVIOUS
<1>1. PICK m \in bad : \A j \in bad : ~ (j < m)
  <2>1. IsWellFoundedOn(OpToRel(<, Nat), Nat)
    BY NatLessThanWellFounded
  <2> bad \subseteq Nat
    OBVIOUS
  <2> HIDE DEF bad
  <2>2. \E m \in bad : \A j \in bad : ~ (<<j, m>> \in OpToRel(<, Nat))
    BY <2>1, WFMin, Zenon
  <2> QED  BY <2>2 DEF OpToRel
<1>2. m \in Nat \ {0}
  BY <1>1
<1>3. m - 1 \in S
  <2>1. m - 1 \in Nat /\ m - 1 < m
    BY <1>2
  <2> QED  BY <1>1, <2>1
<1> QED  BY <1>1, <1>2, <1>3

LEMMA MaxIs ==
  ASSUME NEW N \in Nat, NEW S \in SUBSET (0 .. N), S # {}
  PROVE  Max(S) \in S /\ \A x \in S : x <= Max(S)
<1> DEFINE P == {n \in Nat : (\E x \in S : x >= N - n) => \E x \in S : \A y \in S : x >= y}
<1>1. 0 \in P
  BY DEF P
<1>2. ASSUME NEW n \in Nat \ {0}, n - 1 \in P
      PROVE  n \in P
  <2> SUFFICES ASSUME NEW x \in S, x >= N - n
               PROVE  \E m \in S : \A y \in S : m >= y
    OBVIOUS
  <2>1. CASE \E y \in S : y >= N - (n - 1)
    BY <1>2, <2>1
  <2>2. CASE \A y \in S : ~ (y >= N - (n - 1))
    <3>1. \A y \in S : x >= y
      BY <2>2
    <3> QED  BY <3>1
  <2> QED  BY <2>1, <2>2
<1> HIDE DEF P
<1>3. N \in P
  BY <1>1, <1>2, AllNaturals
<1>4. \E x \in S : \A y \in S : x >= y
  <2>1. \E x \in S : x >= N - N
    <3>1. N - N = 0
      OBVIOUS
    <3>2. PICK x \in S : TRUE
      OBVIOUS
    <3>3. x \in 0 .. N
      OBVIOUS
    <3> QED  BY <3>1, <3>2, <3>3
  <2> QED  BY <1>3, <2>1 DEF P
<1>5. Max(S) \in S /\ \A y \in S : Max(S) >= y
  BY <1>4 DEF Max
<1> QED  BY <1>5

LEMMA OfTwo ==
  ASSUME NEW a \in Int, NEW b \in Int
  PROVE  /\ Max({a, b}) = IF a <= b THEN b ELSE a
         /\ Min({a, b}) = IF a <= b THEN a ELSE b
<1> DEFINE m == IF a <= b THEN b ELSE a
           l == IF a <= b THEN a ELSE b
<1>1. m \in {a, b} /\ \A y \in {a, b} : m >= y
  OBVIOUS
<1>2. l \in {a, b} /\ \A y \in {a, b} : l <= y
  OBVIOUS
<1>3. \A x \in {a, b} : (\A y \in {a, b} : x >= y) => x = m
  OBVIOUS
<1>4. \A x \in {a, b} : (\A y \in {a, b} : x <= y) => x = l
  OBVIOUS
<1> HIDE DEF m, l
<1>5. Max({a, b}) = m
  BY <1>1, <1>3 DEF Max
<1>6. Min({a, b}) = l
  BY <1>2, <1>4 DEF Min
<1> QED  BY <1>5, <1>6 DEF m, l

\* What a loop goes through: Looped's function, where Round is step.
Rounds(f, T, step, first, n) ==
    f \in [0 .. n -> T] /\ f = [k \in 0 .. n |-> IF k = 0 THEN first ELSE step[<<f[k - 1], k>>]]

LEMMA RoundsExist ==
  ASSUME NEW T, NEW first \in T, NEW n \in Nat, NEW step \in [T \X (1 .. n) -> T]
  PROVE  \E f : Rounds(f, T, step, first, n)
<1> DEFINE S == {j \in Nat : j <= n => \E f : Rounds(f, T, step, first, j)}
<1>1. 0 \in S
  <2> DEFINE f == [k \in 0 .. 0 |-> first]
  <2>1. Rounds(f, T, step, first, 0)
    BY DEF Rounds
  <2> QED  BY <2>1
<1>2. ASSUME NEW j \in Nat \ {0}, j - 1 \in S
      PROVE  j \in S
  <2> SUFFICES ASSUME j <= n
               PROVE  \E f : Rounds(f, T, step, first, j)
    OBVIOUS
  <2>1. PICK f : Rounds(f, T, step, first, j - 1)
    BY <1>2
  <2> DEFINE g == [k \in 0 .. j |-> IF k = j THEN step[<<f[j - 1], j>>] ELSE f[k]]
  <2>2. f[j - 1] \in T /\ <<f[j - 1], j>> \in T \X (1 .. n)
    BY <2>1 DEF Rounds
  <2>3. g \in [0 .. j -> T]
    BY <2>1, <2>2 DEF Rounds
  <2>4. ASSUME NEW k \in 0 .. j
        PROVE  g[k] = IF k = 0 THEN first ELSE step[<<g[k - 1], k>>]
    <3>1. CASE k = j
      <4>1. k - 1 \in 0 .. j /\ k - 1 # j /\ k # 0
        BY <3>1
      <4>2. g[k - 1] = f[k - 1] /\ g[k] = step[<<f[j - 1], j>>]
        BY <3>1, <4>1
      <4> HIDE DEF g
      <4> QED  BY <3>1, <4>1, <4>2
    <3>2. CASE k \in 0 .. j - 1
      <4>1. f[k] = IF k = 0 THEN first ELSE step[<<f[k - 1], k>>]
        BY <2>1, <3>2 DEF Rounds
      <4>2. k # 0 => g[k - 1] = f[k - 1]
        BY <3>2
      <4>3. g[k] = f[k]
        BY <3>2
      <4> HIDE DEF g
      <4> QED  BY <4>1, <4>2, <4>3
    <3> QED  BY <3>1, <3>2
  <2>5. g = [k \in 0 .. j |-> IF k = 0 THEN first ELSE step[<<g[k - 1], k>>]]
    BY <2>4
  <2> QED  BY <2>3, <2>5 DEF Rounds
<1> HIDE DEF S
<1>3. n \in S
  BY <1>1, <1>2, AllNaturals
<1> QED  BY <1>3 DEF S

LEMMA IsSeq ==
  ASSUME NEW S, NEW n \in Nat, NEW f \in [1 .. n -> S]
  PROVE  f \in Seq(S) /\ Len(f) = n /\ DOMAIN f = 1 .. n
BY SeqDef

LEMMA SeqsEqual ==
  ASSUME NEW S, NEW T, NEW s \in Seq(S), NEW t \in Seq(T),
         Len(s) = Len(t), \A k \in 1 .. Len(s) : s[k] = t[k]
  PROVE  s = t
<1>1. s \in Seq(S \cup T) /\ t \in Seq(S \cup T)
  BY SeqMonotonic
<1> QED  BY <1>1, SeqEqual

-----------------------------------------------------------------------------
(* The array *)

AnyResult == Results \cup Verdicts
Values == Elements \cup AnyResult

Sound(s) ==
    /\ s = [array |-> s.array, count |-> s.count]
    /\ s.array \in Seq(Values \cup {Nothing})
    /\ s.count \in 0 .. Len(s.array)
    /\ \A k \in 1 .. s.count : s.array[k] \in Values

LEMMA ContentsAre ==
  ASSUME NEW s, Sound(s)
  PROVE  /\ Contents(s) \in Seq(Values) /\ Len(Contents(s)) = s.count
         /\ \A k \in 1 .. s.count : Contents(s)[k] = s.array[k]
<1>1. s.count \in Nat /\ \A k \in 1 .. s.count : s.array[k] \in Values
  <2>1. Len(s.array) \in Nat
    BY LenProperties DEF Sound
  <2> QED  BY <2>1 DEF Sound
<1>2. /\ SubSeq(s.array, 1, s.count) \in Seq(Values)
      /\ Len(SubSeq(s.array, 1, s.count)) = IF 1 <= s.count THEN s.count - 1 + 1 ELSE 0
      /\ \A k \in 1 .. s.count - 1 + 1 : SubSeq(s.array, 1, s.count)[k] = s.array[1 + k - 1]
  BY <1>1, SubSeqProperties
<1> QED  BY <1>1, <1>2 DEF Contents

LEMMA ContentsEqual ==
  ASSUME NEW s, Sound(s), NEW S, NEW t \in Seq(S), Len(t) = s.count, \A k \in 1 .. s.count : t[k] = s.array[k]
  PROVE  Contents(s) = t
BY ContentsAre, SeqsEqual

LEMMA ShortenedIs ==
  ASSUME NEW a \in Seq(Values \cup {Nothing}), NEW n \in 0 .. Len(a), \A k \in 1 .. n : a[k] \in Values
  PROVE  /\ Sound(Shortened(a, n)) /\ Shortened(a, n).count = n
         /\ \A k \in 1 .. n : Shortened(a, n).array[k] = a[k]
<1> DEFINE b == [k \in DOMAIN a |-> IF k <= n THEN a[k] ELSE Nothing]
<1>1. Len(a) \in Nat /\ DOMAIN a = 1 .. Len(a) /\ a \in [1 .. Len(a) -> Values \cup {Nothing}]
  BY LenProperties
<1>2. b \in [1 .. Len(a) -> Values \cup {Nothing}]
  BY <1>1
<1>3. b \in Seq(Values \cup {Nothing}) /\ Len(b) = Len(a)
  BY <1>1, <1>2, IsSeq
<1>4. \A k \in 1 .. n : b[k] = a[k]
  BY <1>1
<1>5. Shortened(a, n) = [array |-> b, count |-> n]
  BY DEF Shortened
<1> HIDE DEF b
<1> QED  BY <1>3, <1>4, <1>5 DEF Sound

LEMMA PushedArray ==
  ASSUME NEW s, Sound(s), NEW v \in Values \cup {Nothing}
  PROVE  LET b == Pushed(s, v).array
         IN /\ Pushed(s, v) = [array |-> b, count |-> s.count + 1]
            /\ b \in Seq(Values \cup {Nothing}) /\ s.count + 1 \in 1 .. Len(b)
            /\ \A k \in 1 .. s.count + 1 : b[k] = IF k = s.count + 1 THEN v ELSE s.array[k]
<1> DEFINE a == s.array
           n == s.count
           V == Values \cup {Nothing}
           more == [k \in 1 .. Wanted(a) - n |-> Nothing]
           r == Room(a, n)
<1>1. Len(a) \in Nat /\ n \in 0 .. Len(a) /\ a \in Seq(V)
  BY LenProperties DEF Sound
<1>2. r \in Seq(V) /\ Len(r) > n /\ \A k \in 1 .. n : r[k] = a[k]
  <2>1. CASE n = Len(a)
    <3>1. Wanted(a) \in Nat /\ Wanted(a) > n
      BY <1>1, <2>1, StashAssumption DEF Wanted
    <3>2. Wanted(a) - n \in Nat /\ more \in [1 .. Wanted(a) - n -> V]
      BY <1>1, <3>1
    <3>3. more \in Seq(V) /\ Len(more) = Wanted(a) - n
      BY <3>2, IsSeq
    <3> HIDE DEF more
    <3>4. a \o more \in Seq(V) /\ Len(a \o more) = Len(a) + Len(more) /\ \A k \in 1 .. Len(a) : (a \o more)[k] = a[k]
      <4> HIDE DEF a, n, V
      <4>1. a \in Seq(V) /\ more \in Seq(V)
        BY <1>1, <3>3
      <4> QED  BY <4>1, ConcatProperties, SMTT(30)
    <3>5. r = a \o more
      BY <2>1 DEF Room, more
    <3> QED  BY <1>1, <2>1, <3>1, <3>3, <3>4, <3>5
  <2>2. CASE n # Len(a)
    BY <1>1, <2>2 DEF Room
  <2> QED  BY <2>1, <2>2
<1> HIDE DEF r
<1> DEFINE b == [r EXCEPT ![n + 1] = v]
<1>3. n + 1 \in 1 .. Len(r)
  BY <1>1, <1>2, LenProperties
<1>4. /\ b \in Seq(V) /\ Len(b) = Len(r)
      /\ \A k \in 1 .. Len(r) : b[k] = IF k = n + 1 THEN v ELSE r[k]
  BY <1>2, <1>3, ExceptSeq
<1>5. Pushed(s, v) = [array |-> b, count |-> n + 1]
  BY DEF Pushed, PutItem, r
<1> HIDE DEF b
<1>6. \A k \in 1 .. n + 1 : b[k] = IF k = n + 1 THEN v ELSE a[k]
  BY <1>1, <1>2, <1>3, <1>4
<1> QED  BY <1>3, <1>4, <1>5, <1>6

LEMMA PushedIs ==
  ASSUME NEW s, Sound(s), NEW v \in Values
  PROVE  Sound(Pushed(s, v)) /\ Contents(Pushed(s, v)) = Append(Contents(s), v)
<1> DEFINE n == s.count
           b == Pushed(s, v).array
           c == Append(Contents(s), v)
<1>1. /\ Pushed(s, v) = [array |-> b, count |-> n + 1]
      /\ b \in Seq(Values \cup {Nothing}) /\ n + 1 \in 1 .. Len(b)
      /\ \A k \in 1 .. n + 1 : b[k] = IF k = n + 1 THEN v ELSE s.array[k]
  BY PushedArray
<1>2. n \in Nat /\ \A k \in 1 .. n : s.array[k] \in Values
  <2>1. Len(s.array) \in Nat
    BY LenProperties DEF Sound
  <2> QED  BY <2>1 DEF Sound
<1> HIDE DEF b
<1>3. Sound(Pushed(s, v))
  <2>1. \A k \in 1 .. n + 1 : b[k] \in Values
    BY <1>1, <1>2, SMTT(20)
  <2>2. n + 1 \in 0 .. Len(b)
    BY <1>1, <1>2, LenProperties
  <2> QED  BY <1>1, <2>1, <2>2 DEF Sound
<1>4. c \in Seq(Values) /\ Len(c) = n + 1 /\ \A k \in 1 .. n + 1 : c[k] = IF k = n + 1 THEN v ELSE Contents(s)[k]
  BY <1>2, ContentsAre, AppendProperties
<1>5. \A k \in 1 .. n : Contents(s)[k] = s.array[k]
  BY ContentsAre
<1>6. \A k \in 1 .. n + 1 : c[k] = Pushed(s, v).array[k]
  BY <1>1, <1>2, <1>4, <1>5
<1>7. Pushed(s, v).count = n + 1
  BY <1>1
<1> HIDE DEF c
<1>8. Contents(Pushed(s, v)) = c
  BY <1>3, <1>4, <1>6, <1>7, ContentsEqual
<1> QED  BY <1>3, <1>8 DEF c

\* new is s with e at i.
IsWith(new, s, i, e) == \A k \in 1 .. Len(s) + 1 : new[k] = IF k < i THEN s[k] ELSE IF k = i THEN e ELSE s[k - 1]

LEMMA InsertAtIs ==
  ASSUME NEW S, NEW s \in Seq(S), NEW e \in S, NEW i \in 1 .. Len(s) + 1
  PROVE  /\ InsertAt(s, i, e) \in Seq(S) /\ Len(InsertAt(s, i, e)) = Len(s) + 1
         /\ IsWith(InsertAt(s, i, e), s, i, e)
<1> DEFINE l == SubSeq(s, 1, i - 1)
           m == <<e>>
           r == SubSeq(s, i, Len(s))
<1>1. Len(s) \in Nat /\ \A k \in 1 .. Len(s) : s[k] \in S
  BY LenProperties, ElementOfSeq
<1>2. l \in Seq(S) /\ Len(l) = i - 1 /\ \A k \in 1 .. i - 1 : l[k] = s[k]
  <2>1. \A k \in 1 .. i - 1 : s[k] \in S
    BY <1>1
  <2>2. /\ l \in Seq(S) /\ Len(l) = IF 1 <= i - 1 THEN i - 1 - 1 + 1 ELSE 0
        /\ \A k \in 1 .. i - 1 - 1 + 1 : l[k] = s[1 + k - 1]
    BY <2>1, SubSeqProperties
  <2> HIDE DEF l
  <2> QED  BY <2>2
<1>3. r \in Seq(S) /\ Len(r) = Len(s) - i + 1 /\ \A k \in 1 .. Len(s) - i + 1 : r[k] = s[k + i - 1]
  <2>1. \A k \in i .. Len(s) : s[k] \in S
    BY <1>1
  <2>2. /\ r \in Seq(S) /\ Len(r) = IF i <= Len(s) THEN Len(s) - i + 1 ELSE 0
        /\ \A k \in 1 .. Len(s) - i + 1 : r[k] = s[i + k - 1]
    BY <1>1, <2>1, SubSeqProperties
  <2> HIDE DEF r
  <2>3. Len(r) = Len(s) - i + 1
    BY <1>1, <2>2
  <2>4. \A k \in Int : i + k - 1 = k + i - 1
    OBVIOUS
  <2> QED  BY <1>1, <2>2, <2>3, <2>4
<1>4. m \in Seq(S) /\ Len(m) = 1 /\ m[1] = e
  OBVIOUS
<1>5. InsertAt(s, i, e) = (l \o m) \o r
  BY DEF InsertAt
<1> HIDE DEF l, m, r
<1>6. /\ l \o m \in Seq(S) /\ Len(l \o m) = i
      /\ \A k \in 1 .. i : (l \o m)[k] = IF k < i THEN s[k] ELSE e
  <2>1. /\ l \o m \in Seq(S) /\ Len(l \o m) = Len(l) + Len(m)
        /\ \A k \in 1 .. Len(l) + Len(m) : (l \o m)[k] = IF k <= Len(l) THEN l[k] ELSE m[k - Len(l)]
    BY <1>2, <1>4, ConcatProperties
  <2>2. ASSUME NEW k \in 1 .. i
        PROVE  (l \o m)[k] = IF k < i THEN s[k] ELSE e
    <3>1. CASE k < i
      BY <1>1, <1>2, <1>4, <2>1, <3>1
    <3>2. CASE k = i
      <4>1. k - Len(l) = 1
        BY <1>2, <3>2
      <4> QED  BY <1>2, <1>4, <2>1, <3>2, <4>1
    <3>3. k < i \/ k = i
      BY <1>1
    <3> QED  BY <3>1, <3>2, <3>3
  <2>3. Len(l \o m) = i
    BY <1>2, <1>4, <2>1
  <2> QED  BY <2>1, <2>2, <2>3
<1> DEFINE lm == l \o m
<1>7. lm \in Seq(S)
  BY <1>6
<1> HIDE DEF lm
<1>8. /\ lm \o r \in Seq(S) /\ Len(lm \o r) = Len(lm) + Len(r)
      /\ \A k \in 1 .. Len(lm) + Len(r) : (lm \o r)[k] = IF k <= Len(lm) THEN lm[k] ELSE r[k - Len(lm)]
  BY <1>3, <1>7, ConcatProperties
<1>9. Len(lm) = i /\ (\A k \in 1 .. i : lm[k] = IF k < i THEN s[k] ELSE e) /\ InsertAt(s, i, e) = lm \o r
  BY <1>5, <1>6 DEF lm
<1>10. Len(lm) + Len(r) = Len(s) + 1
  BY <1>1, <1>3, <1>9
<1>11. ASSUME NEW k \in 1 .. Len(s) + 1
       PROVE  (lm \o r)[k] = IF k < i THEN s[k] ELSE IF k = i THEN e ELSE s[k - 1]
  <2>1. (lm \o r)[k] = IF k <= i THEN lm[k] ELSE r[k - i]
    BY <1>8, <1>9, <1>10
  <2>2. CASE k <= i
    BY <1>9, <2>1, <2>2
  <2>3. CASE k > i
    <3>1. k - i \in 1 .. Len(s) - i + 1 /\ (k - i) + i - 1 = k - 1
      BY <1>1, <2>3
    <3>2. r[k - i] = s[(k - i) + i - 1]
      BY <1>3, <3>1
    <3> QED  BY <2>1, <2>3, <3>1, <3>2
  <2>4. k <= i \/ k > i
    BY <1>1
  <2> QED  BY <2>2, <2>3, <2>4
<1> QED  BY <1>8, <1>9, <1>10, <1>11 DEF IsWith

LEMMA MovedIs ==
  ASSUME NEW S, NEW a \in Seq(S), NEW to \in Nat, NEW from \in Nat, NEW n \in Nat, from + n <= Len(a)
  PROVE  /\ MemMove(a, to, from, n) \in Seq(S) /\ Len(MemMove(a, to, from, n)) = Len(a)
         /\ \A k \in 1 .. Len(a) :
               MemMove(a, to, from, n)[k] = IF k - 1 \in to .. to + n - 1 THEN a[k - to + from] ELSE a[k]
<1> DEFINE b == MemMove(a, to, from, n)
<1>1. Len(a) \in Nat /\ DOMAIN a = 1 .. Len(a) /\ \A k \in 1 .. Len(a) : a[k] \in S
  BY LenProperties, ElementOfSeq
<1>2. ASSUME NEW k \in 1 .. Len(a)
      PROVE  b[k] = (IF k - 1 \in to .. to + n - 1 THEN a[k - to + from] ELSE a[k]) /\ b[k] \in S
  <2>1. b[k] = IF k - 1 \in to .. to + n - 1 THEN ItemAt(a, k - 1 - to + from) ELSE a[k]
    BY <1>1 DEF MemMove
  <2>2. CASE k - 1 \in to .. to + n - 1
    <3>1. k - 1 - to + from + 1 = k - to + from /\ k - to + from \in 1 .. Len(a)
      BY <1>1, <2>2
    <3>2. ItemAt(a, k - 1 - to + from) = a[k - to + from]
      BY <1>1, <3>1 DEF ItemAt
    <3> QED  BY <1>1, <2>1, <2>2, <3>1, <3>2
  <2>3. CASE k - 1 \notin to .. to + n - 1
    BY <1>1, <2>1, <2>3
  <2> QED  BY <2>2, <2>3
<1>3. b = [k \in 1 .. Len(a) |-> b[k]]
  BY <1>1 DEF MemMove
<1> HIDE DEF b
<1>4. b \in [1 .. Len(a) -> S]
  BY <1>2, <1>3
<1>5. b \in Seq(S) /\ Len(b) = Len(a)
  BY <1>1, <1>4, IsSeq
<1> QED  BY <1>2, <1>5 DEF b

-----------------------------------------------------------------------------
(* The invariant *)

VisitMethods == {"glow_up", "vibe_check", "any", "all", "sort_by", "group_by", "squish"}

IsLocals(d) ==
    d = [method |-> d.method, args |-> d.args, how |-> d.how, i |-> d.i, j |-> d.j, n |-> d.n, held |-> d.held,
         key |-> d.key, acc |-> d.acc, out |-> d.out]

CallRecords == [args : Seq(Values) \ {<<>>}, result : AnyResult]

Typed ==
    /\ IsLocals(doing)
    /\ Sound(Now)
    /\ before \in Seq(Elements) /\ Len(before) <= MaxCount
    /\ made \in Seq(CallRecords)

\* The element the first call is given.
Start == IF doing.method = "squish" /\ doing.args = <<>> THEN 2 ELSE 1

\* VisitsTheStash, by places.
Visited ==
    doing.method \notin Changers \cup {"sort"} =>
        /\ made # <<>> => Len(made) + Start - 1 <= Len(before)
        /\ \A k \in 1 .. Len(made) : Last(made[k].args) = before[k + Start - 1]
        /\ doing.how = "answered" /\ made # <<>> /\ ~ Settles(made[Len(made)].result) =>
              Len(made) + Start - 1 = Len(before)

Promised ==
    /\ doing.how = "answered" =>
          Promise(doing.method, doing.args, Contents(Now)) /\ PromisedAnswer(doing.method, doing.args)
    /\ doing.how = "chucked" => doing.method \in Changers \/ Rearranged(before, Contents(Now))

-----------------------------------------------------------------------------
(* Methods that are one step *)

LEMMA NowIs == Now.array = array /\ Now.count = length
BY DEF Now

LEMMA RearrangedItself ==
  ASSUME NEW S, NEW list \in Seq(S)
  PROVE  Rearranged(list, list)
<1> DEFINE p == [k \in 1 .. Len(list) |-> k]
<1>1. Len(list) \in Nat /\ DOMAIN list = 1 .. Len(list)
  BY LenProperties
<1>2. p \in Orders(Len(list))
  BY <1>1 DEF Orders
<1>3. list = [k \in DOMAIN list |-> list[p[k]]]
  <2>1. list = [k \in DOMAIN list |-> list[k]]
    BY LenProperties
  <2> QED  BY <1>1, <2>1
<1> HIDE DEF p
<1> QED  BY <1>2, <1>3 DEF Rearranged

LEMMA DoneIs ==
  ASSUME Typed, doing.how = "not yet" => Contents(Now) = before /\ made = <<>>,
         NEW method, NEW args, NEW how, NEW s, NEW v, Done(method, args, how, s, v), Sound(s)
  PROVE  /\ doing.how = "not yet" /\ Contents(Now) = before /\ length = Len(before)
         /\ length \in 0 .. Len(array) /\ Len(array) \in Nat /\ array \in Seq(Values \cup {Nothing})
         /\ \A k \in 1 .. length : before[k] = array[k] /\ array[k] \in Elements
         /\ doing'.method = method /\ doing'.args = args /\ doing'.how = how
         /\ Typed' /\ made = <<>> /\ made' = <<>> /\ before' = before /\ told' = v /\ Now' = s
<1>1. doing.how = "not yet" /\ Contents(Now) = before /\ made = <<>> /\ made' = <<>> /\ before' = before /\ told' = v
  BY DEF Done
<1>2. Now' = s
  <2>1. array' = s.array /\ length' = s.count
    BY DEF Done, TurnsInto
  <2>2. s = [array |-> s.array, count |-> s.count]
    BY DEF Sound
  <2> QED  BY <2>1, <2>2 DEF Now
<1>3. /\ doing' = [Local(method, args) EXCEPT !.how = how]
      /\ doing'.method = method /\ doing'.args = args /\ doing'.how = how /\ IsLocals(doing')
  <2>1. doing' = [Local(method, args) EXCEPT !.how = how]
    BY DEF Done
  <2> QED  BY <2>1 DEF Local, IsLocals
<1>4. Typed'
  BY <1>1, <1>2, <1>3 DEF Typed
<1>5. /\ length = Len(before)
      /\ length \in 0 .. Len(array) /\ Len(array) \in Nat /\ array \in Seq(Values \cup {Nothing})
      /\ \A k \in 1 .. length : before[k] = array[k] /\ array[k] \in Elements
  <2>1. Sound(Now) /\ before \in Seq(Elements)
    BY DEF Typed
  <2>2. length = Len(before) /\ \A k \in 1 .. length : before[k] = array[k]
    BY <1>1, <2>1, NowIs, ContentsAre
  <2>3. length \in 0 .. Len(array) /\ array \in Seq(Values \cup {Nothing})
    BY <2>1, NowIs DEF Sound
  <2>4. Len(array) \in Nat
    BY <2>3, LenProperties
  <2>5. \A k \in 1 .. length : before[k] \in Elements
    BY <2>1, <2>2, ElementOfSeq
  <2> QED  BY <2>2, <2>3, <2>4, <2>5
<1> QED  BY <1>1, <1>2, <1>3, <1>4, <1>5

\* What is in the way of each method's promise.
Began == Typed /\ (doing.how = "not yet" => Contents(Now) = before /\ made = <<>>)

LEMMA NowIsSound ==
  ASSUME Typed
  PROVE  /\ Sound(Now) /\ array \in Seq(Values \cup {Nothing}) /\ Len(array) \in Nat /\ length \in 0 .. Len(array)
         /\ \A k \in 1 .. length : array[k] \in Values
<1>1. Sound(Now)
  BY DEF Typed
<1>2. array \in Seq(Values \cup {Nothing}) /\ length \in 0 .. Len(array) /\ \A k \in 1 .. length : array[k] \in Values
  BY <1>1, NowIs DEF Sound
<1> QED  BY <1>1, <1>2, LenProperties

LEMMA ChucksKeeps ==
  ASSUME Began, NEW method, NEW args, Chucks(method, args)
  PROVE  Typed' /\ made' = <<>> /\ doing'.how = "chucked" /\ Promised'
<1>1. Done(method, args, "chucked", Now, Nothing) /\ Sound(Now)
  BY NowIsSound DEF Chucks, Began
<1>2. /\ Contents(Now) = before /\ doing'.how = "chucked"
      /\ Typed' /\ made' = <<>> /\ before' = before /\ Now' = Now
  BY <1>1, DoneIs DEF Began
<1>3. Rearranged(before, before)
  BY RearrangedItself DEF Began, Typed
<1>4. Rearranged(before, Contents(Now))'
  BY <1>2, <1>3
<1> QED  BY <1>2, <1>4 DEF Promised

LEMMA YeetInKeeps ==
  ASSUME Began, NEW v \in Elements, YeetIn(v)
  PROVE  Typed' /\ made' = <<>> /\ doing'.how = "answered" /\ Promised'
<1> DEFINE s == Pushed(Now, v)
<1>1. Sound(s) /\ Contents(s) = Append(Contents(Now), v)
  BY NowIsSound, PushedIs DEF Began, Values
<1>2. Done("yeet_in", <<v>>, "answered", s, "stash")
  BY DEF YeetIn, Answers
<1>3. /\ Contents(Now) = before /\ doing'.method = "yeet_in" /\ doing'.args = <<v>> /\ doing'.how = "answered"
      /\ Typed' /\ made' = <<>> /\ before' = before /\ Now' = s
  <2> HIDE DEF s
  <2> QED  BY <1>1, <1>2, DoneIs DEF Began
<1>4. Contents(Now') = Append(before, v)
  BY <1>1, <1>3
<1>5. Promise("yeet_in", <<v>>, Contents(Now))'
  BY <1>3, <1>4 DEF Promise
<1>6. PromisedAnswer("yeet_in", <<v>>)'
  BY DEF PromisedAnswer
<1> HIDE DEF s
<1> QED  BY <1>3, <1>5, <1>6 DEF Promised

LEMMA ClearAllKeeps ==
  ASSUME Began, ClearAll
  PROVE  Typed' /\ made' = <<>> /\ doing'.how = "answered" /\ Promised'
<1> DEFINE s == Shortened(array, 0)
<1>1. Sound(s) /\ s.count = 0
  <2>1. array \in Seq(Values \cup {Nothing}) /\ Len(array) \in Nat
    BY NowIsSound DEF Began
  <2>2. 0 \in 0 .. Len(array) /\ \A k \in 1 .. 0 : array[k] \in Values
    BY <2>1
  <2> QED  BY <2>1, <2>2, ShortenedIs
<1>2. Done("clear", <<>>, "answered", s, "stash")
  BY DEF ClearAll, Answers
<1> HIDE DEF s
<1>3. /\ doing'.method = "clear" /\ doing'.args = <<>> /\ doing'.how = "answered"
      /\ Typed' /\ made' = <<>> /\ Now' = s
  BY <1>1, <1>2, DoneIs DEF Began
<1>4. Contents(Now') = <<>>
  BY <1>1, <1>3, ContentsAre, EmptySeq
<1>5. Promise("clear", <<>>, Contents(Now))'
  BY <1>4 DEF Promise
<1>6. PromisedAnswer("clear", <<>>)'
  BY DEF PromisedAnswer
<1> QED  BY <1>3, <1>5, <1>6 DEF Promised

LEMMA YoinkKeeps ==
  ASSUME Began, Yoink
  PROVE  Typed' /\ made' = <<>> /\ doing'.how \in {"answered", "chucked"} /\ Promised'
<1>1. CASE length = 0 /\ Chucks("yoink", <<>>)
  BY <1>1, ChucksKeeps
<1>2. CASE length > 0 /\ Answers("yoink", <<>>, Shortened(array, length - 1), ItemAt(array, length - 1))
  <2> DEFINE s == Shortened(array, length - 1)
             v == ItemAt(array, length - 1)
  <2>1. /\ array \in Seq(Values \cup {Nothing}) /\ Len(array) \in Nat /\ length \in 0 .. Len(array)
        /\ \A k \in 1 .. length : array[k] \in Values
    BY NowIsSound DEF Began
  <2>2. Sound(s) /\ s.count = length - 1 /\ \A k \in 1 .. length - 1 : s.array[k] = array[k]
    <3>1. length - 1 \in 0 .. Len(array) /\ \A k \in 1 .. length - 1 : array[k] \in Values
      BY <1>2, <2>1
    <3> QED  BY <2>1, <3>1, ShortenedIs
  <2>3. v = array[length] /\ v \in Values
    <3>1. length - 1 + 1 = length /\ length \in DOMAIN array
      BY <1>2, <2>1, LenProperties
    <3>2. v = array[length]
      BY <3>1 DEF ItemAt
    <3> HIDE DEF v
    <3> QED  BY <1>2, <2>1, <3>2
  <2>4. Done("yoink", <<>>, "answered", s, v)
    BY <1>2 DEF Answers
  <2> HIDE DEF s, v
  <2>5. /\ length = Len(before) /\ \A k \in 1 .. length : before[k] = array[k]
        /\ doing'.method = "yoink" /\ doing'.args = <<>> /\ doing'.how = "answered"
        /\ Typed' /\ made' = <<>> /\ before' = before /\ told' = v /\ Now' = s
    BY <2>2, <2>4, DoneIs DEF Began
  <2>6. /\ Contents(s) \in Seq(Values) /\ Len(Contents(s)) = length - 1
        /\ \A k \in 1 .. length - 1 : Contents(s)[k] = array[k]
    BY <2>2, ContentsAre
  <2>7. Append(Contents(s), v) = before
    <3> DEFINE c == Append(Contents(s), v)
    <3>1. c \in Seq(Values) /\ Len(c) = length /\ \A k \in 1 .. length : c[k] = array[k]
      <4>1. /\ c \in Seq(Values) /\ Len(c) = length - 1 + 1
            /\ \A k \in 1 .. length - 1 : c[k] = Contents(s)[k] /\ c[length - 1 + 1] = v
        BY <2>3, <2>6, AppendProperties
      <4>2. c[length] = v
        <5>1. c[Len(Contents(s)) + 1] = v
          BY <2>3, <2>6, AppendProperties
        <5> HIDE DEF c
        <5> QED  BY <2>1, <2>6, <5>1
      <4> HIDE DEF c
      <4> QED  BY <2>1, <2>3, <2>6, <4>1, <4>2
    <3> HIDE DEF c
    <3>2. before \in Seq(Elements)
      BY DEF Began, Typed
    <3>3. c = before
      BY <2>5, <3>1, <3>2, SeqsEqual
    <3> QED  BY <3>3 DEF c
  <2>8. Promise("yoink", <<>>, Contents(Now))'
    BY <2>5, <2>7 DEF Promise
  <2>9. PromisedAnswer("yoink", <<>>)'
    BY DEF PromisedAnswer
  <2> QED  BY <2>5, <2>8, <2>9 DEF Promised
<1> QED  BY <1>1, <1>2 DEF Yoink

LEMMA SpotIs ==
  ASSUME NEW i \in Int, Len(before) \in Nat
  PROVE  LET k == IF i < 0 THEN i + Len(before) ELSE i
         IN Spot(i) = IF k < 0 THEN 0 ELSE IF k > Len(before) THEN Len(before) ELSE k
<1> DEFINE n == Len(before)
           k == IF i < 0 THEN i + n ELSE i
           m == Min({n, k})
<1>1. k \in Int /\ n \in Nat
  OBVIOUS
<1>2. Spot(i) = Max({0, m})
  BY DEF Spot
<1> HIDE DEF k, n
<1>3. m = IF n <= k THEN n ELSE k
  BY <1>1, OfTwo
<1> HIDE DEF m
<1>4. m \in Int
  BY <1>1, <1>3
<1>5. Max({0, m}) = IF 0 <= m THEN m ELSE 0
  BY <1>4, OfTwo
<1>6. Spot(i) = IF k < 0 THEN 0 ELSE IF k > n THEN n ELSE k
  BY <1>1, <1>2, <1>3, <1>5
<1> QED  BY <1>6 DEF k, n

LEMMA InsertOfValue ==
  ASSUME NEW s \in Seq(Values), NEW e \in Values, NEW i \in 1 .. Len(s) + 1
  PROVE  /\ InsertAt(s, i, e) \in Seq(Values) /\ Len(InsertAt(s, i, e)) = Len(s) + 1
         /\ \A k \in 1 .. Len(s) + 1 :
               InsertAt(s, i, e)[k] = IF k < i THEN s[k] ELSE IF k = i THEN e ELSE s[k - 1]
<1>1. /\ InsertAt(s, i, e) \in Seq(Values) /\ Len(InsertAt(s, i, e)) = Len(s) + 1
      /\ IsWith(InsertAt(s, i, e), s, i, e)
  BY InsertAtIs
<1> QED  BY <1>1 DEF IsWith

LEMMA YoinkAtKeeps ==
  ASSUME Began, NEW i \in Int, YoinkAt(i)
  PROVE  Typed' /\ made' = <<>> /\ doing'.how \in {"answered", "chucked"} /\ Promised'
<1> DEFINE k == Norm(i)
           moved == MemMove(array, k, k + 1, length - k - 1)
           s == Shortened(moved, length - 1)
           v == ItemAt(array, k)
<1>1. CASE k \notin 0 .. length - 1 /\ Chucks("yoink_at", <<i>>)
  BY <1>1, ChucksKeeps
<1>2. CASE k \in 0 .. length - 1 /\ Answers("yoink_at", <<i>>, s, v)
  <2>1. /\ array \in Seq(Values \cup {Nothing}) /\ Len(array) \in Nat /\ length \in 0 .. Len(array)
        /\ \A x \in 1 .. length : array[x] \in Values
    BY NowIsSound DEF Began
  <2>2. Done("yoink_at", <<i>>, "answered", s, v)
    BY <1>2 DEF Answers
  <2>3. v = array[k + 1] /\ v \in Values
    <3> HIDE DEF k
    <3>1. k + 1 \in DOMAIN array /\ k + 1 \in 1 .. length
      BY <1>2, <2>1, LenProperties
    <3> QED  BY <2>1, <3>1 DEF ItemAt
  <2>4. k = IF i < 0 THEN i + length ELSE i
    BY DEF Norm
  <2> HIDE DEF k, v
  <2>5. /\ moved \in Seq(Values \cup {Nothing}) /\ Len(moved) = Len(array)
        /\ \A x \in 1 .. length - 1 : moved[x] = IF x > k THEN array[x + 1] ELSE array[x]
    <3>1. k \in Nat /\ k + 1 \in Nat /\ length - k - 1 \in Nat /\ k + 1 + (length - k - 1) <= Len(array)
      BY <1>2, <2>1
    <3>2. /\ moved \in Seq(Values \cup {Nothing}) /\ Len(moved) = Len(array)
          /\ \A x \in 1 .. Len(array) :
                moved[x] = IF x - 1 \in k .. k + (length - k - 1) - 1 THEN array[x - k + (k + 1)] ELSE array[x]
      BY <2>1, <3>1, MovedIs
    <3> HIDE DEF moved
    <3>3. ASSUME NEW x \in 1 .. length - 1
          PROVE  moved[x] = IF x > k THEN array[x + 1] ELSE array[x]
      <4>1. x \in 1 .. Len(array) /\ x - k + (k + 1) = x + 1 /\ (x - 1 \in k .. k + (length - k - 1) - 1 <=> x > k)
        BY <1>2, <2>1, <3>1
      <4> QED  BY <3>2, <4>1
    <3> QED  BY <3>2, <3>3
  <2> HIDE DEF moved
  <2>6. Sound(s) /\ s.count = length - 1 /\ \A x \in 1 .. length - 1 : s.array[x] = moved[x]
    <3>1. length - 1 \in 0 .. Len(moved)
      BY <1>2, <2>1, <2>5
    <3>2. \A x \in 1 .. length - 1 : moved[x] \in Values
      <4> SUFFICES ASSUME NEW x \in 1 .. length - 1
                   PROVE  moved[x] \in Values
        OBVIOUS
      <4>1. x \in 1 .. length /\ x + 1 \in 1 .. length
        BY <2>1
      <4> QED  BY <2>1, <2>5, <4>1
    <3> QED  BY <2>5, <3>1, <3>2, ShortenedIs
  <2> HIDE DEF s
  <2>7. /\ length = Len(before) /\ \A x \in 1 .. length : before[x] = array[x]
        /\ doing'.method = "yoink_at" /\ doing'.args = <<i>> /\ doing'.how = "answered"
        /\ Typed' /\ made' = <<>> /\ before' = before /\ told' = v /\ Now' = s
    BY <2>2, <2>6, DoneIs DEF Began
  <2>8. Spot(i) = k
    BY <1>2, <2>1, <2>4, <2>7, SpotIs
  <2>9. InsertAt(Contents(s), k + 1, v) = before
    <3> DEFINE c == InsertAt(Contents(s), k + 1, v)
    <3>1. /\ Contents(s) \in Seq(Values) /\ Len(Contents(s)) = length - 1
          /\ \A x \in 1 .. length - 1 : Contents(s)[x] = moved[x]
      BY <2>6, ContentsAre
    <3>2. k + 1 \in 1 .. Len(Contents(s)) + 1 /\ Len(Contents(s)) + 1 = length
      BY <1>2, <2>1, <3>1
    <3>3. /\ c \in Seq(Values) /\ Len(c) = length
          /\ \A x \in 1 .. length : c[x] = IF x < k + 1 THEN Contents(s)[x] ELSE IF x = k + 1 THEN v ELSE Contents(s)[x - 1]
      <4> DEFINE l == Contents(s)
                 j == k + 1
      <4>1. l \in Seq(Values) /\ v \in Values /\ j \in 1 .. Len(l) + 1
        BY <2>3, <3>1, <3>2
      <4> HIDE DEF l, j, c
      <4>2. /\ InsertAt(l, j, v) \in Seq(Values) /\ Len(InsertAt(l, j, v)) = Len(l) + 1
            /\ \A x \in 1 .. Len(l) + 1 :
                  InsertAt(l, j, v)[x] = IF x < j THEN l[x] ELSE IF x = j THEN v ELSE l[x - 1]
        <5>1. /\ InsertAt(l, j, v) \in Seq(Values) /\ Len(InsertAt(l, j, v)) = Len(l) + 1
              /\ IsWith(InsertAt(l, j, v), l, j, v)
          BY <4>1, InsertAtIs
        <5> QED  BY <5>1 DEF IsWith
      <4> QED  BY <3>2, <4>2 DEF l, j, c
    <3> HIDE DEF c
    <3>4. ASSUME NEW x \in 1 .. length
          PROVE  c[x] = before[x]
      <4>1. CASE x < k + 1
        <5>1. x \in 1 .. length - 1 /\ ~ (x > k)
          BY <1>2, <2>1, <4>1
        <5> QED  BY <2>5, <2>7, <3>1, <3>3, <4>1, <5>1
      <4>2. CASE x = k + 1
        BY <1>2, <2>3, <2>7, <3>3, <4>2
      <4>3. CASE x > k + 1
        <5>1. x - 1 \in 1 .. length - 1 /\ x - 1 > k /\ x - 1 + 1 = x /\ ~ (x < k + 1) /\ x # k + 1
          BY <1>2, <2>1, <4>3
        <5>2. c[x] = moved[x - 1]
          BY <3>1, <3>3, <5>1
        <5> QED  BY <2>5, <2>7, <5>1, <5>2
      <4>4. x < k + 1 \/ x = k + 1 \/ x > k + 1
        BY <1>2, <2>1
      <4> QED  BY <4>1, <4>2, <4>3, <4>4
    <3>5. before \in Seq(Elements)
      BY DEF Began, Typed
    <3>6. c = before
      BY <2>7, <3>3, <3>4, <3>5, SeqsEqual
    <3> QED  BY <3>6 DEF c
  <2>10. Promise("yoink_at", <<i>>, Contents(Now))'
    BY <2>7, <2>8, <2>9 DEF Promise, Spot
  <2>11. PromisedAnswer("yoink_at", <<i>>)'
    BY DEF PromisedAnswer
  <2> QED  BY <2>7, <2>10, <2>11 DEF Promised
<1> QED  BY <1>1, <1>2 DEF YoinkAt

LEMMA InsertKeeps ==
  ASSUME Began, NEW i \in Int, NEW v \in Elements, Insert(i, v)
  PROVE  Typed' /\ made' = <<>> /\ doing'.how \in {"answered", "chucked"} /\ Promised'
<1> DEFINE k == Within(Norm(i))
           longer == Pushed(Now, Nothing)
           b == longer.array
           moved == MemMove(b, k + 1, k, length - k)
           s == [longer EXCEPT !.array = PutItem(MemMove(@, k + 1, k, length - k), k, v)]
<1>1. /\ array \in Seq(Values \cup {Nothing}) /\ Len(array) \in Nat /\ length \in 0 .. Len(array)
      /\ \A x \in 1 .. length : array[x] \in Values
  BY NowIsSound DEF Began
<1>2. k = (LET n == IF i < 0 THEN i + length ELSE i IN IF n < 0 THEN 0 ELSE IF n > length THEN length ELSE n)
  BY DEF Within, Norm
<1>3. k \in 0 .. length
  <2> HIDE DEF k
  <2> QED  BY <1>1, <1>2
<1>4. Done("insert", <<i, v>>, "answered", s, "stash")
  BY DEF Insert, Answers
<1> HIDE DEF k
<1>5. /\ longer = [array |-> b, count |-> length + 1]
      /\ b \in Seq(Values \cup {Nothing}) /\ length + 1 \in 1 .. Len(b)
      /\ \A x \in 1 .. length + 1 : b[x] = IF x = length + 1 THEN Nothing ELSE array[x]
  <2> DEFINE now == Now
             all == Values \cup {Nothing}
  <2>1. Sound(now) /\ Nothing \in all /\ now.array = array /\ now.count = length
    BY NowIsSound, NowIs DEF Began
  <2> HIDE DEF now, all
  <2>2. LET c == Pushed(now, Nothing).array
        IN /\ Pushed(now, Nothing) = [array |-> c, count |-> now.count + 1]
           /\ c \in Seq(Values \cup {Nothing}) /\ now.count + 1 \in 1 .. Len(c)
           /\ \A x \in 1 .. now.count + 1 : c[x] = IF x = now.count + 1 THEN Nothing ELSE now.array[x]
    BY <2>1, PushedArray DEF all
  <2>3. Pushed(now, Nothing) = longer
    BY DEF now
  <2> HIDE DEF longer
  <2> QED  BY <2>1, <2>2, <2>3
<1> HIDE DEF longer
<1>6. Len(b) \in Nat
  BY <1>5, LenProperties
<1>7. /\ moved \in Seq(Values \cup {Nothing}) /\ Len(moved) = Len(b)
      /\ \A x \in 1 .. length + 1 : moved[x] = IF x > k + 1 THEN b[x - 1] ELSE b[x]
  <2>1. k \in Nat /\ k + 1 \in Nat /\ length - k \in Nat /\ k + (length - k) <= Len(b)
    BY <1>1, <1>3, <1>5, <1>6
  <2> HIDE DEF b, s
  <2>2. /\ moved \in Seq(Values \cup {Nothing}) /\ Len(moved) = Len(b)
        /\ \A x \in 1 .. Len(b) :
              moved[x] = IF x - 1 \in k + 1 .. k + 1 + (length - k) - 1 THEN b[x - (k + 1) + k] ELSE b[x]
    <3> DEFINE to == k + 1
               n == length - k
               all == Values \cup {Nothing}
    <3>1. b \in Seq(all) /\ to \in Nat /\ k \in Nat /\ n \in Nat /\ k + n <= Len(b)
      BY <1>5, <2>1
    <3> HIDE DEF to, n, all, k
    <3>2. /\ MemMove(b, to, k, n) \in Seq(all) /\ Len(MemMove(b, to, k, n)) = Len(b)
          /\ \A x \in 1 .. Len(b) :
                MemMove(b, to, k, n)[x] = IF x - 1 \in to .. to + n - 1 THEN b[x - to + k] ELSE b[x]
      BY <3>1, MovedIs
    <3> QED  BY <3>2 DEF to, n, all, moved
  <2> HIDE DEF moved
  <2>3. ASSUME NEW x \in 1 .. length + 1
        PROVE  moved[x] = IF x > k + 1 THEN b[x - 1] ELSE b[x]
    <3>1. x \in 1 .. Len(b) /\ x - (k + 1) + k = x - 1 /\ (x - 1 \in k + 1 .. k + 1 + (length - k) - 1 <=> x > k + 1)
      BY <1>1, <1>3, <1>5, <1>6
    <3> QED  BY <2>2, <3>1
  <2> QED  BY <2>2, <2>3
<1>8. s = [array |-> [moved EXCEPT ![k + 1] = v], count |-> length + 1]
  <2>1. s = [longer EXCEPT !.array = [moved EXCEPT ![k + 1] = v]]
    BY DEF PutItem
  <2> HIDE DEF moved, s
  <2> QED  BY <1>5, <2>1
<1> HIDE DEF moved, s, b
<1> DEFINE a == [moved EXCEPT ![k + 1] = v]
<1>9. /\ a \in Seq(Values \cup {Nothing}) /\ Len(a) = Len(b)
      /\ \A x \in 1 .. length + 1 : a[x] = IF x < k + 1 THEN array[x] ELSE IF x = k + 1 THEN v ELSE array[x - 1]
  <2>1. k + 1 \in 1 .. Len(moved) /\ v \in Values \cup {Nothing}
    BY <1>1, <1>3, <1>5, <1>6, <1>7 DEF Values
  <2>2. /\ a \in Seq(Values \cup {Nothing}) /\ Len(a) = Len(moved)
        /\ \A x \in 1 .. Len(moved) : a[x] = IF x = k + 1 THEN v ELSE moved[x]
    BY <1>7, <2>1, ExceptSeq
  <2> HIDE DEF a
  <2>3. ASSUME NEW x \in 1 .. length + 1
        PROVE  a[x] = IF x < k + 1 THEN array[x] ELSE IF x = k + 1 THEN v ELSE array[x - 1]
    <3>1. x \in 1 .. Len(moved)
      BY <1>1, <1>5, <1>6, <1>7
    <3>2. CASE x < k + 1
      <4>1. x # k + 1 /\ ~ (x > k + 1) /\ x # length + 1
        BY <1>1, <1>3, <3>2
      <4> QED  BY <1>5, <1>7, <2>2, <3>1, <3>2, <4>1
    <3>3. CASE x = k + 1
      BY <1>3, <2>2, <3>1, <3>3
    <3>4. CASE x > k + 1
      <4>1. x # k + 1 /\ ~ (x < k + 1) /\ x - 1 \in 1 .. length + 1 /\ x - 1 # length + 1
        BY <1>1, <1>3, <3>4
      <4> QED  BY <1>5, <1>7, <2>2, <3>1, <3>4, <4>1
    <3>5. x < k + 1 \/ x = k + 1 \/ x > k + 1
      BY <1>1, <1>3
    <3> QED  BY <3>2, <3>3, <3>4, <3>5
  <2> QED  BY <1>7, <2>2, <2>3
<1>10. s = [array |-> a, count |-> length + 1] /\ s.array = a /\ s.count = length + 1
  BY <1>8
<1> HIDE DEF a
<1>11. Sound(s)
  <2>1. \A x \in 1 .. length + 1 : a[x] \in Values
    <3> SUFFICES ASSUME NEW x \in 1 .. length + 1
                 PROVE  a[x] \in Values
      OBVIOUS
    <3>1. CASE x = k + 1
      BY <1>1, <1>3, <1>9, <3>1 DEF Values
    <3>2. CASE x < k + 1
      <4>1. x \in 1 .. length
        BY <1>1, <1>3, <3>2
      <4> QED  BY <1>1, <1>9, <3>2, <4>1
    <3>3. CASE x > k + 1
      <4>1. x - 1 \in 1 .. length /\ ~ (x < k + 1) /\ x # k + 1
        BY <1>1, <1>3, <3>3
      <4> QED  BY <1>1, <1>9, <4>1
    <3>4. x < k + 1 \/ x = k + 1 \/ x > k + 1
      BY <1>1, <1>3
    <3> QED  BY <3>1, <3>2, <3>3, <3>4
  <2>2. length + 1 \in 0 .. Len(a)
    BY <1>1, <1>5, <1>6, <1>9
  <2> QED  BY <1>9, <1>10, <2>1, <2>2 DEF Sound
<1>12. /\ length = Len(before) /\ \A x \in 1 .. length : before[x] = array[x]
       /\ doing'.method = "insert" /\ doing'.args = <<i, v>> /\ doing'.how = "answered"
       /\ Typed' /\ made' = <<>> /\ before' = before /\ Now' = s
  BY <1>4, <1>11, DoneIs DEF Began
<1>13. Spot(i) = k
  BY <1>1, <1>2, <1>12, SpotIs
<1>14. Contents(s) = InsertAt(before, k + 1, v)
  <2> DEFINE c == InsertAt(before, k + 1, v)
  <2>1. before \in Seq(Elements) /\ k + 1 \in 1 .. Len(before) + 1 /\ Len(before) + 1 = length + 1
    <3>1. before \in Seq(Elements)
      BY DEF Began, Typed
    <3>2. k + 1 \in 1 .. length + 1
      BY <1>1, <1>3
    <3> QED  BY <1>12, <3>1, <3>2
  <2>2. /\ c \in Seq(Elements) /\ Len(c) = length + 1
        /\ \A x \in 1 .. length + 1 : c[x] = IF x < k + 1 THEN before[x] ELSE IF x = k + 1 THEN v ELSE before[x - 1]
    <3> DEFINE j == k + 1
    <3>1. before \in Seq(Elements) /\ j \in 1 .. Len(before) + 1
      BY <2>1
    <3> HIDE DEF j
    <3>2. /\ InsertAt(before, j, v) \in Seq(Elements) /\ Len(InsertAt(before, j, v)) = Len(before) + 1
          /\ IsWith(InsertAt(before, j, v), before, j, v)
      BY <3>1, InsertAtIs
    <3>3. \A x \in 1 .. Len(before) + 1 :
                InsertAt(before, j, v)[x] = IF x < j THEN before[x] ELSE IF x = j THEN v ELSE before[x - 1]
      BY <3>2 DEF IsWith
    <3> QED  BY <2>1, <3>2, <3>3 DEF j
  <2> HIDE DEF c
  <2>3. ASSUME NEW x \in 1 .. length + 1
        PROVE  c[x] = s.array[x]
    <3>1. CASE x = k + 1
      BY <1>3, <1>9, <1>10, <2>2, <3>1
    <3>2. CASE x < k + 1
      <4>1. x \in 1 .. length
        BY <1>1, <1>3, <3>2
      <4> QED  BY <1>9, <1>10, <1>12, <2>2, <3>2, <4>1
    <3>3. CASE x > k + 1
      <4>1. x - 1 \in 1 .. length /\ ~ (x < k + 1) /\ x # k + 1
        BY <1>1, <1>3, <3>3
      <4> QED  BY <1>9, <1>10, <1>12, <2>2, <4>1
    <3>4. x < k + 1 \/ x = k + 1 \/ x > k + 1
      BY <1>1, <1>3
    <3> QED  BY <3>1, <3>2, <3>3, <3>4
  <2>4. Contents(s) = c
    BY <1>10, <1>11, <2>2, <2>3, ContentsEqual
  <2> QED  BY <2>4 DEF c
<1>15. Promise("insert", <<i, v>>, Contents(Now))'
  BY <1>12, <1>13, <1>14 DEF Promise, Spot
<1>16. PromisedAnswer("insert", <<i, v>>)'
  BY DEF PromisedAnswer
<1> QED  BY <1>12, <1>15, <1>16 DEF Promised

LEMMA ExtendKeeps ==
  ASSUME Began, NEW list \in Seq(Elements), Extend(list)
  PROVE  Typed' /\ made' = <<>> /\ doing'.how \in {"answered", "chucked"} /\ Promised'
<1> DEFINE n == Len(list)
           T == {s \in [array : Seq(Values \cup {Nothing}), count : Nat] : Sound(s)}
           step == [p \in T \X (1 .. n) |-> Pushed(p[1], list[p[2]])]
           Goes(f) == f = [k \in 0 .. n |-> IF k = 0 THEN Now ELSE Pushed(f[k - 1], list[k])]
           after == CHOOSE f : Goes(f)
<1>1. n \in Nat /\ list \in Seq(Values) /\ \A k \in 1 .. n : list[k] \in Values
  BY LenProperties, ElementOfSeq, SeqMonotonic DEF Values
<1>2. \A s : Sound(s) => s \in T
  <2> SUFFICES ASSUME NEW s, Sound(s)
               PROVE  s \in T
    OBVIOUS
  <2>1. s.count \in Nat
    BY LenProperties DEF Sound
  <2> QED  BY <2>1 DEF Sound
<1>3. \A s \in T, v \in Values : Pushed(s, v) \in T
  BY <1>2, PushedIs
<1>4. Now \in T
  BY <1>2, NowIsSound DEF Began
<1>5. \E f : Goes(f)
  <2>1. step \in [T \X (1 .. n) -> T]
    BY <1>1, <1>3
  <2>2. \A s \in T, k \in 1 .. n : step[<<s, k>>] = Pushed(s, list[k])
    OBVIOUS
  <2> HIDE DEF step, T, n
  <2>3. PICK f : Rounds(f, T, step, Now, n)
    BY <1>1, <1>4, <2>1, RoundsExist
  <2>4. f = [k \in 0 .. n |-> IF k = 0 THEN Now ELSE Pushed(f[k - 1], list[k])]
    <3>1. ASSUME NEW k \in 0 .. n
          PROVE  f[k] = IF k = 0 THEN Now ELSE Pushed(f[k - 1], list[k])
      <4>1. f[k] = IF k = 0 THEN Now ELSE step[<<f[k - 1], k>>]
        BY <2>3 DEF Rounds
      <4>2. k # 0 => f[k - 1] \in T /\ k \in 1 .. n
        BY <1>1, <2>3 DEF Rounds
      <4> QED  BY <2>2, <4>1, <4>2
    <3> QED  BY <2>3, <3>1 DEF Rounds
  <2> QED  BY <2>4
<1>6. Goes(after)
  BY <1>5
<1>7. Done("extend", <<list>>, "answered", after[n], "stash")
  BY DEF Extend, Answers, Looped
<1> HIDE DEF after
<1>8. \A k \in 0 .. n : after[k] = IF k = 0 THEN Now ELSE Pushed(after[k - 1], list[k])
  BY <1>6
<1> HIDE DEF Goes, n, step
<1> DEFINE U == {k \in Nat : k <= n => after[k] \in T /\ Contents(after[k]) = Contents(Now) \o SubSeq(list, 1, k)}
<1>9. 0 \in U
  <2>1. after[0] = Now
    BY <1>1, <1>8
  <2>2. SubSeq(list, 1, 0) = <<>>
    BY SubSeqEmpty
  <2>3. Contents(Now) \o <<>> = Contents(Now)
    BY NowIsSound, ContentsAre, ConcatEmptySeq DEF Began
  <2> QED  BY <1>4, <2>1, <2>2, <2>3
<1>10. ASSUME NEW k \in Nat \ {0}, k - 1 \in U
       PROVE  k \in U
  <2> SUFFICES ASSUME k <= n
               PROVE  after[k] \in T /\ Contents(after[k]) = Contents(Now) \o SubSeq(list, 1, k)
    OBVIOUS
  <2> DEFINE s == after[k - 1]
             l == SubSeq(list, 1, k - 1)
  <2>1. Sound(s) /\ Contents(s) = Contents(Now) \o l
    BY <1>1, <1>10
  <2>2. after[k] = Pushed(s, list[k]) /\ list[k] \in Values
    BY <1>1, <1>8
  <2>3. Sound(after[k]) /\ Contents(after[k]) = Append(Contents(s), list[k])
    <3> HIDE DEF s
    <3> QED  BY <2>1, <2>2, PushedIs
  <2>4. l \in Seq(Values) /\ Contents(Now) \in Seq(Values) /\ Contents(s) \in Seq(Values) /\ <<list[k]>> \in Seq(Values)
    <3>1. Contents(Now) \in Seq(Values) /\ Contents(s) \in Seq(Values)
      <4> HIDE DEF s
      <4> QED  BY <2>1, NowIsSound, ContentsAre DEF Began
    <3>2. l \in Seq(Values)
      <4>1. \A x \in 1 .. k - 1 : list[x] \in Values
        BY <1>1
      <4> QED  BY <4>1, SubSeqProperties
    <3> QED  BY <2>2, <3>1, <3>2
  <2>5. SubSeq(list, 1, k) = l \o <<list[k]>>
    <3>1. 1 \in 1 .. Len(list) /\ k \in 1 .. Len(list)
      BY <1>1 DEF n
    <3> QED  BY <3>1, SubSeqRecursiveSecond
  <2> HIDE DEF s, l
  <2>6. Append(Contents(s), list[k]) = Contents(s) \o <<list[k]>>
    BY <2>2, <2>4, AppendIsConcat
  <2>7. Contents(s) \o <<list[k]>> = Contents(Now) \o SubSeq(list, 1, k)
    <3> DEFINE c == Contents(Now)
               e == <<list[k]>>
    <3>1. c \in Seq(Values) /\ l \in Seq(Values) /\ e \in Seq(Values)
      BY <2>4
    <3> HIDE DEF c, e
    <3>2. (c \o l) \o e = c \o (l \o e)
      BY <3>1, ConcatAssociative, SMTT(30)
    <3> QED  BY <2>1, <2>5, <3>2 DEF c, e
  <2> QED  BY <1>2, <2>3, <2>6, <2>7
<1> HIDE DEF U
<1>11. n \in U
  BY <1>1, <1>9, <1>10, AllNaturals
<1>12. Sound(after[n]) /\ Contents(after[n]) = Contents(Now) \o list
  <2>1. SubSeq(list, 1, n) = list
    BY SubSeqFull DEF n
  <2>2. Contents(after[n]) = Contents(Now) \o SubSeq(list, 1, n) /\ after[n] \in T
    BY <1>1, <1>11 DEF U
  <2> QED  BY <2>1, <2>2
<1>13. /\ Contents(Now) = before
       /\ doing'.method = "extend" /\ doing'.args = <<list>> /\ doing'.how = "answered"
       /\ Typed' /\ made' = <<>> /\ before' = before /\ Now' = after[n]
  <2> DEFINE s == after[n]
  <2>1. Done("extend", <<list>>, "answered", s, "stash") /\ Sound(s)
    BY <1>7, <1>12 DEF n
  <2> HIDE DEF s, T
  <2>2. /\ Contents(Now) = before
        /\ doing'.method = "extend" /\ doing'.args = <<list>> /\ doing'.how = "answered"
        /\ Typed' /\ made' = <<>> /\ before' = before /\ Now' = s
    BY <2>1, DoneIs DEF Began
  <2> QED  BY <2>2 DEF s
<1>14. Promise("extend", <<list>>, Contents(Now))'
  BY <1>12, <1>13 DEF Promise
<1>15. PromisedAnswer("extend", <<list>>)'
  BY DEF PromisedAnswer
<1> QED  BY <1>13, <1>14, <1>15 DEF Promised

\* The methods that leave the stash as it is.
LEMMA ReadsKeep ==
  ASSUME Began, NEW method, NEW args, NEW v, Answers(method, args, Now, v),
         method \notin {"yeet_in", "extend", "clear", "yoink", "yoink_at", "insert", "reverse", "sort"}
  PROVE  /\ Contents(Now) = before /\ length = Len(before) /\ before \in Seq(Elements)
         /\ length \in Nat /\ length <= Len(array)
         /\ \A k \in 1 .. length : before[k] = array[k] /\ array[k] \in Elements
         /\ \A k \in 0 .. length - 1 : ItemAt(array, k) = before[k + 1]
         /\ Typed' /\ made' = <<>> /\ doing'.how = "answered" /\ told' = v /\ before' = before
         /\ PromisedAnswer(method, args)' => Promised'
<1>1. Done(method, args, "answered", Now, v) /\ Sound(Now)
  BY NowIsSound DEF Answers, Began
<1>2. /\ Contents(Now) = before /\ length = Len(before)
      /\ length \in 0 .. Len(array) /\ Len(array) \in Nat /\ array \in Seq(Values \cup {Nothing})
      /\ \A k \in 1 .. length : before[k] = array[k] /\ array[k] \in Elements
      /\ doing'.method = method /\ doing'.args = args /\ doing'.how = "answered"
      /\ Typed' /\ made' = <<>> /\ before' = before /\ told' = v /\ Now' = Now
  BY <1>1, DoneIs DEF Began
<1>3. ASSUME NEW k \in 0 .. length - 1
      PROVE  ItemAt(array, k) = before[k + 1]
  <2>1. k + 1 \in 1 .. length /\ k + 1 \in DOMAIN array
    BY <1>2, LenProperties
  <2> QED  BY <1>2, <2>1 DEF ItemAt
<1>4. Promise(method, args, Contents(Now))'
  BY <1>2 DEF Promise
<1>5. PromisedAnswer(method, args)' => Promised'
  BY <1>2, <1>4 DEF Promised
<1>6. before \in Seq(Elements)
  BY DEF Began, Typed
<1> QED  BY <1>2, <1>3, <1>5, <1>6

LEMMA ReverseKeeps ==
  ASSUME Began, Reverse_
  PROVE  Typed' /\ made' = <<>> /\ doing'.how \in {"answered", "chucked"} /\ Promised'
<1> DEFINE a == [k \in DOMAIN array |-> IF k <= length THEN array[length + 1 - k] ELSE array[k]]
           s == [Now EXCEPT !.array = [k \in DOMAIN @ |-> IF k <= length THEN @[length + 1 - k] ELSE @[k]]]
<1>1. Done("reverse", <<>>, "answered", s, "stash")
  BY DEF Reverse_, Answers
<1>2. s = [array |-> a, count |-> length] /\ s.array = a /\ s.count = length
  BY DEF Now
<1> HIDE DEF s
<1>3. /\ array \in Seq(Values \cup {Nothing}) /\ Len(array) \in Nat /\ length \in 0 .. Len(array)
      /\ \A k \in 1 .. length : array[k] \in Values
  BY NowIsSound DEF Began
<1>4. /\ a \in Seq(Values \cup {Nothing}) /\ Len(a) = Len(array)
      /\ \A k \in 1 .. length : a[k] = array[length + 1 - k] /\ length + 1 - k \in 1 .. length
  <2>1. array \in [1 .. Len(array) -> Values \cup {Nothing}] /\ DOMAIN array = 1 .. Len(array)
    BY <1>3, LenProperties
  <2>2. ASSUME NEW k \in 1 .. Len(array)
        PROVE  a[k] \in Values \cup {Nothing}
    <3>1. k <= length => length + 1 - k \in 1 .. Len(array)
      BY <1>3
    <3>2. array[k] \in Values \cup {Nothing} /\ (k <= length => array[length + 1 - k] \in Values \cup {Nothing})
      BY <2>1, <3>1
    <3> QED  BY <2>1, <3>2
  <2>3. a \in [1 .. Len(array) -> Values \cup {Nothing}]
    BY <2>1, <2>2
  <2>4. a \in Seq(Values \cup {Nothing}) /\ Len(a) = Len(array)
    <3> HIDE DEF a
    <3> QED  BY <1>3, <2>3, IsSeq
  <2>5. \A k \in 1 .. length : a[k] = array[length + 1 - k] /\ length + 1 - k \in 1 .. length
    BY <1>3, <2>1
  <2> QED  BY <2>4, <2>5
<1> HIDE DEF a
<1>5. Sound(s)
  BY <1>2, <1>3, <1>4 DEF Sound
<1>6. /\ length = Len(before) /\ \A k \in 1 .. length : before[k] = array[k] /\ array[k] \in Elements
      /\ doing'.method = "reverse" /\ doing'.args = <<>> /\ doing'.how = "answered"
      /\ Typed' /\ made' = <<>> /\ before' = before /\ Now' = s
  BY <1>1, <1>5, DoneIs DEF Began
<1>7. Contents(s) = Reverse(before)
  <2> DEFINE r == Reverse(before)
  <2>1. \A k \in 1 .. length : r[k] = before[length + 1 - k] /\ length - k + 1 \in 1 .. length /\ length - k + 1 = length + 1 - k
    BY <1>3, <1>6 DEF Reverse
  <2>2. r \in [1 .. length -> Elements]
    BY <1>4, <1>6, <2>1 DEF Reverse
  <2> HIDE DEF r
  <2>3. r \in Seq(Elements) /\ Len(r) = length
    BY <1>3, <2>2, IsSeq
  <2>4. \A k \in 1 .. length : r[k] = s.array[k]
    BY <1>2, <1>4, <1>6, <2>1
  <2>5. Contents(s) = r
    BY <1>2, <1>5, <2>3, <2>4, ContentsEqual
  <2> QED  BY <2>5 DEF r
<1>8. Promise("reverse", <<>>, Contents(Now))'
  <2>1. told' = "stash" /\ Contents(Now)' = Reverse(before')
    BY <1>1, <1>6, <1>7 DEF Done
  <2>2. Answer(Contents(Now))' = Reverse(before') /\ InPlaceOrNot(Contents(Now))'
    BY <2>1 DEF Answer, InPlaceOrNot
  <2> QED  BY <2>2 DEF Promise
<1>9. PromisedAnswer("reverse", <<>>)'
  BY DEF PromisedAnswer
<1> QED  BY <1>6, <1>8, <1>9 DEF Promised

LEMMA SliceKeeps ==
  ASSUME Began, NEW i \in Int, NEW j \in Int, Slice(i, j)
  PROVE  Typed' /\ made' = <<>> /\ doing'.how \in {"answered", "chucked"} /\ Promised'
<1> DEFINE stop == Min({Norm(j), length})
           start == Min({Max({Norm(i), 0}), stop})
           v == [k \in 1 .. stop - start |-> ItemAt(array, start + k - 1)]
<1>1. Answers("slice", <<i, j>>, Now, v)
  BY DEF Slice
<1>2. /\ length = Len(before) /\ before \in Seq(Elements) /\ length \in Nat
      /\ \A k \in 0 .. length - 1 : ItemAt(array, k) = before[k + 1]
      /\ Typed' /\ made' = <<>> /\ doing'.how = "answered" /\ told' = v /\ before' = before
      /\ PromisedAnswer("slice", <<i, j>>)' => Promised'
  <2> HIDE DEF v
  <2> QED  BY <1>1, ReadsKeep
<1>3. SubSeq(before, Spot(i) + 1, Spot(j)) = v
  <2> DEFINE ni == Norm(i)
             nj == Norm(j)
             x == Max({ni, 0})
  <2>1. ni = (IF i < 0 THEN i + length ELSE i) /\ nj = (IF j < 0 THEN j + length ELSE j) /\ ni \in Int /\ nj \in Int
    BY <1>2 DEF Norm
  <2>2. stop = Min({nj, length}) /\ start = Min({x, stop})
    OBVIOUS
  <2> HIDE DEF ni, nj, stop, start, v
  <2>3. stop = IF nj <= length THEN nj ELSE length
    <3>1. nj \in Int /\ length \in Int
      BY <1>2, <2>1
    <3>2. Min({nj, length}) = IF nj <= length THEN nj ELSE length
      BY <3>1, OfTwo
    <3> QED  BY <2>2, <3>2
  <2>4. x = IF ni <= 0 THEN 0 ELSE ni
    BY <2>1, OfTwo
  <2> HIDE DEF x
  <2>5. stop \in Int /\ x \in Int
    BY <1>2, <2>1, <2>3, <2>4
  <2>6. start = IF x <= stop THEN x ELSE stop
    BY <2>2, <2>5, OfTwo
  <2>7. Spot(i) = IF ni < 0 THEN 0 ELSE IF ni > length THEN length ELSE ni
    BY <1>2, <2>1, SpotIs
  <2>8. Spot(j) = IF nj < 0 THEN 0 ELSE IF nj > length THEN length ELSE nj
    BY <1>2, <2>1, SpotIs
  <2> DEFINE a == Spot(i)
             b == Spot(j)
             t == SubSeq(before, a + 1, b)
  <2>9. a \in 0 .. length /\ b \in 0 .. length
    BY <1>2, <2>1, <2>7, <2>8
  <2>10. IF a < b THEN start = a /\ stop = b ELSE stop - start <= 0
    BY <1>2, <2>1, <2>3, <2>4, <2>6, <2>7, <2>8, SMTT(30)
  <2> HIDE DEF a, b
  <2>11. /\ t \in Seq(Elements) /\ Len(t) = (IF a + 1 <= b THEN b - (a + 1) + 1 ELSE 0)
         /\ \A k \in 1 .. b - (a + 1) + 1 : t[k] = before[a + 1 + k - 1]
    <3>1. \A k \in a + 1 .. b : before[k] \in Elements
      <4>1. \A k \in 1 .. length : before[k] \in Elements
        BY <1>2, ElementOfSeq
      <4> QED  BY <1>2, <2>9, <4>1
    <3>2. a + 1 \in Int /\ b \in Int
      BY <2>9
    <3> QED  BY <3>1, <3>2, SubSeqProperties
  <2> HIDE DEF t
  <2>12. CASE a < b
    <3>1. v = [k \in 1 .. b - a |-> ItemAt(array, a + k - 1)]
      BY <2>10, <2>12 DEF v
    <3>2. ASSUME NEW k \in 1 .. b - a
          PROVE  v[k] = t[k] /\ v[k] \in Elements
      <4>1. v[k] = ItemAt(array, a + k - 1) /\ a + k - 1 \in 0 .. length - 1 /\ a + k - 1 + 1 = a + k
        BY <1>2, <2>9, <3>1
      <4>2. v[k] = before[a + k] /\ a + k \in 1 .. length
        BY <1>2, <2>9, <4>1
      <4>3. t[k] = before[a + k]
        BY <2>9, <2>11
      <4> QED  BY <1>2, <4>2, <4>3, ElementOfSeq
    <3>3. v \in [1 .. b - a -> Elements] /\ b - a \in Nat
      <4>1. v = [k \in 1 .. b - a |-> v[k]]
        BY <3>1
      <4>2. b - a \in Nat
        BY <2>9, <2>12
      <4> QED  BY <3>2, <4>1, <4>2
    <3>4. v \in Seq(Elements) /\ Len(v) = b - a
      BY <3>3, IsSeq
    <3>5. Len(t) = b - a
      BY <2>9, <2>11, <2>12
    <3>6. Len(v) = Len(t) /\ \A k \in 1 .. Len(v) : v[k] = t[k]
      BY <3>2, <3>4, <3>5
    <3>7. v = t
      BY <2>11, <3>4, <3>6, SeqsEqual
    <3> QED  BY <3>7 DEF t, a, b
  <2>13. CASE ~ (a < b)
    <3>1. 1 .. stop - start = {}
      BY <2>10, <2>13, <2>5, <2>6
    <3>2. v = <<>>
      BY <3>1 DEF v
    <3>3. t = <<>>
      BY <2>9, <2>13, SubSeqEmpty DEF t
    <3> QED  BY <3>2, <3>3 DEF t, a, b
  <2> QED  BY <2>12, <2>13
<1> HIDE DEF v
<1>4. PromisedAnswer("slice", <<i, j>>)'
  BY <1>2, <1>3 DEF PromisedAnswer, Spot
<1> QED  BY <1>2, <1>4

LEMMA ToSetIs ==
  ASSUME NEW S, NEW s \in Seq(S)
  PROVE  /\ ToSet(s) = {s[x] : x \in 1 .. Len(s)}
         /\ \A m \in 0 .. Len(s) : ToSet(SubSeq(s, 1, m)) = {s[x] : x \in 1 .. m}
<1>1. Len(s) \in Nat /\ DOMAIN s = 1 .. Len(s) /\ \A x \in 1 .. Len(s) : s[x] \in S
  BY LenProperties, ElementOfSeq
<1>2. ASSUME NEW m \in 0 .. Len(s)
      PROVE  ToSet(SubSeq(s, 1, m)) = {s[x] : x \in 1 .. m}
  <2> DEFINE t == SubSeq(s, 1, m)
  <2>1. /\ t \in Seq(S) /\ Len(t) = (IF 1 <= m THEN m - 1 + 1 ELSE 0)
        /\ \A x \in 1 .. m - 1 + 1 : t[x] = s[1 + x - 1]
    <3>1. \A x \in 1 .. m : s[x] \in S
      BY <1>1
    <3> QED  BY <1>1, <3>1, SubSeqProperties
  <2> HIDE DEF t
  <2>2. DOMAIN t = 1 .. m /\ \A x \in 1 .. m : t[x] = s[x]
    BY <1>1, <2>1, LenProperties
  <2>3. ToSet(t) = {s[x] : x \in 1 .. m}
    BY <2>2 DEF ToSet
  <2> QED  BY <2>3 DEF t
<1> QED  BY <1>1, <1>2 DEF ToSet

LEMMA UniqueKeeps ==
  ASSUME Began, Unique
  PROVE  Typed' /\ made' = <<>> /\ doing'.how \in {"answered", "chucked"} /\ Promised'
<1> DEFINE n == length
           T == Seq(Elements)
           Add(out, k) == IF Contains(out, array[k]) THEN out ELSE Append(out, array[k])
           step == [p \in T \X (1 .. n) |-> Add(p[1], p[2])]
           Goes(f) == f = [k \in 0 .. n |-> IF k = 0 THEN <<>> ELSE Add(f[k - 1], k)]
           after == CHOOSE f : Goes(f)
<1>1. Answers("unique", <<>>, Now, after[n])
  BY DEF Unique, Looped
<1> HIDE DEF after
<1>2. /\ n = Len(before) /\ before \in Seq(Elements) /\ n \in Nat
      /\ \A k \in 1 .. n : before[k] = array[k] /\ array[k] \in Elements
      /\ Typed' /\ made' = <<>> /\ doing'.how = "answered" /\ told' = after[n] /\ before' = before
      /\ PromisedAnswer("unique", <<>>)' => Promised'
  BY <1>1, ReadsKeep
<1>3. \E f : Goes(f)
  <2>1. \A out \in T, k \in 1 .. n : Add(out, k) \in T
    BY <1>2, AppendProperties
  <2> HIDE DEF Add
  <2>2. step \in [T \X (1 .. n) -> T]
    BY <2>1
  <2>3. \A out \in T, k \in 1 .. n : step[<<out, k>>] = Add(out, k)
    OBVIOUS
  <2>4. <<>> \in T
    BY EmptySeq
  <2> HIDE DEF step, T, n
  <2>5. PICK f : Rounds(f, T, step, <<>>, n)
    BY <1>2, <2>2, <2>4, RoundsExist
  <2>6. ASSUME NEW k \in 0 .. n
        PROVE  f[k] = IF k = 0 THEN <<>> ELSE Add(f[k - 1], k)
    <3>1. f[k] = IF k = 0 THEN <<>> ELSE step[<<f[k - 1], k>>]
      BY <2>5 DEF Rounds
    <3>2. k # 0 => f[k - 1] \in T /\ k \in 1 .. n
      BY <1>2, <2>5 DEF Rounds
    <3> QED  BY <2>3, <3>1, <3>2
  <2>7. f = [k \in 0 .. n |-> IF k = 0 THEN <<>> ELSE Add(f[k - 1], k)]
    BY <2>5, <2>6 DEF Rounds
  <2> QED  BY <2>7
<1>4. Goes(after)
  BY <1>3 DEF after
<1>5. \A k \in 0 .. n : after[k] = IF k = 0 THEN <<>> ELSE Add(after[k - 1], k)
  <2> HIDE DEF Add
  <2> QED  BY <1>4
<1> HIDE DEF Goes, n
<1> DEFINE First(s, m) == {s[x] : x \in 1 .. m}
           Good(out, k) ==
             /\ out \in Seq(Elements) /\ IsInjective(out) /\ First(out, Len(out)) = First(before, k)
             /\ \A m \in 1 .. Len(out) : \E x \in 1 .. n : First(out, m) = First(before, x)
           U == {k \in Nat : k <= n => Good(after[k], k)}
<1>6. 0 \in U
  <2>1. after[0] = <<>>
    BY <1>2, <1>5
  <2>2. Good(<<>>, 0)
    BY EmptySeq DEF IsInjective
  <2> HIDE DEF Good
  <2> QED  BY <2>1, <2>2
<1>7. ASSUME NEW k \in Nat \ {0}, k - 1 \in U
      PROVE  k \in U
  <2> SUFFICES ASSUME k <= n
               PROVE  Good(after[k], k)
    OBVIOUS
  <2> DEFINE out == after[k - 1]
             v == array[k]
  <2>1. Good(out, k - 1) /\ after[k] = Add(out, k) /\ v = before[k] /\ v \in Elements /\ k \in 1 .. n
    <3> HIDE DEF Good, Add
    <3>1. k \in 0 .. n /\ k \in 1 .. n
      BY <1>2
    <3> QED  BY <1>2, <1>5, <1>7, <3>1
  <2> HIDE DEF out, v
  <2>2. /\ out \in Seq(Elements) /\ IsInjective(out) /\ First(out, Len(out)) = First(before, k - 1)
        /\ \A m \in 1 .. Len(out) : \E x \in 1 .. n : First(out, m) = First(before, x)
    BY <2>1
  <2>3. Len(out) \in Nat /\ DOMAIN out = 1 .. Len(out)
    BY <2>2, LenProperties
  <2>4. First(before, k) = First(before, k - 1) \cup {v}
    BY <2>1
  <2>5. CASE Contains(out, v)
    <3>1. after[k] = out
      BY <2>1, <2>5 DEF v
    <3>2. v \in First(out, Len(out))
      BY <2>5 DEF Contains
    <3>3. First(out, Len(out)) = First(before, k)
      BY <2>2, <2>4, <3>2
    <3> HIDE DEF First
    <3> QED  BY <2>2, <3>1, <3>3
  <2>6. CASE ~ Contains(out, v)
    <3> DEFINE new == Append(out, v)
    <3>1. after[k] = new
      BY <2>1, <2>6 DEF v
    <3>2. /\ new \in Seq(Elements) /\ Len(new) = Len(out) + 1
          /\ (\A i \in 1 .. Len(out) : new[i] = out[i]) /\ new[Len(out) + 1] = v
      BY <2>1, <2>2, AppendProperties
    <3> HIDE DEF new
    <3>3. DOMAIN new = 1 .. Len(out) + 1
      BY <3>2, LenProperties
    <3>4. \A i \in 1 .. Len(out) : out[i] # v
      BY <2>6 DEF Contains
    <3>5. IsInjective(new)
      <4> SUFFICES ASSUME NEW a \in 1 .. Len(out) + 1, NEW b \in 1 .. Len(out) + 1, new[a] = new[b]
                   PROVE  a = b
        BY <3>3 DEF IsInjective
      <4>1. a \in 1 .. Len(out) \/ a = Len(out) + 1
        BY <2>3
      <4>2. b \in 1 .. Len(out) \/ b = Len(out) + 1
        BY <2>3
      <4>3. \A i, j \in 1 .. Len(out) : out[i] = out[j] => i = j
        BY <2>2, <2>3 DEF IsInjective
      <4> QED  BY <3>2, <3>4, <4>1, <4>2, <4>3
    <3>6. \A m \in 1 .. Len(out) : First(new, m) = First(out, m)
      <4> SUFFICES ASSUME NEW m \in 1 .. Len(out)
                   PROVE  First(new, m) = First(out, m)
        OBVIOUS
      <4>1. \A i \in 1 .. m : new[i] = out[i]
        BY <2>3, <3>2
      <4> QED  BY <4>1
    <3>7. First(new, Len(out) + 1) = First(out, Len(out)) \cup {v}
      <4>1. \A i \in 1 .. Len(out) + 1 : i \in 1 .. Len(out) \/ i = Len(out) + 1
        BY <2>3
      <4>2. 1 .. Len(out) \subseteq 1 .. Len(out) + 1 /\ Len(out) + 1 \in 1 .. Len(out) + 1
        BY <2>3
      <4> QED  BY <3>2, <4>1, <4>2
    <3>8. First(new, Len(new)) = First(before, k)
      <4> HIDE DEF First
      <4> QED  BY <2>2, <2>4, <3>2, <3>7
    <3>9. ASSUME NEW m \in 1 .. Len(new)
          PROVE  \E x \in 1 .. n : First(new, m) = First(before, x)
      <4> HIDE DEF First
      <4>1. m \in 1 .. Len(out) \/ m = Len(new)
        BY <2>3, <3>2
      <4> QED  BY <2>1, <2>2, <3>6, <3>8, <4>1
    <3> HIDE DEF First
    <3> QED  BY <3>1, <3>2, <3>5, <3>8, <3>9
  <2> QED  BY <2>5, <2>6
<1> HIDE DEF U
<1>8. n \in U
  BY <1>2, <1>6, <1>7, AllNaturals
<1> DEFINE v == after[n]
<1>9. Good(v, n)
  <2> HIDE DEF Good
  <2>1. n <= n
    BY <1>2
  <2> QED  BY <1>8, <2>1 DEF U
<1> HIDE DEF v, Add
<1>10. v \in Seq(Elements) /\ Len(v) \in Nat /\ DOMAIN v = 1 .. Len(v) /\ DOMAIN before = 1 .. n
  BY <1>2, <1>9, LenProperties
<1>11. ToSet(v) = First(v, Len(v)) /\ ToSet(before) = First(before, n)
  BY <1>2, <1>10, ToSetIs
<1>12. ASSUME NEW k \in DOMAIN v
       PROVE  \E x \in DOMAIN before : ToSet(SubSeq(v, 1, k)) = ToSet(SubSeq(before, 1, x))
  <2>1. PICK x \in 1 .. n : First(v, k) = First(before, x)
    BY <1>9, <1>10
  <2>2. k \in 0 .. Len(v) /\ x \in 0 .. Len(before)
    BY <1>2, <1>10
  <2>3. ToSet(SubSeq(v, 1, k)) = First(v, k) /\ ToSet(SubSeq(before, 1, x)) = First(before, x)
    BY <1>2, <1>10, <2>2, ToSetIs
  <2> HIDE DEF First
  <2> QED  BY <1>10, <2>1, <2>3
<1>13. ToSet(v) = ToSet(before) /\ IsInjective(v)
  BY <1>9, <1>11
<1>14. told' = v /\ before' = before
  BY <1>2 DEF v
<1>15. PromisedAnswer("unique", <<>>)'
  BY <1>12, <1>13, <1>14 DEF PromisedAnswer
<1> QED  BY <1>2, <1>15

LEMMA Products ==
  ASSUME NEW a \in Nat, NEW b \in Nat, NEW n \in Nat
  PROVE  /\ a * n \in Nat /\ (a + 1) * n = a * n + n
         /\ a <= b => a * n <= b * n
BY SMTT(30)

LEMMA DivIs ==
  ASSUME NEW a \in Nat, NEW n \in Nat \ {0}
  PROVE  a \div n \in Nat /\ (a \div n) * n <= a /\ a < (a \div n) * n + n
BY SMTT(30)

LEMMA ModIs ==
  ASSUME NEW a \in Nat, NEW n \in Nat \ {0}
  PROVE  a % n \in 0 .. n - 1
BY SMTT(30)

\* Where parts follow each other, FlattenSeq puts them together again.
LEMMA Flattened ==
  ASSUME NEW S, NEW list \in Seq(S), NEW C \in Nat, NEW ends \in [0 .. C -> 0 .. Len(list)], NEW parts,
         parts = [c \in 1 .. C |-> SubSeq(list, ends[c - 1] + 1, ends[c])],
         ends[0] = 0, ends[C] = Len(list), \A c \in 1 .. C : ends[c - 1] <= ends[c]
  PROVE  FlattenSeq(parts) = list
<1> DEFINE Joins(f) == f = [i \in 1 .. Len(parts) |-> IF i = 1 THEN parts[i] ELSE f[i - 1] \o parts[i]]
           g == [i \in 1 .. C |-> SubSeq(list, 1, ends[i])]
           h == CHOOSE f : Joins(f)
<1>1. parts \in Seq(Seq(S)) /\ Len(parts) = C /\ Len(list) \in Nat
  <2>1. Len(list) \in Nat /\ \A k \in 1 .. Len(list) : list[k] \in S
    BY LenProperties, ElementOfSeq
  <2>2. \A c \in 1 .. C : SubSeq(list, ends[c - 1] + 1, ends[c]) \in Seq(S)
    <3> SUFFICES ASSUME NEW c \in 1 .. C
                 PROVE  SubSeq(list, ends[c - 1] + 1, ends[c]) \in Seq(S)
      OBVIOUS
    <3>1. ends[c - 1] \in 0 .. Len(list) /\ ends[c] \in 0 .. Len(list)
      OBVIOUS
    <3> DEFINE a == ends[c - 1] + 1
               b == ends[c]
    <3>2. a \in Int /\ b \in Int /\ \A k \in a .. b : list[k] \in S
      BY <2>1, <3>1, SMTT(20)
    <3> HIDE DEF a, b
    <3>3. SubSeq(list, a, b) \in Seq(S)
      BY <3>2, SubSeqProperties
    <3> QED  BY <3>3 DEF a, b
  <2>3. parts \in [1 .. C -> Seq(S)]
    BY <2>2
  <2> QED  BY <2>1, <2>3, IsSeq, SMTT(20)
<1>2. CASE C = 0
  <2>1. Len(list) = 0
    BY <1>2
  <2>2. list = <<>>
    BY <2>1, EmptySeq
  <2>3. parts = <<>>
    <3>1. Len(parts) = 0
      BY <1>1, <1>2
    <3> HIDE DEF h
    <3> QED  BY <1>1, <3>1, EmptySeq
  <2> QED  BY <1>1, <1>2, <2>2, <2>3 DEF FlattenSeq
<1>3. CASE C # 0
  <2>1. \A i \in 1 .. C : parts[i] = SubSeq(list, ends[i - 1] + 1, ends[i])
    OBVIOUS
  <2>2. ASSUME NEW i \in 1 .. C
        PROVE  g[i] = IF i = 1 THEN parts[i] ELSE g[i - 1] \o parts[i]
    <3>1. g[i] = SubSeq(list, 1, ends[i])
      OBVIOUS
    <3>2. CASE i = 1
      <4>1. ends[i - 1] = 0 /\ 0 + 1 = 1
        <5>1. i - 1 = 0
          BY <3>2
        <5> QED  BY <5>1
      <4> HIDE DEF g, h
      <4> QED  BY <2>1, <3>1, <3>2, <4>1
    <3>3. CASE i # 1
      <4> DEFINE a == ends[i - 1]
                 b == ends[i]
                 j == i - 1
      <4>1. i - 1 \in 1 .. C /\ g[i - 1] = SubSeq(list, 1, a)
        <5>1. j \in 1 .. C
          BY <3>3
        <5> HIDE DEF j
        <5>2. g[j] = SubSeq(list, 1, ends[j])
          BY <5>1
        <5> QED  BY <5>1, <5>2 DEF j
      <4>2. a \in 0 .. Len(list) /\ b \in 0 .. Len(list) /\ a <= b
        OBVIOUS
      <4>3. parts[i] = SubSeq(list, a + 1, b) /\ g[i] = SubSeq(list, 1, b)
        BY <2>1, <3>1
      <4> HIDE DEF a, b, g
      <4>4. 1 \in 1 .. Len(list) + 1 /\ a \in 1 - 1 .. Len(list) /\ b \in a .. Len(list)
        BY <1>1, <4>2
      <4>5. SubSeq(list, 1, a) \o SubSeq(list, a + 1, b) = SubSeq(list, 1, b)
        BY <4>4, ConcatAdjacentSubSeq
      <4> QED  BY <3>3, <4>1, <4>3, <4>5
    <3> QED  BY <3>2, <3>3
  <2>3. Joins(g)
    <3>1. g = [i \in 1 .. C |-> g[i]]
      OBVIOUS
    <3> HIDE DEF g
    <3>2. g = [i \in 1 .. C |-> IF i = 1 THEN parts[i] ELSE g[i - 1] \o parts[i]]
      BY <2>2, <3>1
    <3> QED  BY <1>1, <3>2
  <2>4. Joins(h)
    <3> HIDE DEF Joins, g
    <3> QED  BY <2>3
  <2> HIDE DEF h
  <2>5. \A i \in 1 .. C : h[i] = IF i = 1 THEN parts[i] ELSE h[i - 1] \o parts[i]
    BY <1>1, <2>4
  <2> HIDE DEF g
  <2> DEFINE U == {i \in Nat : i \in 1 .. C => h[i] = g[i]}
  <2>6. 0 \in U
    OBVIOUS
  <2>7. ASSUME NEW i \in Nat \ {0}, i - 1 \in U
        PROVE  i \in U
    <3> SUFFICES ASSUME i \in 1 .. C
                 PROVE  h[i] = g[i]
      OBVIOUS
    <3>1. CASE i = 1
      BY <2>2, <2>5, <3>1
    <3>2. CASE i # 1
      <4>1. i - 1 \in 1 .. C
        BY <3>2
      <4>2. h[i - 1] = g[i - 1]
        BY <2>7, <4>1
      <4> QED  BY <2>2, <2>5, <3>2, <4>2
    <3> QED  BY <3>1, <3>2
  <2> HIDE DEF U
  <2>8. C \in U
    BY <2>6, <2>7, AllNaturals
  <2>9. h[C] = g[C] /\ g[C] = SubSeq(list, 1, ends[C])
    BY <1>3, <2>8, SMTT(20) DEF U, g
  <2>10. FlattenSeq(parts) = h[C]
    BY <1>1, <1>3 DEF FlattenSeq, h
  <2>11. SubSeq(list, 1, Len(list)) = list
    BY SubSeqFull
  <2> QED  BY <2>9, <2>10, <2>11
<1> QED  BY <1>2, <1>3

LEMMA ChunkKeeps ==
  ASSUME Began, NEW n \in Int, Chunk(n)
  PROVE  Typed' /\ made' = <<>> /\ doing'.how \in {"answered", "chucked"} /\ Promised'
<1> DEFINE C == (length + n - 1) \div n
           first(c) == (c - 1) * n
           chunk(c) == [k \in 1 .. Min({n, length - first(c)}) |-> ItemAt(array, first(c) + k - 1)]
           v == [c \in 1 .. C |-> chunk(c)]
<1>1. CASE n <= 0 /\ Chucks("chunk", <<n>>)
  BY <1>1, ChucksKeeps
<1>2. CASE n > 0 /\ Answers("chunk", <<n>>, Now, v)
  <2>1. /\ length = Len(before) /\ before \in Seq(Elements) /\ length \in Nat
        /\ \A k \in 0 .. length - 1 : ItemAt(array, k) = before[k + 1]
        /\ Typed' /\ made' = <<>> /\ doing'.how = "answered" /\ told' = v /\ before' = before
        /\ PromisedAnswer("chunk", <<n>>)' => Promised'
    <3> HIDE DEF v
    <3> QED  BY <1>2, ReadsKeep
  <2>2. C \in Nat /\ C * n <= length + n - 1 /\ length <= C * n
    <3>1. n \in Nat \ {0} /\ length + n - 1 \in Nat
      BY <1>2, <2>1
    <3> DEFINE a == length + n - 1
    <3> HIDE DEF a
    <3>2. a \div n \in Nat /\ (a \div n) * n <= a /\ a < (a \div n) * n + n
      BY <3>1, DivIs DEF a
    <3>3. C = a \div n
      BY DEF a
    <3> HIDE DEF C
    <3> DEFINE m == (a \div n) * n
    <3>4. m \in Nat
      BY <3>1, <3>2, Products
    <3> HIDE DEF m
    <3>5. m <= length + n - 1 /\ length <= m
      BY <2>1, <3>1, <3>2, <3>4 DEF a, m
    <3> QED  BY <3>2, <3>3, <3>5 DEF m
  <2> DEFINE ends == [c \in 0 .. C |-> IF c = C THEN length ELSE c * n]
  <2> HIDE DEF C
  <2>3. n \in Nat /\ n >= 1
    BY <1>2
  <2>4. ASSUME NEW c \in 1 .. C
        PROVE  /\ first(c) \in Nat /\ first(c) < length /\ ends[c - 1] = first(c) /\ ends[c] \in Nat
               /\ ends[c] = first(c) + Min({n, length - first(c)}) /\ ends[c] <= length
               /\ Min({n, length - first(c)}) \in Nat
               /\ c < C => Min({n, length - first(c)}) = n
    <3> DEFINE f == first(c)
               last == C * n
               m == Min({n, length - f})
               e == c * n
               before_last == (C - 1) * n
    <3>1. f \in Nat /\ e = f + n /\ before_last \in Nat /\ last = before_last + n /\ f <= before_last
      <4>1. c - 1 \in Nat /\ C - 1 \in Nat /\ c - 1 <= C - 1 /\ c - 1 + 1 = c /\ C - 1 + 1 = C
        BY <2>2
      <4> QED  BY <2>3, <4>1, Products
    <3>2. c < C => e <= before_last
      <4> SUFFICES ASSUME c < C
                   PROVE  e <= before_last
        OBVIOUS
      <4>1. c \in Nat /\ C - 1 \in Nat /\ c <= C - 1
        BY <2>2
      <4> QED  BY <2>3, <4>1, Products
    <3>3. ends[c - 1] = f
      <4>1. c - 1 \in 0 .. C /\ c - 1 # C
        BY <2>2
      <4> QED  BY <4>1
    <3>4. ends[c] = IF c = C THEN length ELSE e
      BY <2>2
    <3>5. last <= length + n - 1 /\ length <= last
      BY <2>2
    <3>6. c = C => e = last
      OBVIOUS
    <3> HIDE DEF ends, f, last, e, before_last
    <3>7. f < length
      BY <2>1, <2>3, <3>1, <3>5
    <3>8. m = IF n <= length - f THEN n ELSE length - f
      <4>1. length - f \in Int /\ n \in Int
        BY <2>1, <2>3, <3>1
      <4> QED  BY <4>1, OfTwo
    <3> HIDE DEF m
    <3>9. c < C => m = n /\ e <= length
      BY <2>1, <2>3, <3>1, <3>2, <3>5, <3>8
    <3>10. ends[c] = f + m /\ ends[c] <= length
      <4>1. CASE c = C
        <5>1. length - f <= n
          BY <2>1, <2>3, <3>1, <3>5, <3>6, <4>1
        <5> QED  BY <2>1, <2>3, <3>1, <3>4, <3>8, <4>1, <5>1
      <4>2. CASE c # C
        <5>1. c < C
          BY <2>2, <4>2
        <5> QED  BY <3>1, <3>4, <3>9, <4>2, <5>1
      <4> QED  BY <4>1, <4>2
    <3>11. m \in Nat /\ ends[c] \in Nat
      BY <2>1, <2>3, <3>1, <3>7, <3>8, <3>10
    <3> QED  BY <3>1, <3>3, <3>7, <3>9, <3>10, <3>11 DEF f, m
  <2>5. ends[0] = 0 /\ ends[C] = length
    <3>1. ends[C] = length
      BY <2>2
    <3>2. C # 0 => ends[0] = 0
      <4>1. 0 * n = 0
        BY <2>3
      <4> QED  BY <2>2, <4>1
    <3>3. C = 0 => length = 0
      <4>1. 0 * n = 0
        BY <2>3
      <4> QED  BY <2>1, <2>2, <4>1
    <3> HIDE DEF ends
    <3> QED  BY <3>1, <3>2, <3>3
  <2>6. ends \in [0 .. C -> 0 .. Len(before)]
    <3>1. ends = [c \in 0 .. C |-> ends[c]]
      OBVIOUS
    <3> HIDE DEF ends, first
    <3>2. \A c \in 0 .. C : ends[c] \in 0 .. length
      <4> SUFFICES ASSUME NEW c \in 0 .. C
                   PROVE  ends[c] \in 0 .. length
        OBVIOUS
      <4>1. c = 0 \/ c \in 1 .. C
        BY <2>2
      <4>2. c \in 1 .. C => ends[c] \in Nat /\ ends[c] <= length
        BY <2>4
      <4> HIDE DEF v, chunk
      <4> QED  BY <2>1, <2>5, <4>1, <4>2
    <3> QED  BY <2>1, <3>1, <3>2
  <2> HIDE DEF ends
  <2>7. ASSUME NEW c \in 1 .. C
        PROVE  /\ v[c] = SubSeq(before, ends[c - 1] + 1, ends[c]) /\ ends[c - 1] <= ends[c]
               /\ c < C => Len(v[c]) = n
    <3> DEFINE f == first(c)
               m == Min({n, length - f})
    <3>1. f \in Nat /\ m \in Nat /\ f + m <= length /\ ends[c - 1] = f /\ ends[c] = f + m
      BY <2>4
    <3>2. v[c] = [k \in 1 .. m |-> ItemAt(array, f + k - 1)]
      OBVIOUS
    <3>3. c < C => m = n
      BY <2>4
    <3> HIDE DEF v, m, f
    <3>4. ASSUME NEW k \in 1 .. m
          PROVE  ItemAt(array, f + k - 1) = before[f + k] /\ before[f + k] \in Elements
      <4>1. f + k - 1 \in 0 .. length - 1 /\ f + k - 1 + 1 = f + k /\ f + k \in 1 .. length
        BY <2>1, <3>1
      <4> QED  BY <2>1, <4>1, ElementOfSeq
    <3>5. v[c] \in [1 .. m -> Elements] /\ \A k \in 1 .. m : v[c][k] = before[f + k]
      BY <3>2, <3>4
    <3>6. v[c] \in Seq(Elements) /\ Len(v[c]) = m
      <4> DEFINE w == v[c]
      <4> HIDE DEF w
      <4>1. w \in [1 .. m -> Elements] /\ m \in Nat
        BY <3>1, <3>5 DEF w
      <4>2. w \in Seq(Elements) /\ Len(w) = m
        BY <4>1, IsSeq
      <4> QED  BY <4>2 DEF w
    <3> DEFINE x == f + 1
               y == f + m
               t == SubSeq(before, x, y)
    <3>7. x \in Int /\ y \in Int /\ y - x + 1 = m /\ (x <= y <=> m # 0) /\ \A k \in Int : x + k - 1 = f + k
      BY <3>1
    <3>8. \A k \in x .. y : before[k] \in Elements
      <4>1. \A k \in 1 .. length : before[k] \in Elements
        BY <2>1, ElementOfSeq
      <4> QED  BY <2>1, <3>1, <4>1
    <3> HIDE DEF x, y
    <3>9. /\ t \in Seq(Elements) /\ Len(t) = (IF x <= y THEN y - x + 1 ELSE 0)
          /\ \A k \in 1 .. y - x + 1 : t[k] = before[x + k - 1]
      BY <3>7, <3>8, SubSeqProperties
    <3> HIDE DEF t
    <3>10. Len(t) = m /\ \A k \in 1 .. m : t[k] = before[f + k]
      <4>1. Len(t) = m
        <5>1. m = 0 => ~ (x <= y)
          BY <3>7
        <5> QED  BY <3>1, <3>9, <3>7, <5>1
      <4>2. ASSUME NEW k \in 1 .. m
            PROVE  t[k] = before[f + k]
        <5>1. k \in 1 .. y - x + 1 /\ x + k - 1 = f + k
          BY <3>1, <3>7
        <5>2. t[k] = before[x + k - 1]
          BY <3>9, <5>1
        <5> QED  BY <5>1, <5>2
      <4> QED  BY <4>1, <4>2
    <3>11. v[c] = t
      <4> DEFINE w == v[c]
      <4>1. w \in Seq(Elements) /\ Len(w) = Len(t) /\ \A k \in 1 .. Len(w) : w[k] = t[k]
        BY <3>5, <3>6, <3>10
      <4> HIDE DEF w
      <4>2. w = t
        BY <3>9, <4>1, SeqsEqual
      <4> QED  BY <4>2 DEF w
    <3> QED  BY <3>1, <3>3, <3>6, <3>11 DEF t, x, y
  <2>8. v = [c \in 1 .. C |-> SubSeq(before, ends[c - 1] + 1, ends[c])]
    <3>1. v = [c \in 1 .. C |-> v[c]]
      OBVIOUS
    <3> HIDE DEF v
    <3> QED  BY <2>7, <3>1
  <2>9. DOMAIN v = 1 .. C /\ Len(v) = C
    <3>1. DOMAIN v = 1 .. C
      OBVIOUS
    <3>2. v \in [1 .. C -> {v[c] : c \in 1 .. C}]
      BY <2>8
    <3> HIDE DEF v
    <3> QED  BY <2>2, <3>1, <3>2, IsSeq
  <2> HIDE DEF v
  <2>10. FlattenSeq(v) = before
    <3>1. before \in Seq(Elements) /\ Len(before) = length /\ C \in Nat
      BY <2>1, <2>2
    <3>2. ends[0] = 0 /\ ends[C] = Len(before) /\ \A c \in 1 .. C : ends[c - 1] <= ends[c]
      BY <2>5, <2>7, <3>1
    <3> HIDE DEF C
    <3> QED  BY <2>6, <2>8, <3>1, <3>2, Flattened
  <2>11. \A k \in DOMAIN v : k < Len(v) => Len(v[k]) = n
    BY <2>7, <2>9
  <2>12. PromisedAnswer("chunk", <<n>>)'
    BY <2>1, <2>10, <2>11 DEF PromisedAnswer
  <2> QED  BY <2>1, <2>12
<1> QED  BY <1>1, <1>2 DEF Chunk

LEMMA Swapped ==
  ASSUME NEW S, NEW T, NEW list \in Seq(S), NEW l \in Seq(T), Rearranged(list, l), NEW i \in 1 .. Len(list), NEW j \in 1 .. Len(list)
  PROVE  [l EXCEPT ![i] = l[j], ![j] = l[i]] \in Seq(T) /\ Rearranged(list, [l EXCEPT ![i] = l[j], ![j] = l[i]])
<1> DEFINE n == Len(list)
           new == [l EXCEPT ![i] = l[j], ![j] = l[i]]
<1>1. n \in Nat /\ DOMAIN list = 1 .. n /\ Len(l) = n /\ DOMAIN l = 1 .. n /\ l \in [1 .. n -> T]
  BY LenProperties DEF Rearranged
<1>2. PICK p \in Orders(n) : l = [k \in DOMAIN list |-> list[p[k]]]
  BY DEF Rearranged
<1> DEFINE q == [k \in 1 .. n |-> IF k = j THEN p[i] ELSE IF k = i THEN p[j] ELSE p[k]]
<1>3. /\ p \in [1 .. n -> 1 .. n] /\ \A a, b \in 1 .. n : a # b => p[a] # p[b]
      /\ \A k \in 1 .. n : l[k] = list[p[k]]
  BY <1>1, <1>2 DEF Orders
<1>4. /\ DOMAIN new = 1 .. n /\ new \in [1 .. n -> T]
      /\ \A k \in 1 .. n : new[k] = IF k = j THEN l[i] ELSE IF k = i THEN l[j] ELSE l[k]
  BY <1>1
<1>5. new \in Seq(T) /\ Len(new) = n
  <2> HIDE DEF new
  <2> QED  BY <1>1, <1>4, IsSeq
<1>6. \A k \in 1 .. n : q[k] = IF k = j THEN p[i] ELSE IF k = i THEN p[j] ELSE p[k]
  OBVIOUS
<1>7. q \in Orders(n)
  <2>1. q \in [1 .. n -> 1 .. n]
    BY <1>3
  <2> HIDE DEF q
  <2>2. ASSUME NEW a \in 1 .. n, NEW b \in 1 .. n, a # b
        PROVE  q[a] # q[b]
    <3> DEFINE o(k) == IF k = j THEN i ELSE IF k = i THEN j ELSE k
    <3>1. o(a) \in 1 .. n /\ o(b) \in 1 .. n /\ o(a) # o(b)
      BY <1>1, <2>2
    <3>2. q[a] = p[o(a)] /\ q[b] = p[o(b)]
      BY <1>6
    <3> HIDE DEF o
    <3> QED  BY <1>3, <3>1, <3>2
  <2> QED  BY <2>1, <2>2 DEF Orders
<1>8. new = [k \in DOMAIN list |-> list[q[k]]]
  <2>1. new = [k \in 1 .. n |-> new[k]]
    BY <1>4
  <2>2. \A k \in 1 .. n : new[k] = list[q[k]]
    <3> HIDE DEF q, new
    <3> QED  BY <1>3, <1>4, <1>6
  <2> HIDE DEF q, new
  <2> QED  BY <1>1, <2>1, <2>2
<1> HIDE DEF q, new
<1>9. Rearranged(list, new)
  BY <1>5, <1>7, <1>8 DEF Rearranged
<1> QED  BY <1>5, <1>9 DEF new

LEMMA ShuffleItKeeps ==
  ASSUME Began, NEW picks \in [1 .. MaxCount -> 0 .. MaxCount - 1], ShuffleIt(picks)
  PROVE  Typed' /\ made' = <<>> /\ doing'.how \in {"answered", "chucked"} /\ Promised'
<1> DEFINE n == IF length = 0 THEN 0 ELSE length - 1
           T == {l \in Seq(Elements) : Rearranged(before, l)}
           Swap(list, k) == LET i == length + 1 - k
                                j == (picks[i] % i) + 1
                            IN [list EXCEPT ![i] = list[j], ![j] = list[i]]
           step == [p \in T \X (1 .. n) |-> Swap(p[1], p[2])]
           Goes(f) == f = [k \in 0 .. n |-> IF k = 0 THEN Contents(Now) ELSE Swap(f[k - 1], k)]
           after == CHOOSE f : Goes(f)
<1>1. Answers("shuffle_it", <<>>, Now, after[n])
  BY DEF ShuffleIt, Looped
<1> HIDE DEF after
<1>2. /\ length = Len(before) /\ before \in Seq(Elements) /\ length \in Nat /\ n \in Nat /\ Contents(Now) = before
      /\ Typed' /\ made' = <<>> /\ doing'.how = "answered" /\ told' = after[n] /\ before' = before
      /\ PromisedAnswer("shuffle_it", <<>>)' => Promised'
  BY <1>1, ReadsKeep
<1>3. length <= MaxCount
  BY <1>2 DEF Began, Typed
<1>4. before \in T
  BY <1>2, RearrangedItself
<1>5. ASSUME NEW l \in T, NEW k \in 1 .. n
      PROVE  Swap(l, k) \in T
  <2> DEFINE i == length + 1 - k
             j == (picks[i] % i) + 1
  <2>1. i \in 1 .. length /\ i \in Nat \ {0}
    BY <1>2
  <2>2. picks[i] \in Nat
    <3>1. i \in 1 .. MaxCount
      BY <1>2, <1>3, <2>1, StashAssumption
    <3> HIDE DEF i
    <3>2. picks[i] \in 0 .. MaxCount - 1
      BY <3>1
    <3> QED  BY <3>2, StashAssumption
  <2>3. j \in 1 .. length
    <3> DEFINE x == picks[i]
    <3> HIDE DEF i, x
    <3>1. x % i \in 0 .. i - 1
      BY <2>1, <2>2, ModIs DEF x
    <3>2. j = (x % i) + 1
      BY DEF x
    <3> QED  BY <1>2, <2>1, <3>1, <3>2
  <2> HIDE DEF i, j
  <2>4. i \in 1 .. Len(before) /\ j \in 1 .. Len(before)
    BY <1>2, <2>1, <2>3
  <2>5. [l EXCEPT ![i] = l[j], ![j] = l[i]] \in T
    BY <1>2, <2>4, Swapped
  <2> QED  BY <2>5 DEF i, j
<1>6. \E f : Goes(f)
  <2> HIDE DEF Swap, T
  <2>1. step \in [T \X (1 .. n) -> T]
    BY <1>5
  <2>2. \A l \in T, k \in 1 .. n : step[<<l, k>>] = Swap(l, k)
    OBVIOUS
  <2> HIDE DEF step, n
  <2>3. PICK f : Rounds(f, T, step, before, n)
    BY <1>2, <1>4, <2>1, RoundsExist
  <2>4. ASSUME NEW k \in 0 .. n
        PROVE  f[k] = IF k = 0 THEN before ELSE Swap(f[k - 1], k)
    <3>1. f[k] = IF k = 0 THEN before ELSE step[<<f[k - 1], k>>]
      BY <2>3 DEF Rounds
    <3>2. k # 0 => f[k - 1] \in T /\ k \in 1 .. n
      BY <1>2, <2>3 DEF Rounds
    <3> QED  BY <2>2, <3>1, <3>2
  <2>5. f = [k \in 0 .. n |-> IF k = 0 THEN before ELSE Swap(f[k - 1], k)]
    BY <2>3, <2>4 DEF Rounds
  <2> QED  BY <1>2, <2>5
<1>7. Goes(after)
  BY <1>6 DEF after
<1>8. \A k \in 0 .. n : after[k] = IF k = 0 THEN before ELSE Swap(after[k - 1], k)
  <2> HIDE DEF Swap
  <2> QED  BY <1>2, <1>7
<1> HIDE DEF Goes, n, Swap, T
<1> DEFINE U == {k \in Nat : k <= n => after[k] \in T}
<1>9. 0 \in U
  BY <1>2, <1>4, <1>8
<1>10. ASSUME NEW k \in Nat \ {0}, k - 1 \in U
       PROVE  k \in U
  <2> SUFFICES ASSUME k <= n
               PROVE  after[k] \in T
    OBVIOUS
  <2>1. after[k] = Swap(after[k - 1], k) /\ after[k - 1] \in T /\ k \in 1 .. n
    BY <1>2, <1>8, <1>10
  <2> QED  BY <1>5, <2>1
<1> HIDE DEF U
<1>11. n \in U
  BY <1>2, <1>9, <1>10, AllNaturals
<1>12. Rearranged(before, after[n])
  BY <1>2, <1>11 DEF U, T
<1>13. PromisedAnswer("shuffle_it", <<>>)'
  BY <1>2, <1>12 DEF PromisedAnswer
<1> QED  BY <1>2, <1>13

\* A stash of one element, or none, is sorted as it is.
LEMMA ShortSortKeeps ==
  ASSUME Began, NEW cmp, length <= 1, Answers("sort", cmp, Now, "stash")
  PROVE  Typed' /\ made' = <<>> /\ doing'.how \in {"answered", "chucked"} /\ Promised'
<1>1. Done("sort", cmp, "answered", Now, "stash") /\ Sound(Now)
  BY NowIsSound DEF Answers, Began
<1>2. /\ Contents(Now) = before /\ length = Len(before) /\ length \in 0 .. Len(array) /\ Len(array) \in Nat
      /\ doing'.method = "sort" /\ doing'.args = cmp /\ doing'.how = "answered"
      /\ Typed' /\ made' = <<>> /\ before' = before /\ Now' = Now
  BY <1>1, DoneIs DEF Began
<1>3. before \in Seq(Elements) /\ DOMAIN before = 1 .. length
  <2>1. before \in Seq(Elements)
    BY DEF Began, Typed
  <2> QED  BY <1>2, <2>1, LenProperties
<1>4. Rearranged(before, before)
  BY <1>3, RearrangedItself
<1>5. Ordered(before, before, ItemLess, before) /\ \A rank : SortsBy(rank, before)
  <2>1. PICK p \in Orders(Len(before)) : before = [k \in DOMAIN before |-> before[p[k]]]
    BY <1>4 DEF Rearranged
  <2>2. \A a, b \in DOMAIN before : ~ (a < b)
    BY <1>2, <1>3
  <2> QED  BY <2>1, <2>2 DEF Ordered, SortsBy
<1>6. Promise("sort", cmp, Contents(Now))'
  <2>1. told' = "stash" /\ Contents(Now)' = before
    BY <1>1, <1>2 DEF Done
  <2>2. Answer(before)' = before /\ InPlaceOrNot(before)'
    BY <1>2, <2>1 DEF Answer, InPlaceOrNot
  <2> QED  BY <1>2, <1>4, <1>5, <2>1, <2>2 DEF Promise, Ordered, ItemLess, SortsBy
<1>7. PromisedAnswer("sort", cmp)'
  BY DEF PromisedAnswer
<1> QED  BY <1>2, <1>6, <1>7 DEF Promised

-----------------------------------------------------------------------------
(* Orders *)

\* Of places 1 to m: pairs in less are in order, and in no_less the first is not before the second.
Sorts(q, m, less, no_less) ==
    \A a, b \in 1 .. m : a < b =>
        <<q[b], q[a]>> \in no_less /\ (<<q[a], q[b]>> \in less \/ q[a] < q[b])

\* What sorting n things needs to know of them.
Orderly(n, less, no_less) ==
    /\ \A a, b \in 1 .. n : <<a, b>> \in less => <<b, a>> \in no_less
    /\ \A a, b, c \in 1 .. n : <<a, b>> \in no_less /\ <<b, c>> \in no_less => <<a, c>> \in no_less

\* The next place, put after the first j.
Inserted(q, m, j) == [k \in 1 .. m + 1 |-> IF k <= j THEN q[k] ELSE IF k = j + 1 THEN m + 1 ELSE q[k - 1]]

LEMMA OrdersAre ==
  ASSUME NEW m \in Nat, NEW q \in Orders(m)
  PROVE  /\ q \in [1 .. m -> 1 .. m] /\ DOMAIN q = 1 .. m
         /\ \A a, b \in 1 .. m : a # b => q[a] # q[b]
BY DEF Orders

LEMMA InsertedIs ==
  ASSUME NEW m \in Nat, NEW q \in Orders(m), NEW j \in 0 .. m
  PROVE  LET new == Inserted(q, m, j)
         IN /\ new \in Orders(m + 1)
            /\ \A k \in 1 .. m + 1 : new[k] = IF k <= j THEN q[k] ELSE IF k = j + 1 THEN m + 1 ELSE q[k - 1]
            /\ \A k \in 1 .. j : k \in 1 .. m + 1 /\ new[k] = q[k]
            /\ j + 1 \in 1 .. m + 1 /\ new[j + 1] = m + 1
            /\ \A k \in j + 1 .. m : k + 1 \in 1 .. m + 1 /\ new[k + 1] = q[k]
<1> DEFINE new == Inserted(q, m, j)
<1>1. /\ q \in [1 .. m -> 1 .. m] /\ \A a, b \in 1 .. m : a # b => q[a] # q[b]
  BY OrdersAre
<1>2. \A k \in 1 .. m + 1 : new[k] = IF k <= j THEN q[k] ELSE IF k = j + 1 THEN m + 1 ELSE q[k - 1]
  BY DEF Inserted
<1>3. new = [k \in 1 .. m + 1 |-> new[k]]
  BY DEF Inserted
<1> HIDE DEF new
<1>4. ASSUME NEW k \in 1 .. m + 1
      PROVE  \/ k \in 1 .. j /\ k \in 1 .. m /\ new[k] = q[k]
             \/ k = j + 1 /\ new[k] = m + 1
             \/ k \in j + 2 .. m + 1 /\ k - 1 \in 1 .. m /\ new[k] = q[k - 1]
  <2>1. CASE k <= j
    BY <1>2, <2>1
  <2>2. CASE k = j + 1
    BY <1>2, <2>2
  <2>3. CASE k > j + 1
    BY <1>2, <2>3
  <2>4. k <= j \/ k = j + 1 \/ k > j + 1
    OBVIOUS
  <2> QED  BY <2>1, <2>2, <2>3, <2>4
<1>5. \A k \in 1 .. m : q[k] \in 1 .. m /\ q[k] # m + 1 /\ q[k] \in 1 .. m + 1
  BY <1>1
<1>6. new \in [1 .. m + 1 -> 1 .. m + 1]
  BY <1>3, <1>4, <1>5
<1>7. ASSUME NEW a \in 1 .. m + 1, NEW b \in 1 .. m + 1, a # b
      PROVE  new[a] # new[b]
  <2>1. CASE a = j + 1
    BY <1>4, <1>5, <1>7, <2>1
  <2>2. CASE b = j + 1
    BY <1>4, <1>5, <1>7, <2>2
  <2>3. CASE a # j + 1 /\ b # j + 1
    <3> DEFINE o(k) == IF k <= j THEN k ELSE k - 1
    <3>1. o(a) \in 1 .. m /\ o(b) \in 1 .. m /\ o(a) # o(b)
      BY <1>7, <2>3
    <3>2. new[a] = q[o(a)] /\ new[b] = q[o(b)]
      BY <1>2, <2>3
    <3> HIDE DEF o
    <3> QED  BY <1>1, <3>1, <3>2
  <2> QED  BY <2>1, <2>2, <2>3
<1>8. new \in Orders(m + 1)
  BY <1>6, <1>7 DEF Orders
<1>9. \A k \in 1 .. j : k \in 1 .. m + 1 /\ new[k] = q[k]
  BY <1>2
<1>10. j + 1 \in 1 .. m + 1 /\ new[j + 1] = m + 1
  BY <1>2
<1>11. ASSUME NEW k \in j + 1 .. m
       PROVE  k + 1 \in 1 .. m + 1 /\ new[k + 1] = q[k]
  <2>1. k + 1 \in 1 .. m + 1 /\ ~ (k + 1 <= j) /\ k + 1 # j + 1 /\ k + 1 - 1 = k
    OBVIOUS
  <2> QED  BY <1>2, <2>1
<1> QED  BY <1>2, <1>8, <1>9, <1>10, <1>11 DEF new

LEMMA InsertedSorts ==
  ASSUME NEW m \in Nat, NEW q \in Orders(m), NEW j \in 0 .. m, NEW less, NEW no_less, NEW n \in Nat, m + 1 <= n,
         Sorts(q, m, less, no_less), Orderly(n, less, no_less),
         j > 0 => <<m + 1, q[j]>> \in no_less,
         \A k \in j + 1 .. m : <<m + 1, q[k]>> \in less
  PROVE  Sorts(Inserted(q, m, j), m + 1, less, no_less)
<1> DEFINE new == Inserted(q, m, j)
<1>1. \A k \in 1 .. m + 1 : new[k] = IF k <= j THEN q[k] ELSE IF k = j + 1 THEN m + 1 ELSE q[k - 1]
  BY InsertedIs
<1>2. \A k \in 1 .. m : q[k] \in 1 .. m /\ q[k] \in 1 .. n
  BY OrdersAre
<1> HIDE DEF new
<1> SUFFICES ASSUME NEW a \in 1 .. m + 1, NEW b \in 1 .. m + 1, a < b
             PROVE  <<new[b], new[a]>> \in no_less /\ (<<new[a], new[b]>> \in less \/ new[a] < new[b])
  BY DEF Sorts, new
<1>3. m + 1 \in 1 .. n
  OBVIOUS
<1>4. CASE a = j + 1
  <2>1. b - 1 \in j + 1 .. m /\ b - 1 \in 1 .. m /\ ~ (b <= j) /\ b # j + 1
    BY <1>4
  <2>2. new[a] = m + 1 /\ new[b] = q[b - 1]
    BY <1>1, <1>4, <2>1
  <2>3. <<m + 1, q[b - 1]>> \in less
    BY <2>1
  <2>4. <<q[b - 1], m + 1>> \in no_less
    BY <1>2, <1>3, <2>1, <2>3 DEF Orderly
  <2> QED  BY <2>2, <2>3, <2>4
<1>5. CASE b = j + 1
  <2>1. a \in 1 .. j /\ a \in 1 .. m /\ j \in 1 .. m /\ j > 0 /\ ~ (b <= j)
    BY <1>5
  <2>2. new[a] = q[a] /\ new[b] = m + 1
    BY <1>1, <1>5, <2>1
  <2>3. <<m + 1, q[a]>> \in no_less
    <3>1. CASE a = j
      BY <2>1, <3>1
    <3>2. CASE a < j
      <4>1. <<q[j], q[a]>> \in no_less /\ <<m + 1, q[j]>> \in no_less
        BY <2>1, <3>2 DEF Sorts
      <4> QED  BY <1>2, <1>3, <2>1, <4>1 DEF Orderly
    <3> QED  BY <2>1, <3>1, <3>2
  <2>4. q[a] < m + 1
    BY <1>2, <2>1
  <2> QED  BY <2>2, <2>3, <2>4
<1>6. CASE a # j + 1 /\ b # j + 1
  <2> DEFINE o(k) == IF k <= j THEN k ELSE k - 1
  <2>1. o(a) \in 1 .. m /\ o(b) \in 1 .. m /\ o(a) < o(b)
    BY <1>6
  <2>2. new[a] = q[o(a)] /\ new[b] = q[o(b)]
    BY <1>1, <1>6
  <2> HIDE DEF o
  <2> QED  BY <2>1, <2>2 DEF Sorts
<1> QED  BY <1>4, <1>5, <1>6

\* default_less orders what it can compare.
LEMMA ComparisonIs ==
  /\ \A a, b : Comparison(a, b) = "less" => Comparison(b, a) = "not"
  /\ \A a, b, c : Comparison(a, b) = "not" /\ Comparison(b, c) = "not" => Comparison(a, c) = "not"
<1>1. ASSUME NEW a, NEW b
      PROVE  /\ Comparison(a, b) = "less" <=>
                  \/ a \in Numbas /\ b \notin Numbas
                  \/ (a \in Numbas <=> b \in Numbas) /\ a \in DOMAIN Rank /\ b \in DOMAIN Rank /\ Rank[a] < Rank[b]
             /\ Comparison(a, b) = "not" <=>
                  \/ a \notin Numbas /\ b \in Numbas
                  \/ (a \in Numbas <=> b \in Numbas) /\ a \in DOMAIN Rank /\ b \in DOMAIN Rank /\ ~ (Rank[a] < Rank[b])
  <2>1. ((a \in Numbas) = (b \in Numbas)) <=> (a \in Numbas <=> b \in Numbas)
    OBVIOUS
  <2>2. {a, b} \subseteq DOMAIN Rank <=> a \in DOMAIN Rank /\ b \in DOMAIN Rank
    OBVIOUS
  <2>3. CASE ~ (a \in Numbas <=> b \in Numbas)
    <3>1. Comparison(a, b) = IF a \in Numbas THEN "less" ELSE "not"
      BY <2>1, <2>3 DEF Comparison
    <3> QED  BY <2>3, <3>1
  <2>4. CASE (a \in Numbas <=> b \in Numbas) /\ {a, b} \subseteq DOMAIN Rank
    <3>1. Comparison(a, b) = IF Rank[a] < Rank[b] THEN "less" ELSE "not"
      BY <2>1, <2>4 DEF Comparison
    <3> QED  BY <2>2, <2>4, <3>1
  <2>5. CASE (a \in Numbas <=> b \in Numbas) /\ ~ ({a, b} \subseteq DOMAIN Rank)
    <3>1. Comparison(a, b) = "can't compare"
      BY <2>1, <2>5 DEF Comparison
    <3> QED  BY <2>2, <2>5, <3>1
  <2> QED  BY <2>3, <2>4, <2>5
<1>2. \A v \in DOMAIN Rank : Rank[v] \in Int
  BY StashAssumption
<1>3. ASSUME NEW a, NEW b, Comparison(a, b) = "less"
      PROVE  Comparison(b, a) = "not"
  BY <1>1, <1>2, <1>3
<1>4. ASSUME NEW a, NEW b, NEW c, Comparison(a, b) = "not", Comparison(b, c) = "not"
      PROVE  Comparison(a, c) = "not"
  <2>1. \/ a \notin Numbas /\ b \in Numbas
        \/ (a \in Numbas <=> b \in Numbas) /\ a \in DOMAIN Rank /\ b \in DOMAIN Rank /\ ~ (Rank[a] < Rank[b])
    BY <1>1, <1>4
  <2>2. \/ b \notin Numbas /\ c \in Numbas
        \/ (b \in Numbas <=> c \in Numbas) /\ b \in DOMAIN Rank /\ c \in DOMAIN Rank /\ ~ (Rank[b] < Rank[c])
    BY <1>1, <1>4
  <2>3. \/ a \notin Numbas /\ c \in Numbas
        \/ (a \in Numbas <=> c \in Numbas) /\ a \in DOMAIN Rank /\ c \in DOMAIN Rank /\ ~ (Rank[a] < Rank[c])
    BY <1>2, <2>1, <2>2
  <2> QED  BY <1>1, <2>3
<1> QED  BY <1>3, <1>4

\* So does sort_by_less, where none or all are boolskis.
LEMMA KeyComparisonIs ==
  ASSUME NEW K, Boolskis \cap K = {} \/ K \subseteq Boolskis
  PROVE  /\ \A a, b \in K : KeyComparison(a, b) = "less" => KeyComparison(b, a) = "not"
         /\ \A a, b, c \in K : KeyComparison(a, b) = "not" /\ KeyComparison(b, c) = "not" => KeyComparison(a, c) = "not"
<1>1. CASE Boolskis \cap K = {}
  <2>1. \A a, b \in K : KeyComparison(a, b) = Comparison(a, b)
    BY <1>1 DEF KeyComparison
  <2> QED  BY <2>1, ComparisonIs
<1>2. CASE K \subseteq Boolskis
  <2>1. \A a, b \in K : KeyComparison(a, b) = IF a \notin TruthyOnes /\ b \in TruthyOnes THEN "less" ELSE "not"
    BY <1>2 DEF KeyComparison
  <2> QED  BY <2>1
<1> QED  BY <1>1, <1>2

-----------------------------------------------------------------------------
(* Methods that call a function for every element *)

LEMMA CallsAre ==
  ASSUME NEW m \in Seq(CallRecords)
  PROVE  /\ Len(m) \in Nat /\ DOMAIN m = 1 .. Len(m)
         /\ \A k \in 1 .. Len(m) : m[k].result \in AnyResult /\ m[k].args \in Seq(Values) /\ Last(m[k].args) \in Values
<1>1. Len(m) \in Nat /\ DOMAIN m = 1 .. Len(m)
  BY LenProperties
<1>2. ASSUME NEW k \in 1 .. Len(m)
      PROVE  m[k].result \in AnyResult /\ m[k].args \in Seq(Values) /\ Last(m[k].args) \in Values
  <2> DEFINE args == m[k].args
  <2>1. m[k] \in CallRecords
    BY ElementOfSeq
  <2>2. m[k].result \in AnyResult /\ args \in Seq(Values) /\ args # <<>>
    BY <2>1 DEF CallRecords
  <2> HIDE DEF args
  <2>3. Len(args) \in Nat \ {0}
    BY <2>2, EmptySeq
  <2>4. args[Len(args)] \in Values
    <3>1. Len(args) \in 1 .. Len(args)
      BY <2>3
    <3> QED  BY <2>2, <3>1, ElementOfSeq
  <2> QED  BY <2>2, <2>4 DEF Last, args
<1> QED  BY <1>1, <1>2

LEMMA CallsTell ==
  ASSUME NEW m \in Seq(CallRecords)
  PROVE  LET given == [k \in DOMAIN m |-> Last(m[k].args)]
             got == [k \in DOMAIN m |-> m[k].result]
         IN /\ given \in Seq(Values) /\ Len(given) = Len(m) /\ DOMAIN given = 1 .. Len(m)
            /\ got \in Seq(AnyResult) /\ Len(got) = Len(m) /\ DOMAIN got = 1 .. Len(m)
            /\ \A k \in 1 .. Len(m) : given[k] = Last(m[k].args) /\ got[k] = m[k].result
<1> DEFINE given == [k \in DOMAIN m |-> Last(m[k].args)]
           got == [k \in DOMAIN m |-> m[k].result]
<1>1. /\ Len(m) \in Nat /\ DOMAIN m = 1 .. Len(m)
      /\ \A k \in 1 .. Len(m) : m[k].result \in AnyResult /\ Last(m[k].args) \in Values
  BY CallsAre
<1>2. given \in [1 .. Len(m) -> Values] /\ \A k \in 1 .. Len(m) : given[k] = Last(m[k].args)
  BY <1>1
<1>3. got \in [1 .. Len(m) -> AnyResult] /\ \A k \in 1 .. Len(m) : got[k] = m[k].result
  BY <1>1
<1> HIDE DEF given, got
<1>4. given \in Seq(Values) /\ Len(given) = Len(m) /\ DOMAIN given = 1 .. Len(m)
  BY <1>1, <1>2, IsSeq
<1>5. got \in Seq(AnyResult) /\ Len(got) = Len(m) /\ DOMAIN got = 1 .. Len(m)
  BY <1>1, <1>3, IsSeq
<1> QED  BY <1>2, <1>3, <1>4, <1>5 DEF given, got

LEMMA GivenAndGot ==
  ASSUME made \in Seq(CallRecords)
  PROVE  /\ Given \in Seq(Values) /\ Len(Given) = Len(made) /\ DOMAIN Given = 1 .. Len(made)
         /\ Got \in Seq(AnyResult) /\ Len(Got) = Len(made) /\ DOMAIN Got = 1 .. Len(made)
         /\ \A k \in 1 .. Len(made) : Given[k] = Last(made[k].args) /\ Got[k] = made[k].result
BY CallsTell DEF Given, Got

LEMMA OneMoreCall ==
  ASSUME made \in Seq(CallRecords), NEW args \in Seq(Values) \ {<<>>}, NEW r \in AnyResult,
         made' = Append(made, [args |-> args, result |-> r])
  PROVE  /\ made' \in Seq(CallRecords) /\ Len(made') = Len(made) + 1
         /\ \A k \in 1 .. Len(made) : made'[k] = made[k]
         /\ made'[Len(made) + 1] = [args |-> args, result |-> r]
         /\ Given' = Append(Given, Last(args)) /\ Got' = Append(Got, r)
<1> DEFINE n == Len(made)
           c == [args |-> args, result |-> r]
<1>1. c \in CallRecords /\ c.args = args /\ c.result = r
  BY DEF CallRecords
<1>2. n \in Nat
  BY LenProperties
<1> HIDE DEF c
<1>3. /\ made' \in Seq(CallRecords) /\ Len(made') = n + 1
      /\ (\A k \in 1 .. n : made'[k] = made[k]) /\ made'[n + 1] = c
  BY <1>1, AppendProperties DEF c
<1>4. /\ Given \in Seq(Values) /\ Len(Given) = n /\ Got \in Seq(AnyResult) /\ Len(Got) = n
      /\ \A k \in 1 .. n : Given[k] = Last(made[k].args) /\ Got[k] = made[k].result
  BY GivenAndGot
<1>5. /\ Given' \in Seq(Values) /\ Len(Given') = n + 1 /\ Got' \in Seq(AnyResult) /\ Len(Got') = n + 1
      /\ \A k \in 1 .. n + 1 : Given'[k] = Last(made'[k].args) /\ Got'[k] = made'[k].result
  BY <1>3, CallsTell DEF Given, Got
<1>6. ASSUME NEW k \in 1 .. n + 1
      PROVE  \/ k \in 1 .. n /\ made'[k] = made[k]
             \/ k = n + 1 /\ made'[k].args = args /\ made'[k].result = r
  <2>1. k \in 1 .. n \/ k = n + 1
    BY <1>2
  <2> QED  BY <1>1, <1>3, <2>1
<1>7. Given' = Append(Given, Last(args))
  <2>1. Last(args) \in Values
    <3>1. Len(args) \in Nat \ {0}
      BY EmptySeq
    <3>2. Len(args) \in 1 .. Len(args)
      BY <3>1
    <3> QED  BY <3>2, ElementOfSeq DEF Last
  <2> DEFINE t == Append(Given, Last(args))
  <2>2. /\ t \in Seq(Values) /\ Len(t) = n + 1 /\ (\A k \in 1 .. n : t[k] = Given[k]) /\ t[n + 1] = Last(args)
    BY <1>4, <2>1, AppendProperties
  <2> HIDE DEF t
  <2>3. ASSUME NEW k \in 1 .. n + 1
        PROVE  Given'[k] = t[k]
    <3>1. Given'[k] = Last(made'[k].args)
      BY <1>5
    <3>2. CASE k \in 1 .. n /\ made'[k] = made[k]
      BY <1>4, <2>2, <3>1, <3>2
    <3>3. CASE k = n + 1 /\ made'[k].args = args /\ made'[k].result = r
      BY <2>2, <3>1, <3>3
    <3> QED  BY <1>6, <3>2, <3>3
  <2>4. Given' = t
    BY <1>5, <2>2, <2>3, SeqsEqual
  <2> QED  BY <2>4 DEF t
<1>8. Got' = Append(Got, r)
  <2> DEFINE t == Append(Got, r)
  <2>1. /\ t \in Seq(AnyResult) /\ Len(t) = n + 1 /\ (\A k \in 1 .. n : t[k] = Got[k]) /\ t[n + 1] = r
    BY <1>4, AppendProperties
  <2> HIDE DEF t
  <2>2. ASSUME NEW k \in 1 .. n + 1
        PROVE  Got'[k] = t[k]
    <3>1. Got'[k] = made'[k].result
      BY <1>5
    <3>2. CASE k \in 1 .. n /\ made'[k] = made[k]
      BY <1>4, <2>1, <3>1, <3>2
    <3>3. CASE k = n + 1 /\ made'[k].args = args /\ made'[k].result = r
      BY <2>1, <3>1, <3>3
    <3> QED  BY <1>6, <3>2, <3>3
  <2>3. Got' = t
    BY <1>5, <2>1, <2>2, SeqsEqual
  <2> QED  BY <2>3 DEF t
<1> QED  BY <1>3, <1>7, <1>8 DEF c

LEMMA PickedMore ==
  ASSUME NEW S, NEW list \in Seq(S), NEW new \in Seq(S), NEW places \in SUBSET (1 .. Len(list)),
         Picked(list, places, new), NEW v \in S
  PROVE  /\ Picked(Append(list, v), places, new)
         /\ Picked(Append(list, v), places \cup {Len(list) + 1}, Append(new, v))
<1> DEFINE n == Len(list)
           m == Len(new)
           longer == Append(list, v)
           more == Append(new, v)
<1>1. PICK p \in [1 .. m -> places] :
        /\ \A place \in places : \E k \in DOMAIN p : p[k] = place
        /\ \A a, b \in DOMAIN p : a < b => p[a] < p[b]
        /\ \A k \in DOMAIN new : new[k] = list[p[k]]
  BY DEF Picked
<1>2. n \in Nat /\ m \in Nat /\ DOMAIN p = 1 .. m /\ DOMAIN new = 1 .. m
  BY LenProperties
<1>3. (\A k \in 1 .. n : longer[k] = list[k]) /\ longer[n + 1] = v
  BY AppendProperties
<1>4. /\ more \in Seq(S) /\ Len(more) = m + 1 /\ DOMAIN more = 1 .. m + 1
      /\ (\A k \in 1 .. m : more[k] = new[k]) /\ more[m + 1] = v
  <2>1. /\ more \in Seq(S) /\ Len(more) = m + 1
        /\ (\A k \in 1 .. m : more[k] = new[k]) /\ more[m + 1] = v
    BY AppendProperties
  <2> HIDE DEF more
  <2> QED  BY <2>1, LenProperties
<1>5. \A k \in 1 .. m : p[k] \in places /\ p[k] \in 1 .. n
  BY <1>2
<1> HIDE DEF n, m, longer, more
<1>6. Picked(longer, places, new)
  <2>1. \A k \in DOMAIN new : new[k] = longer[p[k]]
    BY <1>1, <1>2, <1>3, <1>5
  <2> QED  BY <1>1, <2>1 DEF Picked, m
<1>7. Picked(longer, places \cup {n + 1}, more)
  <2> DEFINE all == places \cup {n + 1}
             q == [k \in 1 .. m + 1 |-> IF k = m + 1 THEN n + 1 ELSE p[k]]
  <2>1. q \in [1 .. m + 1 -> all]
    BY <1>2, <1>5
  <2>2. /\ \A k \in 1 .. m : k \in 1 .. m + 1 /\ q[k] = p[k]
        /\ m + 1 \in 1 .. m + 1 /\ q[m + 1] = n + 1 /\ DOMAIN q = 1 .. m + 1
    BY <1>2
  <2>3. \A k \in 1 .. m + 1 : k \in 1 .. m \/ k = m + 1
    BY <1>2
  <2> HIDE DEF q
  <2>4. \A place \in all : \E k \in DOMAIN q : q[k] = place
    BY <1>1, <1>2, <2>2
  <2>5. ASSUME NEW a \in 1 .. m + 1, NEW b \in 1 .. m + 1, a < b
        PROVE  q[a] < q[b]
    <3>1. a \in 1 .. m
      BY <1>2, <2>5
    <3>2. CASE b \in 1 .. m
      BY <1>1, <1>2, <2>2, <2>5, <3>1, <3>2
    <3>3. CASE b = m + 1
      BY <1>2, <1>5, <2>2, <3>1, <3>3
    <3> QED  BY <2>3, <3>2, <3>3
  <2>6. \A k \in DOMAIN more : more[k] = longer[q[k]]
    <3>1. \A k \in 1 .. m : more[k] = longer[q[k]]
      <4> SUFFICES ASSUME NEW k \in 1 .. m
                   PROVE  more[k] = longer[q[k]]
        OBVIOUS
      <4>1. more[k] = new[k] /\ new[k] = list[p[k]] /\ q[k] = p[k]
        BY <1>1, <1>2, <1>4, <2>2
      <4>2. longer[p[k]] = list[p[k]]
        BY <1>3, <1>5
      <4> QED  BY <4>1, <4>2
    <3> QED  BY <1>3, <1>4, <2>2, <2>3, <3>1
  <2>7. DOMAIN q = 1 .. m + 1
    BY <2>2
  <2> HIDE DEF all
  <2> QED  BY <1>4, <2>1, <2>4, <2>5, <2>6, <2>7 DEF Picked, all
<1> QED  BY <1>6, <1>7 DEF longer, more, n

LEMMA NothingPicked ==
  ASSUME NEW list
  PROVE  Picked(list, {}, <<>>)
<1>1. Len(<<>>) = 0 /\ DOMAIN <<>> = {}
  OBVIOUS
<1>2. <<>> \in [1 .. Len(<<>>) -> {}]
  BY <1>1
<1> QED  BY <1>1, <1>2 DEF Picked

Groups == [key : AnyResult, items : Seq(Values)]

\* What group_by promises of the groups it has.
Grouped(groups, list, keys) ==
    /\ groups \in Seq(Groups)
    /\ \A k \in 1 .. Len(keys) : \E g \in 1 .. Len(groups) : groups[g].key = keys[k]
    /\ \A g \in 1 .. Len(groups) : \E k \in 1 .. Len(keys) : groups[g].key = keys[k]
    /\ \A a, b \in 1 .. Len(groups) : groups[a].key = groups[b].key => a = b
    /\ \A g \in 1 .. Len(groups) : Picked(list, {k \in 1 .. Len(keys) : keys[k] = groups[g].key}, groups[g].items)

LEMMA GroupWith ==
  ASSUME NEW e \in Groups, NEW v
  PROVE  [e EXCEPT !.items = Append(@, v)] = [key |-> e.key, items |-> Append(e.items, v)]
<1> DEFINE new == [e EXCEPT !.items = Append(@, v)]
<1>1. e \in [key : AnyResult, items : Seq(Values)]
  BY DEF Groups
<1>2. DOMAIN e = {"key", "items"}
  BY <1>1
<1>3. new = [x \in {"key", "items"} |-> IF x = "items" THEN Append(e.items, v) ELSE e[x]]
  BY <1>2
<1> QED  BY <1>2, <1>3

LEMMA GroupedMore ==
  ASSUME NEW list \in Seq(Values), NEW keys \in Seq(AnyResult), Len(list) = Len(keys), NEW groups, Grouped(groups, list, keys),
         NEW r \in AnyResult, NEW v \in Values
  PROVE  Grouped(GroupsOf(groups, r, v), Append(list, v), Append(keys, r))
<1> DEFINE n == Len(keys)
           m == Len(groups)
           longer == Append(list, v)
           more == Append(keys, r)
           new == GroupsOf(groups, r, v)
           Of(key) == {k \in 1 .. n : keys[k] = key}
           OfMore(key) == {k \in 1 .. n + 1 : more[k] = key}
<1>1. n \in Nat /\ m \in Nat /\ DOMAIN groups = 1 .. m
  BY LenProperties DEF Grouped
<1>2. Len(more) = n + 1 /\ (\A k \in 1 .. n : more[k] = keys[k]) /\ more[n + 1] = r
  BY AppendProperties
<1>3. ASSUME NEW g \in 1 .. m
      PROVE  /\ groups[g] \in Groups
             /\ groups[g].key \in AnyResult /\ groups[g].items \in Seq(Values)
             /\ Picked(list, Of(groups[g].key), groups[g].items)
  <2>1. groups[g] \in Groups
    BY ElementOfSeq DEF Grouped
  <2> QED  BY <2>1 DEF Groups, Grouped
<1>4. /\ \A k \in 1 .. n : \E g \in 1 .. m : groups[g].key = keys[k]
      /\ \A g \in 1 .. m : \E k \in 1 .. n : groups[g].key = keys[k]
      /\ \A a, b \in 1 .. m : groups[a].key = groups[b].key => a = b
  BY DEF Grouped
<1> HIDE DEF n, m, longer, more, new
<1>5. \A k \in 1 .. n + 1 : k \in 1 .. n \/ k = n + 1
  BY <1>1
<1>6. \A key : OfMore(key) = IF key = r THEN Of(key) \cup {n + 1} ELSE Of(key)
  <2>1. n + 1 \in 1 .. n + 1 /\ n + 1 \notin 1 .. n /\ 1 .. n \subseteq 1 .. n + 1
    BY <1>1
  <2> QED  BY <1>2, <1>5, <2>1
<1>7. \A key : Of(key) \in SUBSET (1 .. Len(list))
  BY DEF n
<1> HIDE DEF Of, OfMore
<1>8. CASE \E g \in 1 .. m : groups[g].key = r
  <2> DEFINE with(g) == [key |-> groups[g].key, items |-> Append(groups[g].items, v)]
  <2>1. new = [g \in DOMAIN groups |->
                  IF groups[g].key = r THEN [groups[g] EXCEPT !.items = Append(@, v)] ELSE groups[g]]
    BY <1>1, <1>8 DEF new, GroupsOf
  <2>2. ASSUME NEW g \in 1 .. m
        PROVE  /\ new[g] = IF groups[g].key = r THEN with(g) ELSE groups[g]
               /\ new[g].key = groups[g].key /\ new[g] \in Groups
    <3>1. [groups[g] EXCEPT !.items = Append(@, v)] = with(g)
      <4> DEFINE e == groups[g]
      <4>1. e \in Groups
        BY <1>3
      <4> HIDE DEF e
      <4>2. [e EXCEPT !.items = Append(@, v)] = [key |-> e.key, items |-> Append(e.items, v)]
        BY <4>1, GroupWith
      <4> QED  BY <4>2 DEF e
    <3>2. new[g] = IF groups[g].key = r THEN with(g) ELSE groups[g]
      BY <1>1, <2>1, <3>1
    <3>3. Append(groups[g].items, v) \in Seq(Values)
      BY <1>3, AppendProperties
    <3>4. with(g).key = groups[g].key /\ with(g) \in Groups
      BY <1>3, <3>3 DEF Groups
    <3>5. groups[g] \in Groups
      BY <1>3
    <3> HIDE DEF with
    <3> QED  BY <3>2, <3>4, <3>5
  <2>3. new \in Seq(Groups) /\ Len(new) = m
    <3>1. new = [g \in 1 .. m |-> new[g]]
      BY <1>1, <2>1
    <3>2. new \in [1 .. m -> Groups]
      BY <2>2, <3>1
    <3> QED  BY <1>1, <3>2, IsSeq
  <2>4. \A k \in 1 .. n + 1 : \E g \in 1 .. m : new[g].key = more[k]
    <3> SUFFICES ASSUME NEW k \in 1 .. n + 1
                 PROVE  \E g \in 1 .. m : new[g].key = more[k]
      OBVIOUS
    <3>1. \E g \in 1 .. m : groups[g].key = more[k]
      BY <1>2, <1>4, <1>5, <1>8
    <3> HIDE DEF with
    <3> QED  BY <2>2, <3>1
  <2>5. \A g \in 1 .. m : \E k \in 1 .. n + 1 : new[g].key = more[k]
    <3>1. \A k \in 1 .. n : k \in 1 .. n + 1
      BY <1>1
    <3> SUFFICES ASSUME NEW g \in 1 .. m
                 PROVE  \E k \in 1 .. n + 1 : new[g].key = more[k]
      OBVIOUS
    <3>2. PICK k \in 1 .. n : groups[g].key = keys[k]
      BY <1>4
    <3>3. k \in 1 .. n + 1 /\ more[k] = keys[k] /\ new[g].key = groups[g].key
      BY <1>2, <2>2, <3>1
    <3> QED  BY <3>2, <3>3
  <2>6. \A a, b \in 1 .. m : new[a].key = new[b].key => a = b
    BY <1>4, <2>2
  <2>7. ASSUME NEW g \in 1 .. m
        PROVE  Picked(longer, OfMore(new[g].key), new[g].items)
    <3> DEFINE key == groups[g].key
               items == groups[g].items
    <3>1. items \in Seq(Values) /\ Picked(list, Of(key), items) /\ Of(key) \in SUBSET (1 .. Len(list))
      BY <1>3, <1>7
    <3> HIDE DEF key, items
    <3>2. Picked(longer, Of(key), items) /\ Picked(longer, Of(key) \cup {n + 1}, Append(items, v))
      BY <3>1, PickedMore DEF longer, n
    <3>3. CASE key = r
      <4>1. new[g].key = key /\ new[g].items = Append(items, v)
        <5>1. new[g] = with(g) /\ new[g].key = key
          BY <2>2, <3>3 DEF key
        <5>2. with(g).items = Append(items, v)
          BY DEF items
        <5> HIDE DEF with
        <5> QED  BY <5>1, <5>2
      <4> QED  BY <1>6, <3>2, <3>3, <4>1
    <3>4. CASE key # r
      <4>1. new[g].key = key /\ new[g].items = items
        BY <2>2, <3>4 DEF key, items
      <4> QED  BY <1>6, <3>2, <3>4, <4>1
    <3> QED  BY <3>3, <3>4
  <2> QED  BY <1>2, <2>3, <2>4, <2>5, <2>6, <2>7 DEF Grouped, new, longer, more, n, OfMore
<1>9. CASE ~ \E g \in 1 .. m : groups[g].key = r
  <2> DEFINE c == [key |-> r, items |-> <<v>>]
  <2>1. new = Append(groups, c)
    BY <1>1, <1>9 DEF new, GroupsOf
  <2>2. c \in Groups /\ c.key = r /\ c.items = <<v>>
    BY DEF Groups
  <2>3. groups \in Seq(Groups)
    BY DEF Grouped
  <2> HIDE DEF c
  <2>4. new \in Seq(Groups) /\ Len(new) = m + 1 /\ (\A g \in 1 .. m : new[g] = groups[g]) /\ new[m + 1] = c
    BY <2>1, <2>2, <2>3, AppendProperties DEF m
  <2>5. \A g \in 1 .. m + 1 : g \in 1 .. m \/ g = m + 1
    BY <1>1
  <2>6. m + 1 \in 1 .. m + 1 /\ n + 1 \in 1 .. n + 1 /\ (\A g \in 1 .. m : g \in 1 .. m + 1) /\ (\A k \in 1 .. n : k \in 1 .. n + 1)
    BY <1>1
  <2>7. \A k \in 1 .. n + 1 : \E g \in 1 .. m + 1 : new[g].key = more[k]
    <3> SUFFICES ASSUME NEW k \in 1 .. n + 1
                 PROVE  \E g \in 1 .. m + 1 : new[g].key = more[k]
      OBVIOUS
    <3>1. CASE k = n + 1
      BY <1>2, <2>2, <2>4, <2>6, <3>1
    <3>2. CASE k \in 1 .. n
      <4>1. PICK g \in 1 .. m : groups[g].key = keys[k]
        BY <1>4, <3>2
      <4>2. g \in 1 .. m + 1 /\ new[g] = groups[g] /\ more[k] = keys[k]
        BY <1>2, <2>4, <2>6, <3>2
      <4> QED  BY <4>1, <4>2
    <3> QED  BY <1>5, <3>1, <3>2
  <2>8. \A g \in 1 .. m + 1 : \E k \in 1 .. n + 1 : new[g].key = more[k]
    <3> SUFFICES ASSUME NEW g \in 1 .. m + 1
                 PROVE  \E k \in 1 .. n + 1 : new[g].key = more[k]
      OBVIOUS
    <3>1. CASE g = m + 1
      BY <1>2, <2>2, <2>4, <2>6, <3>1
    <3>2. CASE g \in 1 .. m
      <4>1. PICK k \in 1 .. n : groups[g].key = keys[k]
        BY <1>4, <3>2
      <4>2. k \in 1 .. n + 1 /\ new[g] = groups[g] /\ more[k] = keys[k]
        BY <1>2, <2>4, <2>6, <3>2
      <4> QED  BY <4>1, <4>2
    <3> QED  BY <2>5, <3>1, <3>2
  <2>9. \A a, b \in 1 .. m + 1 : new[a].key = new[b].key => a = b
    BY <1>4, <1>9, <2>2, <2>4, <2>5
  <2>10. ASSUME NEW g \in 1 .. m + 1
         PROVE  Picked(longer, OfMore(new[g].key), new[g].items)
    <3>1. CASE g \in 1 .. m
      <4> DEFINE key == groups[g].key
                 items == groups[g].items
      <4>1. items \in Seq(Values) /\ Picked(list, Of(key), items) /\ Of(key) \in SUBSET (1 .. Len(list)) /\ key # r
        BY <1>3, <1>7, <1>9, <3>1
      <4>2. new[g].key = key /\ new[g].items = items
        BY <2>4, <3>1
      <4> HIDE DEF key, items
      <4>3. Picked(longer, Of(key), items)
        BY <4>1, PickedMore DEF longer
      <4> QED  BY <1>6, <4>1, <4>2, <4>3
    <3>2. CASE g = m + 1
      <4>1. Of(r) = {}
        <5>1. \A k \in 1 .. n : keys[k] # r
          BY <1>4, <1>9
        <5> QED  BY <5>1 DEF Of
      <4>2. Picked(list, {}, <<>>) /\ <<>> \in Seq(Values) /\ {} \in SUBSET (1 .. Len(list))
        BY NothingPicked, EmptySeq
      <4>3. Picked(longer, {} \cup {n + 1}, Append(<<>>, v))
        BY <4>2, PickedMore DEF longer, n
      <4>4. Append(<<>>, v) = <<v>>
        OBVIOUS
      <4>5. OfMore(r) = {} \cup {n + 1}
        BY <1>6, <4>1
      <4> QED  BY <2>2, <2>4, <3>2, <4>3, <4>4, <4>5
    <3> QED  BY <2>5, <3>1, <3>2
  <2> QED  BY <1>2, <2>4, <2>7, <2>8, <2>9, <2>10 DEF Grouped, new, longer, more, n, OfMore
<1> QED  BY <1>8, <1>9

\* Functions may change the stash, or fail, only under methods that allow for it, and comparators answer no float
\* whose truth is not its sign.
Careful ==
    /\ Changers \cap {"vibe_check", "sort_by", "group_by", "sort"} = {}
    /\ "sort" \notin Chuckers \cup Forgetters
    /\ \A r \in Verdicts : MovesPast(r) <=> SaysAfter(r)

\* Every call is given what the one before answered.
Chained(acc) ==
    \A k \in 1 .. Len(made) + 1 :
        (IF k <= Len(made) THEN made[k].args[1] ELSE acc) = IF k > 1 THEN made[k - 1].result ELSE (doing.args \o before)[1]

Passed == {k \in 1 .. Len(made) : Got[k] \in TruthyOnes}

\* What a method holds of its calls.
Shown ==
    /\ doing.method = "glow_up" => doing.out = Got
    /\ doing.method = "vibe_check" => doing.out \in Seq(Values) /\ Picked(Given, Passed, doing.out)
    /\ doing.method = "any" => Passed = {}
    /\ doing.method = "all" => Passed = 1 .. Len(made)
    /\ doing.method = "sort_by" => doing.n = Len(before) /\ doing.out = [k \in 1 .. Len(made) |-> <<Got[k], Given[k]>>]
    /\ doing.method = "group_by" => Grouped(doing.out, Given, Got)
    /\ doing.method = "squish" => doing.acc \in Values /\ Chained(doing.acc)

Underway == doing.how = "running" /\ doing.method \in VisitMethods

VisitInv ==
    Underway =>
        /\ doing.i = Len(made) + Start - 1
        /\ doing.method \notin Changers => Contents(Now) = before
        /\ Shown

LEMMA EndedIs ==
  ASSUME IsLocals(doing), NEW how
  PROVE  /\ IsLocals(Ended(how)) /\ Ended(how).how = how
         /\ Ended(how).method = doing.method /\ Ended(how).args = doing.args
BY DEF IsLocals, Ended

LEMMA AfterIs ==
  ASSUME IsLocals(doing), NEW r, NEW items
  PROVE  LET new == After(r, items)
             item == ItemAt(items, doing.i)
         IN /\ IsLocals(new) /\ new.method = doing.method /\ new.args = doing.args /\ new.how = doing.how
            /\ new.i = doing.i + 1 /\ new.n = doing.n /\ new.acc = r
            /\ new.out = CASE doing.method = "glow_up"  -> Append(doing.out, r)
                           [] doing.method = "sort_by"  -> Append(doing.out, <<r, item>>)
                           [] doing.method = "group_by" -> GroupsOf(doing.out, r, item)
                           [] doing.method = "vibe_check" /\ r \in TruthyOnes -> Append(doing.out, item)
                           [] OTHER -> doing.out
<1> DEFINE item == ItemAt(items, doing.i)
           out == CASE doing.method = "glow_up"  -> Append(doing.out, r)
                    [] doing.method = "sort_by"  -> Append(doing.out, <<r, item>>)
                    [] doing.method = "group_by" -> GroupsOf(doing.out, r, item)
                    [] doing.method = "vibe_check" /\ r \in TruthyOnes -> Append(doing.out, item)
                    [] OTHER -> doing.out
<1>1. After(r, items) = [doing EXCEPT !.i = @ + 1, !.acc = r, !.out = out]
  BY DEF After
<1> HIDE DEF item, out
<1>2. /\ IsLocals(After(r, items)) /\ After(r, items).method = doing.method /\ After(r, items).args = doing.args
      /\ After(r, items).how = doing.how
      /\ After(r, items).i = doing.i + 1 /\ After(r, items).n = doing.n /\ After(r, items).acc = r /\ After(r, items).out = out
  BY <1>1 DEF IsLocals
<1> QED  BY <1>2 DEF item, out

LEMMA ChangedIs ==
  ASSUME Typed, NEW r \in AnyResult, NEW s \in Changed(r)
  PROVE  Sound(s) /\ (doing.method \notin Changers => s = Now)
<1>1. /\ Sound(Now) /\ array \in Seq(Values \cup {Nothing}) /\ Len(array) \in Nat /\ length \in 0 .. Len(array)
      /\ \A k \in 1 .. length : array[k] \in Values
  BY NowIsSound
<1>2. CASE s = Now
  BY <1>1, <1>2
<1>3. CASE \E n \in {0, Max({0, length - 1})} : doing.method \in Changers /\ s = Shortened(array, n)
  <2>1. PICK n \in {0, Max({0, length - 1})} : s = Shortened(array, n)
    BY <1>3
  <2>2. Max({0, length - 1}) = IF 0 <= length - 1 THEN length - 1 ELSE 0
    <3>1. 0 \in Int /\ length - 1 \in Int
      BY <1>1
    <3> QED  BY <3>1, OfTwo
  <2>3. n \in 0 .. Len(array) /\ n <= length
    BY <1>1, <2>2
  <2>4. \A k \in 1 .. n : array[k] \in Values
    BY <1>1, <2>3
  <2> QED  BY <1>1, <1>3, <2>1, <2>3, <2>4, ShortenedIs
<1>4. CASE doing.method \in Changers /\ s = Pushed(Now, r)
  <2>1. r \in Values
    BY DEF Values
  <2> QED  BY <1>1, <1>4, <2>1, PushedIs
<1> QED  BY <1>2, <1>3, <1>4 DEF Changed

LEMMA ArgsAre ==
  ASSUME doing.method = "squish" => doing.acc \in Values, ItemAt(array, doing.i) \in Values
  PROVE  /\ Args \in Seq(Values) \ {<<>>} /\ Last(Args) = ItemAt(array, doing.i)
         /\ doing.method = "squish" => Args[1] = doing.acc
<1> DEFINE item == ItemAt(array, doing.i)
           acc == doing.acc
<1>1. item \in Values /\ <<item>> \in Seq(Values) /\ (doing.method = "squish" => acc \in Values)
  OBVIOUS
<1>2. CASE doing.method = "squish"
  <2>1. Args = <<acc>> \o <<item>>
    BY <1>2 DEF Args
  <2> HIDE DEF item, acc
  <2> DEFINE a == <<acc>>
             b == <<item>>
  <2>2. a \in Seq(Values) /\ b \in Seq(Values) /\ Len(a) = 1 /\ Len(b) = 1 /\ a[1] = acc /\ b[1] = item
    BY <1>1, <1>2
  <2> HIDE DEF a, b
  <2>3. /\ a \o b \in Seq(Values) /\ Len(a \o b) = Len(a) + Len(b)
        /\ \A i \in 1 .. Len(a) + Len(b) : (a \o b)[i] = IF i <= Len(a) THEN a[i] ELSE b[i - Len(a)]
    BY <2>2, ConcatProperties
  <2>4. Args = a \o b
    BY <2>1 DEF a, b
  <2>5. 1 \in 1 .. 1 + 1 /\ 2 \in 1 .. 1 + 1 /\ 2 - 1 = 1
    OBVIOUS
  <2>6. Args \in Seq(Values) /\ Len(Args) = 2 /\ Args[2] = item /\ Args[1] = acc
    BY <2>2, <2>3, <2>4, <2>5
  <2>7. Args # <<>>
    BY <2>6, EmptySeq
  <2> QED  BY <2>6, <2>7 DEF Last, item, acc
<1>3. CASE doing.method # "squish"
  <2>1. Args = <<>> \o <<item>>
    BY <1>3 DEF Args
  <2> HIDE DEF item
  <2>2. Args = <<item>>
    BY <2>1, <1>1, ConcatEmptySeq
  <2>3. Args \in Seq(Values) /\ Args # <<>> /\ Len(Args) = 1 /\ Args[1] = item
    BY <1>1, <2>2
  <2> QED  BY <1>3, <2>3 DEF Last, item
<1> QED  BY <1>2, <1>3

\* What a call comes to, whatever the method does with the answer.
LEMMA CallIs ==
  ASSUME Careful, Typed, VisitInv, Underway, NEW r \in AnyResult, NEW s \in Changed(r), CallFunction(r, s)
  PROVE  LET item == ItemAt(array, doing.i)
         IN /\ doing.i \in Nat /\ item \in Values /\ Sound(s) /\ Now' = s /\ before' = before
            /\ made' \in Seq(CallRecords) /\ Len(made') = Len(made) + 1 /\ Len(made) \in Nat
            /\ \A k \in 1 .. Len(made) : made'[k] = made[k]
            /\ made'[Len(made) + 1].result = r /\ Last(made'[Len(made) + 1].args) = item
            /\ doing.method = "squish" => made'[Len(made) + 1].args[1] = doing.acc
            /\ Given' = Append(Given, item) /\ Got' = Append(Got, r)
            /\ doing.method \notin Changers =>
                  /\ s.array = array /\ Contents(s) = before
                  /\ Len(before) = length /\ doing.i < Len(before) /\ item = before[doing.i + 1]
<1> DEFINE item == ItemAt(array, doing.i)
<1>1. /\ Sound(Now) /\ array \in Seq(Values \cup {Nothing}) /\ Len(array) \in Nat /\ length \in 0 .. Len(array)
      /\ \A k \in 1 .. length : array[k] \in Values
  BY NowIsSound
<1>2. doing.i = Len(made) + Start - 1 /\ (doing.method \notin Changers => Contents(Now) = before) /\ Shown
  BY DEF VisitInv
<1>3. Len(made) \in Nat /\ made \in Seq(CallRecords)
  BY CallsAre DEF Typed
<1>4. doing.i \in Nat
  BY <1>2, <1>3 DEF Start
<1>5. doing.method \notin Changers => Len(before) = length /\ \A k \in 1 .. length : before[k] = array[k]
  <2>1. Len(Contents(Now)) = length /\ \A k \in 1 .. length : Contents(Now)[k] = array[k]
    BY <1>1, NowIs, ContentsAre
  <2> QED  BY <1>2, <2>1
<1>6. doing.i < length
  <2>1. doing.i < Bound
    BY DEF CallFunction
  <2>2. doing.method = "sort_by" => doing.method \notin Changers /\ doing.n = Len(before)
    BY <1>2 DEF Shown, Careful
  <2> QED  BY <1>5, <2>1, <2>2 DEF Bound
<1>7. item = array[doing.i + 1] /\ doing.i + 1 \in 1 .. length
  <2>1. doing.i + 1 \in 1 .. length /\ doing.i + 1 \in 1 .. Len(array)
    BY <1>1, <1>4, <1>6
  <2>2. doing.i + 1 \in DOMAIN array
    BY <1>1, <2>1, LenProperties
  <2> QED  BY <2>1, <2>2 DEF ItemAt
<1> HIDE DEF item
<1>8. item \in Values
  BY <1>1, <1>7
<1>9. Args \in Seq(Values) \ {<<>>} /\ Last(Args) = item /\ (doing.method = "squish" => Args[1] = doing.acc)
  BY <1>2, <1>8, ArgsAre DEF Shown, item
<1>10. made' = Append(made, [args |-> Args, result |-> r]) /\ before' = before /\ TurnsInto(s)
  BY DEF CallFunction
<1> DEFINE args == Args
<1> HIDE DEF args
<1>11. made' = Append(made, [args |-> args, result |-> r]) /\ args \in Seq(Values) \ {<<>>}
  BY <1>9, <1>10 DEF args
<1>12. /\ made' \in Seq(CallRecords) /\ Len(made') = Len(made) + 1
       /\ \A k \in 1 .. Len(made) : made'[k] = made[k]
       /\ made'[Len(made) + 1] = [args |-> args, result |-> r]
       /\ Given' = Append(Given, Last(args)) /\ Got' = Append(Got, r)
  BY <1>3, <1>11, OneMoreCall
<1>13. made'[Len(made) + 1].args = Args /\ made'[Len(made) + 1].result = r
  BY <1>12 DEF args
<1>14. Sound(s) /\ (doing.method \notin Changers => s = Now)
  BY ChangedIs
<1>15. Now' = s
  <2>1. array' = s.array /\ length' = s.count
    BY <1>10 DEF TurnsInto
  <2>2. s = [array |-> s.array, count |-> s.count]
    BY <1>14 DEF Sound
  <2> QED  BY <2>1, <2>2 DEF Now
<1>16. doing.method \notin Changers =>
          /\ s.array = array /\ Contents(s) = before
          /\ Len(before) = length /\ doing.i < Len(before) /\ item = before[doing.i + 1]
  BY <1>2, <1>5, <1>6, <1>7, <1>14, NowIs
<1> QED  BY <1>3, <1>4, <1>8, <1>9, <1>10, <1>12, <1>13, <1>14, <1>15, <1>16 DEF item, args

LEMMA CallKeepsVisited ==
  ASSUME Careful, Typed, VisitInv, Visited, Underway, NEW r \in AnyResult, NEW s \in Changed(r), CallFunction(r, s),
         doing'.method = doing.method, doing'.args = doing.args, doing'.how = "answered" => Settles(r)
  PROVE  Visited'
<1> SUFFICES ASSUME doing.method \notin Changers \cup {"sort"}
             PROVE  /\ Len(made') + Start - 1 <= Len(before)
                    /\ \A k \in 1 .. Len(made') : Last(made'[k].args) = before[k + Start - 1]
                    /\ doing'.how = "answered" => Settles(made'[Len(made')].result)
  <2>1. Start' = Start
    BY DEF Start
  <2>2. before' = before
    BY DEF CallFunction
  <2>3. \A x : Settles(x)' <=> Settles(x)
    BY DEF Settles
  <2> QED  BY <2>1, <2>2, <2>3 DEF Visited
<1> DEFINE item == ItemAt(array, doing.i)
<1>1. /\ Len(made') = Len(made) + 1 /\ Len(made) \in Nat
      /\ \A k \in 1 .. Len(made) : made'[k] = made[k]
      /\ made'[Len(made) + 1].result = r /\ Last(made'[Len(made) + 1].args) = item
      /\ doing.i \in Nat /\ doing.i < Len(before) /\ item = before[doing.i + 1] /\ Len(before) = length
  BY CallIs
<1>2. length \in Nat
  BY NowIsSound
<1>3. doing.i = Len(made) + Start - 1 /\ Start \in Nat
  BY DEF VisitInv, Start
<1>4. Len(made') + Start - 1 <= Len(before)
  BY <1>1, <1>2, <1>3
<1>5. ASSUME NEW k \in 1 .. Len(made')
      PROVE  Last(made'[k].args) = before[k + Start - 1]
  <2>1. CASE k \in 1 .. Len(made)
    <3>1. Last(made[k].args) = before[k + Start - 1]
      BY <2>1 DEF Visited
    <3> QED  BY <1>1, <2>1, <3>1
  <2>2. CASE k = Len(made) + 1
    <3>1. k + Start - 1 = doing.i + 1
      BY <1>1, <1>3, <2>2
    <3> QED  BY <1>1, <2>2, <3>1
  <2>3. k \in 1 .. Len(made) \/ k = Len(made) + 1
    BY <1>1
  <2> QED  BY <2>1, <2>2, <2>3
<1>6. made'[Len(made')].result = r
  BY <1>1
<1> QED  BY <1>4, <1>5, <1>6

LEMMA PassedMore ==
  ASSUME made \in Seq(CallRecords), NEW r \in AnyResult, made' \in Seq(CallRecords), Len(made') = Len(made) + 1, Got' = Append(Got, r)
  PROVE  Passed' = IF r \in TruthyOnes THEN Passed \cup {Len(made) + 1} ELSE Passed
<1> DEFINE n == Len(made)
<1>1. n \in Nat /\ Got \in Seq(AnyResult) /\ Len(Got) = n
  BY GivenAndGot, CallsAre
<1>2. (\A k \in 1 .. n : Got'[k] = Got[k]) /\ Got'[n + 1] = r
  BY <1>1, AppendProperties
<1>3. \A k \in 1 .. n + 1 : k \in 1 .. n \/ k = n + 1
  BY <1>1
<1>4. n + 1 \in 1 .. n + 1 /\ 1 .. n \subseteq 1 .. n + 1
  BY <1>1
<1>5. Passed' = {k \in 1 .. n + 1 : Got'[k] \in TruthyOnes}
  BY DEF Passed
<1>6. Passed = {k \in 1 .. n : Got[k] \in TruthyOnes}
  BY DEF Passed
<1> HIDE DEF n
<1>7. Passed' = IF r \in TruthyOnes THEN Passed \cup {n + 1} ELSE Passed
  BY <1>2, <1>3, <1>4, <1>5, <1>6
<1> QED  BY <1>7 DEF n

\* A call after which the method goes on.
LEMMA GoesOnKeeps ==
  ASSUME Careful, Typed, VisitInv, Visited, Underway, NEW r \in AnyResult, NEW s \in Changed(r), CallFunction(r, s), ~ Settles(r)
  PROVE  Typed' /\ Underway' /\ doing'.how = "running" /\ VisitInv' /\ Visited' /\ Promised'
<1> DEFINE item == ItemAt(array, doing.i)
           n == Len(made)
           new == After(r, s.array)
<1>1. /\ doing.i \in Nat /\ item \in Values /\ Sound(s) /\ Now' = s /\ before' = before
      /\ made' \in Seq(CallRecords) /\ Len(made') = n + 1 /\ n \in Nat
      /\ \A k \in 1 .. n : made'[k] = made[k]
      /\ made'[n + 1].result = r /\ Last(made'[n + 1].args) = item
      /\ doing.method = "squish" => made'[n + 1].args[1] = doing.acc
      /\ Given' = Append(Given, item) /\ Got' = Append(Got, r)
      /\ doing.method \notin Changers =>
            /\ s.array = array /\ Contents(s) = before
            /\ Len(before) = length /\ doing.i < Len(before) /\ item = before[doing.i + 1]
  BY CallIs
<1>2. doing' = new
  BY DEF CallFunction
<1>3. /\ IsLocals(new) /\ new.method = doing.method /\ new.args = doing.args /\ new.how = doing.how
      /\ new.i = doing.i + 1 /\ new.n = doing.n /\ new.acc = r
      /\ new.out = CASE doing.method = "glow_up"  -> Append(doing.out, r)
                     [] doing.method = "sort_by"  -> Append(doing.out, <<r, ItemAt(s.array, doing.i)>>)
                     [] doing.method = "group_by" -> GroupsOf(doing.out, r, ItemAt(s.array, doing.i))
                     [] doing.method = "vibe_check" /\ r \in TruthyOnes -> Append(doing.out, ItemAt(s.array, doing.i))
                     [] OTHER -> doing.out
  BY AfterIs DEF Typed
<1> HIDE DEF new
<1>4. Typed' /\ Underway' /\ doing'.how = "running" /\ doing'.method = doing.method /\ doing'.args = doing.args
  BY <1>1, <1>2, <1>3 DEF Typed, Underway
<1>5. Promised'
  BY <1>4 DEF Promised
<1>6. Visited'
  BY <1>4, CallKeepsVisited
<1>7. doing'.i = Len(made') + Start' - 1
  <2>1. Start' = Start /\ Start \in Nat
    BY <1>4 DEF Start
  <2>2. doing.i = n + Start - 1
    BY DEF VisitInv
  <2> QED  BY <1>1, <1>2, <1>3, <2>1, <2>2
<1>8. doing'.method \notin Changers => Contents(Now)' = before'
  BY <1>1, <1>4
<1>9. made \in Seq(CallRecords) /\ Shown
  BY DEF Typed, VisitInv
<1>10. /\ Given \in Seq(Values) /\ Len(Given) = n /\ Got \in Seq(AnyResult) /\ Len(Got) = n
       /\ Passed' = IF r \in TruthyOnes THEN Passed \cup {n + 1} ELSE Passed
  BY <1>1, <1>9, GivenAndGot, PassedMore
<1>11. Shown'
  <2>1. CASE doing.method = "glow_up"
    <3>1. doing'.out = Append(doing.out, r)
      BY <1>2, <1>3, <2>1
    <3> QED  BY <1>1, <1>4, <1>9, <2>1, <3>1 DEF Shown
  <2>2. CASE doing.method = "vibe_check"
    <3>1. doing'.out = IF r \in TruthyOnes THEN Append(doing.out, item) ELSE doing.out
      <4>1. s.array = array
        BY <1>1, <2>2 DEF Careful
      <4> QED  BY <1>2, <1>3, <2>2, <4>1
    <3>2. doing.out \in Seq(Values) /\ Picked(Given, Passed, doing.out) /\ Passed \in SUBSET (1 .. Len(Given))
      BY <1>9, <1>10, <2>2 DEF Shown, Passed
    <3>3. Picked(Given', Passed, doing.out) /\ Picked(Given', Passed \cup {n + 1}, Append(doing.out, item))
      BY <1>1, <1>10, <3>2, PickedMore
    <3>4. doing'.out \in Seq(Values) /\ Picked(Given', Passed', doing'.out)
      <4>1. Append(doing.out, item) \in Seq(Values)
        BY <1>1, <3>2, AppendProperties
      <4> QED  BY <1>10, <3>1, <3>2, <3>3, <4>1
    <3> QED  BY <1>4, <2>2, <3>4 DEF Shown
  <2>3. CASE doing.method = "any"
    <3>1. r \notin TruthyOnes
      BY <2>3 DEF Settles
    <3> QED  BY <1>4, <1>9, <1>10, <2>3, <3>1 DEF Shown
  <2>4. CASE doing.method = "all"
    <3>1. r \in TruthyOnes
      BY <2>4 DEF Settles
    <3>2. 1 .. n \cup {n + 1} = 1 .. n + 1
      BY <1>1
    <3> QED  BY <1>1, <1>4, <1>9, <1>10, <2>4, <3>1, <3>2 DEF Shown
  <2>5. CASE doing.method = "sort_by"
    <3>1. doing'.out = Append(doing.out, <<r, item>>) /\ doing'.n = doing.n
      <4>1. s.array = array
        BY <1>1, <2>5 DEF Careful
      <4> QED  BY <1>2, <1>3, <2>5, <4>1
    <3>2. doing.n = Len(before) /\ doing.out = [k \in 1 .. n |-> <<Got[k], Given[k]>>]
      BY <1>9, <2>5 DEF Shown
    <3> DEFINE P == AnyResult \X Values
               out == doing.out
               t == Append(out, <<r, item>>)
    <3>3. out \in Seq(P) /\ Len(out) = n /\ \A k \in 1 .. n : out[k] = <<Got[k], Given[k]>>
      <4>1. \A k \in 1 .. n : Got[k] \in AnyResult /\ Given[k] \in Values
        BY <1>10, ElementOfSeq
      <4>2. out \in [1 .. n -> P]
        BY <3>2, <4>1
      <4>3. \A k \in 1 .. n : out[k] = <<Got[k], Given[k]>>
        BY <3>2
      <4> HIDE DEF out, P
      <4> QED  BY <1>1, <4>2, <4>3, IsSeq
    <3>4. <<r, item>> \in P
      BY <1>1
    <3> HIDE DEF out, P
    <3>5. t \in Seq(P) /\ Len(t) = n + 1 /\ (\A k \in 1 .. n : t[k] = out[k]) /\ t[n + 1] = <<r, item>>
      BY <3>3, <3>4, AppendProperties
    <3>6. DOMAIN t = 1 .. n + 1 /\ t = [k \in 1 .. n + 1 |-> t[k]]
      BY <3>5, LenProperties
    <3>7. /\ (\A k \in 1 .. n : Given'[k] = Given[k]) /\ Given'[n + 1] = item
          /\ (\A k \in 1 .. n : Got'[k] = Got[k]) /\ Got'[n + 1] = r
      BY <1>1, <1>10, AppendProperties
    <3> HIDE DEF t
    <3>8. \A k \in 1 .. n + 1 : t[k] = <<Got'[k], Given'[k]>>
      <4>1. \A k \in 1 .. n + 1 : k \in 1 .. n \/ k = n + 1
        BY <1>1
      <4> QED  BY <3>3, <3>5, <3>7, <4>1
    <3>9. doing'.out = t
      BY <3>1 DEF t, out
    <3>10. doing'.out = [k \in 1 .. Len(made') |-> <<Got'[k], Given'[k]>>]
      BY <1>1, <3>6, <3>8, <3>9
    <3> QED  BY <1>1, <1>4, <2>5, <3>1, <3>2, <3>10 DEF Shown
  <2>6. CASE doing.method = "group_by"
    <3>1. doing'.out = GroupsOf(doing.out, r, item)
      <4>1. s.array = array
        BY <1>1, <2>6 DEF Careful
      <4> QED  BY <1>2, <1>3, <2>6, <4>1
    <3>2. Grouped(doing.out, Given, Got)
      BY <1>9, <2>6 DEF Shown
    <3>3. Grouped(GroupsOf(doing.out, r, item), Append(Given, item), Append(Got, r))
      BY <1>1, <1>10, <3>2, GroupedMore
    <3> HIDE DEF item
    <3>4. Grouped(doing'.out, Given', Got')
      BY <1>1, <3>1, <3>3
    <3> QED  BY <1>4, <2>6, <3>4 DEF Shown
  <2>7. CASE doing.method = "squish"
    <3>1. doing'.acc = r /\ r \in Values /\ Chained(doing.acc)
      BY <1>2, <1>3, <1>9, <2>7 DEF Values, Shown
    <3>2. ASSUME NEW k \in 1 .. n + 2
          PROVE  (IF k <= n + 1 THEN made'[k].args[1] ELSE r) = IF k > 1 THEN made'[k - 1].result ELSE (doing.args \o before)[1]
      <4>1. CASE k \in 1 .. n
        <5>1. made'[k] = made[k] /\ k <= n + 1 /\ k <= n /\ (k > 1 => made'[k - 1] = made[k - 1]) /\ k \in 1 .. n + 1
          BY <1>1, <4>1, SMTT(20)
        <5>2. made[k].args[1] = IF k > 1 THEN made[k - 1].result ELSE (doing.args \o before)[1]
          BY <3>1, <5>1 DEF Chained
        <5> QED  BY <5>1, <5>2
      <4>2. CASE k = n + 1
        <5>1. made'[k].args[1] = doing.acc /\ k <= n + 1 /\ ~ (k <= n) /\ (k > 1 => made'[k - 1] = made[k - 1]) /\ k \in 1 .. n + 1
          BY <1>1, <2>7, <4>2
        <5> QED  BY <3>1, <5>1 DEF Chained
      <4>3. CASE k = n + 2
        <5>1. ~ (k <= n + 1) /\ k > 1 /\ k - 1 = n + 1
          BY <1>1, <4>3
        <5> QED  BY <1>1, <5>1
      <4>4. k \in 1 .. n \/ k = n + 1 \/ k = n + 2
        BY <1>1
      <4> QED  BY <4>1, <4>2, <4>3, <4>4
    <3>3. Len(made') + 1 = n + 2 /\ Len(made') = n + 1
      BY <1>1
    <3>4. Chained(doing.acc)'
      BY <1>1, <1>4, <3>1, <3>2, <3>3 DEF Chained
    <3> QED  BY <1>4, <2>7, <3>1, <3>4 DEF Shown
  <2> QED  BY <2>1, <2>2, <2>3, <2>4, <2>5, <2>6, <2>7 DEF Underway, VisitMethods
<1>12. VisitInv'
  BY <1>7, <1>8, <1>11 DEF VisitInv
<1> QED  BY <1>4, <1>5, <1>6, <1>12

Pairs == AnyResult \X Values
PairLists == [ok : BOOLEAN, list : Seq(Pairs)]

LEMMA InsertPairIs ==
  ASSUME NEW sorted \in PairLists, NEW pair \in Pairs
  PROVE  LET new == InsertPair(sorted, pair)
             m == Len(sorted.list)
         IN /\ new \in PairLists
            /\ new.ok => \E place \in 0 .. m :
                  /\ sorted.ok /\ new.list = InsertAt(sorted.list, place + 1, pair)
                  /\ place > 0 => KeyComparison(pair[1], sorted.list[place][1]) = "not"
                  /\ \A k \in place + 1 .. m : KeyComparison(pair[1], sorted.list[k][1]) = "less"
<1> DEFINE list == sorted.list
           m == Len(list)
           S == {0} \cup {k \in DOMAIN list : KeyComparison(pair[1], list[k][1]) # "less"}
           place == Max(S)
           fails == place > 0 /\ KeyComparison(pair[1], list[place][1]) # "not"
           new == InsertPair(sorted, pair)
<1>1. sorted = [ok |-> sorted.ok, list |-> list] /\ sorted.ok \in BOOLEAN /\ list \in Seq(Pairs)
  BY DEF PairLists
<1>2. m \in Nat /\ DOMAIN list = 1 .. m
  BY <1>1, LenProperties
<1>3. S \in SUBSET (0 .. m) /\ S # {}
  BY <1>2
<1>4. new = IF ~ sorted.ok \/ fails THEN [sorted EXCEPT !.ok = FALSE]
            ELSE [sorted EXCEPT !.list = InsertAt(@, place + 1, pair)]
  BY DEF InsertPair
<1>5. \A k \in DOMAIN list : KeyComparison(pair[1], list[k][1]) # "less" => k \in S
  OBVIOUS
<1> HIDE DEF S, new
<1>6. place \in S /\ \A x \in S : x <= place
  BY <1>2, <1>3, MaxIs
<1> HIDE DEF place
<1>7. place \in 0 .. m
  BY <1>3, <1>6
<1>8. \A k \in place + 1 .. m : KeyComparison(pair[1], list[k][1]) = "less"
  <2> SUFFICES ASSUME NEW k \in place + 1 .. m, KeyComparison(pair[1], list[k][1]) # "less"
               PROVE  FALSE
    OBVIOUS
  <2>1. k \in DOMAIN list /\ k > place /\ k \in Int
    BY <1>2, <1>7
  <2>2. k \in S
    BY <1>5, <2>1
  <2>3. k <= place
    BY <1>6, <2>2
  <2> QED  BY <1>2, <1>7, <2>1, <2>3
<1>9. InsertAt(list, place + 1, pair) \in Seq(Pairs)
  <2> DEFINE i == place + 1
  <2>1. i \in 1 .. Len(list) + 1
    BY <1>2, <1>7
  <2> HIDE DEF i, list
  <2>2. InsertAt(list, i, pair) \in Seq(Pairs)
    BY <1>1, <2>1, InsertAtIs
  <2> QED  BY <2>2 DEF i
<1>10. CASE ~ sorted.ok \/ fails
  <2>1. new = [ok |-> FALSE, list |-> list]
    <3>1. new = [sorted EXCEPT !.ok = FALSE]
      BY <1>4, <1>10
    <3>2. sorted \in [ok : BOOLEAN, list : Seq(Pairs)]
      BY DEF PairLists
    <3>3. DOMAIN sorted = {"ok", "list"}
      BY <3>2
    <3> QED  BY <3>1, <3>3
  <2>2. new \in PairLists /\ ~ new.ok
    BY <1>1, <2>1 DEF PairLists
  <2> QED  BY <2>2 DEF new
<1>11. CASE sorted.ok /\ ~ fails
  <2>1. new = [ok |-> TRUE, list |-> InsertAt(list, place + 1, pair)]
    <3>1. new = [sorted EXCEPT !.list = InsertAt(@, place + 1, pair)]
      BY <1>4, <1>11
    <3>2. sorted = [ok |-> TRUE, list |-> list]
      BY <1>1, <1>11
    <3> HIDE DEF list
    <3> QED  BY <3>1, <3>2
  <2>2. new \in PairLists /\ new.list = InsertAt(list, place + 1, pair)
    BY <1>9, <2>1 DEF PairLists
  <2>3. place > 0 => KeyComparison(pair[1], list[place][1]) = "not"
    BY <1>11
  <2> QED  BY <1>7, <1>8, <1>11, <2>2, <2>3 DEF new
<1> QED  BY <1>10, <1>11

KeyPairs(answer) == {c \in (1 .. Len(Got)) \X (1 .. Len(Got)) : KeyComparison(Got[c[1]], Got[c[2]]) = answer}

LEMMA KeysAreOrderly ==
  ASSUME made \in Seq(CallRecords), KeysAreOrdered
  PROVE  Orderly(Len(Got), KeyPairs("less"), KeyPairs("not"))
<1> DEFINE n == Len(Got)
           K == ToSet(Got)
<1>1. \A a, b \in 1 .. n : \A answer : <<a, b>> \in KeyPairs(answer) <=> KeyComparison(Got[a], Got[b]) = answer
  BY DEF KeyPairs
<1>2. \A a \in 1 .. n : Got[a] \in K
  <2>1. DOMAIN Got = 1 .. n
    BY GivenAndGot
  <2> QED  BY <2>1 DEF ToSet
<1>3. Boolskis \cap K = {} \/ K \subseteq Boolskis
  BY DEF KeysAreOrdered
<1> HIDE DEF n, K
<1>4. /\ \A a, b \in K : KeyComparison(a, b) = "less" => KeyComparison(b, a) = "not"
      /\ \A a, b, c \in K : KeyComparison(a, b) = "not" /\ KeyComparison(b, c) = "not" => KeyComparison(a, c) = "not"
  BY <1>3, KeyComparisonIs
<1>5. Orderly(n, KeyPairs("less"), KeyPairs("not"))
  BY <1>1, <1>2, <1>4 DEF Orderly
<1> QED  BY <1>5 DEF n

LEMMA SortedPairsAre ==
  ASSUME made \in Seq(CallRecords), doing.out = [k \in 1 .. Len(made) |-> <<Got[k], Given[k]>>], SortedPairs.ok
  PROVE  \E q \in Orders(Len(made)) :
            /\ \A k \in 1 .. Len(made) : SortedPairs.list[k] = doing.out[q[k]]
            /\ KeysAreOrdered => Sorts(q, Len(made), KeyPairs("less"), KeyPairs("not"))
<1> DEFINE n == Len(made)
           out == doing.out
           none == [ok |-> TRUE, list |-> <<>>]
           step == [p \in PairLists \X (1 .. n) |-> InsertPair(p[1], out[p[2]])]
           Goes(f) == f = [k \in 0 .. n |-> IF k = 0 THEN none ELSE InsertPair(f[k - 1], out[k])]
           after == CHOOSE f : Goes(f)
           less == KeyPairs("less")
           no_less == KeyPairs("not")
<1>1. /\ n \in Nat /\ Len(Got) = n /\ \A k \in 1 .. n : Got[k] \in AnyResult /\ Given[k] \in Values
  BY CallsAre, GivenAndGot, ElementOfSeq
<1>2. \A k \in 1 .. n : out[k] = <<Got[k], Given[k]>> /\ out[k] \in Pairs /\ out[k][1] = Got[k]
  BY <1>1 DEF Pairs
<1>3. Len(out) = n
  <2>1. out = [k \in 1 .. n |-> out[k]]
    OBVIOUS
  <2> HIDE DEF out
  <2>2. out \in [1 .. n -> Pairs]
    BY <1>2, <2>1
  <2> QED  BY <1>1, <2>2, IsSeq
<1>4. ASSUME n = Len(doing.out)
      PROVE  SortedPairs = after[n]
  BY <1>4 DEF SortedPairs, Looped
<1>5. SortedPairs = after[n]
  BY <1>3, <1>4
<1> HIDE DEF after, out, n
<1>6. none \in PairLists
  BY EmptySeq DEF PairLists
<1>7. \A sorted \in PairLists, k \in 1 .. n : InsertPair(sorted, out[k]) \in PairLists
  BY <1>2, InsertPairIs
<1>8. \E f : Goes(f)
  <2>1. step \in [PairLists \X (1 .. n) -> PairLists]
    BY <1>7
  <2>2. \A sorted \in PairLists, k \in 1 .. n : step[<<sorted, k>>] = InsertPair(sorted, out[k])
    OBVIOUS
  <2> HIDE DEF step, none
  <2>3. PICK f : Rounds(f, PairLists, step, none, n)
    BY <1>1, <1>6, <2>1, RoundsExist
  <2>4. ASSUME NEW k \in 0 .. n
        PROVE  f[k] = IF k = 0 THEN none ELSE InsertPair(f[k - 1], out[k])
    <3>1. f[k] = IF k = 0 THEN none ELSE step[<<f[k - 1], k>>]
      BY <2>3 DEF Rounds
    <3>2. k # 0 => f[k - 1] \in PairLists /\ k \in 1 .. n
      BY <1>1, <2>3 DEF Rounds
    <3> QED  BY <2>2, <3>1, <3>2
  <2>5. f = [k \in 0 .. n |-> IF k = 0 THEN none ELSE InsertPair(f[k - 1], out[k])]
    BY <2>3, <2>4 DEF Rounds
  <2> QED  BY <2>5
<1>9. Goes(after)
  <2> HIDE DEF Goes
  <2> QED  BY <1>8 DEF after
<1>10. \A k \in 0 .. n : after[k] = IF k = 0 THEN none ELSE InsertPair(after[k - 1], out[k])
  <2> HIDE DEF none
  <2> QED  BY <1>9
<1> HIDE DEF Goes, less, no_less
<1> DEFINE Good(sorted, m) ==
             /\ sorted \in PairLists
             /\ sorted.ok => \E q \in Orders(m) :
                   /\ Len(sorted.list) = m /\ \A k \in 1 .. m : sorted.list[k] = out[q[k]]
                   /\ KeysAreOrdered => Sorts(q, m, less, no_less)
           U == {m \in Nat : m <= n => Good(after[m], m)}
<1>11. 0 \in U
  <2>1. after[0] = none
    BY <1>1, <1>10
  <2> DEFINE q == [k \in 1 .. 0 |-> k]
  <2>2. q \in Orders(0) /\ Sorts(q, 0, less, no_less)
    BY DEF Orders, Sorts
  <2> HIDE DEF q
  <2>3. none.list = <<>> /\ Len(<<>>) = 0 /\ \A k \in 1 .. 0 : none.list[k] = out[q[k]]
    OBVIOUS
  <2> HIDE DEF none
  <2>4. Good(none, 0)
    BY <1>6, <2>2, <2>3
  <2> HIDE DEF Good
  <2> QED  BY <2>1, <2>4
<1>12. ASSUME NEW m1 \in Nat \ {0}, m1 - 1 \in U
       PROVE  m1 \in U
  <2> DEFINE m == m1 - 1
  <2> SUFFICES ASSUME m1 <= n
               PROVE  Good(after[m1], m1)
    OBVIOUS
  <2>1. m \in Nat /\ m1 = m + 1 /\ m1 \in 1 .. n /\ m <= n
    BY <1>1
  <2> DEFINE sorted == after[m]
             new == after[m1]
             pair == out[m1]
  <2>2. Good(sorted, m) /\ new = InsertPair(sorted, pair) /\ pair \in Pairs /\ pair[1] = Got[m1]
    <3> HIDE DEF Good
    <3>1. m1 \in 0 .. n /\ m1 # 0
      BY <2>1
    <3> QED  BY <1>2, <1>10, <1>12, <2>1, <3>1
  <2> HIDE DEF sorted, new, m, none
  <2>3. sorted \in PairLists
    BY <2>2
  <2>4. CASE ~ new.ok
    <3>1. new \in PairLists
      BY <2>2, <2>3, InsertPairIs
    <3>2. Good(new, m1)
      BY <2>4, <3>1
    <3> HIDE DEF Good
    <3> QED  BY <3>2 DEF new
  <2>5. CASE new.ok
    <3>1. PICK place \in 0 .. Len(sorted.list) :
              /\ sorted.ok /\ new.list = InsertAt(sorted.list, place + 1, pair) /\ new \in PairLists
              /\ place > 0 => KeyComparison(pair[1], sorted.list[place][1]) = "not"
              /\ \A k \in place + 1 .. Len(sorted.list) : KeyComparison(pair[1], sorted.list[k][1]) = "less"
      BY <2>2, <2>3, <2>5, InsertPairIs
    <3>2. PICK q \in Orders(m) :
              /\ Len(sorted.list) = m /\ \A k \in 1 .. m : sorted.list[k] = out[q[k]]
              /\ KeysAreOrdered => Sorts(q, m, less, no_less)
      BY <2>2, <3>1
    <3>3. sorted.list \in Seq(Pairs) /\ place \in 0 .. m
      BY <2>3, <3>2 DEF PairLists
    <3> DEFINE list == sorted.list
               i == place + 1
               longer == Inserted(q, m, place)
    <3>4. \A k \in 1 .. m : q[k] \in 1 .. m /\ q[k] \in 1 .. n
      <4>1. q \in [1 .. m -> 1 .. m]
        BY <2>1, OrdersAre
      <4> QED  BY <1>1, <2>1, <4>1
    <3>5. /\ longer \in Orders(m + 1)
          /\ \A k \in 1 .. m + 1 : longer[k] = IF k <= place THEN q[k] ELSE IF k = place + 1 THEN m + 1 ELSE q[k - 1]
      BY <2>1, <3>3, InsertedIs
    <3>6. /\ Len(new.list) = m1
          /\ \A k \in 1 .. m1 : new.list[k] = IF k < i THEN list[k] ELSE IF k = i THEN pair ELSE list[k - 1]
      <4>1. list \in Seq(Pairs) /\ i \in 1 .. Len(list) + 1 /\ Len(list) = m
        BY <2>1, <3>2, <3>3
      <4>2. new.list = InsertAt(list, i, pair)
        BY <3>1
      <4> HIDE DEF list, i
      <4>3. Len(InsertAt(list, i, pair)) = Len(list) + 1 /\ IsWith(InsertAt(list, i, pair), list, i, pair)
        BY <2>2, <4>1, InsertAtIs
      <4>4. \A k \in 1 .. Len(list) + 1 :
                  InsertAt(list, i, pair)[k] = IF k < i THEN list[k] ELSE IF k = i THEN pair ELSE list[k - 1]
        BY <4>3 DEF IsWith
      <4> QED  BY <2>1, <4>1, <4>2, <4>3, <4>4
    <3>7. \A k \in 1 .. m1 : new.list[k] = out[longer[k]]
      <4> SUFFICES ASSUME NEW k \in 1 .. m1
                   PROVE  new.list[k] = out[longer[k]]
        OBVIOUS
      <4> HIDE DEF longer
      <4>1. CASE k <= place
        <5>1. k \in 1 .. m /\ k < i /\ k \in 1 .. m + 1
          BY <2>1, <3>3, <4>1
        <5> QED  BY <3>2, <3>5, <3>6, <4>1, <5>1
      <4>2. CASE k = place + 1
        <5>1. ~ (k < i) /\ k = i /\ ~ (k <= place) /\ k \in 1 .. m + 1
          BY <2>1, <3>3, <4>2
        <5>2. longer[k] = m1
          BY <2>1, <3>5, <4>2, <5>1
        <5> QED  BY <3>6, <5>1, <5>2
      <4>3. CASE k > place + 1
        <5>1. k - 1 \in 1 .. m /\ ~ (k < i) /\ k # i /\ ~ (k <= place) /\ k # place + 1 /\ k \in 1 .. m + 1
          BY <2>1, <3>3, <4>3
        <5>2. longer[k] = q[k - 1] /\ new.list[k] = list[k - 1]
          BY <3>5, <3>6, <5>1
        <5> QED  BY <3>2, <5>1, <5>2
      <4>4. k <= place \/ k = place + 1 \/ k > place + 1
        BY <2>1, <3>3
      <4> QED  BY <4>1, <4>2, <4>3, <4>4
    <3>8. KeysAreOrdered => Sorts(longer, m1, less, no_less)
      <4> SUFFICES ASSUME KeysAreOrdered
                   PROVE  Sorts(longer, m1, less, no_less)
        OBVIOUS
      <4>1. Orderly(n, less, no_less) /\ Sorts(q, m, less, no_less)
        BY <1>1, <3>2, KeysAreOrderly DEF less, no_less
      <4>2. \A k \in 1 .. m : list[k][1] = Got[q[k]]
        BY <1>2, <3>2, <3>4
      <4>3. \A a, b \in 1 .. n :
                /\ <<a, b>> \in less <=> KeyComparison(Got[a], Got[b]) = "less"
                /\ <<a, b>> \in no_less <=> KeyComparison(Got[a], Got[b]) = "not"
        BY <1>1 DEF less, no_less, KeyPairs
      <4>4. place > 0 => <<m + 1, q[place]>> \in no_less
        <5> SUFFICES ASSUME place > 0
                     PROVE  <<m + 1, q[place]>> \in no_less
          OBVIOUS
        <5>1. place \in 1 .. m /\ m + 1 \in 1 .. n
          BY <2>1, <3>3
        <5>2. KeyComparison(Got[m + 1], Got[q[place]]) = "not"
          BY <2>1, <2>2, <3>1, <4>2, <5>1
        <5> QED  BY <3>4, <4>3, <5>1, <5>2
      <4>5. \A k \in place + 1 .. m : <<m + 1, q[k]>> \in less
        <5> SUFFICES ASSUME NEW k \in place + 1 .. m
                     PROVE  <<m + 1, q[k]>> \in less
          OBVIOUS
        <5>1. k \in 1 .. m /\ m + 1 \in 1 .. n /\ k \in place + 1 .. Len(sorted.list)
          BY <2>1, <3>2, <3>3
        <5>2. KeyComparison(Got[m + 1], Got[q[k]]) = "less"
          BY <2>1, <2>2, <3>1, <4>2, <5>1
        <5> QED  BY <3>4, <4>3, <5>1, <5>2
      <4>6. m + 1 <= n
        BY <2>1
      <4> HIDE DEF list, i
      <4>7. Sorts(Inserted(q, m, place), m + 1, less, no_less)
        BY <1>1, <2>1, <3>3, <4>1, <4>4, <4>5, <4>6, InsertedSorts
      <4> QED  BY <2>1, <4>7
    <3>9. longer \in Orders(m1)
      BY <2>1, <3>5
    <3> HIDE DEF longer
    <3>10. Good(new, m1)
      BY <3>1, <3>6, <3>7, <3>8, <3>9
    <3> HIDE DEF Good
    <3> QED  BY <3>10 DEF new
  <2> QED  BY <2>4, <2>5
<1> HIDE DEF U
<1>13. n \in U
  BY <1>1, <1>11, <1>12, AllNaturals
<1>14. Good(after[n], n)
  <2> HIDE DEF Good
  <2>1. n <= n
    BY <1>1
  <2> QED  BY <1>13, <2>1 DEF U
<1>15. PICK q \in Orders(n) :
          /\ \A k \in 1 .. n : after[n].list[k] = out[q[k]]
          /\ KeysAreOrdered => Sorts(q, n, less, no_less)
  BY <1>5, <1>14
<1> QED  BY <1>5, <1>15 DEF out, n, less, no_less

LEMMA PassingIs ==
  ASSUME made \in Seq(CallRecords)
  PROVE  Passing(Given, Got) = Passed /\ DOMAIN made = 1 .. Len(made)
<1>1. DOMAIN made = 1 .. Len(made) /\ DOMAIN Given = 1 .. Len(made)
  BY GivenAndGot, CallsAre
<1> QED  BY <1>1 DEF Passing, Passed

LEMMA PassingThen ==
  ASSUME made' \in Seq(CallRecords)
  PROVE  Passing(Given, Got)' = Passed' /\ DOMAIN made' = 1 .. Len(made')
<1>1. DOMAIN made' = 1 .. Len(made') /\ DOMAIN Given' = 1 .. Len(made')
  BY CallsTell DEF Given
<1> QED  BY <1>1 DEF Passing, Passed

\* A method that leaves the stash as it was keeps its promise but for its answer.
LEMMA PromisesOfVisits ==
  ASSUME NEW method \in VisitMethods, NEW args, method \notin Changers => Contents(Now) = before
  PROVE  Promise(method, args, Contents(Now))
BY DEF Promise, VisitMethods

\* A call after which any or all knows the answer.
LEMMA SettledKeeps ==
  ASSUME Careful, Typed, VisitInv, Visited, Underway, NEW r \in AnyResult, NEW s \in Changed(r), CallFunction(r, s), Settles(r)
  PROVE  Typed' /\ doing'.how = "answered" /\ doing'.method = doing.method /\ Visited' /\ Promised'
<1> DEFINE n == Len(made)
<1>1. /\ Sound(s) /\ Now' = s /\ before' = before
      /\ made' \in Seq(CallRecords) /\ Len(made') = n + 1 /\ n \in Nat /\ Got' = Append(Got, r)
      /\ doing.method \notin Changers => Contents(s) = before
  BY CallIs
<1>2. doing' = Ended("answered") /\ told' = (doing.method = "any")
  BY DEF CallFunction
<1>3. IsLocals(doing') /\ doing'.how = "answered" /\ doing'.method = doing.method /\ doing'.args = doing.args
  BY <1>2, EndedIs DEF Typed
<1>4. Typed'
  BY <1>1, <1>3 DEF Typed
<1>5. Visited'
  BY <1>3, CallKeepsVisited
<1>6. doing.method \in VisitMethods /\ Shown /\ made \in Seq(CallRecords)
  BY DEF Underway, VisitInv, Typed
<1>7. Promise(doing.method, doing.args, Contents(Now))'
  <2>1. doing'.method \in VisitMethods /\ (doing'.method \notin Changers => Contents(Now)' = before')
    BY <1>1, <1>3, <1>6
  <2> QED  BY <2>1 DEF Promise, VisitMethods
<1>8. Passed' = (IF r \in TruthyOnes THEN Passed \cup {n + 1} ELSE Passed) /\ Passing(Given, Got)' = Passed' /\ DOMAIN made' = 1 .. n + 1
  BY <1>1, <1>6, PassedMore, PassingThen
<1>9. PromisedAnswer(doing.method, doing.args)'
  <2>1. CASE doing.method = "any"
    <3>1. Passed' = {n + 1} /\ told' = TRUE
      BY <1>2, <1>6, <1>8, <2>1 DEF Settles, Shown
    <3>2. told' = (Passing(Given, Got)' # {}) /\ Passing(Given, Got)' \subseteq {Len(made')}
      BY <1>1, <1>8, <3>1
    <3> QED  BY <1>3, <2>1, <3>2 DEF PromisedAnswer
  <2>2. CASE doing.method = "all"
    <3>1. Passed' = 1 .. n /\ told' = FALSE
      BY <1>2, <1>6, <1>8, <2>2 DEF Settles, Shown
    <3>2. n + 1 \in 1 .. n + 1 /\ n + 1 \notin 1 .. n /\ \A k \in 1 .. n + 1 : k \in 1 .. n \/ k = n + 1
      BY <1>1
    <3>3. /\ told' = (Passing(Given, Got)' = DOMAIN made')
          /\ DOMAIN made' \ Passing(Given, Got)' \subseteq {Len(made')}
      BY <1>1, <1>8, <3>1, <3>2
    <3> QED  BY <1>3, <2>2, <3>3 DEF PromisedAnswer
  <2> QED  BY <2>1, <2>2 DEF Settles
<1>10. Promised'
  BY <1>3, <1>7, <1>9 DEF Promised
<1> QED  BY <1>3, <1>4, <1>5, <1>10

LEMMA CallFailsKeeps ==
  ASSUME Careful, Typed, VisitInv, Visited, Underway, CallFails
  PROVE  Typed' /\ doing'.how = "chucked" /\ doing'.method = doing.method /\ Visited' /\ Promised'
<1>1. doing' = Ended("chucked") /\ Now' = Now /\ before' = before /\ made' = made
  BY DEF CallFails, Now
<1>2. IsLocals(doing') /\ doing'.how = "chucked" /\ doing'.method = doing.method /\ doing'.args = doing.args
  BY <1>1, EndedIs DEF Typed
<1>3. Typed'
  BY <1>1, <1>2 DEF Typed
<1>4. Visited'
  <2>1. Start' = Start
    BY <1>2 DEF Start
  <2> QED  BY <1>1, <1>2, <2>1 DEF Visited
<1>5. doing.method \in Changers \/ Rearranged(before, Contents(Now))
  <2>1. Rearranged(before, before)
    BY RearrangedItself DEF Typed
  <2> QED  BY <2>1 DEF VisitInv
<1>6. Promised'
  BY <1>1, <1>2, <1>5 DEF Promised
<1> QED  BY <1>2, <1>3, <1>4, <1>6

LEMMA SortByAnswers ==
  ASSUME made \in Seq(CallRecords), doing.out = [k \in 1 .. Len(made) |-> <<Got[k], Given[k]>>], SortedPairs.ok,
         NEW new, new = [k \in DOMAIN doing.out |-> SortedPairs.list[k][2]]
  PROVE  Rearranged(Given, new) /\ (KeysAreOrdered => Ordered(Given, Got, KeyLess, new))
<1> DEFINE n == Len(made)
<1>1. n \in Nat /\ Len(Given) = n /\ DOMAIN Given = 1 .. n /\ Given \in Seq(Values) /\ Len(Got) = n
  BY CallsAre, GivenAndGot
<1>2. PICK q \in Orders(n) :
         /\ \A k \in 1 .. n : SortedPairs.list[k] = doing.out[q[k]]
         /\ KeysAreOrdered => Sorts(q, n, KeyPairs("less"), KeyPairs("not"))
  BY SortedPairsAre
<1>3. \A k \in 1 .. n : q[k] \in 1 .. n
  <2> HIDE DEF n
  <2>1. q \in [1 .. n -> 1 .. n]
    BY <1>1, <1>2, OrdersAre
  <2> QED  BY <2>1
<1>4. \A k \in 1 .. n : SortedPairs.list[k][2] = Given[q[k]]
  <2>1. \A k \in 1 .. n : doing.out[k][2] = Given[k]
    OBVIOUS
  <2> QED  BY <1>2, <1>3, <2>1
<1>5. new = [k \in 1 .. n |-> Given[q[k]]]
  BY <1>4
<1>6. Len(new) = n
  <2>1. \A k \in 1 .. n : Given[k] \in Values
    BY <1>1, ElementOfSeq
  <2> HIDE DEF n
  <2>2. new \in [1 .. n -> Values]
    BY <1>3, <1>5, <2>1
  <2> QED  BY <1>1, <2>2, IsSeq
<1> HIDE DEF n
<1>7. Rearranged(Given, new)
  <2>1. new = [k \in DOMAIN Given |-> Given[q[k]]] /\ q \in Orders(Len(Given)) /\ Len(new) = Len(Given)
    BY <1>1, <1>2, <1>5, <1>6
  <2> QED  BY <2>1 DEF Rearranged
<1>8. ASSUME KeysAreOrdered
      PROVE  Ordered(Given, Got, KeyLess, new)
  <2>1. ASSUME NEW a \in 1 .. n, NEW b \in 1 .. n, a < b
        PROVE  /\ ~ KeyLess(Got[q[b]], Got[q[a]])
               /\ KeyLess(Got[q[a]], Got[q[b]]) \/ q[a] < q[b]
    <3>1. /\ <<q[b], q[a]>> \in KeyPairs("not")
          /\ <<q[a], q[b]>> \in KeyPairs("less") \/ q[a] < q[b]
      BY <1>2, <1>8, <2>1 DEF Sorts
    <3>2. KeyComparison(Got[q[b]], Got[q[a]]) = "not"
      BY <3>1 DEF KeyPairs
    <3>3. KeyComparison(Got[q[a]], Got[q[b]]) = "less" \/ q[a] < q[b]
      BY <3>1 DEF KeyPairs
    <3> QED  BY <3>2, <3>3 DEF KeyLess
  <2> QED  BY <1>1, <1>2, <1>5, <2>1 DEF Ordered
<1> QED  BY <1>7, <1>8

LEMMA GroupByAnswers ==
  ASSUME made \in Seq(CallRecords), NEW groups, Grouped(groups, Given, Got)
  PROVE  /\ {g.key : g \in ToSet(groups)} = ToSet(Got)
         /\ \A a, b \in DOMAIN groups : groups[a].key = groups[b].key => a = b
         /\ \A g \in ToSet(groups) : Picked(Given, {k \in DOMAIN made : Got[k] = g.key}, g.items)
<1>1. /\ DOMAIN groups = 1 .. Len(groups) /\ DOMAIN made = 1 .. Len(made) /\ DOMAIN Got = 1 .. Len(made) /\ Len(Got) = Len(made)
  BY CallsAre, GivenAndGot, LenProperties DEF Grouped
<1>2. {g.key : g \in ToSet(groups)} = ToSet(Got)
  <2>1. ToSet(groups) = {groups[g] : g \in 1 .. Len(groups)} /\ ToSet(Got) = {Got[k] : k \in 1 .. Len(Got)}
    BY <1>1 DEF ToSet
  <2>2. {g.key : g \in ToSet(groups)} = {groups[g].key : g \in 1 .. Len(groups)}
    BY <2>1
  <2>3. ASSUME NEW g \in 1 .. Len(groups)
        PROVE  groups[g].key \in ToSet(Got)
    <3>1. \E k \in 1 .. Len(Got) : groups[g].key = Got[k]
      BY DEF Grouped
    <3> QED  BY <2>1, <3>1
  <2>4. ASSUME NEW k \in 1 .. Len(Got)
        PROVE  Got[k] \in {groups[g].key : g \in 1 .. Len(groups)}
    <3>1. \E g \in 1 .. Len(groups) : groups[g].key = Got[k]
      BY DEF Grouped
    <3> QED  BY <3>1
  <2> QED  BY <2>1, <2>2, <2>3, <2>4
<1>3. \A a, b \in DOMAIN groups : groups[a].key = groups[b].key => a = b
  BY <1>1 DEF Grouped
<1>4. ASSUME NEW g \in ToSet(groups)
      PROVE  Picked(Given, {k \in DOMAIN made : Got[k] = g.key}, g.items)
  <2>1. PICK x \in 1 .. Len(groups) : groups[x] = g
    BY <1>1 DEF ToSet
  <2>2. Picked(Given, {k \in 1 .. Len(Got) : Got[k] = groups[x].key}, groups[x].items)
    BY DEF Grouped
  <2> QED  BY <1>1, <2>1, <2>2
<1> QED  BY <1>2, <1>3, <1>4

LEMMA EndVisitKeeps ==
  ASSUME Careful, Typed, VisitInv, Visited, Underway, EndVisit
  PROVE  Typed' /\ doing'.how \in {"answered", "chucked"} /\ doing'.method = doing.method /\ Visited' /\ Promised'
<1>1. Now' = Now /\ before' = before /\ made' = made
  BY DEF EndVisit, Now
<1>2. PICK how \in {"answered", "chucked"} : doing' = Ended(how)
  BY DEF EndVisit
<1>3. IsLocals(doing') /\ doing'.how = how /\ doing'.method = doing.method /\ doing'.args = doing.args
  BY <1>2, EndedIs DEF Typed
<1>4. Typed'
  BY <1>1, <1>3 DEF Typed
<1>5. /\ doing.i = Len(made) + Start - 1 /\ Shown /\ (doing.method \notin Changers => Contents(Now) = before)
      /\ made \in Seq(CallRecords) /\ doing.method \in VisitMethods /\ Len(made) \in Nat
  BY CallsAre DEF VisitInv, Typed, Underway
<1>6. Visited'
  <2>1. Start' = Start /\ Start \in Nat
    BY <1>3 DEF Start
  <2>2. ASSUME doing.method \notin Changers \cup {"sort"}
        PROVE  doing.i >= Len(before)
    <3>1. Len(before) = length
      <4>1. Len(Contents(Now)) = length
        BY NowIsSound, NowIs, ContentsAre
      <4> QED  BY <1>5, <2>2, <4>1
    <3>2. doing.i >= Bound
      BY DEF EndVisit
    <3> QED  BY <1>5, <3>1, <3>2 DEF Bound, Shown
  <2>3. Len(before) \in Nat
    BY LenProperties DEF Typed
  <2>4. ASSUME doing.method \notin Changers \cup {"sort"}, made # <<>>
        PROVE  Len(made) + Start - 1 = Len(before)
    <3>1. Len(made) + Start - 1 <= Len(before)
      BY <2>4 DEF Visited
    <3> QED  BY <1>5, <2>1, <2>2, <2>3, <2>4, <3>1
  <2> QED  BY <1>1, <1>3, <2>1, <2>4 DEF Visited
<1>7. CASE how = "chucked"
  <2>1. doing.method = "sort_by"
    BY <1>2, <1>3, <1>7, EndedIs DEF EndVisit, Typed
  <2>2. Rearranged(before, before)
    BY RearrangedItself DEF Typed
  <2>3. Contents(Now) = before
    BY <1>5, <2>1 DEF Careful
  <2>4. Promised'
    BY <1>1, <1>3, <1>7, <2>2, <2>3 DEF Promised
  <2> QED  BY <1>3, <1>4, <1>6, <1>7, <2>4
<1>8. CASE how = "answered"
  <2>1. /\ doing.method = "sort_by" => SortedPairs.ok
        /\ told' = CASE doing.method = "squish" -> doing.acc
                     [] doing.method \in {"any", "all"} -> doing.method = "all"
                     [] doing.method = "sort_by" -> [k \in DOMAIN doing.out |-> SortedPairs.list[k][2]]
                     [] OTHER -> doing.out
    BY <1>2, <1>3, <1>8, EndedIs DEF EndVisit, Typed
  <2>2. Given' = Given /\ Got' = Got
    BY <1>1 DEF Given, Got
  <2>3. Passing(Given, Got)' = Passed /\ DOMAIN made = 1 .. Len(made)
    BY <1>5, <2>2, PassingIs DEF Passing
  <2>4. Promise(doing.method, doing.args, Contents(Now))'
    BY <1>1, <1>3, <1>5, PromisesOfVisits DEF Promise, VisitMethods
  <2>5. PromisedAnswer(doing.method, doing.args)'
    <3>1. CASE doing.method = "glow_up"
      <4>1. told' = Got'
        BY <1>5, <2>1, <2>2, <3>1 DEF Shown
      <4> QED  BY <1>3, <3>1, <4>1 DEF PromisedAnswer
    <3>2. CASE doing.method = "vibe_check"
      <4>1. told' = doing.out /\ Picked(Given, Passed, doing.out)
        BY <1>5, <2>1, <3>2 DEF Shown
      <4>2. Picked(Given', Passing(Given, Got)', told')
        BY <2>2, <2>3, <4>1
      <4> QED  BY <1>3, <3>2, <4>2 DEF PromisedAnswer, Picked
    <3>3. CASE doing.method = "any"
      <4>1. told' = FALSE /\ Passing(Given, Got)' = {}
        BY <1>5, <2>1, <2>3, <3>3 DEF Shown
      <4> QED  BY <1>3, <3>3, <4>1 DEF PromisedAnswer
    <3>4. CASE doing.method = "all"
      <4>1. told' = TRUE /\ Passing(Given, Got)' = DOMAIN made'
        BY <1>1, <1>5, <2>1, <2>3, <3>4 DEF Shown
      <4> QED  BY <1>3, <3>4, <4>1 DEF PromisedAnswer
    <3>5. CASE doing.method = "sort_by"
      <4>1. told' = [k \in DOMAIN doing.out |-> SortedPairs.list[k][2]] /\ SortedPairs.ok
        BY <2>1, <3>5
      <4>2. Rearranged(Given, told') /\ (KeysAreOrdered => Ordered(Given, Got, KeyLess, told'))
        BY <1>5, <3>5, <4>1, SortByAnswers DEF Shown
      <4>3. KeysAreOrdered' <=> KeysAreOrdered
        BY <2>2 DEF KeysAreOrdered
      <4> QED  BY <1>3, <2>2, <3>5, <4>2, <4>3, SMTT(20) DEF PromisedAnswer, Rearranged, Ordered, KeyLess
    <3>6. CASE doing.method = "group_by"
      <4>1. told' = doing.out /\ Grouped(doing.out, Given, Got)
        BY <1>5, <2>1, <3>6 DEF Shown
      <4>2. /\ {g.key : g \in ToSet(told')} = ToSet(Got)
            /\ \A a, b \in DOMAIN told' : told'[a].key = told'[b].key => a = b
            /\ \A g \in ToSet(told') : Picked(Given, {k \in DOMAIN made : Got[k] = g.key}, g.items)
        BY <1>5, <4>1, GroupByAnswers
      <4> QED  BY <1>1, <1>3, <2>2, <3>6, <4>2 DEF PromisedAnswer, Picked
    <3>7. CASE doing.method = "squish"
      <4>1. told' = doing.acc /\ Chained(doing.acc)
        BY <1>5, <2>1, <3>7 DEF Shown
      <4>2. ASSUME NEW k \in 1 .. Len(made) + 1
            PROVE  (IF k <= Len(made) THEN made[k].args[1] ELSE told') = IF k > 1 THEN Got[k - 1] ELSE (doing.args \o before)[1]
        <5>1. k > 1 => k - 1 \in 1 .. Len(made)
          BY <1>5
        <5>2. k > 1 => Got[k - 1] = made[k - 1].result
          BY <1>5, <5>1, GivenAndGot
        <5> QED  BY <4>1, <5>2 DEF Chained
      <4> QED  BY <1>1, <1>3, <2>2, <3>7, <4>2 DEF PromisedAnswer
    <3> QED  BY <1>5, <3>1, <3>2, <3>3, <3>4, <3>5, <3>6, <3>7 DEF VisitMethods
  <2>6. Promised'
    BY <1>3, <1>8, <2>4, <2>5 DEF Promised
  <2> QED  BY <1>3, <1>4, <1>6, <1>8, <2>6
<1> QED  BY <1>7, <1>8

\* A method that starts has made no calls.
LEMMA BeginsIs ==
  ASSUME Began, NEW local, IsLocals(local), Begins(local)
  PROVE  /\ Typed' /\ doing' = local /\ made' = <<>> /\ before' = before /\ Now' = Now
         /\ Contents(Now) = before /\ length = Len(before) /\ \A k \in 1 .. length : before[k] = array[k]
         /\ Given' = <<>> /\ Got' = <<>> /\ length \in 0 .. Len(array) /\ Len(array) \in Nat
<1>1. doing.how = "not yet" /\ doing' = local /\ made' = <<>> /\ before' = before /\ Now' = Now /\ Contents(Now) = before
  BY DEF Begins, Began, Now
<1>2. Typed'
  BY <1>1 DEF Began, Typed
<1>3. /\ length = Len(before) /\ (\A k \in 1 .. length : before[k] = array[k])
      /\ length \in 0 .. Len(array) /\ Len(array) \in Nat
  BY <1>1, NowIsSound, NowIs, ContentsAre DEF Began
<1>4. Given' = <<>> /\ Got' = <<>>
  <2>1. DOMAIN <<>> = {}
    OBVIOUS
  <2>2. DOMAIN made' = {}
    BY <1>1, <2>1
  <2> QED  BY <2>2 DEF Given, Got
<1> QED  BY <1>1, <1>2, <1>3, <1>4

LEMMA VisitKeeps ==
  ASSUME Began, NEW method \in VisitMethods \ {"squish"}, Visit(method)
  PROVE  Typed' /\ Underway' /\ doing'.how = "running" /\ VisitInv' /\ Visited' /\ Promised'
<1> DEFINE local == Local(method, <<>>)
<1>1. /\ IsLocals(local) /\ local.method = method /\ local.args = <<>> /\ local.how = "running" /\ local.i = 0
      /\ local.n = length /\ local.out = <<>>
  BY DEF IsLocals, Local
<1>2. Begins(local)
  BY DEF Visit
<1> HIDE DEF local
<1>3. /\ Typed' /\ doing' = local /\ made' = <<>> /\ before' = before /\ Now' = Now
      /\ Contents(Now) = before /\ length = Len(before) /\ Given' = <<>> /\ Got' = <<>>
  BY <1>1, <1>2, BeginsIs
<1>4. Underway' /\ doing'.how = "running"
  BY <1>1, <1>3 DEF Underway
<1>5. Len(made') = 0 /\ Start' = 1 /\ 1 .. Len(made') = {}
  BY <1>1, <1>3 DEF Start
<1>6. Passed' = {}
  BY <1>5 DEF Passed
<1>7. Shown'
  <2>1. method = "vibe_check" => doing'.out \in Seq(Values) /\ Picked(Given', Passed', doing'.out)
    BY <1>1, <1>3, <1>6, NothingPicked, EmptySeq
  <2>2. method = "sort_by" => doing'.n = Len(before') /\ doing'.out = [k \in 1 .. Len(made') |-> <<Got'[k], Given'[k]>>]
    <3>1. <<>> = [k \in 1 .. Len(made') |-> <<Got'[k], Given'[k]>>]
      BY <1>5
    <3> QED  BY <1>1, <1>3, <3>1
  <2>3. method = "group_by" => Grouped(doing'.out, Given', Got')
    <3>1. doing'.out = <<>> /\ Got' = <<>> /\ <<>> \in Seq(Groups) /\ Len(<<>>) = 0 /\ 1 .. 0 = {}
      BY <1>1, <1>3
    <3> QED  BY <3>1 DEF Grouped
  <2>4. method = "glow_up" => doing'.out = Got'
    BY <1>1, <1>3
  <2>5. method = "all" => Passed' = 1 .. Len(made')
    BY <1>5, <1>6
  <2>6. method # "squish" /\ doing'.method = method
    BY <1>1, <1>3
  <2> QED  BY <1>6, <2>1, <2>2, <2>3, <2>4, <2>5, <2>6 DEF Shown
<1>8. VisitInv'
  BY <1>1, <1>3, <1>5, <1>7 DEF VisitInv
<1>9. Visited'
  BY <1>3, <1>5 DEF Visited
<1>10. Promised'
  BY <1>4 DEF Promised
<1> QED  BY <1>3, <1>4, <1>8, <1>9, <1>10

\* squish starts with the value it is given, or else with the first element.
LEMMA SquishBegins ==
  ASSUME Began, NEW initial, NEW v \in Values, NEW i, NEW local, IsLocals(local), local.method = "squish",
         local.args = initial, local.how = "running", local.i = i, local.acc = v, Begins(local),
         i = (IF initial = <<>> THEN 2 ELSE 1) - 1, (initial \o before)[1] = v
  PROVE  Typed' /\ Underway' /\ doing'.how = "running" /\ VisitInv' /\ Visited' /\ Promised'
<1>1. /\ IsLocals(local) /\ local.method = "squish" /\ local.args = initial /\ local.how = "running" /\ local.i = i
      /\ local.acc = v
  OBVIOUS
<1>2. Begins(local)
  OBVIOUS
<1>3. /\ Typed' /\ doing' = local /\ made' = <<>> /\ before' = before /\ Now' = Now /\ Contents(Now) = before
  BY <1>1, <1>2, BeginsIs
<1>4. Underway' /\ doing'.how = "running"
  BY <1>1, <1>3 DEF Underway, VisitMethods
<1>5. Len(made') = 0 /\ Start' = (IF initial = <<>> THEN 2 ELSE 1) /\ 1 .. Len(made') = {}
  BY <1>1, <1>3 DEF Start
<1>6. Chained(v)'
  <2>1. \A k \in 1 .. Len(made') + 1 : k = 1 /\ ~ (k <= Len(made')) /\ ~ (k > 1)
    BY <1>5
  <2> QED  BY <1>1, <1>3, <2>1 DEF Chained
<1>7. Shown'
  BY <1>1, <1>3, <1>6 DEF Shown, Chained
<1>8. VisitInv'
  BY <1>1, <1>3, <1>5, <1>7 DEF VisitInv
<1>9. Visited'
  BY <1>3, <1>5 DEF Visited
<1>10. Promised'
  BY <1>4 DEF Promised
<1> QED  BY <1>3, <1>4, <1>8, <1>9, <1>10

LEMMA SquishKeeps ==
  ASSUME Began, NEW initial, initial = <<>> \/ (\E v \in Elements : initial = <<v>>), Squish(initial)
  PROVE  \/ Typed' /\ Underway' /\ doing'.how = "running" /\ VisitInv' /\ Visited' /\ Promised'
         \/ Typed' /\ made' = <<>> /\ doing'.how = "chucked" /\ Promised'
<1>1. CASE initial = <<>> /\ length = 0 /\ Chucks("squish", <<>>)
  BY <1>1, ChucksKeeps
<1>2. CASE initial # <<>> /\ Begins([Local("squish", initial) EXCEPT !.acc = initial[1]])
  <2>1. PICK v \in Elements : initial = <<v>>
    BY <1>2
  <2> DEFINE local == [Local("squish", initial) EXCEPT !.acc = v]
  <2>2. Begins(local)
    <3>1. initial[1] = v
      BY <2>1
    <3> QED  BY <1>2, <3>1
  <2>3. (initial \o before)[1] = v
    <3>1. before \in Seq(Elements) /\ Len(before) \in Nat
      BY LenProperties DEF Began, Typed
    <3>2. initial \in Seq(Elements) /\ Len(initial) = 1 /\ initial[1] = v
      BY <2>1
    <3>3. \A k \in 1 .. Len(initial) + Len(before) : (initial \o before)[k] = IF k <= Len(initial) THEN initial[k] ELSE before[k - Len(initial)]
      BY <3>1, <3>2, ConcatProperties
    <3>4. 1 \in 1 .. Len(initial) + Len(before) /\ 1 <= Len(initial)
      BY <3>1, <3>2
    <3> QED  BY <3>2, <3>3, <3>4
  <2>4. v \in Values /\ 0 = (IF initial = <<>> THEN 2 ELSE 1) - 1
    BY <1>2 DEF Values
  <2>5. /\ IsLocals(local) /\ local.method = "squish" /\ local.args = initial /\ local.how = "running"
        /\ local.i = 0 /\ local.acc = v
    <3> DEFINE d == Local("squish", initial)
    <3>1. IsLocals(d) /\ d.method = "squish" /\ d.args = initial /\ d.how = "running" /\ d.i = 0
      BY DEF IsLocals, Local
    <3>2. local = [d EXCEPT !.acc = v]
      OBVIOUS
    <3> HIDE DEF d, local
    <3> QED  BY <3>1, <3>2 DEF IsLocals
  <2> HIDE DEF local
  <2> QED  BY <2>2, <2>3, <2>4, <2>5, SquishBegins
<1>3. CASE initial = <<>> /\ length > 0 /\ Begins([Local("squish", <<>>) EXCEPT !.acc = ItemAt(array, 0), !.i = 1])
  <2> DEFINE v == ItemAt(array, 0)
             local == [Local("squish", <<>>) EXCEPT !.acc = ItemAt(array, 0), !.i = 1]
  <2>1. /\ IsLocals(local) /\ local.method = "squish" /\ local.args = <<>> /\ local.how = "running"
        /\ local.i = 1 /\ local.acc = v
    <3> DEFINE d == Local("squish", <<>>)
               e == [d EXCEPT !.acc = v]
    <3>1. IsLocals(d) /\ d.method = "squish" /\ d.args = <<>> /\ d.how = "running"
      BY DEF IsLocals, Local
    <3>2. local = [e EXCEPT !.i = 1]
      OBVIOUS
    <3> HIDE DEF d, local, v
    <3>3. IsLocals(e) /\ e.method = "squish" /\ e.args = <<>> /\ e.how = "running" /\ e.acc = v
      BY <3>1 DEF IsLocals
    <3> HIDE DEF e
    <3> QED  BY <3>2, <3>3 DEF IsLocals
  <2>2. Begins(local)
    BY <1>3
  <2> HIDE DEF local
  <2>3. length = Len(before) /\ (\A k \in 1 .. length : before[k] = array[k]) /\ length \in 0 .. Len(array) /\ Len(array) \in Nat
    BY <2>1, <2>2, BeginsIs
  <2>4. array \in Seq(Values \cup {Nothing}) /\ (\A k \in 1 .. length : array[k] \in Values) /\ before \in Seq(Elements)
    BY NowIsSound DEF Began, Typed
  <2>5. v = array[1] /\ 1 \in 1 .. length
    <3>1. DOMAIN array = 1 .. Len(array)
      BY <2>4, LenProperties
    <3>2. 0 + 1 \in DOMAIN array /\ 1 \in 1 .. length /\ 0 + 1 = 1
      BY <1>3, <2>3, <3>1
    <3> QED  BY <3>2 DEF ItemAt
  <2> HIDE DEF v
  <2>6. v \in Values /\ before[1] = v
    BY <2>3, <2>4, <2>5
  <2>7. initial \o before = before
    BY <1>3, <2>4, ConcatEmptySeq
  <2>8. 1 = (IF initial = <<>> THEN 2 ELSE 1) - 1 /\ initial = <<>>
    BY <1>3
  <2> QED  BY <2>1, <2>2, <2>6, <2>7, <2>8, SquishBegins
<1> QED  BY <1>1, <1>2, <1>3 DEF Squish

-----------------------------------------------------------------------------
(* sort *)

Answered(answer) == {c \in (1 .. Len(before)) \X (1 .. Len(before)) : Comparison(before[c[1]], before[c[2]]) = answer}

\* The first i are those at q, but for a gap after the first j + 1, and the others are where they were.
Placed(q, a, i, j) ==
    /\ q \in Orders(i)
    /\ \A k \in 1 .. j + 1 : a[k] = before[q[k]]
    /\ \A k \in j + 2 .. i : a[k + 1] = before[q[k]]
    /\ \A k \in i + 2 .. Len(before) : a[k] = before[k]

Behind(rank) == {c \in (1 .. Len(before)) \X (1 .. Len(before)) : rank[before[c[1]]] < rank[before[c[2]]]}
NotBehind(rank) == {c \in (1 .. Len(before)) \X (1 .. Len(before)) : ~ (rank[before[c[1]]] < rank[before[c[2]]])}

\* The orders that the calls agree with, each as the places that are less, and those that are not.
Ranks == [ToSet(before) -> 1 .. Len(before)]
Ways == IF doing.args = <<>> THEN {<<Answered("less"), Answered("not")>>}
        ELSE {<<Behind(rank), NotBehind(rank)>> : rank \in {r \in Ranks : ComparesBy(r)}}

\* They are in order, and the element at i belongs before those past the gap.
Apart(q, i, j, way) ==
    /\ Sorts(q, i, way[1], way[2])
    /\ \A k \in j + 2 .. i : <<i + 1, q[k]>> \in way[1]

SortInv ==
    Sorting =>
        /\ doing.args \in {<<>>, <<"cmp">>}
        /\ doing.n = length /\ length = Len(before) /\ doing.held = Len(array)
        /\ doing.i \in 1 .. length - 1 /\ doing.j \in 0 .. doing.i - 1 /\ doing.key = before[doing.i + 1]
        /\ doing.args = <<>> => \A a, b \in 1 .. length : Comparison(before[a], before[b]) # "can't compare"
        /\ \E q : Placed(q, array, doing.i, doing.j) /\ \A way \in Ways : Apart(q, doing.i, doing.j, way)

LEMMA AnsweredIs ==
  ASSUME NEW n \in Nat, n = Len(before)
  PROVE  /\ \A a, b \in 1 .. n : \A answer : <<a, b>> \in Answered(answer) <=> Comparison(before[a], before[b]) = answer
         /\ Orderly(n, Answered("less"), Answered("not"))
<1>1. \A a, b \in 1 .. n : \A answer : <<a, b>> \in Answered(answer) <=> Comparison(before[a], before[b]) = answer
  BY DEF Answered
<1>2. Orderly(n, Answered("less"), Answered("not"))
  BY <1>1, ComparisonIs DEF Orderly
<1> QED  BY <1>1, <1>2

LEMMA BehindIs ==
  ASSUME NEW n \in Nat, n = Len(before), before \in Seq(Elements), NEW rank \in Ranks
  PROVE  /\ \A a, b \in 1 .. n : <<a, b>> \in Behind(rank) <=> rank[before[a]] < rank[before[b]]
         /\ \A a, b \in 1 .. n : <<a, b>> \in NotBehind(rank) <=> ~ (rank[before[a]] < rank[before[b]])
         /\ Orderly(n, Behind(rank), NotBehind(rank))
<1>1. /\ \A a, b \in 1 .. n : <<a, b>> \in Behind(rank) <=> rank[before[a]] < rank[before[b]]
      /\ \A a, b \in 1 .. n : <<a, b>> \in NotBehind(rank) <=> ~ (rank[before[a]] < rank[before[b]])
  BY DEF Behind, NotBehind
<1>2. \A a \in 1 .. n : rank[before[a]] \in Int
  <2>1. DOMAIN before = 1 .. n
    BY LenProperties
  <2>2. \A a \in 1 .. n : before[a] \in ToSet(before)
    BY <2>1 DEF ToSet
  <2>3. rank \in [ToSet(before) -> 1 .. n]
    BY DEF Ranks
  <2> QED  BY <2>2, <2>3
<1>3. Orderly(n, Behind(rank), NotBehind(rank))
  <2> PICK at : at = [a \in 1 .. n |-> rank[before[a]]]
    OBVIOUS
  <2>1. /\ \A a \in 1 .. n : at[a] \in Int
        /\ \A a, b \in 1 .. n : (<<a, b>> \in Behind(rank) <=> at[a] < at[b]) /\ (<<a, b>> \in NotBehind(rank) <=> ~ (at[a] < at[b]))
    BY <1>1, <1>2
  <2> QED  BY <2>1, SMTT(20) DEF Orderly
<1> QED  BY <1>1, <1>3

LEMMA WaysAreOrderly ==
  ASSUME NEW n \in Nat, n = Len(before), before \in Seq(Elements), NEW way \in Ways
  PROVE  Orderly(n, way[1], way[2])
<1>1. CASE doing.args = <<>>
  <2>1. way[1] = Answered("less") /\ way[2] = Answered("not")
    BY <1>1 DEF Ways
  <2> QED  BY <2>1, AnsweredIs
<1>2. CASE doing.args # <<>>
  <2>1. PICK rank \in Ranks : way[1] = Behind(rank) /\ way[2] = NotBehind(rank)
    BY <1>2 DEF Ways
  <2> QED  BY <2>1, BehindIs
<1> QED  BY <1>1, <1>2

\* Where sort is.
LEMMA SortingIs ==
  ASSUME Typed, SortInv, Sorting
  PROVE  /\ length \in Nat \ {0} /\ length = Len(before) /\ Len(array) \in Nat /\ length <= Len(array) /\ doing.held = Len(array)
         /\ array \in Seq(Values \cup {Nothing}) /\ before \in Seq(Elements) /\ (\A k \in 1 .. length : array[k] \in Values)
         /\ doing.n = length /\ doing.i \in 1 .. length - 1 /\ doing.j \in 0 .. doing.i - 1
         /\ doing.key = before[doing.i + 1] /\ doing.key \in Values
         /\ ItemAt(array, doing.j) = array[doing.j + 1] /\ array[doing.j + 1] \in Values
<1>1. /\ Sound(Now) /\ array \in Seq(Values \cup {Nothing}) /\ Len(array) \in Nat /\ length \in 0 .. Len(array)
      /\ \A k \in 1 .. length : array[k] \in Values
  BY NowIsSound
<1>2. /\ doing.n = length /\ length = Len(before) /\ doing.held = Len(array)
      /\ doing.i \in 1 .. length - 1 /\ doing.j \in 0 .. doing.i - 1 /\ doing.key = before[doing.i + 1]
  BY DEF SortInv
<1>3. length \in Nat \ {0} /\ length <= Len(array)
  BY <1>1, <1>2
<1>4. before \in Seq(Elements)
  BY DEF Typed
<1>5. doing.i + 1 \in 1 .. length /\ doing.j + 1 \in 1 .. length /\ doing.j + 1 \in 1 .. Len(array)
  BY <1>1, <1>2, <1>3
<1>6. doing.key \in Values
  <2>1. before[doing.i + 1] \in Elements
    BY <1>2, <1>4, <1>5, ElementOfSeq
  <2> QED  BY <1>2, <2>1 DEF Values
<1>7. ItemAt(array, doing.j) = array[doing.j + 1]
  <2>1. DOMAIN array = 1 .. Len(array)
    BY <1>1, LenProperties
  <2> QED  BY <1>5, <2>1 DEF ItemAt
<1> QED  BY <1>1, <1>2, <1>3, <1>4, <1>5, <1>6, <1>7

\* The array after a comparison.
LEMMA ComparedIs ==
  ASSUME Typed, SortInv, Sorting, NEW moves \in BOOLEAN
  PROVE  LET new == Compared(moves, doing.key, array)
             j == doing.j
         IN /\ new \in Seq(Values \cup {Nothing}) /\ Len(new) = Len(array)
            /\ \A k \in 1 .. length : new[k] \in Values
            /\ moves /\ j > 0 => \A k \in 1 .. length : new[k] = IF k = j + 2 THEN array[j + 1] ELSE array[k]
            /\ moves /\ j = 0 =>
                  \A k \in 1 .. length : new[k] = IF k = 1 THEN doing.key ELSE IF k = 2 THEN array[1] ELSE array[k]
            /\ ~ moves => \A k \in 1 .. length : new[k] = IF k = j + 2 THEN doing.key ELSE array[k]
<1> DEFINE new == Compared(moves, doing.key, array)
           j == doing.j
           V == Values \cup {Nothing}
           key == doing.key
           item == array[j + 1]
           moved == [array EXCEPT ![j + 1 + 1] = item]
<1>1. /\ length \in Nat \ {0} /\ Len(array) \in Nat /\ length <= Len(array) /\ array \in Seq(V)
      /\ doing.i \in 1 .. length - 1 /\ j \in 0 .. doing.i - 1 /\ key \in Values
      /\ ItemAt(array, j) = item /\ item \in Values /\ \A k \in 1 .. length : array[k] \in Values
  BY SortingIs
<1>2. j \in Nat /\ j + 2 \in 1 .. length /\ j + 1 \in 1 .. length /\ j + 1 + 1 = j + 2 /\ \A k \in 1 .. length : k \in 1 .. Len(array)
  BY <1>1, SMTT(20)
<1>3. Shifted(moves, array) = IF moves THEN moved ELSE array
  BY <1>1 DEF Shifted, PutItem
<1>4. new = IF Stays(moves) THEN [Shifted(moves, array) EXCEPT ![Gap(moves) + 1] = key] ELSE Shifted(moves, array)
  BY DEF Compared, PutItem
<1> HIDE DEF new, key, item, V
<1>5. moved \in Seq(V) /\ Len(moved) = Len(array) /\ \A k \in 1 .. Len(array) : moved[k] = IF k = j + 2 THEN item ELSE array[k]
  <2> DEFINE p == j + 1 + 1
  <2>1. p \in 1 .. Len(array) /\ item \in V
    BY <1>1, <1>2 DEF V
  <2> HIDE DEF p
  <2>2. /\ [array EXCEPT ![p] = item] \in Seq(V) /\ Len([array EXCEPT ![p] = item]) = Len(array)
        /\ \A k \in 1 .. Len(array) : [array EXCEPT ![p] = item][k] = IF k = p THEN item ELSE array[k]
    BY <1>1, <2>1, ExceptSeq
  <2> QED  BY <1>2, <2>2 DEF p
<1> HIDE DEF moved
<1>6. \A a \in Seq(V), p \in Nat : p + 1 \in 1 .. Len(a) =>
         /\ [a EXCEPT ![p + 1] = key] \in Seq(V) /\ Len([a EXCEPT ![p + 1] = key]) = Len(a)
         /\ \A k \in 1 .. Len(a) : [a EXCEPT ![p + 1] = key][k] = IF k = p + 1 THEN key ELSE a[k]
  <2> SUFFICES ASSUME NEW a \in Seq(V), NEW p \in Nat, p + 1 \in 1 .. Len(a)
               PROVE  /\ [a EXCEPT ![p + 1] = key] \in Seq(V) /\ Len([a EXCEPT ![p + 1] = key]) = Len(a)
                      /\ \A k \in 1 .. Len(a) : [a EXCEPT ![p + 1] = key][k] = IF k = p + 1 THEN key ELSE a[k]
    OBVIOUS
  <2> DEFINE x == p + 1
  <2>1. x \in 1 .. Len(a) /\ key \in V
    BY <1>1 DEF V
  <2> HIDE DEF x
  <2>2. /\ [a EXCEPT ![x] = key] \in Seq(V) /\ Len([a EXCEPT ![x] = key]) = Len(a)
        /\ \A k \in 1 .. Len(a) : [a EXCEPT ![x] = key][k] = IF k = x THEN key ELSE a[k]
    BY <2>1, ExceptSeq
  <2> QED  BY <2>2 DEF x
<1>7. ASSUME moves /\ j > 0
      PROVE  /\ new \in Seq(V) /\ Len(new) = Len(array) /\ (\A k \in 1 .. length : new[k] \in Values)
             /\ \A k \in 1 .. length : new[k] = IF k = j + 2 THEN item ELSE array[k]
  <2>1. ~ Stays(moves)
    BY <1>2, <1>7 DEF Stays
  <2>2. new = moved
    BY <1>3, <1>4, <1>7, <2>1
  <2>3. \A k \in 1 .. length : new[k] = IF k = j + 2 THEN item ELSE array[k]
    BY <1>2, <1>5, <2>2
  <2>4. \A k \in 1 .. length : new[k] \in Values
    BY <1>1, <2>3
  <2> QED  BY <1>5, <1>7, <2>2, <2>3, <2>4
<1>8. ASSUME moves /\ j = 0
      PROVE  /\ new \in Seq(V) /\ Len(new) = Len(array) /\ (\A k \in 1 .. length : new[k] \in Values)
             /\ \A k \in 1 .. length : new[k] = IF k = 1 THEN key ELSE IF k = 2 THEN array[1] ELSE array[k]
  <2>1. Stays(moves) /\ Gap(moves) = 0
    BY <1>2, <1>8 DEF Stays, Gap
  <2>2. new = [moved EXCEPT ![0 + 1] = key]
    BY <1>3, <1>4, <1>8, <2>1
  <2>3. 0 + 1 \in 1 .. Len(moved) /\ 0 \in Nat /\ 0 + 1 = 1
    BY <1>1, <1>5
  <2>4. new \in Seq(V) /\ Len(new) = Len(array) /\ \A k \in 1 .. Len(array) : new[k] = IF k = 1 THEN key ELSE moved[k]
    BY <1>5, <1>6, <2>2, <2>3
  <2>5. item = array[1] /\ j + 2 = 2
    BY <1>8 DEF item
  <2>6. \A k \in 1 .. length : new[k] = IF k = 1 THEN key ELSE IF k = 2 THEN array[1] ELSE array[k]
    BY <1>2, <1>5, <2>4, <2>5
  <2>7. \A k \in 1 .. length : new[k] \in Values
    BY <1>1, <2>5, <2>6
  <2> QED  BY <2>4, <2>6, <2>7
<1>9. ASSUME ~ moves
      PROVE  /\ new \in Seq(V) /\ Len(new) = Len(array) /\ (\A k \in 1 .. length : new[k] \in Values)
             /\ \A k \in 1 .. length : new[k] = IF k = j + 2 THEN key ELSE array[k]
  <2>1. Stays(moves) /\ Gap(moves) = j + 1
    BY <1>9 DEF Stays, Gap
  <2>2. new = [array EXCEPT ![(j + 1) + 1] = key]
    BY <1>3, <1>4, <1>9, <2>1
  <2> DEFINE p == j + 1
  <2>3. p + 1 \in 1 .. Len(array) /\ p \in Nat /\ p + 1 = j + 2 /\ new = [array EXCEPT ![p + 1] = key]
    BY <1>1, <1>2, <2>2
  <2> HIDE DEF p
  <2>4. new \in Seq(V) /\ Len(new) = Len(array) /\ \A k \in 1 .. Len(array) : new[k] = IF k = p + 1 THEN key ELSE array[k]
    BY <1>1, <1>6, <2>3
  <2>5. \A k \in 1 .. length : new[k] = IF k = j + 2 THEN key ELSE array[k]
    BY <1>2, <2>3, <2>4
  <2>6. \A k \in 1 .. length : new[k] \in Values
    BY <1>1, <2>5
  <2> QED  BY <2>4, <2>5, <2>6
<1>10. (moves /\ j > 0) \/ (moves /\ j = 0) \/ ~ moves
  BY <1>2
<1>11. new \in Seq(V) /\ Len(new) = Len(array) /\ (\A k \in 1 .. length : new[k] \in Values)
  BY <1>7, <1>8, <1>9, <1>10
<1> QED  BY <1>7, <1>8, <1>9, <1>11 DEF new, key, item, V

\* The gap moves left.
LEMMA PlacedFurther ==
  ASSUME NEW n \in Nat, n = Len(before), NEW i \in 1 .. n - 1, NEW j \in 1 .. i - 1, NEW q, NEW a, Placed(q, a, i, j),
         NEW b, \A k \in 1 .. n : b[k] = IF k = j + 2 THEN a[j + 1] ELSE a[k]
  PROVE  Placed(q, b, i, j - 1)
<1> DEFINE m == j - 1
<1>1. m \in Nat /\ m + 1 = j /\ m + 2 = j + 1
  OBVIOUS
<1>2. /\ q \in Orders(i) /\ (\A k \in 1 .. j + 1 : a[k] = before[q[k]]) /\ (\A k \in j + 2 .. i : a[k + 1] = before[q[k]])
      /\ \A k \in i + 2 .. n : a[k] = before[k]
  BY DEF Placed
<1>3. ASSUME NEW k \in 1 .. j
      PROVE  b[k] = before[q[k]]
  <2>1. k \in 1 .. n /\ k # j + 2 /\ k \in 1 .. j + 1
    OBVIOUS
  <2> QED  BY <1>2, <2>1
<1>4. ASSUME NEW k \in j + 1 .. i
      PROVE  b[k + 1] = before[q[k]]
  <2>1. k + 1 \in 1 .. n
    OBVIOUS
  <2>2. CASE k = j + 1
    <3>1. k + 1 = j + 2 /\ j + 1 \in 1 .. j + 1
      BY <2>2
    <3> QED  BY <1>2, <2>1, <2>2, <3>1
  <2>3. CASE k # j + 1
    <3>1. k + 1 # j + 2 /\ k \in j + 2 .. i
      BY <2>3
    <3> QED  BY <1>2, <2>1, <3>1
  <2> QED  BY <2>2, <2>3
<1>5. ASSUME NEW k \in i + 2 .. n
      PROVE  b[k] = before[k]
  <2>1. k \in 1 .. n /\ k # j + 2
    OBVIOUS
  <2> QED  BY <1>2, <2>1
<1> HIDE DEF m
<1>6. Placed(q, b, i, m)
  BY <1>1, <1>2, <1>3, <1>4, <1>5 DEF Placed
<1> QED  BY <1>6 DEF m

\* b is a with the element at i put after the first p.
PutAfter(p, i, j, n, key, a, b) ==
    /\ key = before[i + 1]
    /\ \/ p = 0 /\ j = 0 /\ \A k \in 1 .. n : b[k] = IF k = 1 THEN key ELSE IF k = 2 THEN a[1] ELSE a[k]
       \/ p = j + 1 /\ \A k \in 1 .. n : b[k] = IF k = j + 2 THEN key ELSE a[k]

\* The element at i, between those before and those past p.
LEMMA PlacedNext ==
  ASSUME NEW n \in Nat, n = Len(before), NEW i \in 1 .. n - 1, NEW j \in 0 .. i - 1, NEW q, NEW a, Placed(q, a, i, j),
         NEW key, NEW p, NEW b, PutAfter(p, i, j, n, key, a, b)
  PROVE  /\ p \in 0 .. i /\ \A k \in 1 .. i + 1 : b[k] = before[Inserted(q, i, p)[k]]
         /\ \A k \in i + 2 .. n : b[k] = before[k]
<1> USE DEF PutAfter
<1>1. p \in 0 .. i /\ i \in Nat
  OBVIOUS
<1>2. /\ q \in Orders(i) /\ (\A k \in 1 .. j + 1 : a[k] = before[q[k]]) /\ (\A k \in j + 2 .. i : a[k + 1] = before[q[k]])
      /\ \A k \in i + 2 .. n : a[k] = before[k]
  BY DEF Placed
<1> DEFINE r == Inserted(q, i, p)
<1>3. \A k \in 1 .. i + 1 : r[k] = IF k <= p THEN q[k] ELSE IF k = p + 1 THEN i + 1 ELSE q[k - 1]
  BY <1>1, <1>2, InsertedIs
<1> HIDE DEF r
<1>4. ASSUME NEW k \in 1 .. i + 1
      PROVE  b[k] = before[r[k]]
  <2>1. k \in 1 .. n
    OBVIOUS
  <2>2. CASE k <= p
    <3>1. p = j + 1 /\ k \in 1 .. j + 1 /\ k # j + 2
      BY <2>2
    <3>2. b[k] = a[k]
      BY <2>1, <2>2, <3>1
    <3> QED  BY <1>2, <1>3, <2>2, <3>1, <3>2
  <2>3. CASE k = p + 1
    <3>1. r[k] = i + 1
      BY <1>1, <1>3, <2>3
    <3>2. b[k] = key
      BY <2>1, <2>3
    <3> QED  BY <3>1, <3>2
  <2>4. CASE k > p + 1
    <3>1. r[k] = q[k - 1]
      BY <1>1, <1>3, <2>4
    <3>2. (b[k] = a[k] /\ ~ (k = 2 /\ j = 0)) \/ (k = 2 /\ j = 0 /\ b[k] = a[1])
      BY <2>1, <2>4
    <3>3. CASE k = 2 /\ j = 0 /\ b[k] = a[1]
      <4>1. 1 \in 1 .. j + 1 /\ k - 1 = 1
        BY <3>3
      <4> QED  BY <1>2, <3>1, <3>3, <4>1
    <3>4. CASE b[k] = a[k] /\ ~ (k = 2 /\ j = 0)
      <4>1. k - 1 \in j + 2 .. i /\ k - 1 + 1 = k
        BY <2>4, <3>4
      <4>2. a[k - 1 + 1] = before[q[k - 1]]
        BY <1>2, <4>1
      <4> QED  BY <3>1, <3>4, <4>1, <4>2
    <3> QED  BY <3>2, <3>3, <3>4
  <2>5. k <= p \/ k = p + 1 \/ k > p + 1
    BY <1>1
  <2> QED  BY <2>2, <2>3, <2>4, <2>5
<1>5. ASSUME NEW k \in i + 2 .. n
      PROVE  b[k] = before[k]
  <2>1. k \in 1 .. n /\ k # j + 2 /\ k # 1 /\ k # 2
    OBVIOUS
  <2>2. b[k] = a[k]
    BY <2>1
  <2> QED  BY <1>2, <2>2
<1> QED  BY <1>1, <1>4, <1>5 DEF r

\* A comparison says whether the element at i moves on, as every way to order them has it that is still open.
Told(moves) ==
    \A way \in Ways' :
        /\ way \in Ways
        /\ \A y \in 1 .. Len(before) : before[y] = array[doing.j + 1] =>
               IF moves THEN <<doing.i + 1, y>> \in way[1] ELSE <<doing.i + 1, y>> \in way[2]

\* After such a comparison the elements are where they belong, and those that were to be sorted are.
LEMMA SortStepKeeps ==
  ASSUME Typed, SortInv, Sorting, NEW moves \in BOOLEAN, SortStep(moves, doing.key, Now), made' \in Seq(CallRecords), Told(moves)
  PROVE  Typed' /\ doing'.how \in {"running", "answered"} /\ doing'.method = "sort" /\ SortInv' /\ Promised'
<1> PICK i, j, n, key : i = doing.i /\ j = doing.j /\ n = length /\ key = doing.key
  OBVIOUS
<1> DEFINE new == Compared(moves, doing.key, array)
           next == NextLocals(moves, key, array)
<1>1. /\ n \in Nat \ {0} /\ n = Len(before) /\ Len(array) \in Nat /\ n <= Len(array) /\ doing.held = Len(array)
      /\ array \in Seq(Values \cup {Nothing}) /\ before \in Seq(Elements) /\ (\A k \in 1 .. n : array[k] \in Values)
      /\ doing.n = n /\ i \in 1 .. n - 1 /\ j \in 0 .. i - 1 /\ key = before[i + 1]
  BY SortingIs
<1>2. /\ new \in Seq(Values \cup {Nothing}) /\ Len(new) = Len(array) /\ (\A k \in 1 .. n : new[k] \in Values)
      /\ moves /\ j > 0 => \A k \in 1 .. n : new[k] = IF k = j + 2 THEN array[j + 1] ELSE array[k]
      /\ moves /\ j = 0 => \A k \in 1 .. n : new[k] = IF k = 1 THEN key ELSE IF k = 2 THEN array[1] ELSE array[k]
      /\ ~ moves => \A k \in 1 .. n : new[k] = IF k = j + 2 THEN key ELSE array[k]
  BY ComparedIs
<1>3. array' = new /\ length' = n /\ doing' = next /\ before' = before
  BY <1>1, NowIs DEF SortStep
<1> HIDE DEF new
<1>4. Sound(Now')
  <2>1. Now' = [array |-> new, count |-> n]
    BY <1>3 DEF Now
  <2>2. n \in 0 .. Len(new)
    BY <1>1, <1>2
  <2> QED  BY <1>2, <2>1, <2>2 DEF Sound
<1>5. next = CASE ~ Stays(moves) -> [doing EXCEPT !.j = @ - 1, !.key = key]
               [] Stays(moves) /\ i + 1 < n -> [doing EXCEPT !.i = @ + 1, !.j = i, !.key = ItemAt(array, i + 1)]
               [] OTHER -> Ended("answered")
  BY <1>1 DEF NextLocals
<1> HIDE DEF next
<1>6. IsLocals(doing) /\ doing.method = "sort" /\ doing.how = "running"
  BY DEF Typed, Sorting
<1>7. PICK q : Placed(q, array, i, j) /\ \A way \in Ways : Apart(q, i, j, way)
  BY DEF SortInv
<1>8. doing.args \in {<<>>, <<"cmp">>} /\ (doing.args = <<>> => \A a, b \in 1 .. n : Comparison(before[a], before[b]) # "can't compare")
  BY DEF SortInv
<1>9. /\ q \in Orders(i) /\ (\A k \in 1 .. i : q[k] \in 1 .. i /\ q[k] \in 1 .. n) /\ i + 1 \in 1 .. n /\ i \in Nat
  <2>1. i \in Nat /\ q \in Orders(i)
    BY <1>1, <1>7 DEF Placed
  <2>2. q \in [1 .. i -> 1 .. i]
    BY <2>1, OrdersAre
  <2>3. \A k \in 1 .. i : k \in 1 .. n
    BY <1>1
  <2>4. \A k \in 1 .. i : q[k] \in 1 .. i
    BY <2>2
  <2>5. i + 1 \in 1 .. n
    BY <1>1
  <2> QED  BY <2>1, <2>3, <2>4, <2>5
<1>10. j + 1 \in 1 .. i /\ j + 1 \in 1 .. j + 1
  BY <1>1
<1>11. ASSUME NEW way \in Ways'
       PROVE  /\ Apart(q, i, j, way) /\ Orderly(n, way[1], way[2])
              /\ moves => <<i + 1, q[j + 1]>> \in way[1]
              /\ ~ moves => <<i + 1, q[j + 1]>> \in way[2]
  <2>1. way \in Ways
    BY DEF Told
  <2>2. array[j + 1] = before[q[j + 1]]
    BY <1>7, <1>10 DEF Placed
  <2>3. q[j + 1] \in 1 .. n
    BY <1>9, <1>10
  <2>4. Orderly(n, way[1], way[2])
    BY <1>1, <2>1, WaysAreOrderly
  <2>5. Apart(q, i, j, way)
    BY <1>7, <2>1
  <2>6. IF moves THEN <<i + 1, q[j + 1]>> \in way[1] ELSE <<i + 1, q[j + 1]>> \in way[2]
    BY <1>1, <2>2, <2>3 DEF Told
  <2> QED  BY <2>4, <2>5, <2>6
<1>13. CASE ~ Stays(moves)
  <2>1. moves /\ j \in 1 .. i - 1 /\ j > 0
    BY <1>1, <1>13, SMTT(20) DEF Stays
  <2>2. doing' = [doing EXCEPT !.j = @ - 1, !.key = key]
    BY <1>3, <1>5, <1>13
  <2>3. /\ IsLocals(doing') /\ doing'.method = "sort" /\ doing'.how = "running" /\ doing'.args = doing.args
        /\ doing'.n = n /\ doing'.held = Len(array) /\ doing'.i = i /\ doing'.j = j - 1 /\ doing'.key = key
    BY <1>1, <1>6, <2>2 DEF IsLocals
  <2>4. Placed(q, new, i, j - 1)
    <3>1. n \in Nat /\ n = Len(before) /\ i \in 1 .. n - 1 /\ \A k \in 1 .. n : new[k] = IF k = j + 2 THEN array[j + 1] ELSE array[k]
      BY <1>1, <1>2, <2>1
    <3> QED  BY <1>7, <2>1, <3>1, PlacedFurther
  <2>5. Placed(q, array, i, j - 1)'
    BY <1>3, <2>4 DEF Placed
  <2>6. ASSUME NEW way \in Ways'
        PROVE  Apart(q, i, j - 1, way)
    <3>1. j - 1 + 2 = j + 1 /\ \A k \in j + 1 .. i : k = j + 1 \/ k \in j + 2 .. i
      BY <1>1
    <3>2. Apart(q, i, j, way) /\ <<i + 1, q[j + 1]>> \in way[1]
      BY <1>11, <2>1
    <3>3. Sorts(q, i, way[1], way[2]) /\ \A k \in j - 1 + 2 .. i : <<i + 1, q[k]>> \in way[1]
      BY <3>1, <3>2 DEF Apart
    <3> QED  BY <3>3 DEF Apart
  <2>7. j - 1 \in 0 .. i - 1
    BY <1>1, <2>1
  <2>8. SortInv'
    <3>1. \A way \in Ways' : Apart(q, i, j - 1, way)
      BY <2>6
    <3> QED  BY <1>1, <1>2, <1>3, <1>8, <2>3, <2>5, <2>7, <3>1 DEF SortInv
  <2>9. Promised'
    BY <2>3 DEF Promised
  <2> QED  BY <1>1, <1>3, <1>4, <2>3, <2>8, <2>9 DEF Typed
<1>14. CASE Stays(moves)
  <2> DEFINE p == IF moves THEN 0 ELSE j + 1
             r == Inserted(q, i, p)
  <2>1. moves => j = 0
    BY <1>14 DEF Stays
  <2>2. /\ p \in 0 .. i /\ \A k \in 1 .. i + 1 : new[k] = before[r[k]]
        /\ \A k \in i + 2 .. n : new[k] = before[k]
    <3>1. PutAfter(p, i, j, n, key, array, new)
      BY <1>1, <1>2, <2>1 DEF PutAfter
    <3>2. n \in Nat /\ n = Len(before) /\ i \in 1 .. n - 1 /\ j \in 0 .. i - 1 /\ Placed(q, array, i, j)
      BY <1>1, <1>7
    <3> HIDE DEF p, r
    <3>3. p \in 0 .. i /\ \A k \in 1 .. i + 1 : new[k] = before[Inserted(q, i, p)[k]]
      BY <3>1, <3>2, PlacedNext
    <3>4. \A k \in i + 2 .. n : new[k] = before[k]
      BY <3>1, <3>2, PlacedNext
    <3> QED  BY <3>3, <3>4 DEF r
  <2>3. r \in Orders(i + 1)
    <3> HIDE DEF p
    <3> QED  BY <1>9, <2>2, InsertedIs
  <2>4. ASSUME NEW way \in Ways'
        PROVE  Sorts(r, i + 1, way[1], way[2])
    <3>1. Apart(q, i, j, way) /\ Orderly(n, way[1], way[2])
      BY <1>11
    <3>2. Sorts(q, i, way[1], way[2]) /\ \A k \in j + 2 .. i : <<i + 1, q[k]>> \in way[1]
      BY <3>1 DEF Apart
    <3>3. p > 0 => <<i + 1, q[p]>> \in way[2]
      BY <1>11
    <3>4. \A k \in p + 1 .. i : <<i + 1, q[k]>> \in way[1]
      <4> SUFFICES ASSUME NEW k \in p + 1 .. i
                   PROVE  <<i + 1, q[k]>> \in way[1]
        OBVIOUS
      <4>1. CASE moves /\ k = 1
        <5>1. j + 1 = k
          BY <2>1, <4>1
        <5> QED  BY <1>11, <4>1, <5>1
      <4>2. CASE ~ (moves /\ k = 1)
        <5>1. k \in j + 2 .. i
          BY <1>1, <1>9, <2>1, <4>2
        <5> QED  BY <3>2, <5>1
      <4> QED  BY <4>1, <4>2
    <3>5. n \in Nat /\ i + 1 <= n
      BY <1>1
    <3> HIDE DEF p
    <3> QED  BY <1>9, <2>2, <3>1, <3>2, <3>3, <3>4, <3>5, InsertedSorts
  <2> HIDE DEF r, p
  <2>5. CASE i + 1 < n
    <3> DEFINE m == i + 1
    <3>1. doing' = [doing EXCEPT !.i = @ + 1, !.j = i, !.key = ItemAt(array, m)]
      BY <1>3, <1>5, <1>14, <2>5
    <3>2. ItemAt(array, m) = before[m + 1]
      <4>1. m + 1 \in 1 .. Len(array) /\ m + 1 \in i + 2 .. n
        BY <1>1, <2>5, SMTT(20)
      <4>2. DOMAIN array = 1 .. Len(array)
        BY <1>1, LenProperties
      <4>3. array[m + 1] = before[m + 1]
        BY <1>1, <1>7, <4>1 DEF Placed
      <4> QED  BY <4>1, <4>2, <4>3 DEF ItemAt
    <3>3. /\ IsLocals(doing') /\ doing'.method = "sort" /\ doing'.how = "running" /\ doing'.args = doing.args
          /\ doing'.n = n /\ doing'.held = Len(array) /\ doing'.i = m /\ doing'.j = i /\ doing'.key = before[m + 1]
      BY <1>1, <1>6, <3>1, <3>2 DEF IsLocals
    <3>4. m \in 1 .. n - 1 /\ i \in 0 .. m - 1 /\ (\A k \in i + 2 .. m : FALSE) /\ \A k \in m + 2 .. n : k \in i + 2 .. n
      <4>1. n \in Nat /\ i \in Nat \ {0}
        BY <1>1
      <4> QED  BY <2>5, <4>1
    <3>5. Placed(r, new, m, i)
      BY <1>1, <2>2, <2>3, <3>4 DEF Placed
    <3>6. Placed(r, array, m, i)'
      BY <1>3, <3>5 DEF Placed
    <3>7. \A way \in Ways' : Apart(r, m, i, way)
      BY <2>4, <3>4 DEF Apart
    <3> HIDE DEF m
    <3>8. SortInv'
      <4>1. Placed(r, array, doing.i, doing.j)' /\ \A way \in Ways' : Apart(r, doing'.i, doing'.j, way)
        BY <3>3, <3>6, <3>7 DEF Placed
      <4> QED  BY <1>1, <1>2, <1>3, <1>8, <3>3, <3>4, <4>1 DEF SortInv
    <3>9. Promised'
      BY <3>3 DEF Promised
    <3> QED  BY <1>1, <1>3, <1>4, <3>3, <3>8, <3>9 DEF Typed
  <2>6. CASE ~ (i + 1 < n)
    <3>1. doing' = Ended("answered")
      BY <1>3, <1>5, <1>14, <2>6
    <3>2. IsLocals(doing') /\ doing'.method = "sort" /\ doing'.how = "answered" /\ doing'.args = doing.args
      BY <1>6, <3>1, EndedIs
    <3>3. i + 1 = n /\ DOMAIN before = 1 .. n
      BY <1>1, <2>6, LenProperties
    <3>4. r \in Orders(n) /\ \A k \in 1 .. n : new[k] = before[r[k]] /\ r[k] \in 1 .. n
      <4>1. r \in Orders(n) /\ n \in Nat
        BY <1>1, <2>3, <3>3
      <4>2. r \in [1 .. n -> 1 .. n]
        BY <4>1, OrdersAre
      <4> QED  BY <2>2, <3>3, <4>1, <4>2
    <3> DEFINE after == Contents(Now')
    <3>5. after \in Seq(Values) /\ Len(after) = n /\ \A k \in 1 .. n : after[k] = before[r[k]]
      <4>1. Now'.count = n /\ Now'.array = new
        BY <1>3 DEF Now
      <4> QED  BY <1>4, <3>4, <4>1, ContentsAre
    <3> HIDE DEF after
    <3>6. after = [k \in DOMAIN before |-> before[r[k]]]
      <4>1. DOMAIN after = 1 .. n
        BY <3>5, LenProperties
      <4>2. after = [k \in 1 .. n |-> after[k]]
        BY <3>5, <4>1
      <4> QED  BY <3>3, <3>5, <4>2
    <3>7. Rearranged(before, after)
      BY <1>1, <3>4, <3>5, <3>6 DEF Rearranged
    <3>8. ASSUME NEW way \in Ways'
          PROVE  Sorts(r, n, way[1], way[2])
      BY <2>4, <3>3
    <3>9. Promise("sort", doing.args, Contents(Now))'
      <4>1. Contents(Now)' = after /\ doing'.args = doing.args /\ before' = before /\ told' = "stash"
        BY <1>3, <3>2 DEF after, SortStep
      <4>2. doing.args = <<>> => Ordered(before, before, ItemLess, after)
        <5> SUFFICES ASSUME doing.args = <<>>
                     PROVE  Ordered(before, before, ItemLess, after)
          OBVIOUS
        <5>1. <<Answered("less"), Answered("not")>> \in Ways'
          BY <4>1 DEF Ways, Answered
        <5>2. Sorts(r, n, Answered("less"), Answered("not"))
          BY <3>8, <5>1
        <5>3. \A a, b \in 1 .. n : a < b =>
                 /\ ~ ItemLess(before[r[b]], before[r[a]])
                 /\ ItemLess(before[r[a]], before[r[b]]) \/ r[a] < r[b]
          <6> SUFFICES ASSUME NEW a \in 1 .. n, NEW b \in 1 .. n, a < b
                       PROVE  /\ ~ ItemLess(before[r[b]], before[r[a]])
                              /\ ItemLess(before[r[a]], before[r[b]]) \/ r[a] < r[b]
            OBVIOUS
          <6>1. <<r[b], r[a]>> \in Answered("not") /\ (<<r[a], r[b]>> \in Answered("less") \/ r[a] < r[b])
            BY <5>2 DEF Sorts
          <6> QED  BY <6>1 DEF Answered, ItemLess
        <5> QED  BY <1>1, <3>3, <3>4, <3>6, <5>3 DEF Ordered
      <4>3. ASSUME doing.args = <<"cmp">>, NEW rank \in Ranks, ComparesBy(rank)'
            PROVE  SortsBy(rank, after)
        <5>1. <<Behind(rank), NotBehind(rank)>> \in Ways'
          <6>1. rank \in Ranks' /\ Behind(rank)' = Behind(rank) /\ NotBehind(rank)' = NotBehind(rank) /\ doing'.args # <<>>
            BY <4>1, <4>3 DEF Ranks, Behind, NotBehind
          <6> QED  BY <4>3, <6>1 DEF Ways
        <5>2. Sorts(r, n, Behind(rank), NotBehind(rank))
          BY <3>8, <5>1
        <5>3. \A a, b \in 1 .. n : a < b =>
                 /\ ~ (rank[before[r[b]]] < rank[before[r[a]]])
                 /\ rank[before[r[a]]] < rank[before[r[b]]] \/ r[a] < r[b]
          <6> SUFFICES ASSUME NEW a \in 1 .. n, NEW b \in 1 .. n, a < b
                       PROVE  /\ ~ (rank[before[r[b]]] < rank[before[r[a]]])
                              /\ rank[before[r[a]]] < rank[before[r[b]]] \/ r[a] < r[b]
            OBVIOUS
          <6>1. <<r[b], r[a]>> \in NotBehind(rank) /\ (<<r[a], r[b]>> \in Behind(rank) \/ r[a] < r[b])
            BY <5>2 DEF Sorts
          <6> QED  BY <6>1 DEF Behind, NotBehind
        <5> QED  BY <1>1, <3>3, <3>4, <3>6, <5>3 DEF Ordered, SortsBy
      <4>4. Answer(Contents(Now))' = after /\ InPlaceOrNot(Contents(Now))'
        BY <4>1 DEF Answer, InPlaceOrNot
      <4>5. /\ Rearranged(before, after)
            /\ doing.args = <<>> => Ordered(before, before, ItemLess, after)
            /\ doing.args = <<"cmp">> => \A rank \in Ranks : ComparesBy(rank)' => SortsBy(rank, after)
        BY <3>7, <4>2, <4>3
      <4>6. Rearranged(before, Answer(Contents(Now)))'
        BY <4>1, <4>4, <4>5 DEF Rearranged
      <4>7. (doing.args = <<>> => Ordered(before, before, ItemLess, Answer(Contents(Now))))'
        BY <4>1, <4>4, <4>5 DEF Ordered, ItemLess
      <4>8. (doing.args = <<"cmp">> => \A rank \in Ranks : ComparesBy(rank) => SortsBy(rank, Answer(Contents(Now))))'
        <5>1. Ranks' = Ranks
          BY <4>1 DEF Ranks
        <5>2. \A rank : SortsBy(rank, Answer(Contents(Now)))' <=> SortsBy(rank, after)
          BY <4>1, <4>4 DEF SortsBy, Ordered
        <5> QED  BY <4>1, <4>5, <5>1, <5>2
      <4> QED  BY <4>4, <4>6, <4>7, <4>8 DEF Promise, Ranks
    <3>10. PromisedAnswer("sort", doing.args)'
      BY DEF PromisedAnswer
    <3>11. Promised'
      BY <3>2, <3>9, <3>10 DEF Promised
    <3>12. SortInv'
      BY <3>2 DEF SortInv, Sorting
    <3> QED  BY <1>1, <1>3, <1>4, <3>2, <3>11, <3>12 DEF Typed
  <2> QED  BY <2>5, <2>6
<1> QED  BY <1>13, <1>14

LEMMA SortBegins ==
  ASSUME Careful, Began, NEW cmp \in {<<>>, <<"cmp">>}, length > 1, cmp # <<>> \/ Comparable,
         Begins([Local("sort", cmp) EXCEPT !.i = 1, !.key = ItemAt(array, 1)])
  PROVE  Typed' /\ doing'.how = "running" /\ doing'.method = "sort" /\ SortInv' /\ Promised'
<1> DEFINE local == [Local("sort", cmp) EXCEPT !.i = 1, !.key = ItemAt(array, 1)]
           q == [k \in 1 .. 1 |-> 1]
<1>1. /\ IsLocals(local) /\ local.method = "sort" /\ local.args = cmp /\ local.how = "running" /\ local.i = 1 /\ local.j = 0
      /\ local.n = length /\ local.held = Len(array) /\ local.key = ItemAt(array, 1)
  <2> DEFINE d == Local("sort", cmp)
             e == [d EXCEPT !.i = 1]
  <2>1. /\ IsLocals(d) /\ d.method = "sort" /\ d.args = cmp /\ d.how = "running" /\ d.j = 0
        /\ d.n = length /\ d.held = Len(array)
    BY DEF IsLocals, Local
  <2>2. local = [e EXCEPT !.key = ItemAt(array, 1)]
    OBVIOUS
  <2> HIDE DEF d, local
  <2>3. /\ IsLocals(e) /\ e.method = "sort" /\ e.args = cmp /\ e.how = "running" /\ e.i = 1 /\ e.j = 0
        /\ e.n = length /\ e.held = Len(array)
    BY <2>1 DEF IsLocals
  <2> HIDE DEF e
  <2> QED  BY <2>2, <2>3 DEF IsLocals
<1>2. Begins(local)
  OBVIOUS
<1> HIDE DEF local
<1>3. /\ Typed' /\ doing' = local /\ before' = before /\ Now' = Now
      /\ Contents(Now) = before /\ length = Len(before) /\ (\A k \in 1 .. length : before[k] = array[k])
      /\ length \in 0 .. Len(array) /\ Len(array) \in Nat
  BY <1>1, <1>2, BeginsIs
<1>4. array' = array /\ length' = length
  BY <1>3 DEF Now
<1>5. local.key = before[2]
  <2>1. DOMAIN array = 1 .. Len(array)
    BY NowIsSound, LenProperties DEF Began
  <2>2. 1 + 1 \in DOMAIN array /\ 2 \in 1 .. length /\ 1 + 1 = 2
    BY <1>3, <2>1
  <2> QED  BY <1>1, <1>3, <2>2 DEF ItemAt
<1>6. Placed(q, array, 1, 0)
  <2>1. q \in Orders(1)
    BY DEF Orders
  <2>2. \A k \in 1 .. 1 : k \in 1 .. length /\ q[k] = k
    BY <1>3
  <2> HIDE DEF q
  <2>3. \A k \in 3 .. Len(before) : k \in 1 .. length
    BY <1>3
  <2>4. 0 + 1 = 1 /\ 0 + 2 .. 1 = {} /\ 1 + 2 = 3
    OBVIOUS
  <2> QED  BY <1>3, <2>1, <2>2, <2>3, <2>4 DEF Placed
<1>7. \A way : Apart(q, 1, 0, way)
  <2>1. \A a, b \in 1 .. 1 : ~ (a < b)
    OBVIOUS
  <2>2. 0 + 2 .. 1 = {}
    OBVIOUS
  <2> HIDE DEF q
  <2> QED  BY <2>1, <2>2 DEF Apart, Sorts
<1> HIDE DEF q
<1>8. Placed(q, array, 1, 0)'
  BY <1>3, <1>4, <1>6 DEF Placed
<1>9. cmp = <<>> => \A a, b \in 1 .. length : Comparison(before[a], before[b]) # "can't compare"
  <2>1. DOMAIN before = 1 .. length
    BY <1>3, LenProperties DEF Began, Typed
  <2>2. \A a \in 1 .. length : before[a] \in ToSet(Contents(Now))
    BY <1>3, <2>1 DEF ToSet
  <2> QED  BY <2>2 DEF Comparable
<1>10. 1 \in 1 .. length - 1 /\ 0 \in 0 .. 1 - 1 /\ 1 + 1 = 2
  BY <1>3
<1>11. SortInv'
  BY <1>1, <1>3, <1>4, <1>5, <1>7, <1>8, <1>9, <1>10 DEF SortInv
<1>12. Promised'
  BY <1>1, <1>3 DEF Promised
<1> QED  BY <1>1, <1>3, <1>11, <1>12

\* The program's function compares.
LEMMA CallCmpKeeps ==
  ASSUME Careful, Typed, SortInv, NEW r \in Verdicts, NEW s \in Changed(r), CallCmp(r, s)
  PROVE  Typed' /\ doing'.how \in {"running", "answered"} /\ doing'.method = "sort" /\ SortInv' /\ Promised'
<1> DEFINE moves == MovesPast(r)
           item == ItemAt(array, doing.j)
           key == doing.key
           args == <<item, key>>
<1>1. Sorting /\ doing.args = <<"cmp">> /\ made' = Append(made, [args |-> args, result |-> r])
  BY DEF CallCmp
<1>2. s = Now /\ r \in AnyResult
  <2>1. r \in AnyResult
    BY DEF AnyResult
  <2> QED  BY <1>1, <2>1, ChangedIs DEF Careful, Sorting
<1>3. SortStep(moves, key, Now)
  <2>1. "sort" \notin Forgetters
    BY DEF Careful
  <2> QED  BY <1>2, <2>1 DEF CallCmp
<1>4. item = array[doing.j + 1] /\ item \in Values /\ key \in Values
  BY <1>1, SortingIs
<1> HIDE DEF item, key
<1>5. args \in Seq(Values) \ {<<>>} /\ args[1] = item /\ args[2] = key
  BY <1>4
<1>6. made \in Seq(CallRecords) /\ moves \in BOOLEAN
  <2>1. moves \in BOOLEAN
    <3>1. CASE r \in WholeNumbas
      <4>1. MovesPast(r) = (r \in AboveZero)
        BY <3>1 DEF MovesPast
      <4> QED  BY <4>1
    <3>2. CASE r \notin WholeNumbas
      <4>1. MovesPast(r) = (r \in TruthyOnes)
        BY <3>2 DEF MovesPast
      <4> QED  BY <4>1
    <3> QED  BY <3>1, <3>2
  <2> QED  BY <2>1 DEF Typed
<1> HIDE DEF args
<1>7. /\ made' \in Seq(CallRecords) /\ Len(made') = Len(made) + 1
      /\ \A k \in 1 .. Len(made) : made'[k] = made[k]
      /\ made'[Len(made) + 1] = [args |-> args, result |-> r]
  BY <1>1, <1>2, <1>5, <1>6, OneMoreCall
<1>8. DOMAIN made = 1 .. Len(made) /\ DOMAIN made' = 1 .. Len(made) + 1 /\ Len(made) \in Nat
  BY <1>6, <1>7, LenProperties
<1>9. doing'.args = doing.args
  <2>1. IsLocals(doing)
    BY DEF Typed
  <2>2. \E items : doing' = NextLocals(moves, key, items)
    BY <1>3 DEF SortStep
  <2> QED  BY <2>1, <2>2 DEF NextLocals, Ended, IsLocals
<1>10. ASSUME NEW rank, ComparesBy(rank)'
       PROVE  ComparesBy(rank) /\ (moves <=> rank[key] < rank[item])
  <2>1. \A k \in 1 .. Len(made) + 1 : SaysAfter(made'[k].result) <=> rank[made'[k].args[2]] < rank[made'[k].args[1]]
    BY <1>8, <1>10 DEF ComparesBy
  <2>2. ComparesBy(rank)
    <3>1. \A k \in 1 .. Len(made) : k \in 1 .. Len(made) + 1
      BY <1>8
    <3> QED  BY <1>7, <1>8, <2>1, <3>1 DEF ComparesBy
  <2>3. SaysAfter(r) <=> rank[key] < rank[item]
    <3>1. Len(made) + 1 \in 1 .. Len(made) + 1
      BY <1>8
    <3>2. made'[Len(made) + 1].args = args /\ made'[Len(made) + 1].result = r
      BY <1>7
    <3> QED  BY <1>5, <2>1, <3>1, <3>2
  <2> QED  BY <2>2, <2>3 DEF Careful
<1>11. before' = before
  BY <1>3 DEF SortStep
<1>12. ASSUME NEW way \in Ways'
       PROVE  /\ way \in Ways
              /\ \A y \in 1 .. Len(before) : before[y] = array[doing.j + 1] =>
                    IF moves THEN <<doing.i + 1, y>> \in way[1] ELSE <<doing.i + 1, y>> \in way[2]
  <2>1. PICK rank \in Ranks : ComparesBy(rank)' /\ way = <<Behind(rank), NotBehind(rank)>>
    <3>1. doing'.args # <<>> /\ Ranks' = Ranks /\ \A rank : Behind(rank)' = Behind(rank) /\ NotBehind(rank)' = NotBehind(rank)
      BY <1>1, <1>9, <1>11 DEF Ranks, Behind, NotBehind
    <3> QED  BY <1>12, <3>1 DEF Ways
  <2>2. ComparesBy(rank) /\ (moves <=> rank[key] < rank[item])
    BY <1>10, <2>1
  <2>3. way \in Ways
    BY <1>1, <2>1, <2>2 DEF Ways
  <2>4. ASSUME NEW y \in 1 .. Len(before), before[y] = array[doing.j + 1]
        PROVE  IF moves THEN <<doing.i + 1, y>> \in way[1] ELSE <<doing.i + 1, y>> \in way[2]
    <3> PICK x : x = doing.i + 1
      OBVIOUS
    <3>1. x \in 1 .. Len(before) /\ before[x] = key
      BY <1>1, SortingIs DEF key
    <3>2. way[1] = Behind(rank) /\ way[2] = NotBehind(rank)
      BY <2>1
    <3>3. CASE moves
      <4>1. <<x, y>> \in Behind(rank)
        BY <1>4, <2>2, <2>4, <3>1, <3>3 DEF Behind
      <4> QED  BY <3>2, <3>3, <4>1
    <3>4. CASE ~ moves
      <4>1. <<x, y>> \in NotBehind(rank)
        BY <1>4, <2>2, <2>4, <3>1, <3>4 DEF NotBehind
      <4> QED  BY <3>2, <3>4, <4>1
    <3> QED  BY <3>3, <3>4
  <2> QED  BY <2>3, <2>4
<1> HIDE DEF moves
<1>13. Told(moves)
  BY <1>12 DEF Told
<1> QED  BY <1>1, <1>3, <1>6, <1>7, <1>13, SortStepKeeps DEF key

\* default_less compares.
LEMMA CompareKeeps ==
  ASSUME Careful, Typed, SortInv, Compare
  PROVE  Typed' /\ doing'.how \in {"running", "answered"} /\ doing'.method = "sort" /\ SortInv' /\ Promised'
<1> DEFINE verdict == Comparison(doing.key, ItemAt(array, doing.j))
<1>1. Sorting /\ doing.args = <<>>
  BY DEF Compare
<1>2. verdict \in {"less", "not", "can't compare"}
  BY DEF Comparison
<1>3. verdict # "can't compare" /\ ItemAt(array, doing.j) = array[doing.j + 1]
  <2>1. /\ ItemAt(array, doing.j) = array[doing.j + 1] /\ doing.key = before[doing.i + 1] /\ length \in Nat
        /\ doing.i \in 1 .. length - 1 /\ doing.j \in 0 .. doing.i - 1
    BY <1>1, SortingIs
  <2>2. PICK q : Placed(q, array, doing.i, doing.j)
    BY <1>1 DEF SortInv
  <2>3. q \in [1 .. doing.i -> 1 .. doing.i]
    <3>1. doing.i \in Nat
      BY <2>1
    <3> QED  BY <2>2, <3>1, OrdersAre DEF Placed
  <2>4. doing.j + 1 \in 1 .. doing.i /\ doing.j + 1 \in 1 .. doing.j + 1
    BY <2>1
  <2>5. q[doing.j + 1] \in 1 .. length /\ doing.i + 1 \in 1 .. length
    <3>1. q[doing.j + 1] \in 1 .. doing.i
      BY <2>3, <2>4
    <3> QED  BY <2>1, <3>1
  <2>6. array[doing.j + 1] = before[q[doing.j + 1]]
    BY <2>2, <2>4 DEF Placed
  <2>7. \A a, b \in 1 .. length : Comparison(before[a], before[b]) # "can't compare"
    BY <1>1 DEF SortInv
  <2> QED  BY <2>1, <2>5, <2>6, <2>7
<1>4. SortStep(verdict = "less", doing.key, Now) /\ made' = made
  BY <1>3 DEF Compare
<1> PICK moves \in BOOLEAN : moves = (verdict = "less")
  OBVIOUS
<1>5. SortStep(moves, doing.key, Now) /\ made' \in Seq(CallRecords)
  BY <1>4 DEF Typed
<1>6. Comparison(doing.key, array[doing.j + 1]) = IF moves THEN "less" ELSE "not"
  BY <1>2, <1>3
<1>7. ASSUME NEW way \in Ways'
      PROVE  /\ way \in Ways
             /\ \A y \in 1 .. Len(before) : before[y] = array[doing.j + 1] =>
                   IF moves THEN <<doing.i + 1, y>> \in way[1] ELSE <<doing.i + 1, y>> \in way[2]
  <2>1. doing'.args = doing.args
    <3>1. IsLocals(doing)
      BY DEF Typed
    <3>2. \E items : doing' = NextLocals(moves, doing.key, items)
      BY <1>5 DEF SortStep
    <3> QED  BY <3>1, <3>2 DEF NextLocals, Ended, IsLocals
  <2>2. before' = before
    BY <1>5 DEF SortStep
  <2>3. way[1] = Answered("less") /\ way[2] = Answered("not") /\ way \in Ways
    BY <1>1, <1>7, <2>1, <2>2 DEF Ways, Answered
  <2>4. ASSUME NEW y \in 1 .. Len(before), before[y] = array[doing.j + 1]
        PROVE  IF moves THEN <<doing.i + 1, y>> \in way[1] ELSE <<doing.i + 1, y>> \in way[2]
    <3> PICK x : x = doing.i + 1
      OBVIOUS
    <3>1. x \in 1 .. Len(before) /\ before[x] = doing.key
      BY <1>1, SortingIs
    <3>2. <<x, y>> \in Answered(IF moves THEN "less" ELSE "not")
      BY <1>6, <2>4, <3>1 DEF Answered
    <3> QED  BY <2>3, <3>2
  <2> QED  BY <2>3, <2>4
<1>8. Told(moves)
  BY <1>7 DEF Told
<1> QED  BY <1>1, <1>5, <1>8, SortStepKeeps

-----------------------------------------------------------------------------
(* All of it *)

StashInv ==
    /\ Typed
    /\ doing.how = "not yet" => Contents(Now) = before /\ made = <<>>
    /\ doing.how = "running" => doing.method \in VisitMethods \cup {"sort"}
    /\ VisitInv /\ SortInv /\ Visited /\ Promised

LEMMA InitHolds ==
  ASSUME StashInit
  PROVE  StashInv
<1>1. PICK n \in 0 .. MaxCount :
         \E items \in [1 .. n -> Elements], capacity \in Capacities(n) : StashStart(items, capacity)
  BY DEF StashInit
<1>2. PICK items \in [1 .. n -> Elements], capacity \in Capacities(n) : StashStart(items, capacity)
  BY <1>1
<1> DEFINE more == [k \in 1 .. capacity - n |-> Nothing]
           V == Values \cup {Nothing}
<1>3. n \in Nat /\ n <= MaxCount /\ capacity \in {n, n + 1}
  BY StashAssumption DEF Capacities
<1>4. items \in Seq(V) /\ Len(items) = n /\ \A k \in 1 .. n : items[k] \in Values /\ items[k] \in Elements
  <2>1. items \in [1 .. n -> V]
    BY DEF Values
  <2> HIDE DEF V
  <2>2. \A k \in 1 .. n : items[k] \in Values /\ items[k] \in Elements
    BY DEF Values
  <2> QED  BY <1>3, <2>1, <2>2, IsSeq
<1>5. more \in Seq(V) /\ Len(more) = capacity - n /\ capacity - n \in Nat
  <2> DEFINE m == capacity - n
  <2>1. m \in Nat
    BY <1>3
  <2> HIDE DEF m
  <2>2. [k \in 1 .. m |-> Nothing] \in [1 .. m -> V]
    OBVIOUS
  <2> HIDE DEF V
  <2>3. [k \in 1 .. m |-> Nothing] \in Seq(V) /\ Len([k \in 1 .. m |-> Nothing]) = m
    BY <2>1, <2>2, IsSeq
  <2> QED  BY <2>1, <2>3 DEF m
<1>6. array = items \o more /\ length = n /\ doing = [Local("none", <<>>) EXCEPT !.how = "not yet"]
      /\ before = Contents(Now) /\ made = <<>>
  BY <1>2, <1>4 DEF StashStart
<1> HIDE DEF more, V
<1>7. array \in Seq(V) /\ Len(array) = n + (capacity - n) /\ \A k \in 1 .. n : array[k] = items[k]
  <2>1. /\ items \o more \in Seq(V) /\ Len(items \o more) = Len(items) + Len(more)
        /\ \A k \in 1 .. Len(items) + Len(more) : (items \o more)[k] = IF k <= Len(items) THEN items[k] ELSE more[k - Len(items)]
    BY <1>4, <1>5, ConcatProperties
  <2>2. \A k \in 1 .. n : k \in 1 .. Len(items) + Len(more) /\ k <= Len(items)
    BY <1>3, <1>4, <1>5
  <2> QED  BY <1>4, <1>5, <1>6, <2>1, <2>2
<1>8. Sound(Now)
  <2>1. Now = [array |-> array, count |-> n]
    BY <1>6 DEF Now
  <2>2. n \in 0 .. Len(array)
    BY <1>3, <1>5, <1>7
  <2> QED  BY <1>4, <1>7, <2>1, <2>2 DEF Sound, V
<1>9. before \in Seq(Elements) /\ Len(before) <= MaxCount
  <2>1. /\ before \in Seq(Values) /\ Len(before) = n /\ \A k \in 1 .. n : before[k] = array[k]
    <3> DEFINE now == Now
    <3>1. Sound(now) /\ now.array = array /\ now.count = n /\ before = Contents(now)
      BY <1>6, <1>8, NowIs
    <3> HIDE DEF now
    <3> QED  BY <3>1, ContentsAre
  <2>2. DOMAIN before = 1 .. n
    BY <2>1, LenProperties
  <2>3. before \in [1 .. n -> Elements]
    <3>1. before = [k \in 1 .. n |-> before[k]]
      BY <2>1, <2>2
    <3> QED  BY <1>4, <1>7, <2>1, <3>1
  <2> QED  BY <1>3, <2>1, <2>3, IsSeq
<1>10. IsLocals(doing) /\ doing.how = "not yet"
  <2> DEFINE d == Local("none", <<>>)
  <2>1. IsLocals(d)
    BY DEF IsLocals, Local
  <2>2. doing = [d EXCEPT !.how = "not yet"]
    BY <1>6
  <2> HIDE DEF d
  <2> QED  BY <2>1, <2>2 DEF IsLocals
<1>11. made \in Seq(CallRecords) /\ Len(made) = 0
  BY <1>6, EmptySeq
<1>12. Typed
  BY <1>8, <1>9, <1>10, <1>11 DEF Typed
<1>13. Visited
  <2>1. 1 .. Len(made) = {}
    BY <1>11
  <2> QED  BY <1>6, <2>1 DEF Visited
<1> QED  BY <1>6, <1>10, <1>12, <1>13 DEF StashInv, VisitInv, SortInv, Promised, Underway, Sorting

\* A method that calls nobody ends in the step it begins in.
LEMMA EndedKeeps ==
  ASSUME Typed', made' = <<>>, doing'.how \in {"answered", "chucked"}, Promised'
  PROVE  StashInv'
<1>1. 1 .. Len(made') = {}
  BY EmptySeq
<1>2. Visited'
  BY <1>1 DEF Visited
<1> QED  BY <1>2 DEF StashInv, VisitInv, SortInv, Underway, Sorting

LEMMA VisitingKeeps ==
  ASSUME Typed', doing'.how = "running" => Underway' /\ VisitInv', doing'.how \in {"running", "answered", "chucked"},
         doing'.method # "sort", Visited', Promised'
  PROVE  StashInv'
<1>1. VisitInv'
  BY DEF VisitInv, Underway
<1>2. SortInv'
  BY DEF SortInv, Sorting
<1> QED  BY <1>1, <1>2 DEF StashInv, Underway

LEMMA SortingKeeps ==
  ASSUME Typed', doing'.how \in {"running", "answered"}, doing'.method = "sort", SortInv', Promised'
  PROVE  StashInv'
<1>1. VisitInv'
  BY DEF VisitInv, Underway, VisitMethods
<1>2. Visited'
  BY DEF Visited
<1> QED  BY <1>1, <1>2 DEF StashInv

LEMMA NothingChanges ==
  ASSUME StashInv, UNCHANGED stashVars
  PROVE  StashInv'
<1>1. array' = array /\ length' = length /\ doing' = doing /\ before' = before /\ made' = made /\ told' = told
  BY DEF stashVars
<1>2. Now' = Now
  BY <1>1 DEF Now
<1>3. Start' = Start /\ Given' = Given /\ Got' = Got /\ (\A a : Chained(a)' <=> Chained(a))
      /\ (\A rank : ComparesBy(rank)' <=> ComparesBy(rank)) /\ (KeysAreOrdered' <=> KeysAreOrdered)
  BY <1>1 DEF Start, Given, Got, Chained, ComparesBy, KeysAreOrdered
<1>4. Typed'
  BY <1>1, <1>2 DEF StashInv, Typed
<1>5. VisitInv'
  BY <1>1, <1>2, <1>3 DEF StashInv, VisitInv, Underway, Shown, Passed
<1>6. SortInv'
  <2>1. \A q : Placed(q, array, doing.i, doing.j)' <=> Placed(q, array, doing.i, doing.j)
    BY <1>1 DEF Placed
  <2>2. Ways' = Ways
    <3>1. Answered("less")' = Answered("less") /\ Answered("not")' = Answered("not") /\ Ranks' = Ranks
      BY <1>1 DEF Answered, Ranks
    <3>2. \A rank : Behind(rank)' = Behind(rank) /\ NotBehind(rank)' = NotBehind(rank)
      BY <1>1 DEF Behind, NotBehind
    <3>3. {r \in Ranks : ComparesBy(r)}' = {r \in Ranks : ComparesBy(r)}
      BY <1>3, <3>1
    <3> QED  BY <1>1, <3>1, <3>2, <3>3 DEF Ways
  <2> QED  BY <1>1, <2>1, <2>2 DEF StashInv, SortInv, Sorting
<1>7. Visited'
  BY <1>1, <1>3 DEF StashInv, Visited, Settles
<1>8. Promised'
  <2>1. \A after : Answer(after)' = Answer(after) /\ (InPlaceOrNot(after)' <=> InPlaceOrNot(after))
    BY <1>1 DEF Answer, InPlaceOrNot
  <2>2. \A rank, new : SortsBy(rank, new)' <=> SortsBy(rank, new)
    BY <1>1 DEF SortsBy, Ordered
  <2>3. Contents(Now)' = Contents(Now) /\ \A i : Spot(i)' = Spot(i)
    BY <1>1, <1>2 DEF Contents, Spot
  <2>4. PromisedAnswer(doing.method, doing.args)' <=> PromisedAnswer(doing.method, doing.args)
    BY <1>1, <1>2, <1>3, <2>3 DEF PromisedAnswer
  <2>5. Promise(doing.method, doing.args, Contents(Now))' <=> Promise(doing.method, doing.args, Contents(Now))
    BY <1>1, <1>3, <2>1, <2>2, <2>3 DEF Promise
  <2> QED  BY <1>1, <2>3, <2>4, <2>5 DEF StashInv, Promised
<1> QED  BY <1>1, <1>2, <1>4, <1>5, <1>6, <1>7, <1>8 DEF StashInv

LEMMA StepKeeps ==
  ASSUME Careful, StashInv, StashNext
  PROVE  StashInv'
<1>1. Began
  BY DEF StashInv, Began
<1>2. Typed /\ VisitInv /\ SortInv /\ Visited
  BY DEF StashInv
<1>3. MaxCount \in Nat
  BY StashAssumption
<1>4. ASSUME NEW v \in Elements, YeetIn(v)
      PROVE  StashInv'
  BY <1>1, <1>4, YeetInKeeps, EndedKeeps
<1>5. CASE Yoink
  BY <1>1, <1>5, YoinkKeeps, EndedKeeps
<1>6. CASE ClearAll
  BY <1>1, <1>6, ClearAllKeeps, EndedKeeps
<1>7. CASE Reverse_
  BY <1>1, <1>7, ReverseKeeps, EndedKeeps
<1>8. CASE Unique
  BY <1>1, <1>8, UniqueKeeps, EndedKeeps
<1>9. ASSUME NEW i \in - MaxCount - 1 .. MaxCount + 1, YoinkAt(i) \/ Chunk(i)
      PROVE  StashInv'
  <2>1. i \in Int
    BY <1>3
  <2>2. CASE YoinkAt(i)
    BY <1>1, <2>1, <2>2, YoinkAtKeeps, EndedKeeps
  <2>3. CASE Chunk(i)
    BY <1>1, <2>1, <2>3, ChunkKeeps, EndedKeeps
  <2> QED  BY <1>9, <2>2, <2>3
<1>10. ASSUME NEW i \in - MaxCount - 1 .. MaxCount + 1, NEW v \in Elements, Insert(i, v)
       PROVE  StashInv'
  <2>1. i \in Int
    BY <1>3
  <2> QED  BY <1>1, <1>10, <2>1, InsertKeeps, EndedKeeps
<1>11. ASSUME NEW i \in - MaxCount - 1 .. MaxCount + 1, NEW j \in - MaxCount - 1 .. MaxCount + 1, Slice(i, j)
       PROVE  StashInv'
  <2>1. i \in Int /\ j \in Int
    BY <1>3
  <2> QED  BY <1>1, <1>11, <2>1, SliceKeeps, EndedKeeps
<1>12. ASSUME NEW v \in Elements, NEW w \in Elements, Extend(<<v, w>>)
       PROVE  StashInv'
  <2> DEFINE list == <<v, w>>
  <2>1. list \in Seq(Elements) /\ Extend(list)
    BY <1>12
  <2> HIDE DEF list
  <2> QED  BY <1>1, <2>1, ExtendKeeps, EndedKeeps
<1>13. ASSUME NEW picks \in [1 .. MaxCount -> 0 .. MaxCount - 1], ShuffleIt(picks)
       PROVE  StashInv'
  BY <1>1, <1>13, ShuffleItKeeps, EndedKeeps
<1>14. ASSUME NEW method \in {"glow_up", "vibe_check", "any", "all", "sort_by", "group_by"}, Visit(method)
       PROVE  StashInv'
  <2>1. method \in VisitMethods \ {"squish"}
    BY DEF VisitMethods
  <2>2. Typed' /\ Underway' /\ doing'.how = "running" /\ VisitInv' /\ Visited' /\ Promised'
    BY <1>1, <1>14, <2>1, VisitKeeps
  <2>3. doing'.method # "sort"
    BY <2>2 DEF Underway, VisitMethods
  <2> QED  BY <2>2, <2>3, VisitingKeeps
<1>15. ASSUME NEW initial, initial = <<>> \/ (\E v \in Elements : initial = <<v>>), Squish(initial)
       PROVE  StashInv'
  <2>1. \/ Typed' /\ Underway' /\ doing'.how = "running" /\ VisitInv' /\ Visited' /\ Promised'
        \/ Typed' /\ made' = <<>> /\ doing'.how = "chucked" /\ Promised'
    BY <1>1, <1>15, SquishKeeps
  <2>2. Underway' => doing'.method # "sort"
    BY DEF Underway, VisitMethods
  <2> QED  BY <2>1, <2>2, VisitingKeeps, EndedKeeps
<1>16. ASSUME NEW r \in Results, NEW s \in Changed(r), CallFunction(r, s)
       PROVE  StashInv'
  <2>1. Underway /\ doing.method # "sort" /\ r \in AnyResult
    BY <1>16 DEF CallFunction, Visiting, StashInv, Underway, AnyResult
  <2>2. CASE Settles(r)
    <3>1. Typed' /\ doing'.how = "answered" /\ doing'.method = doing.method /\ Visited' /\ Promised'
      BY <1>2, <1>16, <2>1, <2>2, SettledKeeps
    <3> QED  BY <2>1, <3>1, VisitingKeeps
  <2>3. CASE ~ Settles(r)
    <3>1. Typed' /\ Underway' /\ doing'.how = "running" /\ VisitInv' /\ Visited' /\ Promised'
      BY <1>2, <1>16, <2>1, <2>3, GoesOnKeeps
    <3>2. doing'.method # "sort"
      BY <3>1 DEF Underway, VisitMethods
    <3> QED  BY <3>1, <3>2, VisitingKeeps
  <2> QED  BY <2>2, <2>3
<1>17. ASSUME NEW r \in Verdicts, NEW s \in Changed(r), CallCmp(r, s)
       PROVE  StashInv'
  BY <1>2, <1>17, CallCmpKeeps, SortingKeeps
<1>18. ASSUME NEW cmp \in {<<>>, <<"cmp">>}, Sort(cmp)
       PROVE  StashInv'
  <2>1. CASE length <= 1 /\ Answers("sort", cmp, Now, "stash")
    BY <1>1, <2>1, ShortSortKeeps, EndedKeeps
  <2>2. CASE /\ length > 1 /\ (cmp # <<>> \/ Comparable \/ "sort" \in Chuckers)
             /\ Begins([Local("sort", cmp) EXCEPT !.i = 1, !.key = ItemAt(array, 1)])
    <3>1. cmp # <<>> \/ Comparable
      BY <2>2 DEF Careful
    <3>2. Typed' /\ doing'.how = "running" /\ doing'.method = "sort" /\ SortInv' /\ Promised'
      BY <1>1, <2>2, <3>1, SortBegins
    <3> QED  BY <3>2, SortingKeeps
  <2> QED  BY <1>18, <2>1, <2>2 DEF Sort
<1>19. CASE EndVisit
  <2>1. Underway /\ doing.method # "sort"
    BY <1>19 DEF EndVisit, Visiting, StashInv, Underway
  <2>2. Typed' /\ doing'.how \in {"answered", "chucked"} /\ doing'.method = doing.method /\ Visited' /\ Promised'
    BY <1>2, <1>19, <2>1, EndVisitKeeps
  <2> QED  BY <2>1, <2>2, VisitingKeeps
<1>20. CASE CallFails
  <2>1. Underway /\ doing.method # "sort"
    BY <1>20 DEF CallFails, StashInv, Underway, Careful
  <2>2. Typed' /\ doing'.how = "chucked" /\ doing'.method = doing.method /\ Visited' /\ Promised'
    BY <1>2, <1>20, <2>1, CallFailsKeeps
  <2> QED  BY <2>1, <2>2, VisitingKeeps
<1>21. CASE Compare
  BY <1>2, <1>21, CompareKeeps, SortingKeeps
<1>22. CASE Squish(<<>>) \/ \E v \in Elements : Squish(<<v>>)
  <2>1. CASE Squish(<<>>)
    BY <1>15, <2>1
  <2>2. ASSUME NEW v \in Elements, Squish(<<v>>)
        PROVE  StashInv'
    <3> DEFINE initial == <<v>>
    <3>1. Squish(initial) /\ \E w \in Elements : initial = <<w>>
      BY <2>2
    <3> HIDE DEF initial
    <3> QED  BY <1>15, <3>1
  <2> QED  BY <1>22, <2>1, <2>2
<1>23. CASE Sort(<<>>) \/ Sort(<<"cmp">>)
  <2>1. CASE Sort(<<>>)
    BY <1>18, <2>1
  <2>2. CASE Sort(<<"cmp">>)
    <3> DEFINE cmp == <<"cmp">>
    <3>1. Sort(cmp) /\ cmp \in {<<>>, <<"cmp">>}
      BY <2>2
    <3> HIDE DEF cmp
    <3> QED  BY <1>18, <3>1
  <2> QED  BY <1>23, <2>1, <2>2
<1> QED  BY <1>4, <1>5, <1>6, <1>7, <1>8, <1>9, <1>10, <1>11, <1>12, <1>13, <1>14, <1>16, <1>17, <1>19, <1>20, <1>21, <1>22, <1>23
         DEF StashNext

LEMMA VisitedLeads ==
  ASSUME Typed, Visited
  PROVE  VisitsTheStash
<1> SUFFICES ASSUME doing.method \notin Changers \cup {"sort"}
             PROVE  LET elements == IF doing.method = "squish" /\ doing.args = <<>> THEN SubSeq(before, 2, Len(before)) ELSE before
                    IN /\ IsPrefix(Given, elements)
                       /\ (doing.how = "answered" /\ made # <<>> /\ ~ Settles(Last(Got))) => Given = elements
  BY DEF VisitsTheStash
<1> DEFINE elements == IF doing.method = "squish" /\ doing.args = <<>> THEN SubSeq(before, 2, Len(before)) ELSE before
           n == Len(made)
           l == Len(before)
           e == IF Start <= l THEN l - Start + 1 ELSE 0
<1>1. n \in Nat /\ l \in Nat /\ Start \in {1, 2} /\ before \in Seq(Elements) /\ made \in Seq(CallRecords)
  BY CallsAre, LenProperties DEF Typed, Start
<1>2. /\ Given \in Seq(Values) /\ Len(Given) = n /\ Len(Got) = n
      /\ \A k \in 1 .. n : Given[k] = Last(made[k].args) /\ Got[k] = made[k].result
  BY <1>1, GivenAndGot
<1>3. /\ made # <<>> => n + Start - 1 <= l
      /\ \A k \in 1 .. n : Given[k] = before[k + Start - 1]
      /\ doing.how = "answered" /\ made # <<>> /\ ~ Settles(made[n].result) => n + Start - 1 = l
  BY <1>2 DEF Visited
<1>4. made = <<>> <=> n = 0
  BY <1>1, EmptySeq
<1>5. elements \in Seq(Elements) /\ Len(elements) = e /\ \A k \in 1 .. e : elements[k] = before[k + Start - 1]
  <2>1. CASE doing.method = "squish" /\ doing.args = <<>>
    <3>1. Start = 2 /\ elements = SubSeq(before, 2, l)
      BY <2>1 DEF Start
    <3>2. \A k \in 2 .. l : before[k] \in Elements
      <4>1. \A k \in 2 .. l : k \in 1 .. l
        BY <1>1
      <4> QED  BY <1>1, <4>1, ElementOfSeq
    <3>3. /\ SubSeq(before, 2, l) \in Seq(Elements) /\ Len(SubSeq(before, 2, l)) = IF 2 <= l THEN l - 2 + 1 ELSE 0
          /\ \A k \in 1 .. l - 2 + 1 : SubSeq(before, 2, l)[k] = before[2 + k - 1]
      BY <1>1, <3>2, SubSeqProperties
    <3> HIDE DEF elements
    <3>4. \A k \in 1 .. e : k \in 1 .. l - 2 + 1 /\ 2 + k - 1 = k + Start - 1
      BY <1>1, <3>1
    <3> QED  BY <3>1, <3>3, <3>4
  <2>2. CASE ~ (doing.method = "squish" /\ doing.args = <<>>)
    <3>1. Start = 1 /\ elements = before
      BY <2>2 DEF Start
    <3>2. e = l /\ \A k \in Int : k + Start - 1 = k
      BY <1>1, <3>1
    <3> HIDE DEF elements, e
    <3> QED  BY <1>1, <3>1, <3>2
  <2> QED  BY <2>1, <2>2
<1>6. n <= e
  BY <1>1, <1>3, <1>4
<1>7. e \in Nat
  BY <1>1
<1> HIDE DEF elements, e
<1>8. \A k \in 1 .. n : Given[k] = elements[k] /\ k \in 1 .. e
  <2>1. \A k \in 1 .. n : k \in 1 .. e
    BY <1>1, <1>6, <1>7
  <2>2. ASSUME NEW k \in 1 .. n
        PROVE  Given[k] = elements[k]
    <3> DEFINE place == k + Start - 1
    <3>1. Given[k] = before[place]
      BY <1>3
    <3>2. elements[k] = before[place]
      BY <1>5, <2>1
    <3> HIDE DEF place
    <3> QED  BY <3>1, <3>2
  <2> QED  BY <2>1, <2>2
<1>9. IsPrefix(Given, elements)
  <2>1. /\ SubSeq(Given, 1, n) \in Seq(Values) /\ Len(SubSeq(Given, 1, n)) = n
        /\ \A k \in 1 .. n : SubSeq(Given, 1, n)[k] = Given[k]
    <3>1. \A k \in 1 .. n : Given[k] \in Values
      BY <1>2, ElementOfSeq
    <3>2. /\ SubSeq(Given, 1, n) \in Seq(Values) /\ Len(SubSeq(Given, 1, n)) = IF 1 <= n THEN n - 1 + 1 ELSE 0
          /\ \A k \in 1 .. n - 1 + 1 : SubSeq(Given, 1, n)[k] = Given[1 + k - 1]
      BY <1>1, <3>1, SubSeqProperties
    <3> QED  BY <1>1, <3>2
  <2>2. /\ SubSeq(elements, 1, n) \in Seq(Elements) /\ Len(SubSeq(elements, 1, n)) = n
        /\ \A k \in 1 .. n : SubSeq(elements, 1, n)[k] = elements[k]
    <3>1. \A k \in 1 .. n : elements[k] \in Elements
      BY <1>5, <1>8, ElementOfSeq
    <3>2. /\ SubSeq(elements, 1, n) \in Seq(Elements) /\ Len(SubSeq(elements, 1, n)) = IF 1 <= n THEN n - 1 + 1 ELSE 0
          /\ \A k \in 1 .. n - 1 + 1 : SubSeq(elements, 1, n)[k] = elements[1 + k - 1]
      BY <1>1, <3>1, SubSeqProperties
    <3> QED  BY <1>1, <3>2
  <2>3. SubSeq(Given, 1, n) = SubSeq(elements, 1, n)
    BY <1>8, <2>1, <2>2, SeqsEqual
  <2> QED  BY <1>2, <1>5, <1>6, <2>3 DEF IsPrefix
<1>10. ASSUME doing.how = "answered", made # <<>>, ~ Settles(Last(Got))
       PROVE  Given = elements
  <2>1. Last(Got) = made[n].result
    <3>1. n \in 1 .. n
      BY <1>1, <1>4, <1>10
    <3> QED  BY <1>2, <3>1 DEF Last
  <2>2. n + Start - 1 = l
    BY <1>3, <1>10, <2>1
  <2>3. n = e
    BY <1>1, <1>4, <1>10, <2>2 DEF e
  <2> QED  BY <1>2, <1>5, <1>8, <2>3, SeqsEqual
<1> QED  BY <1>9, <1>10 DEF elements

LEMMA InvLeads ==
  ASSUME StashInv
  PROVE  KeepsItsPromises
<1>1. Typed /\ Visited /\ Promised
  BY DEF StashInv
<1>2. Nothing \notin Values
  BY StashAssumption DEF Values, AnyResult
<1>3. \A s \in Seq(Values) : Nothing \notin ToSet(s)
  <2> SUFFICES ASSUME NEW s \in Seq(Values), Nothing \in ToSet(s)
               PROVE  FALSE
    OBVIOUS
  <2>1. PICK k \in 1 .. Len(s) : s[k] = Nothing
    BY LenProperties DEF ToSet
  <2> QED  BY <1>2, <2>1, ElementOfSeq
<1>4. Contents(Now) \in Seq(Values)
  BY <1>1, NowIsSound, ContentsAre
<1>5. ASSUME NEW c \in ToSet(made)
      PROVE  c.args \in Seq(Values)
  <2>1. made \in Seq(CallRecords)
    BY <1>1 DEF Typed
  <2>2. PICK k \in 1 .. Len(made) : c = made[k]
    BY <2>1, LenProperties DEF ToSet
  <2> QED  BY <2>1, <2>2, CallsAre
<1>6. Nothing \notin ToSet(Contents(Now)) \cup UNION {ToSet(c.args) : c \in ToSet(made)}
  BY <1>3, <1>4, <1>5
<1>7. VisitsTheStash
  BY <1>1, VisitedLeads
<1> QED  BY <1>1, <1>6, <1>7 DEF KeepsItsPromises, Promised

\* Where functions change or fail only the methods that allow for it, a stash of any length keeps every promise of its
\* methods, whatever its elements are and whatever the functions answer (stash.c, all methods).
THEOREM StashesKeepTheirPromises ==
  ASSUME Careful
  PROVE  StashSpec => []KeepsItsPromises
<1>1. StashInit => StashInv
  BY InitHolds
<1>2. StashInv /\ [StashNext]_stashVars => StashInv'
  BY StepKeeps, NothingChanges
<1>3. StashInv => KeepsItsPromises
  BY InvLeads
<1> QED  BY <1>1, <1>2, <1>3, PTL DEF StashSpec
=============================================================================
