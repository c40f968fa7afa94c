---------------------------- MODULE ImportsProofs ----------------------------
(***************************************************************************)
(* Proofs about Imports, for any bundle, any paths and any depth of code.   *)
(***************************************************************************)
EXTENDS Imports, FiniteSetTheorems, WellFoundedInduction, TLAPS

\* What names a module.
Names == Bundle \cup {EntryModule}

FrameType == [code : Names, body : BOOLEAN, prior : Names]

\* The bodies among the first n of some frames, and how many they are.
Bodies(fs, n) == {j \in 1 .. n : fs[j].body}
Rank(fs, n) == Cardinality(Bodies(fs, n))

-----------------------------------------------------------------------------
(* Counting bodies *)

\* There are finitely many, and one more if the next frame is one.
LEMMA RankNext ==
    ASSUME NEW fs, NEW n \in Nat
    PROVE  /\ IsFiniteSet(Bodies(fs, n)) /\ Rank(fs, n) \in Nat
           /\ fs[n + 1].body => Rank(fs, n + 1) = Rank(fs, n) + 1
           /\ ~ fs[n + 1].body => Rank(fs, n + 1) = Rank(fs, n)
<1>1. IsFiniteSet(Bodies(fs, n)) /\ Rank(fs, n) \in Nat
  <2>1. IsFiniteSet(1 .. n)
    BY FS_Interval
  <2>2. Bodies(fs, n) \in SUBSET (1 .. n)
    BY DEF Bodies
  <2>3. QED
    BY <2>1, <2>2, FS_Subset, FS_CardinalityType DEF Rank
<1>2. ASSUME fs[n + 1].body PROVE Rank(fs, n + 1) = Rank(fs, n) + 1
  <2>1. Bodies(fs, n + 1) = Bodies(fs, n) \cup {n + 1} /\ n + 1 \notin Bodies(fs, n)
    BY <1>2 DEF Bodies
  <2>2. QED
    BY <1>1, <2>1, FS_AddElement DEF Rank
<1>3. ASSUME ~ fs[n + 1].body PROVE Rank(fs, n + 1) = Rank(fs, n)
  <2>1. Bodies(fs, n + 1) = Bodies(fs, n)
    BY <1>3 DEF Bodies
  <2>2. QED
    BY <2>1 DEF Rank
<1>4. QED
  BY <1>1, <1>2, <1>3

\* Frames that begin alike have the same ranks there.
LEMMA RankAgrees ==
    ASSUME NEW fs, NEW gs, NEW n \in Nat, \A j \in 1 .. n : gs[j] = fs[j]
    PROVE  \A i \in 0 .. n : Rank(gs, i) = Rank(fs, i)
<1>1. ASSUME NEW i \in 0 .. n PROVE Bodies(gs, i) = Bodies(fs, i)
  BY DEF Bodies
<1>2. QED
  BY <1>1 DEF Rank

\* Ranks rise, from one body to the next strictly.
LEMMA RankRises ==
    ASSUME NEW fs, NEW i \in Nat, NEW n \in Nat, i <= n
    PROVE  /\ Rank(fs, i) <= Rank(fs, n)
           /\ i < n /\ fs[n].body => Rank(fs, i) < Rank(fs, n)
           /\ Rank(fs, n) = Rank(fs, i) + Cardinality({j \in i + 1 .. n : fs[j].body})
<1> DEFINE Above == {j \in i + 1 .. n : fs[j].body}
<1>1. /\ IsFiniteSet(Bodies(fs, i)) /\ Rank(fs, i) \in Nat
      /\ IsFiniteSet(Bodies(fs, n)) /\ Rank(fs, n) \in Nat
  BY RankNext
<1>2. Above \in SUBSET Bodies(fs, n)
  BY DEF Bodies
<1>3. IsFiniteSet(Above) /\ Cardinality(Above) \in Nat
  BY <1>1, <1>2, FS_Subset, FS_CardinalityType
<1>4. Bodies(fs, n) = Bodies(fs, i) \cup Above /\ Bodies(fs, i) \cap Above = {}
  BY DEF Bodies
<1> HIDE DEF Above
<1>5. Cardinality(Bodies(fs, i) \cap Above) = 0
  BY <1>4, FS_EmptySet
<1>6. Rank(fs, n) = Rank(fs, i) + Cardinality(Above)
  <2>1. Cardinality(Bodies(fs, n)) = Cardinality(Bodies(fs, i)) + Cardinality(Above) - Cardinality(Bodies(fs, i) \cap Above)
    BY <1>1, <1>3, <1>4, FS_Union
  <2>2. QED
    BY <1>1, <1>3, <1>5, <2>1 DEF Rank
<1>7. ASSUME i < n, fs[n].body PROVE Cardinality(Above) # 0
  <2>1. n \in Above
    BY <1>7 DEF Above
  <2>2. QED
    BY <1>3, <2>1, FS_EmptySet
<1>8. QED
  BY <1>1, <1>3, <1>6, <1>7 DEF Above

\* There are no bodies among no frames.
LEMMA RankZero ==
    ASSUME NEW fs
    PROVE  Rank(fs, 0) = 0
<1>1. Bodies(fs, 0) = {}
  BY DEF Bodies
<1>2. QED
  BY <1>1, FS_EmptySet DEF Rank

\* A body's rank is one of the first, and higher than those before it.
LEMMA BodyRanks ==
    ASSUME NEW fs, NEW n \in Nat
    PROVE  \A i \in 1 .. n : fs[i].body =>
             /\ Rank(fs, i) \in 1 .. Rank(fs, n)
             /\ \A k \in 0 .. n : k < i => Rank(fs, k) < Rank(fs, i)
             /\ \A k \in 0 .. n : i <= k => Rank(fs, i) <= Rank(fs, k)
<1> SUFFICES ASSUME NEW i \in 1 .. n, fs[i].body
             PROVE  /\ Rank(fs, i) \in 1 .. Rank(fs, n)
                    /\ \A k \in 0 .. n : k < i => Rank(fs, k) < Rank(fs, i)
                    /\ \A k \in 0 .. n : i <= k => Rank(fs, i) <= Rank(fs, k)
  OBVIOUS
<1>0. i \in Nat /\ i <= n /\ 0 < i
  OBVIOUS
<1>1. Rank(fs, i) \in Nat /\ Rank(fs, n) \in Nat
  BY <1>0, RankNext
<1>2. Rank(fs, i) <= Rank(fs, n)
  BY <1>0, RankRises
<1>3. ASSUME NEW k \in 0 .. n, k < i PROVE Rank(fs, k) < Rank(fs, i)
  <2>1. k \in Nat /\ k <= i
    BY <1>3
  <2>2. QED
    BY <1>0, <1>3, <2>1, RankRises
<1>4. ASSUME NEW k \in 0 .. n, i <= k PROVE Rank(fs, i) <= Rank(fs, k)
  <2>1. k \in Nat
    OBVIOUS
  <2>2. QED
    BY <1>0, <1>4, <2>1, RankRises
<1>5. Rank(fs, i) # 0
  <2>1. PICK z \in 0 .. n : z = 0 /\ z < i
    OBVIOUS
  <2>2. Rank(fs, z) = 0
    BY <2>1, RankZero
  <2>3. QED
    BY <1>1, <1>3, <2>1, <2>2
<1>6. QED
  BY <1>1, <1>2, <1>3, <1>4, <1>5

-----------------------------------------------------------------------------
(* The loading stack.  It names the bodies among the frames, innermost last, and each body *)
(* remembers the one below it, so that leaving any number of them puts back what was there. *)

Chain(fs, ld) ==
    /\ fs # <<>> => fs[1].body
    /\ Len(ld) = Rank(fs, Len(fs))
    /\ \A i \in 1 .. Len(fs) : fs[i].body => ld[Rank(fs, i)] = fs[i].code
    /\ \A n \in 1 .. Len(ld) : \E i \in 1 .. Len(fs) : fs[i].body /\ Rank(fs, i) = n
    /\ \A i \in 2 .. Len(fs) : fs[i].body => fs[i].prior = ld[Rank(fs, i) - 1]

\* The code that runs is of the innermost body.
LEMMA ChainTop ==
    ASSUME NEW fs \in Seq(FrameType), NEW ld \in Seq(Names), Chain(fs, ld), fs # <<>>
    PROVE  Len(ld) \in Nat \ {0} /\ ld[Len(ld)] \in Names
<1>1. Len(fs) \in Nat \ {0} /\ fs[1].body
  BY DEF Chain
<1>2. Rank(fs, 1) \in 1 .. Rank(fs, Len(fs)) /\ Len(ld) = Rank(fs, Len(fs))
  BY <1>1, BodyRanks DEF Chain
<1>3. Len(ld) \in Nat \ {0}
  BY <1>2
<1>4. QED
  BY <1>3

\* A body begins.
LEMMA ChainBegins ==
    ASSUME NEW fs \in Seq(FrameType), NEW ld \in Seq(Names), Chain(fs, ld), fs # <<>>,
           NEW f \in FrameType, f.body, f.prior = ld[Len(ld)]
    PROVE  Chain(Append(fs, f), Append(ld, f.code))
<1>1. PICK n \in Nat \ {0}, m \in Nat \ {0}, gs \in Seq(FrameType), rd \in Seq(Names) :
        /\ n = Len(fs) /\ m = Len(ld) /\ gs = Append(fs, f) /\ rd = Append(ld, f.code)
        /\ Len(gs) = n + 1 /\ Len(rd) = m + 1 /\ gs[n + 1] = f /\ rd[m + 1] = f.code
        /\ \A i \in 1 .. n : gs[i] = fs[i]
        /\ \A k \in 1 .. m : rd[k] = ld[k]
  <2>1. Len(fs) \in Nat \ {0} /\ Append(fs, f) \in Seq(FrameType)
        /\ Len(Append(fs, f)) = Len(fs) + 1 /\ Append(fs, f)[Len(fs) + 1] = f
        /\ \A i \in 1 .. Len(fs) : Append(fs, f)[i] = fs[i]
    OBVIOUS
  <2>2. f.code \in Names
    BY DEF FrameType
  <2>3. Len(ld) \in Nat \ {0}
    BY ChainTop
  <2>4. Append(ld, f.code) \in Seq(Names)
        /\ Len(Append(ld, f.code)) = Len(ld) + 1 /\ Append(ld, f.code)[Len(ld) + 1] = f.code
        /\ \A i \in 1 .. Len(ld) : Append(ld, f.code)[i] = ld[i]
    BY <2>2, <2>3
  <2>5. QED
    BY <2>1, <2>3, <2>4
<1>c. /\ fs[1].body /\ m = Rank(fs, n)
      /\ \A i \in 1 .. n : fs[i].body => ld[Rank(fs, i)] = fs[i].code
      /\ \A k \in 1 .. m : \E i \in 1 .. n : fs[i].body /\ Rank(fs, i) = k
      /\ \A i \in 2 .. n : fs[i].body => fs[i].prior = ld[Rank(fs, i) - 1]
  BY <1>1 DEF Chain
<1>2. /\ \A i \in 0 .. n : Rank(gs, i) = Rank(fs, i)
      /\ Rank(gs, n + 1) = m + 1
  <2>1. \A i \in 0 .. n : Rank(gs, i) = Rank(fs, i)
    <3>1. \A i \in 1 .. n : gs[i] = fs[i]
      BY <1>1
    <3>2. QED
      BY <3>1, RankAgrees
  <2>2. Rank(gs, n) = m
    BY <1>c, <2>1
  <2>3. gs[n + 1].body
    BY <1>1
  <2>4. QED
    BY <2>1, <2>2, <2>3, RankNext
<1>3. \A i \in 1 .. n : fs[i].body => Rank(fs, i) \in 1 .. m
  BY <1>c, BodyRanks
<1>4. \A i \in 2 .. n : fs[i].body => Rank(fs, i) - 1 \in 1 .. m
  <2>1. SUFFICES ASSUME NEW i \in 2 .. n, fs[i].body PROVE Rank(fs, i) - 1 \in 1 .. m
    OBVIOUS
  <2>2. i \in 1 .. n /\ 1 \in 0 .. n /\ 1 \in 1 .. n /\ 1 < i
    OBVIOUS
  <2>3. Rank(fs, 1) < Rank(fs, i)
    BY <2>1, <2>2, BodyRanks
  <2>4. Rank(fs, i) \in 1 .. m /\ Rank(fs, 1) \in 1 .. m
    BY <1>3, <1>c, <2>1, <2>2
  <2>5. QED
    BY <2>3, <2>4
<1>5. gs[1].body /\ gs # <<>> /\ Len(rd) = Rank(gs, Len(gs))
  BY <1>1, <1>2, <1>c
<1>6. ASSUME NEW i \in 1 .. n + 1, gs[i].body PROVE rd[Rank(gs, i)] = gs[i].code
  <2>1. CASE i = n + 1
    BY <1>1, <1>2, <2>1
  <2>2. CASE i # n + 1
    <3>1. i \in 1 .. n /\ fs[i].body
      BY <1>1, <1>6, <2>2
    <3>2. Rank(gs, i) = Rank(fs, i) /\ Rank(fs, i) \in 1 .. m
      BY <1>2, <1>3, <3>1
    <3>3. QED
      BY <1>1, <1>c, <3>1, <3>2
  <2>3. QED
    BY <2>1, <2>2
<1>7. ASSUME NEW k \in 1 .. m + 1 PROVE \E i \in 1 .. n + 1 : gs[i].body /\ Rank(gs, i) = k
  <2>1. CASE k = m + 1
    BY <1>1, <1>2, <2>1
  <2>2. CASE k # m + 1
    <3>1. k \in 1 .. m
      BY <2>2
    <3>2. PICK i \in 1 .. n : fs[i].body /\ Rank(fs, i) = k
      BY <1>c, <3>1
    <3>3. i \in 1 .. n + 1 /\ gs[i].body /\ Rank(gs, i) = k
      BY <1>1, <1>2, <3>2
    <3>4. QED
      BY <3>3
  <2>3. QED
    BY <2>1, <2>2
<1>8. ASSUME NEW i \in 2 .. n + 1, gs[i].body PROVE gs[i].prior = rd[Rank(gs, i) - 1]
  <2>1. CASE i = n + 1
    BY <1>1, <1>2, <2>1
  <2>2. CASE i # n + 1
    <3>1. i \in 2 .. n /\ i \in 1 .. n /\ fs[i].body
      BY <1>1, <1>8, <2>2
    <3>2. Rank(gs, i) = Rank(fs, i) /\ Rank(fs, i) - 1 \in 1 .. m
      BY <1>2, <1>4, <3>1
    <3>3. QED
      BY <1>1, <1>c, <3>1, <3>2
  <2>3. QED
    BY <2>1, <2>2
<1>9. Chain(gs, rd)
  BY <1>1, <1>5, <1>6, <1>7, <1>8 DEF Chain
<1>10. QED
  BY <1>1, <1>9

\* A function begins.
LEMMA ChainCalls ==
    ASSUME NEW fs \in Seq(FrameType), NEW ld \in Seq(Names), Chain(fs, ld), fs # <<>>,
           NEW f \in FrameType, ~ f.body
    PROVE  Chain(Append(fs, f), ld)
<1>1. PICK n \in Nat \ {0}, gs \in Seq(FrameType) :
        /\ n = Len(fs) /\ gs = Append(fs, f) /\ Len(gs) = n + 1 /\ gs[n + 1] = f
        /\ \A i \in 1 .. n : gs[i] = fs[i]
  <2>1. Len(fs) \in Nat \ {0} /\ Append(fs, f) \in Seq(FrameType)
        /\ Len(Append(fs, f)) = Len(fs) + 1 /\ Append(fs, f)[Len(fs) + 1] = f
        /\ \A i \in 1 .. Len(fs) : Append(fs, f)[i] = fs[i]
    OBVIOUS
  <2>2. QED
    BY <2>1
<1>c. /\ fs[1].body /\ Len(ld) = Rank(fs, n)
      /\ \A i \in 1 .. n : fs[i].body => ld[Rank(fs, i)] = fs[i].code
      /\ \A k \in 1 .. Len(ld) : \E i \in 1 .. n : fs[i].body /\ Rank(fs, i) = k
      /\ \A i \in 2 .. n : fs[i].body => fs[i].prior = ld[Rank(fs, i) - 1]
  BY <1>1 DEF Chain
<1>2. /\ \A i \in 0 .. n : Rank(gs, i) = Rank(fs, i)
      /\ Rank(gs, n + 1) = Len(ld)
  <2>1. \A i \in 0 .. n : Rank(gs, i) = Rank(fs, i)
    <3>1. \A i \in 1 .. n : gs[i] = fs[i]
      BY <1>1
    <3>2. QED
      BY <3>1, RankAgrees
  <2>2. Rank(gs, n) = Len(ld)
    BY <1>c, <2>1
  <2>3. ~ gs[n + 1].body
    BY <1>1
  <2>4. QED
    BY <2>1, <2>2, <2>3, RankNext
<1>3. gs[1].body /\ gs # <<>> /\ Len(ld) = Rank(gs, Len(gs))
  BY <1>1, <1>2, <1>c
<1>4. \A i \in 1 .. n + 1 : gs[i].body => i \in 1 .. n /\ fs[i].body
  BY <1>1
<1>5. ASSUME NEW i \in 1 .. n + 1, gs[i].body PROVE ld[Rank(gs, i)] = gs[i].code
  BY <1>1, <1>2, <1>4, <1>5, <1>c
<1>6. ASSUME NEW k \in 1 .. Len(ld) PROVE \E i \in 1 .. n + 1 : gs[i].body /\ Rank(gs, i) = k
  <2>1. PICK i \in 1 .. n : fs[i].body /\ Rank(fs, i) = k
    BY <1>c
  <2>2. i \in 1 .. n + 1 /\ gs[i].body /\ Rank(gs, i) = k
    BY <1>1, <1>2, <2>1
  <2>3. QED
    BY <2>2
<1>7. ASSUME NEW i \in 2 .. n + 1, gs[i].body PROVE gs[i].prior = ld[Rank(gs, i) - 1]
  <2>1. i \in 2 .. n /\ i \in 0 .. n /\ fs[i].body /\ gs[i] = fs[i]
    BY <1>1, <1>4, <1>7
  <2>2. QED
    BY <1>2, <1>c, <2>1
<1>8. Chain(gs, ld)
  BY <1>1, <1>3, <1>5, <1>6, <1>7 DEF Chain
<1>9. QED
  BY <1>1, <1>8

\* What is left of the stacks when all but n frames are left.
Cut(fs, ld, n, gs, rd) ==
    /\ gs = SubSeq(fs, 1, n) /\ rd = SubSeq(ld, 1, Rank(fs, n))
    /\ Len(gs) = n /\ Len(rd) = Rank(fs, n) /\ Rank(fs, n) <= Len(ld)
    /\ \A i \in 1 .. n : gs[i] = fs[i]
    /\ \A k \in 1 .. Rank(fs, n) : rd[k] = ld[k]
    /\ Chain(gs, rd)

\* Frames are left, and their bodies with them.
LEMMA ChainCut ==
    ASSUME NEW fs \in Seq(FrameType), NEW ld \in Seq(Names), Chain(fs, ld), NEW n \in 0 .. Len(fs)
    PROVE  \E gs \in Seq(FrameType), rd \in Seq(Names) : Cut(fs, ld, n, gs, rd)
<1>1. Rank(fs, n) \in 0 .. Len(ld) /\ n \in Nat /\ Len(ld) \in Nat /\ Len(fs) \in Nat
  <2>1. n \in Nat /\ Len(fs) \in Nat /\ n <= Len(fs) /\ Len(ld) = Rank(fs, Len(fs))
    BY DEF Chain
  <2>2. Rank(fs, n) \in Nat /\ Rank(fs, Len(fs)) \in Nat
    BY <2>1, RankNext
  <2>3. Rank(fs, n) <= Rank(fs, Len(fs))
    BY <2>1, RankRises
  <2>4. QED
    BY <2>1, <2>2, <2>3
<1>2. PICK m \in Nat, gs \in Seq(FrameType), rd \in Seq(Names) :
        /\ m = Rank(fs, n) /\ gs = SubSeq(fs, 1, n) /\ rd = SubSeq(ld, 1, m)
        /\ Len(gs) = n /\ Len(rd) = m
        /\ \A i \in 1 .. n : gs[i] = fs[i]
        /\ \A k \in 1 .. m : rd[k] = ld[k]
  <2>1. SubSeq(fs, 1, n) \in Seq(FrameType) /\ Len(SubSeq(fs, 1, n)) = n
        /\ \A i \in 1 .. n : SubSeq(fs, 1, n)[i] = fs[i]
    BY <1>1
  <2>2. PICK m \in Nat : m = Rank(fs, n) /\ m <= Len(ld)
    BY <1>1
  <2>3. SubSeq(ld, 1, m) \in Seq(Names) /\ Len(SubSeq(ld, 1, m)) = m
        /\ \A k \in 1 .. m : SubSeq(ld, 1, m)[k] = ld[k]
    BY <1>1, <2>2
  <2>4. QED
    BY <2>1, <2>2, <2>3
<1>c. /\ fs # <<>> => fs[1].body
      /\ Len(ld) = Rank(fs, Len(fs))
      /\ \A i \in 1 .. Len(fs) : fs[i].body => ld[Rank(fs, i)] = fs[i].code
      /\ \A k \in 1 .. Len(ld) : \E i \in 1 .. Len(fs) : fs[i].body /\ Rank(fs, i) = k
      /\ \A i \in 2 .. Len(fs) : fs[i].body => fs[i].prior = ld[Rank(fs, i) - 1]
  BY DEF Chain
<1>3. \A i \in 0 .. n : Rank(gs, i) = Rank(fs, i)
  <2>1. \A i \in 1 .. n : gs[i] = fs[i]
    BY <1>2
  <2>2. QED
    BY <1>1, <2>1, RankAgrees
<1>4. \A i \in 1 .. n : fs[i].body => Rank(fs, i) \in 1 .. m
  BY <1>1, <1>2, BodyRanks
<1>5. gs # <<>> => gs[1].body
  <2>1. gs # <<>> => 1 \in 1 .. n /\ fs # <<>>
    BY <1>1, <1>2
  <2>2. QED
    BY <1>2, <1>c, <2>1
<1>6. ASSUME NEW i \in 1 .. n, gs[i].body PROVE rd[Rank(gs, i)] = gs[i].code
  <2>1. i \in 1 .. Len(fs) /\ i \in 0 .. n /\ gs[i] = fs[i] /\ fs[i].body
    BY <1>1, <1>2, <1>6
  <2>2. Rank(gs, i) = Rank(fs, i) /\ Rank(fs, i) \in 1 .. m
    BY <1>3, <1>4, <2>1
  <2>3. QED
    BY <1>2, <1>c, <2>1, <2>2
<1>7. ASSUME NEW k \in 1 .. m PROVE \E i \in 1 .. n : gs[i].body /\ Rank(gs, i) = k
  <2>1. PICK i \in 1 .. Len(fs) : fs[i].body /\ Rank(fs, i) = k
    BY <1>1, <1>2, <1>c
  <2>2. i <= n
    <3>1. n < i => Rank(fs, n) < Rank(fs, i)
      BY <1>1, <2>1, BodyRanks
    <3>2. QED
      BY <1>1, <1>2, <2>1, <3>1
  <2>3. i \in 1 .. n /\ i \in 0 .. n
    BY <1>1, <2>2
  <2>4. QED
    BY <1>2, <1>3, <2>1, <2>3
<1>8. ASSUME NEW i \in 2 .. n, gs[i].body PROVE gs[i].prior = rd[Rank(gs, i) - 1]
  <2>1. i \in 2 .. Len(fs) /\ i \in 0 .. n /\ i \in 1 .. n /\ 1 \in 0 .. n /\ 1 < i /\ 1 \in 1 .. n
    BY <1>1
  <2>2. gs[i] = fs[i] /\ fs[i].body /\ fs[1].body /\ Rank(gs, i) = Rank(fs, i)
    <3>1. fs # <<>>
      BY <1>1, <2>1
    <3>2. QED
      BY <1>2, <1>3, <1>8, <1>c, <2>1, <3>1
  <2>3. Rank(fs, 1) < Rank(fs, i) /\ Rank(fs, i) \in 1 .. m /\ Rank(fs, 1) \in 1 .. m
    BY <1>1, <1>4, <2>1, <2>2, BodyRanks
  <2>4. Rank(fs, i) - 1 \in 1 .. m
    BY <2>3
  <2>5. QED
    BY <1>2, <1>c, <2>1, <2>2, <2>4
<1>9. Rank(gs, n) = m
  BY <1>1, <1>2, <1>3
<1>10. Chain(gs, rd)
  BY <1>2, <1>5, <1>6, <1>7, <1>8, <1>9 DEF Chain
<1>11. Cut(fs, ld, n, gs, rd)
  <2>1. Rank(fs, n) <= Len(ld) /\ m = Rank(fs, n)
    BY <1>1, <1>2
  <2>2. QED
    BY <1>2, <1>10, <2>1, Zenon DEF Cut
<1>12. QED
  BY <1>11

-----------------------------------------------------------------------------
(* The invariant *)

Stacks ==
    /\ frames \in Seq(FrameType) /\ loading \in Seq(Names)
    /\ current \in Names /\ cache \subseteq Names

\* The module the VM is running is the innermost body's.
Loading ==
    /\ Chain(frames, loading)
    /\ frames # <<>> => current = loading[Len(loading)]

\* Whatever is loading is not loading twice, and is not cached.
Fresh ==
    /\ \A m, n \in 1 .. Len(loading) : m # n => loading[m] # loading[n]
    /\ \A n \in 1 .. Len(loading) : loading[n] \notin cache

IInv == Stacks /\ Loading /\ Fresh

\* The entry begins.
LEMMA InitHolds == ImportInit => IInv
<1> SUFFICES ASSUME ImportInit PROVE IInv
  OBVIOUS
<1>1. PICK f \in FrameType : f = Frame(EntryModule, TRUE, EntryModule) /\ f.body /\ f.code = EntryModule
  <2>1. Frame(EntryModule, TRUE, EntryModule) \in FrameType
    BY DEF Frame, FrameType, Names
  <2>2. Frame(EntryModule, TRUE, EntryModule).body /\ Frame(EntryModule, TRUE, EntryModule).code = EntryModule
    BY DEF Frame
  <2>3. QED
    BY <2>1, <2>2
<1>2. /\ frames = <<f>> /\ loading = <<EntryModule>> /\ EntryModule \in Names
      /\ Len(frames) = 1 /\ Len(loading) = 1 /\ frames[1] = f /\ loading[1] = EntryModule
      /\ current = EntryModule /\ cache = {}
  BY <1>1 DEF ImportInit, Names
<1>3. Stacks
  <2>1. <<f>> \in Seq(FrameType) /\ <<EntryModule>> \in Seq(Names)
    BY <1>2
  <2>2. QED
    BY <1>2, <2>1 DEF Stacks
<1>4. Rank(frames, 1) = 1
  <2>1. PICK z \in Nat : z = 0
    OBVIOUS
  <2>2. Rank(frames, z) = 0 /\ z + 1 = 1
    BY <2>1, RankZero
  <2>3. frames[z + 1].body
    BY <1>1, <1>2, <2>2
  <2>4. Rank(frames, z + 1) = Rank(frames, z) + 1
    BY <2>3, RankNext
  <2>5. QED
    BY <2>2, <2>4
<1>5. Chain(frames, loading)
  <2>1. \A i \in 1 .. 1 : i = 1
    OBVIOUS
  <2>2. \A i \in 2 .. 1 : FALSE
    OBVIOUS
  <2>3. 1 \in 1 .. 1
    OBVIOUS
  <2>4. \A i \in 1 .. Len(frames) : frames[i].body => loading[Rank(frames, i)] = frames[i].code
    BY <1>1, <1>2, <1>4, <2>1
  <2>5. \A n \in 1 .. Len(loading) : \E i \in 1 .. Len(frames) : frames[i].body /\ Rank(frames, i) = n
    BY <1>1, <1>2, <1>4, <2>1, <2>3
  <2>6. frames[1].body /\ Len(loading) = Rank(frames, Len(frames))
    BY <1>1, <1>2, <1>4
  <2>7. QED
    BY <1>2, <2>2, <2>4, <2>5, <2>6 DEF Chain
<1>6. QED
  BY <1>2, <1>3, <1>5 DEF IInv, Loading, Fresh

\* What is left of the loading stack when frames are left is still not loading twice.
LEMMA FreshCut ==
    ASSUME Stacks, Fresh, cache' = cache,
           NEW m \in Nat, m <= Len(loading), Len(loading') = m, \A k \in 1 .. m : loading'[k] = loading[k]
    PROVE  Fresh'
<1>1. Len(loading) \in Nat
  BY DEF Stacks
<1>2. \A k \in 1 .. m : k \in 1 .. Len(loading)
  BY <1>1
<1>3. QED
  BY <1>2 DEF Fresh

\* An error leaves frames: what the VM goes back to is the innermost body that is left.
LEMMA UnwindKeeps ==
    ASSUME IInv, NEW n \in 0 .. Len(frames), Unwind(n)
    PROVE  IInv'
<1>1. /\ frames \in Seq(FrameType) /\ loading \in Seq(Names) /\ Chain(frames, loading)
      /\ Len(frames) \in Nat /\ Len(loading) \in Nat /\ n \in Nat /\ n <= Len(frames)
  BY DEF IInv, Stacks, Loading
<1>2. PICK gs \in Seq(FrameType), rd \in Seq(Names) :
             /\ gs = SubSeq(frames, 1, n) /\ rd = SubSeq(loading, 1, Rank(frames, n))
             /\ Len(gs) = n /\ Len(rd) = Rank(frames, n) /\ Rank(frames, n) <= Len(loading)
             /\ \A i \in 1 .. n : gs[i] = frames[i]
             /\ \A k \in 1 .. Rank(frames, n) : rd[k] = loading[k]
             /\ Chain(gs, rd)
  <2>1. \E gs \in Seq(FrameType), rd \in Seq(Names) : Cut(frames, loading, n, gs, rd)
    BY <1>1, ChainCut
  <2>2. QED
    BY <2>1, Zenon DEF Cut
<1> DEFINE Left == {j \in n + 1 .. Len(frames) : frames[j].body}
<1>3. /\ Rank(frames, Len(frames)) = Len(loading)
      /\ Rank(frames, n) \in Nat
      /\ Rank(frames, Len(frames)) = Rank(frames, n) + Cardinality(Left)
  <2>1. Rank(frames, Len(frames)) = Len(loading)
    BY <1>1 DEF Chain
  <2>2. Rank(frames, n) \in Nat
    BY <1>1, RankNext
  <2>3. Rank(frames, Len(frames)) = Rank(frames, n) + Cardinality(Left)
    BY <1>1, RankRises
  <2>4. QED
    BY <2>1, <2>2, <2>3
<1>4. IsFiniteSet(Left) /\ Cardinality(Left) \in Nat
  <2>1. IsFiniteSet(n + 1 .. Len(frames))
    BY <1>1, FS_Interval
  <2>2. QED
    BY <2>1, FS_Subset, FS_CardinalityType
<1>5. frames' = gs /\ loading' = rd /\ cache' = cache
  <2>1. Len(loading) - Cardinality(Left) = Rank(frames, n)
    BY <1>1, <1>3, <1>4
  <2>2. loading' = SubSeq(loading, 1, Len(loading) - Cardinality(Left))
    BY DEF Unwind, LoadingBelow
  <2>3. QED
    BY <1>2, <2>1, <2>2 DEF Unwind
<1>6. current' = IF Left = {} THEN current ELSE frames[Min(Left)].prior
  BY DEF Unwind, RestoredCurrent
<1>7. current' \in Names /\ (frames' # <<>> => current' = loading'[Len(loading')])
  <2>1. CASE Left = {}
    <3>0. Cardinality(Left) = 0
      BY <2>1, FS_EmptySet, Zenon
    <3>1. Rank(frames, n) = Len(loading) /\ current' = current /\ current \in Names
      <4>1. Rank(frames, n) = Len(loading)
        BY <1>3, <3>0
      <4>2. current' = current
        BY <1>6, <2>1, Zenon
      <4>3. QED
        BY <4>1, <4>2 DEF IInv, Stacks
    <3>2. ASSUME frames' # <<>> PROVE current' = loading'[Len(loading')]
      <4>1. frames # <<>>
        BY <1>1, <1>2, <1>5, <3>2
      <4>2. current = loading[Len(loading)] /\ Len(loading) \in 1 .. Len(loading)
        BY <1>1, <4>1, ChainTop DEF IInv, Loading
      <4>3. QED
        BY <1>2, <1>5, <3>1, <4>2
    <3>3. QED
      BY <3>1, <3>2
  <2>2. CASE Left # {}
    <3>1. PICK m \in Left : m = Min(Left) /\ \A j \in Left : m <= j
      <4>1. \E m \in Left : \A j \in Left : m <= j
        <5>1. Left \subseteq Nat
          BY <1>1
        <5> HIDE DEF Left
        <5>2. PICK m \in Left : \A j \in Left : ~ (j < m)
          <6>1. IsWellFoundedOn(OpToRel(<, Nat), Nat)
            BY NatLessThanWellFounded
          <6>2. \E m \in Left : \A j \in Left : ~ (<<j, m>> \in OpToRel(<, Nat))
            BY <2>2, <5>1, <6>1, WFMin, Zenon
          <6>3. PICK m \in Left : \A j \in Left : ~ (<<j, m>> \in OpToRel(<, Nat))
            BY <6>2
          <6>4. \A j \in Left : ~ (j < m)
            BY <5>1, <6>3 DEF OpToRel
          <6>5. QED
            BY <6>4
        <5>3. \A j \in Left : m <= j
          BY <5>1, <5>2
        <5>4. QED
          BY <5>3
      <4>2. QED
        BY <4>1 DEF Min
    <3>2. m \in Nat /\ m <= Len(frames) /\ n < m /\ n <= m /\ frames[m].body /\ m \in 1 .. Len(frames)
      BY <1>1
    <3>3. current' = frames[m].prior /\ frames[m] \in FrameType
      BY <1>1, <1>6, <2>2, <3>1, <3>2
    <3>4. Rank(frames, m) = Rank(frames, n) + 1
      <4>1. {j \in n + 1 .. m : frames[j].body} = {m}
        <5>1. \A j \in n + 1 .. m : frames[j].body => j = m
          <6>1. SUFFICES ASSUME NEW j \in n + 1 .. m, frames[j].body PROVE j = m
            OBVIOUS
          <6>2. j \in Left
            BY <1>1, <3>2, <6>1
          <6>3. m <= j
            BY <3>1, <6>2
          <6>4. QED
            BY <1>1, <3>2, <6>3
        <5>2. m \in n + 1 .. m
          BY <1>1, <3>2
        <5>3. QED
          BY <3>2, <5>1, <5>2
      <4>2. Rank(frames, m) = Rank(frames, n) + Cardinality({j \in n + 1 .. m : frames[j].body})
        BY <1>1, <3>2, RankRises
      <4>3. QED
        BY <4>1, <4>2, FS_Singleton
    <3>5. ASSUME frames' # <<>> PROVE current' = loading'[Len(loading')]
      <4>1. 1 <= n
        BY <1>1, <1>2, <1>5, <3>5
      <4>2. m \in 2 .. Len(frames)
        BY <1>1, <3>2, <4>1
      <4>3. current' = loading[Rank(frames, m) - 1]
        BY <1>1, <3>2, <3>3, <4>2 DEF Chain
      <4>4. Rank(frames, m) - 1 = Rank(frames, n)
        BY <1>3, <3>4
      <4>5. Rank(frames, n) \in 1 .. Rank(frames, n)
        <5>1. gs # <<>> /\ gs \in Seq(FrameType) /\ rd \in Seq(Names) /\ Chain(gs, rd)
          BY <1>2, <1>5, <3>5
        <5>2. Len(rd) \in Nat \ {0}
          BY <5>1, ChainTop
        <5>3. QED
          BY <1>2, <5>2
      <4>6. QED
        BY <1>2, <1>5, <4>3, <4>4, <4>5
    <3>6. QED
      BY <3>3, <3>5 DEF FrameType
  <2>3. QED
    BY <2>1, <2>2
<1>8. Stacks'
  <2>1. cache \subseteq Names
    BY DEF IInv, Stacks
  <2>2. QED
    BY <1>2, <1>5, <1>7, <2>1 DEF Stacks
<1>9. Loading'
  BY <1>2, <1>5, <1>7 DEF Loading
<1>10. Fresh'
  <2>1. Stacks /\ Fresh
    BY DEF IInv
  <2>2. /\ Len(loading') = Rank(frames, n) /\ Rank(frames, n) <= Len(loading)
        /\ \A k \in 1 .. Rank(frames, n) : loading'[k] = loading[k]
    BY <1>2, <1>5
  <2>3. QED
    BY <1>3, <1>5, <2>1, <2>2, FreshCut
<1>11. QED
  BY <1>8, <1>9, <1>10 DEF IInv

\* A function that returns leaves one frame, as an error that its caller catches does.
LEMMA ReturnKeeps ==
    ASSUME IInv, Return
    PROVE  IInv'
<1>1. /\ frames \in Seq(FrameType) /\ loading \in Seq(Names) /\ frames # <<>>
      /\ ~ frames[Len(frames)].body
  BY DEF IInv, Stacks, Return, Top, Last
<1>2. PICK n \in Nat : n + 1 = Len(frames) /\ n \in 0 .. Len(frames)
  <2>1. Len(frames) \in Nat \ {0}
    BY <1>1
  <2>2. Len(frames) - 1 \in Nat /\ (Len(frames) - 1) + 1 = Len(frames) /\ Len(frames) - 1 \in 0 .. Len(frames)
    BY <2>1
  <2>3. QED
    BY <2>2
<1> DEFINE Left == {j \in n + 1 .. Len(frames) : frames[j].body}
<1>3. Left = {}
  <2>1. \A j \in n + 1 .. Len(frames) : j = Len(frames)
    BY <1>2
  <2>2. QED
    BY <1>1, <2>1
<1>4. frames' = SubSeq(frames, 1, n) /\ cache' = cache
  <2>1. Len(frames) - 1 = n
    BY <1>2
  <2>2. QED
    BY <2>1 DEF Return, Front
<1>5. current' = RestoredCurrent(n)
  BY <1>3 DEF Return, RestoredCurrent
<1>6. loading' = LoadingBelow(n)
  <2>1. Cardinality(Left) = 0
    BY <1>3, FS_EmptySet, Zenon
  <2>2. LoadingBelow(n) = SubSeq(loading, 1, Len(loading) - Cardinality(Left))
    BY DEF LoadingBelow
  <2>3. Len(loading) - Cardinality(Left) = Len(loading)
    BY <1>1, <2>1
  <2>4. SubSeq(loading, 1, Len(loading)) = loading
    BY <1>1
  <2>5. loading' = loading
    BY DEF Return
  <2>6. QED
    BY <2>2, <2>3, <2>4, <2>5
<1>7. Unwind(n)
  BY <1>4, <1>5, <1>6 DEF Unwind
<1>8. QED
  BY <1>2, <1>7, UnwindKeeps

\* A body that ends gives its place to the body that imported it, and its module to the cache.
LEMMA EndBodyKeeps ==
    ASSUME IInv, EndBody
    PROVE  IInv'
<1>1. /\ frames \in Seq(FrameType) /\ loading \in Seq(Names) /\ Chain(frames, loading)
      /\ Len(frames) \in Nat /\ Len(loading) \in Nat /\ Len(frames) > 1
      /\ frames[Len(frames)].body
  BY DEF IInv, Stacks, Loading, EndBody, Top, Last
<1>2. PICK n \in Nat \ {0} : n + 1 = Len(frames) /\ n \in 0 .. Len(frames)
  <2>1. Len(frames) - 1 \in Nat \ {0} /\ (Len(frames) - 1) + 1 = Len(frames) /\ Len(frames) - 1 \in 0 .. Len(frames)
    BY <1>1
  <2>2. QED
    BY <2>1
<1>3. PICK m \in Nat : m = Rank(frames, n) /\ Len(loading) = m + 1 /\ Rank(frames, n + 1) = m + 1
  <2>1. Rank(frames, n) \in Nat /\ Rank(frames, n + 1) = Rank(frames, n) + 1
    BY <1>1, <1>2, RankNext
  <2>2. Len(loading) = Rank(frames, n + 1)
    BY <1>1, <1>2 DEF Chain
  <2>3. QED
    BY <2>1, <2>2
<1>4. PICK gs \in Seq(FrameType), rd \in Seq(Names) :
             /\ gs = SubSeq(frames, 1, n) /\ rd = SubSeq(loading, 1, m)
             /\ Len(gs) = n /\ Len(rd) = m
             /\ \A k \in 1 .. m : rd[k] = loading[k]
             /\ Chain(gs, rd)
  <2>1. \E gs \in Seq(FrameType), rd \in Seq(Names) : Cut(frames, loading, n, gs, rd)
    BY <1>1, <1>2, ChainCut
  <2>2. QED
    BY <1>3, <2>1, Zenon DEF Cut
<1>5. frames' = gs /\ loading' = rd
  <2>1. Len(frames) - 1 = n /\ Len(loading) - 1 = m
    BY <1>2, <1>3
  <2>2. frames' = SubSeq(frames, 1, Len(frames) - 1) /\ loading' = SubSeq(loading, 1, Len(loading) - 1)
    BY DEF EndBody, Front
  <2>3. QED
    BY <1>4, <2>1, <2>2
<1>6. frames[n + 1].code = loading[m + 1] /\ frames[n + 1].prior = loading[m] /\ frames[n + 1] \in FrameType
  <2>1. n + 1 \in 1 .. Len(frames) /\ n + 1 \in 2 .. Len(frames) /\ frames[n + 1].body /\ (m + 1) - 1 = m
    BY <1>1, <1>2
  <2>2. frames[n + 1].code = loading[m + 1] /\ frames[n + 1].prior = loading[(m + 1) - 1]
    BY <1>1, <1>3, <2>1 DEF Chain
  <2>3. QED
    BY <1>1, <2>1, <2>2
<1>7. current' = loading[m] /\ cache' = cache \cup {loading[m + 1]}
  BY <1>2, <1>6 DEF EndBody, Top, Last
<1>8. m \in 1 .. m
  <2>1. gs # <<>>
    BY <1>2, <1>4
  <2>2. Len(rd) \in Nat \ {0}
    BY <1>4, <2>1, ChainTop
  <2>3. QED
    BY <1>4, <2>2
<1>9. current' \in Names /\ cache' \subseteq Names /\ current' = loading'[Len(loading')]
  <2>1. frames[n + 1].code \in Names /\ frames[n + 1].prior \in Names
    BY <1>6 DEF FrameType
  <2>2. cache \subseteq Names
    BY DEF IInv, Stacks
  <2>3. rd[m] = loading[m]
    BY <1>4, <1>8
  <2>4. QED
    BY <1>4, <1>5, <1>6, <1>7, <2>1, <2>2, <2>3
<1>10. Fresh'
  <2>1. \A k \in 1 .. m : k \in 1 .. Len(loading) /\ m + 1 \in 1 .. Len(loading) /\ k # m + 1
    BY <1>3
  <2>2. \A k \in 1 .. Len(loading') : k \in 1 .. m /\ loading'[k] = loading[k]
    BY <1>4, <1>5
  <2>3. Fresh
    BY DEF IInv
  <2>4. QED
    BY <1>7, <2>1, <2>2, <2>3 DEF Fresh
<1>11. Stacks' /\ Loading'
  BY <1>4, <1>5, <1>9 DEF Stacks, Loading
<1>12. QED
  BY <1>10, <1>11 DEF IInv

\* A body begins only when do_import finds its module neither cached nor loading.
LEMMA RunKeeps ==
    ASSUME IInv, NEW target \in Bundle, frames # <<>>, target \notin cache, ~ Contains(loading, target),
           frames' = Append(frames, Frame(target, TRUE, current)),
           loading' = Append(loading, target), current' = target, cache' = cache
    PROVE  IInv'
<1>1. /\ frames \in Seq(FrameType) /\ loading \in Seq(Names) /\ Chain(frames, loading)
      /\ current = loading[Len(loading)] /\ current \in Names /\ target \in Names /\ cache \subseteq Names
      /\ Len(loading) \in Nat
  BY DEF IInv, Stacks, Loading, Names
<1>2. PICK f \in FrameType : f = Frame(target, TRUE, current) /\ f.body /\ f.code = target /\ f.prior = current
  <2>1. Frame(target, TRUE, current) \in FrameType
    BY <1>1 DEF Frame, FrameType
  <2>2. Frame(target, TRUE, current).body /\ Frame(target, TRUE, current).code = target
        /\ Frame(target, TRUE, current).prior = current
    BY DEF Frame
  <2>3. QED
    BY <2>1, <2>2
<1>3. Chain(frames', loading')
  <2>1. Chain(Append(frames, f), Append(loading, f.code))
    BY <1>1, <1>2, ChainBegins
  <2>2. QED
    BY <1>2, <2>1
<1>4. /\ frames' \in Seq(FrameType) /\ loading' \in Seq(Names)
      /\ Len(loading') = Len(loading) + 1 /\ loading'[Len(loading) + 1] = target
      /\ \A k \in 1 .. Len(loading) : loading'[k] = loading[k]
  <2>1. Append(frames, f) \in Seq(FrameType)
    BY <1>1
  <2>2. /\ Append(loading, target) \in Seq(Names)
        /\ Len(Append(loading, target)) = Len(loading) + 1 /\ Append(loading, target)[Len(loading) + 1] = target
        /\ \A k \in 1 .. Len(loading) : Append(loading, target)[k] = loading[k]
    BY <1>1
  <2>3. QED
    BY <1>2, <2>1, <2>2
<1>5. Stacks' /\ Loading'
  BY <1>1, <1>3, <1>4 DEF Stacks, Loading
<1>6. Fresh'
  <2>1. \A k \in 1 .. Len(loading') : k # Len(loading) + 1 => k \in 1 .. Len(loading)
    BY <1>1, <1>4
  <2>2. \A k \in 1 .. Len(loading) : loading[k] # target
    BY DEF Contains
  <2>3. Fresh
    BY DEF IInv
  <2>4. QED
    BY <1>4, <2>1, <2>2, <2>3 DEF Fresh
<1>7. QED
  BY <1>5, <1>6 DEF IInv

\* A call leaves the loading stack alone.
LEMMA CallKeeps ==
    ASSUME IInv, NEW m \in Bundle, Call(m)
    PROVE  IInv'
<1>1. /\ frames \in Seq(FrameType) /\ loading \in Seq(Names) /\ Chain(frames, loading)
      /\ current \in Names /\ m \in Names /\ frames # <<>>
  BY DEF IInv, Stacks, Loading, Names, Call
<1>2. PICK f \in FrameType : f = Frame(m, FALSE, current) /\ ~ f.body
  <2>1. Frame(m, FALSE, current) \in FrameType
    BY <1>1 DEF Frame, FrameType
  <2>2. ~ Frame(m, FALSE, current).body
    BY DEF Frame
  <2>3. QED
    BY <2>1, <2>2
<1>3. frames' = Append(frames, f) /\ loading' = loading /\ current' = current /\ cache' = cache
  BY <1>2 DEF Call
<1>4. Chain(frames', loading')
  <2>1. Chain(Append(frames, f), loading)
    BY <1>1, <1>2, ChainCalls
  <2>2. QED
    BY <1>3, <2>1
<1>5. frames' \in Seq(FrameType)
  <2>1. Append(frames, f) \in Seq(FrameType)
    BY <1>1
  <2>2. QED
    BY <1>3, <2>1
<1>6. Stacks' /\ Loading' /\ Fresh'
  BY <1>1, <1>3, <1>4, <1>5 DEF IInv, Stacks, Loading, Fresh
<1>7. QED
  BY <1>6 DEF IInv

\* The entry ends.
LEMMA EndKeeps ==
    ASSUME IInv, End
    PROVE  IInv'
<1>1. frames' = <<>> /\ loading' = <<>> /\ current' = current /\ cache' = cache
  BY DEF End
<1>2. Len(<<>>) = 0 /\ <<>> \in Seq(FrameType) /\ <<>> \in Seq(Names)
  OBVIOUS
<1>3. Rank(<<>>, 0) = 0
  BY RankZero
<1>4. \A i \in 1 .. 0 : FALSE
  OBVIOUS
<1>5. \A i \in 2 .. 0 : FALSE
  OBVIOUS
<1>6. Chain(<<>>, <<>>)
  BY <1>2, <1>3, <1>4, <1>5 DEF Chain
<1>7. Stacks' /\ Loading' /\ Fresh'
  BY <1>1, <1>2, <1>4, <1>6 DEF IInv, Stacks, Loading, Fresh
<1>8. QED
  BY <1>7 DEF IInv

\* Every step keeps the invariant.
LEMMA StepKeeps == IInv /\ [ImportNext]_importVars => IInv'
<1> SUFFICES ASSUME IInv, [ImportNext]_importVars PROVE IInv'
  OBVIOUS
<1>1. ASSUME NEW path \in Paths, Import(path) PROVE IInv'
  <2>1. PICK target : target = Resolve(current, path)
    OBVIOUS
  <2>2. CASE Verdict(target) = "cached"
    <3>1. UNCHANGED <<frames, current, loading, cache>>
      BY <1>1, <2>1, <2>2 DEF Import
    <3>2. QED
      BY <3>1 DEF IInv, Stacks, Loading, Fresh
  <2>3. CASE Verdict(target) \in {"ImportSkillIssue", "circular import"}
    <3>1. \E i \in 0 .. Len(frames) : Unwind(i)
      BY <1>1, <2>1, <2>3 DEF Import
    <3>2. QED
      BY <3>1, UnwindKeeps
  <2>4. CASE Verdict(target) = "run"
    <3>1. target \notin cache /\ target \in Bundle /\ ~ Contains(loading, target)
      BY <2>4 DEF Verdict
    <3>2. /\ frames # <<>> /\ frames' = Append(frames, Frame(target, TRUE, current))
          /\ loading' = Append(loading, target) /\ current' = target /\ cache' = cache
      BY <1>1, <2>1, <2>4 DEF Import
    <3>3. QED
      BY <3>1, <3>2, RunKeeps
  <2>5. QED
    BY <1>1, <2>1, <2>2, <2>3, <2>4 DEF Import
<1>2. ASSUME NEW m \in Bundle, Call(m) PROVE IInv'
  BY <1>2, CallKeeps
<1>3. CASE EndBody
  BY <1>3, EndBodyKeeps
<1>4. CASE Return
  BY <1>4, ReturnKeeps
<1>5. CASE Chuck
  <2>1. PICK i \in 0 .. Len(frames) - 1 : Unwind(i)
    BY <1>5 DEF Chuck
  <2>2. i \in 0 .. Len(frames)
    BY DEF IInv, Stacks
  <2>3. QED
    BY <2>1, <2>2, UnwindKeeps
<1>6. CASE End
  BY <1>6, EndKeeps
<1>7. CASE UNCHANGED importVars
  BY <1>7 DEF IInv, Stacks, Loading, Fresh, importVars
<1>8. QED
  BY <1>1, <1>2, <1>3, <1>4, <1>5, <1>6, <1>7 DEF ImportNext, Over

-----------------------------------------------------------------------------
(* What follows from it *)

\* A frame's body is where the loading stack says it is.
LEMMA RunningAreLoading ==
    ASSUME IInv
    PROVE  /\ Running = Bodies(frames, Len(frames)) /\ Len(frames) \in Nat
           /\ \A i \in Running : /\ i \in 1 .. Len(frames) /\ frames[i].body
                                 /\ Rank(frames, i) \in 1 .. Len(loading)
                                 /\ frames[i].code = loading[Rank(frames, i)]
<1>1. frames \in Seq(FrameType) /\ Chain(frames, loading) /\ Len(frames) \in Nat
  BY DEF IInv, Stacks, Loading
<1>2. DOMAIN frames = 1 .. Len(frames)
  BY <1>1
<1>3. Running = Bodies(frames, Len(frames))
  BY <1>2, Zenon DEF Running, Bodies
<1>4. ASSUME NEW i \in Running
      PROVE  /\ i \in 1 .. Len(frames) /\ frames[i].body
             /\ Rank(frames, i) \in 1 .. Len(loading)
             /\ frames[i].code = loading[Rank(frames, i)]
  <2>1. i \in 1 .. Len(frames) /\ frames[i].body
    BY <1>3, <1>4 DEF Bodies
  <2>2. Rank(frames, i) \in 1 .. Rank(frames, Len(frames))
    BY <1>1, <2>1, BodyRanks
  <2>3. QED
    BY <1>1, <2>1, <2>2 DEF Chain
<1>5. QED
  BY <1>1, <1>3, <1>4

\* Of two bodies one is further out, and the loading stack holds them at two places.
LEMMA OnceEach == IInv => RunsOnce
<1> SUFFICES ASSUME IInv PROVE RunsOnce
  OBVIOUS
<1>1. /\ Len(frames) \in Nat
      /\ \A i \in Running : /\ i \in 1 .. Len(frames) /\ frames[i].body
                            /\ Rank(frames, i) \in 1 .. Len(loading)
                            /\ frames[i].code = loading[Rank(frames, i)]
  BY RunningAreLoading
<1>2. ASSUME NEW i \in Running, NEW j \in Running, i < j PROVE Rank(frames, i) # Rank(frames, j)
  <2>1. i \in 0 .. Len(frames)
    BY <1>1
  <2>2. Rank(frames, i) < Rank(frames, j)
    BY <1>1, <1>2, <2>1, BodyRanks
  <2>3. QED
    BY <1>1, <2>2
<1>3. ASSUME NEW i \in Running, NEW j \in Running, i # j PROVE frames[i].code # frames[j].code
  <2>1. i < j \/ j < i
    BY <1>1, <1>3
  <2>2. Rank(frames, i) # Rank(frames, j)
    BY <1>2, <2>1
  <2>3. QED
    BY <1>1, <2>2 DEF IInv, Fresh
<1>4. ASSUME NEW i \in Running PROVE frames[i].code \notin cache
  BY <1>1 DEF IInv, Fresh
<1>5. QED
  BY <1>3, <1>4 DEF RunsOnce

\* The loading stack is the list of the bodies.
LEMMA InOrder == IInv => LoadingIsTheBodies
<1> SUFFICES ASSUME IInv PROVE LoadingIsTheBodies
  OBVIOUS
<1>1. /\ Len(frames) \in Nat /\ Running = Bodies(frames, Len(frames))
      /\ \A i \in Running : /\ i \in 1 .. Len(frames) /\ frames[i].body
                            /\ Rank(frames, i) \in 1 .. Len(loading)
                            /\ frames[i].code = loading[Rank(frames, i)]
  BY RunningAreLoading
<1>2. /\ loading \in Seq(Names) /\ Len(loading) = Cardinality(Running)
      /\ \A n \in 1 .. Len(loading) : \E i \in 1 .. Len(frames) : frames[i].body /\ Rank(frames, i) = n
  BY <1>1 DEF IInv, Stacks, Loading, Chain, Rank
<1>3. ASSUME NEW i \in Running PROVE Cardinality({j \in Running : j <= i}) = Rank(frames, i)
  <2>1. {j \in Running : j <= i} = Bodies(frames, i)
    BY <1>1 DEF Bodies
  <2>2. QED
    BY <2>1 DEF Rank
<1> DEFINE Nth(n) == CHOOSE i \in Running : Cardinality({j \in Running : j <= i}) = n
<1>4. ASSUME NEW n \in 1 .. Len(loading) PROVE loading[n] = frames[Nth(n)].code
  <2>1. PICK i \in 1 .. Len(frames) : frames[i].body /\ Rank(frames, i) = n
    BY <1>2
  <2>2. i \in Running
    BY <1>1, <2>1 DEF Bodies
  <2>3. Cardinality({j \in Running : j <= i}) = n
    BY <1>3, <2>1, <2>2
  <2>4. Nth(n) \in Running /\ Cardinality({j \in Running : j <= Nth(n)}) = n
    BY <2>2, <2>3
  <2> HIDE DEF Nth
  <2>5. Rank(frames, Nth(n)) = n
    BY <1>3, <2>4
  <2>6. QED
    BY <1>1, <2>4, <2>5
<1>5. loading = [n \in 1 .. Cardinality(Running) |-> frames[Nth(n)].code]
  <2>1. loading = [n \in 1 .. Len(loading) |-> loading[n]]
    BY <1>2
  <2> HIDE DEF Nth
  <2>2. QED
    BY <1>2, <1>4, <2>1
<1>6. frames # <<>> => current = Last(loading)
  BY DEF IInv, Loading, Last
<1>7. QED
  BY <1>5, <1>6 DEF LoadingIsTheBodies

-----------------------------------------------------------------------------
(* Theorems *)

\* The loading stack is the chain of the bodies, each of which remembers the one below it
\* (vm.c: vm_run_module; modules.c: do_import).
THEOREM Inductive == ImportSpec => []IInv
<1>1. ImportInit => IInv
  BY InitHolds
<1>2. IInv /\ [ImportNext]_importVars => IInv'
  BY StepKeeps
<1>3. QED
  BY <1>1, <1>2, PTL DEF ImportSpec

\* However imports, calls and errors alternate, no module's body is entered again while it runs or
\* after it has ended; and an error that skips any number of bodies leaves none of them on the
\* loading stack, so that paths resolve against the module that runs (modules.c: do_import's cache
\* and its test for a circular import; vm.c: vm_run_module's restores).
THEOREM EachRunsOnce == ImportSpec => []ModulesRunOnce
<1>1. IInv => ModulesRunOnce
  BY OnceEach, InOrder DEF ModulesRunOnce
<1>2. QED
  BY Inductive, <1>1, PTL
=============================================================================
