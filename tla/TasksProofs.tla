----------------------------- MODULE TasksProofs -----------------------------
(***************************************************************************)
(* Proofs about Tasks, for any number of async calls, any heap and any      *)
(* bounds.  What is about suspension and the count of executes holds        *)
(* whoever calls dip; what is about captured variables and the collector    *)
(* is proved for programs that do not (Dippers = {}), since a task that     *)
(* dips leaves its frames behind.                                           *)
(***************************************************************************)
EXTENDS Tasks, FiniteSetTheorems, NaturalsInduction, SequenceTheorems, TLAPS

-----------------------------------------------------------------------------
(* The inductive invariant: what every stack looks like and how the        *)
(* running task's native calls are counted.                                *)

SlotType == [val : Values, var : Upvalues \cup {None}]

FrameType == [closure : Closures \cup {Script}, base : Nat, callback : 0 .. 2, handlers : Seq(Nat)]

CtxType == [stack : Seq(SlotType), frames : Seq(FrameType), open : SUBSET Upvalues]

\* The variables' types, in full.
Types ==
  /\ current \in Tasks
  /\ vm \in CtxType
  /\ saved \in [Tasks -> CtxType]
  /\ state \in [Tasks -> {"none", "ready", "running", "waiting", "done"}]
  /\ reentry \in [Tasks -> Nat]
  /\ temps \in Seq(Closures \X Closures)
  /\ closures \in [Closures -> Upvalues \cup {None}]
  /\ upvalues \in [Upvalues -> UpvalueType \cup {None}]
  /\ result \in [Tasks -> Values \cup {Pending, None}]
  /\ store \in [Upvalues -> Values \cup {None}]

\* Handlers lie between b and n, in the order they were pushed.
Ordered(hs, b, n) ==
  /\ \A i \in DOMAIN hs : hs[i] \in b .. n
  /\ \A i, j \in DOMAIN hs : i < j => hs[i] <= hs[j]

\* A frame and its handlers fit a stack of n slots.
FrameShape(fr, n) == fr.base <= n /\ Ordered(fr.handlers, fr.base, n)

\* Frames are nested: one ends, handlers and all, where the next begins.  The
\* first is the task's own, called by no native function.
Shape(ctx) ==
  /\ \A k \in DOMAIN ctx.frames : FrameShape(ctx.frames[k], Len(ctx.stack))
  /\ \A j, k \in DOMAIN ctx.frames : j < k => FrameShape(ctx.frames[j], ctx.frames[k].base)
  /\ ctx.frames # <<>> => ctx.frames[1].base = 0 /\ ctx.frames[1].callback = 0

Shapes == Shape(vm) /\ \A t \in Tasks : Shape(saved[t])

\* A task that could run when it gets its turn.
Resumable(ctx) == ctx.frames # <<>> /\ Callbacks(ctx.frames) = 0

\* Only the current task runs; the executes and the temp roots of the VM are
\* those of its native callbacks, and a task that is off has none.
Control ==
  /\ \A t \in Tasks : state[t] = "running" => t = current
  /\ Running => /\ vm.frames # <<>>
                /\ reentry[current] = 1 + Callbacks(vm.frames)
                /\ Len(temps) = Callbacks(vm.frames)
  /\ ~ Running => temps = <<>>
  /\ \A t \in Tasks : state[t] \in {"ready", "waiting"} => Resumable(Context(t))
  /\ \A t \in Tasks : state[t] = "none" => t # current /\ saved[t] = Blank

\* The collector keeps what is in an open list.
Listed == \A t \in Tasks : Context(t).open \subseteq Allocated

IInv == Types /\ Shapes /\ Control /\ Listed

-----------------------------------------------------------------------------
(* Least and greatest elements, and counting callbacks.                    *)

LEMMA LeastExists ==
  ASSUME NEW T \in SUBSET Nat, T # {}
  PROVE  \E x \in T : \A y \in T : x <= y
<1>1. PICK x \in T : \A y \in T : ~ (<<y, x>> \in OpToRel(<, Nat))
  BY NatLessThanWellFounded, WFMin, Zenon
<1>2. \A y \in T : ~ (y < x)
  BY <1>1, Zenon DEF OpToRel
<1>3. QED
  BY <1>2

LEMMA GreatestExists ==
  ASSUME NEW n \in Nat, NEW T \in SUBSET (1 .. n), T # {}
  PROVE  \E x \in T : \A y \in T : y <= x
<1> DEFINE U == {m \in Nat : \A y \in T : y <= m}
<1>1. n \in U
  OBVIOUS
<1>2. PICK m \in U : \A y \in U : m <= y
  <2>1. U \in SUBSET Nat /\ U # {}
    BY <1>1
  <2> HIDE DEF U
  <2>2. QED
    BY <2>1, LeastExists
<1>3. CASE m \in T
  BY <1>3
<1>4. CASE m \notin T
  <2>0. PICK y \in T : y \in 1 .. n
    OBVIOUS
  <2>1. m \in Nat \ {0}
    BY <2>0
  <2>2. m - 1 \in U
    BY <2>1, <1>4
  <2>3. QED
    BY <1>2, <2>1, <2>2
<1>5. QED
  BY <1>3, <1>4

\* The oldest of some tasks is one of them.
LEMMA OldestIn ==
  ASSUME NEW ts \in SUBSET Tasks, ts # {}
  PROVE  Oldest(ts) \in ts
<1>1. ts \in SUBSET Nat
  BY TasksAssumption DEF Tasks, Zero
<1>2. \E t \in ts : \A u \in ts : t <= u
  BY <1>1, LeastExists
<1>3. QED
  BY <1>2 DEF Oldest

\* The callbacks among some frames are finitely many.
LEMMA CallbackSets ==
  ASSUME NEW fs \in Seq(FrameType)
  PROVE  /\ IsFiniteSet({k \in DOMAIN fs : fs[k].callback # 0})
         /\ Callbacks(fs) \in Nat
<1>1. IsFiniteSet(1 .. Len(fs))
  BY FS_Interval
<1>2. {k \in DOMAIN fs : fs[k].callback # 0} \in SUBSET (1 .. Len(fs))
  OBVIOUS
<1>3. IsFiniteSet({k \in DOMAIN fs : fs[k].callback # 0})
  BY <1>1, <1>2, FS_Subset
<1>4. QED
  BY <1>3, FS_CardinalityType DEF Callbacks

\* Only which frames are callbacks counts.
LEMMA CallbacksSame ==
  ASSUME NEW fs \in Seq(FrameType), NEW gs \in Seq(FrameType), Len(fs) = Len(gs),
         \A k \in 1 .. Len(fs) : fs[k].callback = gs[k].callback
  PROVE  Callbacks(fs) = Callbacks(gs)
<1>1. {k \in DOMAIN fs : fs[k].callback # 0} = {k \in DOMAIN gs : gs[k].callback # 0}
  OBVIOUS
<1>2. QED
  BY <1>1 DEF Callbacks

LEMMA CallbacksAppend ==
  ASSUME NEW fs \in Seq(FrameType), NEW fr \in FrameType
  PROVE  Callbacks(Append(fs, fr)) = Callbacks(fs) + (IF fr.callback = 0 THEN 0 ELSE 1)
<1> DEFINE C == {k \in DOMAIN fs : fs[k].callback # 0}
           D == {k \in DOMAIN Append(fs, fr) : Append(fs, fr)[k].callback # 0}
<1>1. D = IF fr.callback = 0 THEN C ELSE C \cup {Len(fs) + 1}
  OBVIOUS
<1>2. Len(fs) + 1 \notin C /\ IsFiniteSet(C) /\ Cardinality(C) \in Nat
  BY CallbackSets, FS_CardinalityType
<1> HIDE DEF C, D
<1>3. Cardinality(C \cup {Len(fs) + 1}) = Cardinality(C) + 1
  BY <1>2, FS_AddElement
<1>4. Cardinality(D) = Cardinality(C) + (IF fr.callback = 0 THEN 0 ELSE 1)
  BY <1>1, <1>2, <1>3
<1>5. QED
  BY <1>4 DEF Callbacks, C, D

LEMMA CallbacksFront ==
  ASSUME NEW fs \in Seq(FrameType), fs # <<>>
  PROVE  Callbacks(fs) = Callbacks(SubSeq(fs, 1, Len(fs) - 1)) + (IF fs[Len(fs)].callback = 0 THEN 0 ELSE 1)
<1> DEFINE gs == SubSeq(fs, 1, Len(fs) - 1)
<1>1. gs \in Seq(FrameType) /\ fs[Len(fs)] \in FrameType
  OBVIOUS
<1>2. fs = Append(gs, fs[Len(fs)])
  OBVIOUS
<1>3. QED
  BY <1>1, <1>2, CallbacksAppend

LEMMA CallbacksCut ==
  ASSUME NEW fs \in Seq(FrameType), NEW k \in 0 .. Len(fs)
  PROVE  /\ SubSeq(fs, 1, k) \in Seq(FrameType)
         /\ Callbacks(SubSeq(fs, 1, k)) \in Nat
         /\ Callbacks(SubSeq(fs, 1, k)) <= Callbacks(fs)
<1> DEFINE gs == SubSeq(fs, 1, k)
<1>1. gs \in Seq(FrameType)
  OBVIOUS
<1>2. {j \in DOMAIN gs : gs[j].callback # 0} \in SUBSET {j \in DOMAIN fs : fs[j].callback # 0}
  OBVIOUS
<1>3. Callbacks(gs) <= Callbacks(fs)
  BY <1>2, CallbackSets, FS_Subset DEF Callbacks
<1>4. QED
  BY <1>1, <1>3, CallbackSets

\* Of a task's own frame alone, and of none, no callback counts.
LEMMA CallbacksNone ==
  /\ Callbacks(<<>>) = 0
  /\ \A fr \in FrameType : fr.callback = 0 => Callbacks(<<fr>>) = 0
<1>1. ASSUME NEW fs \in Seq(FrameType), \A k \in DOMAIN fs : fs[k].callback = 0
      PROVE  Callbacks(fs) = 0
  <2>1. {k \in DOMAIN fs : fs[k].callback # 0} = {}
    BY <1>1
  <2>2. QED
    BY <2>1, FS_EmptySet DEF Callbacks
<1>2. Callbacks(<<>>) = 0
  <2>1. <<>> \in Seq(FrameType) /\ \A k \in DOMAIN <<>> : <<>>[k].callback = 0
    OBVIOUS
  <2>2. QED
    BY <2>1, <1>1, Zenon
<1>3. ASSUME NEW fr \in FrameType, fr.callback = 0
      PROVE  Callbacks(<<fr>>) = 0
  <2>1. <<fr>> \in Seq(FrameType) /\ \A k \in DOMAIN <<fr>> : <<fr>>[k].callback = 0
    BY <1>3
  <2>2. QED
    BY <2>1, <1>1
<1>4. QED
  BY <1>2, <1>3

-----------------------------------------------------------------------------
(* What the operations on a context make of it.                            *)

LEMMA Constants ==
  /\ Zero \in Tasks
  /\ 0 \in Values /\ Numbas \subseteq Values /\ Closures \subseteq Values /\ Garbage \in Values
  /\ None \notin UpvalueType /\ None \notin Upvalues /\ None \notin Closures /\ None \notin Values
  /\ Script \notin Closures /\ Pending \notin Heap /\ Garbage \notin Heap /\ None \notin Heap
  /\ \A n \in Numbas : n \notin Heap
  /\ \A c \in Closures : c \notin Upvalues
  BY TasksAssumption DEF Zero, Tasks, Values, Heap

LEMMA CtxFields ==
  ASSUME NEW ctx \in CtxType
  PROVE  /\ ctx.stack \in Seq(SlotType) /\ ctx.frames \in Seq(FrameType) /\ ctx.open \in SUBSET Upvalues
         /\ Len(ctx.stack) \in Nat /\ DOMAIN ctx.stack = 1 .. Len(ctx.stack)
         /\ Len(ctx.frames) \in Nat /\ DOMAIN ctx.frames = 1 .. Len(ctx.frames)
         /\ \A i \in 1 .. Len(ctx.stack) :
              ctx.stack[i] \in SlotType /\ ctx.stack[i].val \in Values /\ ctx.stack[i].var \in Upvalues \cup {None}
         /\ \A k \in 1 .. Len(ctx.frames) :
              /\ ctx.frames[k] \in FrameType /\ ctx.frames[k].closure \in Closures \cup {Script}
              /\ ctx.frames[k].base \in Nat /\ ctx.frames[k].callback \in 0 .. 2
              /\ ctx.frames[k].handlers \in Seq(Nat)
<1>1. ctx.stack \in Seq(SlotType) /\ ctx.frames \in Seq(FrameType) /\ ctx.open \in SUBSET Upvalues
  BY DEF CtxType
<1>2. \A i \in 1 .. Len(ctx.stack) :
        ctx.stack[i] \in SlotType /\ ctx.stack[i].val \in Values /\ ctx.stack[i].var \in Upvalues \cup {None}
  <2>1. \A i \in 1 .. Len(ctx.stack) : ctx.stack[i] \in SlotType
    BY <1>1
  <2>2. QED
    BY <2>1 DEF SlotType
<1>3. \A k \in 1 .. Len(ctx.frames) :
        /\ ctx.frames[k] \in FrameType /\ ctx.frames[k].closure \in Closures \cup {Script}
        /\ ctx.frames[k].base \in Nat /\ ctx.frames[k].callback \in 0 .. 2
        /\ ctx.frames[k].handlers \in Seq(Nat)
  <2>1. \A k \in 1 .. Len(ctx.frames) : ctx.frames[k] \in FrameType
    BY <1>1
  <2>2. QED
    BY <2>1 DEF FrameType
<1>4. QED
  BY <1>1, <1>2, <1>3

\* A context made of typed parts.
LEMMA CtxMade ==
  ASSUME NEW st \in Seq(SlotType), NEW fs \in Seq(FrameType), NEW us \in SUBSET Upvalues
  PROVE  [stack |-> st, frames |-> fs, open |-> us] \in CtxType
  BY DEF CtxType

LEMMA StackExcept ==
  ASSUME NEW ctx \in CtxType, NEW st \in Seq(SlotType)
  PROVE  /\ [ctx EXCEPT !.stack = st] \in CtxType
         /\ [ctx EXCEPT !.stack = st].stack = st
         /\ [ctx EXCEPT !.stack = st].frames = ctx.frames /\ [ctx EXCEPT !.stack = st].open = ctx.open
  BY SMT DEF CtxType

LEMMA FramesExcept ==
  ASSUME NEW ctx \in CtxType, NEW fs \in Seq(FrameType)
  PROVE  /\ [ctx EXCEPT !.frames = fs] \in CtxType
         /\ [ctx EXCEPT !.frames = fs].frames = fs
         /\ [ctx EXCEPT !.frames = fs].stack = ctx.stack /\ [ctx EXCEPT !.frames = fs].open = ctx.open
  BY SMT DEF CtxType

LEMMA OpenExcept ==
  ASSUME NEW ctx \in CtxType, NEW us \in SUBSET Upvalues
  PROVE  /\ [ctx EXCEPT !.open = us] \in CtxType
         /\ [ctx EXCEPT !.open = us].open = us
         /\ [ctx EXCEPT !.open = us].stack = ctx.stack /\ [ctx EXCEPT !.open = us].frames = ctx.frames
  BY SMT DEF CtxType

LEMMA SlotMade ==
  ASSUME NEW v \in Values
  PROVE  Slot(v) \in SlotType /\ Slot(v).val = v /\ Slot(v).var = None
  BY DEF Slot, SlotType

LEMMA FrameMade ==
  ASSUME NEW c \in Closures \cup {Script}, NEW b \in Nat, NEW n \in 0 .. 2
  PROVE  /\ Frame(c, b, n) \in FrameType
         /\ Frame(c, b, n).closure = c /\ Frame(c, b, n).base = b /\ Frame(c, b, n).callback = n
         /\ Frame(c, b, n).handlers = <<>>
  BY DEF Frame, FrameType

\* Pushing and popping handlers keeps them in order.
LEMMA OrderedEmpty ==
  ASSUME NEW b \in Nat, NEW n \in Nat
  PROVE  <<>> \in Seq(Nat) /\ Ordered(<<>>, b, n)
  BY DEF Ordered

LEMMA OrderedAppend ==
  ASSUME NEW hs \in Seq(Nat), NEW b \in Nat, NEW n \in Nat, b <= n, Ordered(hs, b, n)
  PROVE  Append(hs, n) \in Seq(Nat) /\ Ordered(Append(hs, n), b, n)
<1> DEFINE gs == Append(hs, n)
<1>1. gs \in Seq(Nat) /\ DOMAIN gs = 1 .. Len(hs) + 1 /\ gs[Len(hs) + 1] = n
      /\ (\A i \in 1 .. Len(hs) : gs[i] = hs[i]) /\ DOMAIN hs = 1 .. Len(hs) /\ Len(hs) \in Nat
  OBVIOUS
<1> HIDE DEF gs
<1>2. \A i \in DOMAIN gs : gs[i] \in b .. n
  BY <1>1 DEF Ordered
<1>3. ASSUME NEW i \in DOMAIN gs, NEW j \in DOMAIN gs, i < j
      PROVE  gs[i] <= gs[j]
  <2>1. i \in 1 .. Len(hs) /\ gs[i] = hs[i] /\ hs[i] \in b .. n
    BY <1>1, <1>3 DEF Ordered
  <2>2. CASE j = Len(hs) + 1
    BY <1>1, <2>1, <2>2
  <2>3. CASE j \in 1 .. Len(hs)
    BY <1>1, <1>3, <2>1, <2>3 DEF Ordered
  <2>4. QED
    BY <1>1, <2>2, <2>3
<1>4. QED
  BY <1>1, <1>2, <1>3 DEF Ordered, gs

LEMMA OrderedFront ==
  ASSUME NEW hs \in Seq(Nat), NEW b \in Nat, NEW n \in Nat, hs # <<>>, Ordered(hs, b, n)
  PROVE  LET m == hs[Len(hs)]
             gs == SubSeq(hs, 1, Len(hs) - 1)
         IN m \in b .. n /\ m \in Nat /\ Ordered(hs, b, m) /\ gs \in Seq(Nat) /\ Ordered(gs, b, m)
<1> DEFINE m == hs[Len(hs)]
           gs == SubSeq(hs, 1, Len(hs) - 1)
<1>1. Len(hs) \in Nat \ {0} /\ DOMAIN hs = 1 .. Len(hs)
  <2>1. Len(hs) # 0
    OBVIOUS
  <2>2. QED
    BY <2>1
<1>2. m \in b .. n /\ m \in Nat
  BY <1>1 DEF Ordered
<1>3. gs \in Seq(Nat) /\ DOMAIN gs = 1 .. Len(hs) - 1 /\ \A i \in 1 .. Len(hs) - 1 : gs[i] = hs[i]
  BY <1>1
<1> HIDE DEF gs
<1>4. \A i \in DOMAIN hs : hs[i] \in b .. m
  <2>1. \A i \in DOMAIN hs : hs[i] \in Nat /\ b <= hs[i]
    BY <1>1 DEF Ordered
  <2>2. \A i \in DOMAIN hs : hs[i] <= m
    BY <1>1, <2>1 DEF Ordered
  <2>3. QED
    BY <1>2, <2>1, <2>2
<1>5. Ordered(hs, b, m)
  BY <1>4 DEF Ordered
<1>6. Ordered(gs, b, m)
  <2>1. \A i \in DOMAIN gs : gs[i] = hs[i] /\ i \in DOMAIN hs
    BY <1>1, <1>3
  <2> HIDE DEF m
  <2>2. QED
    BY <1>5, <2>1 DEF Ordered
<1>7. QED
  BY <1>2, <1>3, <1>5, <1>6 DEF gs

LEMMA OrderedGrows ==
  ASSUME NEW hs \in Seq(Nat), NEW b \in Nat, NEW n \in Nat, NEW m \in Nat, n <= m, Ordered(hs, b, n)
  PROVE  Ordered(hs, b, m)
  BY DEF Ordered

\* A frame that fits n slots fits more.
LEMMA FrameGrows ==
  ASSUME NEW fr \in FrameType, NEW n \in Nat, NEW m \in Nat, n <= m, FrameShape(fr, n)
  PROVE  FrameShape(fr, m)
<1>1. fr.base \in Nat /\ fr.handlers \in Seq(Nat)
  BY DEF FrameType
<1>2. QED
  BY <1>1, OrderedGrows DEF FrameShape

\* Pushing a value.
LEMMA PushedCtx ==
  ASSUME NEW ctx \in CtxType, NEW v \in Values
  PROVE  /\ Pushed(ctx, v) \in CtxType
         /\ Pushed(ctx, v).frames = ctx.frames /\ Pushed(ctx, v).open = ctx.open
         /\ Len(Pushed(ctx, v).stack) = Len(ctx.stack) + 1
         /\ \A i \in 1 .. Len(ctx.stack) : Pushed(ctx, v).stack[i] = ctx.stack[i]
         /\ Pushed(ctx, v).stack[Len(ctx.stack) + 1] = Slot(v)
         /\ Shape(ctx) => Shape(Pushed(ctx, v))
<1> DEFINE st == Append(ctx.stack, Slot(v))
           new == Pushed(ctx, v)
<1>1. ctx.stack \in Seq(SlotType) /\ Len(ctx.stack) \in Nat /\ Slot(v) \in SlotType
  BY CtxFields, SlotMade
<1>2. st \in Seq(SlotType) /\ Len(st) = Len(ctx.stack) + 1 /\ st[Len(ctx.stack) + 1] = Slot(v)
      /\ \A i \in 1 .. Len(ctx.stack) : st[i] = ctx.stack[i]
  BY <1>1
<1>3. new \in CtxType /\ new.stack = st /\ new.frames = ctx.frames /\ new.open = ctx.open
  BY <1>2, StackExcept DEF Pushed
<1> HIDE DEF st, new
<1>4. Shape(ctx) => Shape(new)
  BY <1>1, <1>2, <1>3, CtxFields, FrameGrows DEF Shape
<1>5. QED
  BY <1>2, <1>3, <1>4 DEF new

\* Cutting the running context back to n slots and k frames that fit them.
LEMMA CutCtx ==
  ASSUME Types, NEW n \in 0 .. Len(vm.stack), NEW k \in 0 .. Len(vm.frames)
  PROVE  /\ Cut(n, k) \in CtxType
         /\ Cut(n, k).stack = SubSeq(vm.stack, 1, n) /\ Cut(n, k).frames = SubSeq(vm.frames, 1, k)
         /\ Cut(n, k).open = vm.open \ ClosedFrom(n + 1)
         /\ Len(Cut(n, k).stack) = n /\ \A i \in 1 .. n : Cut(n, k).stack[i] = vm.stack[i]
         /\ Len(Cut(n, k).frames) = k /\ \A i \in 1 .. k : Cut(n, k).frames[i] = vm.frames[i]
         /\ Shape(vm) /\ (\A j \in 1 .. k : FrameShape(vm.frames[j], n)) => Shape(Cut(n, k))
<1>1. vm \in CtxType
  BY DEF Types
<1> DEFINE st == SubSeq(vm.stack, 1, n)
           fs == SubSeq(vm.frames, 1, k)
<1>2. st \in Seq(SlotType) /\ Len(st) = n /\ \A i \in 1 .. n : st[i] = vm.stack[i]
  BY <1>1, CtxFields
<1>3. fs \in Seq(FrameType) /\ Len(fs) = k /\ \A i \in 1 .. k : fs[i] = vm.frames[i]
  BY <1>1, CtxFields
<1>4. vm.open \ ClosedFrom(n + 1) \in SUBSET Upvalues
  BY <1>1, CtxFields
<1>5. Cut(n, k) = [stack |-> st, frames |-> fs, open |-> vm.open \ ClosedFrom(n + 1)]
  BY DEF Cut
<1> HIDE DEF st, fs
<1>6. Cut(n, k) \in CtxType
  BY <1>2, <1>3, <1>4, <1>5, CtxMade
<1>7. ASSUME Shape(vm), \A j \in 1 .. k : FrameShape(vm.frames[j], n)
      PROVE  Shape(Cut(n, k))
  <2>1. Len(vm.frames) \in Nat /\ DOMAIN vm.frames = 1 .. Len(vm.frames) /\ DOMAIN fs = 1 .. k
    BY <1>1, <1>3, CtxFields
  <2>2. fs # <<>> => 1 \in 1 .. k
    BY <1>3
  <2>3. vm.frames # <<>> \/ k = 0
    BY <2>1
  <2>4. QED
    BY <1>2, <1>3, <1>5, <1>7, <2>1, <2>2, <2>3 DEF Shape
<1>8. QED
  BY <1>2, <1>3, <1>5, <1>6, <1>7 DEF st, fs

\* A new frame above all slots.
LEMMA FramePushed ==
  ASSUME NEW ctx \in CtxType, Shape(ctx), ctx.frames # <<>>, NEW c \in Closures, NEW n \in 0 .. 2
  PROVE  LET new == [ctx EXCEPT !.frames = Append(@, Frame(c, Len(ctx.stack), n))]
         IN /\ new \in CtxType /\ Shape(new)
            /\ new.stack = ctx.stack /\ new.open = ctx.open
            /\ new.frames = Append(ctx.frames, Frame(c, Len(ctx.stack), n))
            /\ new.frames # <<>>
<1> DEFINE fr == Frame(c, Len(ctx.stack), n)
           fs == Append(ctx.frames, fr)
           new == [ctx EXCEPT !.frames = fs]
<1>1. ctx.frames \in Seq(FrameType) /\ fr \in FrameType /\ fr.base = Len(ctx.stack) /\ fr.handlers = <<>>
  BY CtxFields, FrameMade
<1> HIDE DEF fr
<1>2. fs \in Seq(FrameType) /\ Len(fs) = Len(ctx.frames) + 1 /\ fs[Len(ctx.frames) + 1] = fr
      /\ \A k \in 1 .. Len(ctx.frames) : fs[k] = ctx.frames[k]
  BY <1>1
<1>3. fs # <<>> /\ fs[1] = ctx.frames[1]
  <2>1. Len(ctx.frames) # 0
    BY <1>1
  <2>2. QED
    BY <2>1, <1>1, <1>2
<1> HIDE DEF fs
<1>4. new \in CtxType /\ new.stack = ctx.stack /\ new.frames = fs /\ new.open = ctx.open
  BY <1>2, FramesExcept
<1> HIDE DEF new
<1>5. Len(ctx.stack) \in Nat /\ Len(ctx.frames) \in Nat /\ DOMAIN ctx.frames = 1 .. Len(ctx.frames)
      /\ DOMAIN fs = 1 .. Len(ctx.frames) + 1
  BY <1>2, CtxFields
<1>6. \A k \in DOMAIN fs : FrameShape(fs[k], Len(ctx.stack))
  <2>1. FrameShape(fr, Len(ctx.stack))
    BY <1>1, <1>5, OrderedEmpty DEF FrameShape
  <2>2. QED
    BY <2>1, <1>2, <1>5 DEF Shape
<1>7. ASSUME NEW j \in DOMAIN fs, NEW k \in DOMAIN fs, j < k
      PROVE  FrameShape(fs[j], fs[k].base)
  <2>1. j \in 1 .. Len(ctx.frames) /\ fs[j] = ctx.frames[j]
    BY <1>2, <1>5, <1>7
  <2>2. CASE k = Len(ctx.frames) + 1
    BY <1>1, <1>2, <1>5, <2>1, <2>2 DEF Shape
  <2>3. CASE k \in 1 .. Len(ctx.frames)
    BY <1>2, <1>5, <1>7, <2>1, <2>3 DEF Shape
  <2>4. QED
    BY <1>5, <2>2, <2>3
<1>8. Shape(new)
  BY <1>3, <1>4, <1>6, <1>7 DEF Shape
<1>9. QED
  BY <1>3, <1>4, <1>8 DEF fs, fr, new

\* Giving slot i another value or another variable.
LEMMA SlotExcept ==
  ASSUME NEW ctx \in CtxType, NEW i \in 1 .. Len(ctx.stack), NEW sl \in SlotType
  PROVE  LET new == [ctx EXCEPT !.stack = [ctx.stack EXCEPT ![i] = sl]]
         IN /\ new \in CtxType
            /\ new.frames = ctx.frames /\ new.open = ctx.open
            /\ Len(new.stack) = Len(ctx.stack)
            /\ new.stack[i] = sl
            /\ \A j \in 1 .. Len(ctx.stack) : j # i => new.stack[j] = ctx.stack[j]
            /\ Shape(ctx) => Shape(new)
<1> DEFINE st == [ctx.stack EXCEPT ![i] = sl]
           new == [ctx EXCEPT !.stack = st]
<1>1. ctx.stack \in Seq(SlotType) /\ Len(ctx.stack) \in Nat
  BY CtxFields
<1>2. st \in Seq(SlotType) /\ Len(st) = Len(ctx.stack) /\ st[i] = sl
      /\ \A j \in 1 .. Len(ctx.stack) : j # i => st[j] = ctx.stack[j]
  BY <1>1, ExceptSeq
<1> HIDE DEF st
<1>3. new \in CtxType /\ new.stack = st /\ new.frames = ctx.frames /\ new.open = ctx.open
  BY <1>2, StackExcept
<1> HIDE DEF new
<1>4. Shape(ctx) => Shape(new)
  BY <1>2, <1>3 DEF Shape
<1>5. QED
  BY <1>2, <1>3, <1>4 DEF new, st

LEMMA ValueExcept ==
  ASSUME NEW ctx \in CtxType, NEW i \in 1 .. Len(ctx.stack), NEW v \in Values
  PROVE  LET new == [ctx EXCEPT !.stack[i].val = v]
         IN /\ new \in CtxType
            /\ new.frames = ctx.frames /\ new.open = ctx.open
            /\ Len(new.stack) = Len(ctx.stack)
            /\ new.stack[i].val = v /\ new.stack[i].var = ctx.stack[i].var
            /\ \A j \in 1 .. Len(ctx.stack) : j # i => new.stack[j] = ctx.stack[j]
            /\ Shape(ctx) => Shape(new)
<1> DEFINE sl == [ctx.stack[i] EXCEPT !.val = v]
<1>1. ctx.stack[i] \in SlotType
  BY CtxFields
<1>2. sl \in SlotType /\ sl.val = v /\ sl.var = ctx.stack[i].var
  BY <1>1 DEF SlotType
<1>3. [ctx EXCEPT !.stack[i].val = v] = [ctx EXCEPT !.stack = [ctx.stack EXCEPT ![i] = sl]]
  OBVIOUS
<1> HIDE DEF sl
<1>4. QED
  BY <1>2, <1>3, SlotExcept

LEMMA VariableExcept ==
  ASSUME NEW ctx \in CtxType, NEW i \in 1 .. Len(ctx.stack), NEW x \in Upvalues
  PROVE  LET new == [ctx EXCEPT !.stack[i].var = x]
         IN /\ new \in CtxType
            /\ new.frames = ctx.frames /\ new.open = ctx.open
            /\ Len(new.stack) = Len(ctx.stack)
            /\ new.stack[i].val = ctx.stack[i].val /\ new.stack[i].var = x
            /\ \A j \in 1 .. Len(ctx.stack) : j # i => new.stack[j] = ctx.stack[j]
            /\ Shape(ctx) => Shape(new)
<1> DEFINE sl == [ctx.stack[i] EXCEPT !.var = x]
<1>1. ctx.stack[i] \in SlotType
  BY CtxFields
<1>2. sl \in SlotType /\ sl.var = x /\ sl.val = ctx.stack[i].val
  BY <1>1 DEF SlotType
<1>3. [ctx EXCEPT !.stack[i].var = x] = [ctx EXCEPT !.stack = [ctx.stack EXCEPT ![i] = sl]]
  OBVIOUS
<1> HIDE DEF sl
<1>4. QED
  BY <1>2, <1>3, SlotExcept

\* Every task's context is typed, and is what its upvalues index.
LEMMA ContextTypes ==
  ASSUME Types, NEW t \in Tasks
  PROVE  Context(t) \in CtxType /\ LiveStack(t) = Context(t).stack
  BY DEF Types, Context, LiveStack

LEMMA UpvalueFields ==
  ASSUME Types, NEW u \in Allocated
  PROVE  /\ u \in Upvalues /\ upvalues[u] \in UpvalueType
         /\ upvalues[u].task \in Tasks /\ upvalues[u].slot \in Nat /\ upvalues[u].closed \in BOOLEAN
         /\ upvalues[u].value \in Values /\ upvalues[u].var \in Upvalues
<1>1. u \in Upvalues /\ upvalues[u] \in UpvalueType
  BY DEF Types, Allocated
<1>2. QED
  BY <1>1 DEF UpvalueType

LEMMA GetTyped ==
  ASSUME Types, NEW u \in Upvalues
  PROVE  Get(u) \in Values
<1>1. CASE upvalues[u] = None \/ ~ Readable(u)
  BY <1>1, Constants DEF Get
<1>2. CASE upvalues[u] # None /\ Readable(u)
  <2>1. u \in Allocated
    BY <1>2 DEF Allocated
  <2>2. CASE upvalues[u].closed
    BY <1>2, <2>1, <2>2, UpvalueFields DEF Get
  <2>3. CASE ~ upvalues[u].closed
    <3>1. upvalues[u].task \in Tasks
      BY <2>1, UpvalueFields
    <3> DEFINE t == upvalues[u].task
               i == upvalues[u].slot
    <3>2. Context(t) \in CtxType /\ LiveStack(t) = Context(t).stack
      BY <3>1, ContextTypes
    <3>3. i \in 1 .. Len(Context(t).stack)
      BY <1>2, <2>3, <3>2, CtxFields DEF Readable
    <3>4. Context(t).stack[i].val \in Values
      BY <3>2, <3>3, CtxFields
    <3>5. QED
      BY <1>2, <2>3, <3>2, <3>4 DEF Get
  <2>4. QED
    BY <2>2, <2>3
<1>3. QED
  BY <1>1, <1>2

\* What close_upvalues_from leaves of the upvalues.
LEMMA CloseFields ==
  ASSUME Types, NEW us \in SUBSET Allocated
  PROVE  /\ Close(us) \in [Upvalues -> UpvalueType \cup {None}]
         /\ \A u \in Upvalues \ us : Close(us)[u] = upvalues[u]
         /\ \A u \in us : /\ Close(us)[u] # None
                          /\ Close(us)[u].closed /\ Close(us)[u].value = Get(u)
                          /\ Close(us)[u].var = upvalues[u].var
<1>1. ASSUME NEW u \in us
      PROVE  LET x == [upvalues[u] EXCEPT !.closed = TRUE, !.value = Get(u), !.slot = 0, !.task = Zero]
             IN x \in UpvalueType /\ x.closed /\ x.value = Get(u) /\ x.var = upvalues[u].var
  <2>1. upvalues[u] \in UpvalueType /\ Get(u) \in Values /\ Zero \in Tasks
    BY UpvalueFields, GetTyped, Constants
  <2>2. QED
    BY <2>1 DEF UpvalueType
<1>2. us \in SUBSET Upvalues
  BY DEF Allocated
<1>3. Close(us) = [u \in Upvalues |->
        IF u \in us
        THEN [upvalues[u] EXCEPT !.closed = TRUE, !.value = Get(u), !.slot = 0, !.task = Zero]
        ELSE upvalues[u]]
  BY DEF Close
<1>4. \A u \in Upvalues : Close(us)[u] \in UpvalueType \cup {None}
  <2>1. ASSUME NEW u \in Upvalues, u \in us PROVE Close(us)[u] \in UpvalueType \cup {None}
    BY <1>1, <1>3, <2>1
  <2>2. ASSUME NEW u \in Upvalues, u \notin us PROVE Close(us)[u] \in UpvalueType \cup {None}
    BY <1>3, <2>2 DEF Types
  <2>3. QED
    BY <2>1, <2>2
<1>5. Close(us) \in [Upvalues -> UpvalueType \cup {None}]
  BY <1>3, <1>4
<1>6. \A u \in Upvalues \ us : Close(us)[u] = upvalues[u]
  BY <1>3
<1>7. \A u \in us : /\ Close(us)[u] \in UpvalueType
                    /\ Close(us)[u].closed /\ Close(us)[u].value = Get(u)
                    /\ Close(us)[u].var = upvalues[u].var
  BY <1>1, <1>2, <1>3
<1>8. QED
  BY <1>5, <1>6, <1>7, Constants

\* Giving frame k, the last, other handlers.
LEMMA HandlersExcept ==
  ASSUME NEW ctx \in CtxType, ctx.frames # <<>>, NEW hs \in Seq(Nat)
  PROVE  LET k == Len(ctx.frames)
             new == [ctx EXCEPT !.frames[k].handlers = hs]
         IN /\ new \in CtxType
            /\ new.stack = ctx.stack /\ new.open = ctx.open
            /\ new.frames # <<>> /\ Len(new.frames) = k
            /\ Callbacks(new.frames) = Callbacks(ctx.frames)
            /\ \A j \in 1 .. k : new.frames[j].closure = ctx.frames[j].closure
            /\ Shape(ctx) /\ Ordered(hs, ctx.frames[k].base, Len(ctx.stack)) => Shape(new)
<1> DEFINE k == Len(ctx.frames)
           fr == [ctx.frames[k] EXCEPT !.handlers = hs]
           fs == [ctx.frames EXCEPT ![k] = fr]
           new == [ctx EXCEPT !.frames = fs]
<1>1. ctx.frames \in Seq(FrameType) /\ k \in Nat /\ DOMAIN ctx.frames = 1 .. k
  BY CtxFields
<1>2. k \in 1 .. k
  <2>1. k # 0
    BY <1>1
  <2>2. QED
    BY <1>1, <2>1
<1>3. ctx.frames[k] \in FrameType
  BY <1>1, <1>2
<1>4. fr \in FrameType /\ fr.closure = ctx.frames[k].closure /\ fr.base = ctx.frames[k].base
      /\ fr.callback = ctx.frames[k].callback /\ fr.handlers = hs
  BY <1>3 DEF FrameType
<1>5. [ctx EXCEPT !.frames[k].handlers = hs] = new
  OBVIOUS
<1> HIDE DEF fr
<1>6. fs \in Seq(FrameType) /\ Len(fs) = k /\ fs[k] = fr /\ \A j \in 1 .. k : j # k => fs[j] = ctx.frames[j]
  BY <1>1, <1>2, <1>4, ExceptSeq
<1> HIDE DEF fs
<1>7. new \in CtxType /\ new.frames = fs /\ new.stack = ctx.stack /\ new.open = ctx.open
  BY <1>6, FramesExcept
<1>8. \A j \in 1 .. k : /\ fs[j].callback = ctx.frames[j].callback /\ fs[j].closure = ctx.frames[j].closure
                        /\ fs[j].base = ctx.frames[j].base
  BY <1>4, <1>6
<1>9. Callbacks(fs) = Callbacks(ctx.frames)
  BY <1>1, <1>6, <1>8, CallbacksSame
<1>10. fs # <<>> /\ DOMAIN fs = 1 .. k
  BY <1>2, <1>6
<1> HIDE DEF new
<1>11. ASSUME Shape(ctx), Ordered(hs, ctx.frames[k].base, Len(ctx.stack))
       PROVE  Shape(new)
  <2>1. FrameShape(fr, Len(ctx.stack))
    BY <1>1, <1>2, <1>4, <1>11 DEF Shape, FrameShape
  <2>2. \A j \in DOMAIN fs : FrameShape(fs[j], Len(ctx.stack))
    BY <1>1, <1>6, <1>10, <1>11, <2>1 DEF Shape
  <2>3. ASSUME NEW i \in DOMAIN fs, NEW j \in DOMAIN fs, i < j
        PROVE  FrameShape(fs[i], fs[j].base)
    <3>1. fs[i] = ctx.frames[i] /\ fs[j].base = ctx.frames[j].base
      BY <1>1, <1>6, <1>8, <1>10, <2>3
    <3>2. QED
      BY <1>1, <1>10, <1>11, <2>3, <3>1 DEF Shape
  <2>4. fs[1].base = 0 /\ fs[1].callback = 0
    BY <1>1, <1>2, <1>8, <1>11 DEF Shape
  <2>5. QED
    BY <1>7, <2>2, <2>3, <2>4 DEF Shape
<1>12. QED
  BY <1>5, <1>6, <1>7, <1>8, <1>9, <1>10, <1>11, Zenon

-----------------------------------------------------------------------------
(* What every step of the running task has in common.                      *)

LEMMA TopFacts ==
  ASSUME IInv, Running
  PROVE  /\ vm \in CtxType /\ Shape(vm) /\ vm.frames # <<>>
         /\ Len(vm.frames) \in Nat \ {0} /\ Len(vm.stack) \in Nat
         /\ Top \in FrameType /\ Top.closure \in Closures \cup {Script}
         /\ Top.base \in 0 .. Len(vm.stack) /\ Top.handlers \in Seq(Nat)
         /\ FrameShape(Top, Len(vm.stack))
         /\ \A j \in 1 .. Len(vm.frames) - 1 : FrameShape(vm.frames[j], Top.base)
         /\ Captured \in Upvalues \cup {None}
         /\ Locals \subseteq 1 .. Len(vm.stack)
         /\ Context(current) = vm
<1>1. vm \in CtxType /\ Shape(vm) /\ vm.frames # <<>>
  BY DEF IInv, Types, Shapes, Control
<1>2. vm.frames \in Seq(FrameType) /\ Len(vm.frames) \in Nat /\ DOMAIN vm.frames = 1 .. Len(vm.frames)
      /\ Len(vm.stack) \in Nat
  BY <1>1, CtxFields
<1>3. Len(vm.frames) # 0
  BY <1>1, <1>2
<1>4. Top \in FrameType
  BY <1>2, <1>3 DEF Top
<1>5. Top.closure \in Closures \cup {Script} /\ Top.base \in Nat /\ Top.handlers \in Seq(Nat)
  BY <1>4 DEF FrameType
<1>6. FrameShape(Top, Len(vm.stack))
  BY <1>1, <1>2, <1>3 DEF Shape, Top
<1>7. Top.base \in 0 .. Len(vm.stack)
  BY <1>2, <1>5, <1>6 DEF FrameShape
<1>8. \A j \in 1 .. Len(vm.frames) - 1 : FrameShape(vm.frames[j], Top.base)
  BY <1>1, <1>2, <1>3 DEF Shape, Top
<1>9. Captured \in Upvalues \cup {None}
  BY <1>5 DEF Captured, IInv, Types
<1>10. Locals \subseteq 1 .. Len(vm.stack)
  BY <1>2, <1>7 DEF Locals
<1>11. QED
  BY <1>1, <1>2, <1>3, <1>4, <1>5, <1>6, <1>7, <1>8, <1>9, <1>10 DEF Context

\* An expression's value is a value, and an object only if a local holds it.
LEMMA ExpressibleTyped ==
  ASSUME IInv, Running, NEW v \in Expressible
  PROVE  v \in Values /\ (v \in Heap => \E i \in 1 .. Len(vm.stack) : v = vm.stack[i].val)
<1>1. CASE v \in Numbas
  BY <1>1, Constants
<1>2. CASE \E i \in Locals : v = vm.stack[i].val
  <2>1. PICK i \in Locals : v = vm.stack[i].val
    BY <1>2
  <2>2. i \in 1 .. Len(vm.stack) /\ vm \in CtxType
    BY <2>1, TopFacts
  <2>3. QED
    BY <2>1, <2>2, CtxFields
<1>3. QED
  BY <1>1, <1>2 DEF Expressible

\* The running task goes on, its executes and temp roots counted.
LEMMA GoesOn ==
  ASSUME IInv, Running, UNCHANGED <<current, state, saved>>,
         vm' \in CtxType, Shape(vm'), vm'.frames # <<>>,
         reentry'[current] = 1 + Callbacks(vm'.frames),
         Len(temps') = Callbacks(vm'.frames)
  PROVE  Shapes' /\ Control'
<1>1. Shapes'
  BY DEF IInv, Shapes
<1>2. Control'
  <2>1. Running'
    BY DEF Running
  <2>2. \A t \in Tasks : state[t] \in {"ready", "waiting"} => Context(t)' = Context(t)
    BY DEF Running, Context
  <2>3. QED
    BY <2>1, <2>2 DEF IInv, Control, Running
<1>3. QED
  BY <1>1, <1>2

\* ... which they are when nothing but frames of plain calls came or went.
LEMMA GoesOnPlainly ==
  ASSUME IInv, Running, UNCHANGED <<current, state, saved, reentry, temps>>,
         vm' \in CtxType, Shape(vm'), vm'.frames # <<>>,
         Callbacks(vm'.frames) = Callbacks(vm.frames)
  PROVE  Shapes' /\ Control'
<1>1. reentry'[current] = 1 + Callbacks(vm'.frames) /\ Len(temps') = Callbacks(vm'.frames)
  BY DEF IInv, Control
<1>2. QED
  BY <1>1, GoesOn

\* The current task is over.
LEMMA EndsTask ==
  ASSUME IInv, Running, UNCHANGED <<current, saved>>, NEW v \in Values \cup {None}, Ends(v),
         vm' \in CtxType, Shape(vm'), temps' = <<>>
  PROVE  /\ Shapes' /\ Control'
         /\ state' \in [Tasks -> {"none", "ready", "running", "waiting", "done"}]
         /\ reentry' \in [Tasks -> Nat]
         /\ result' \in [Tasks -> Values \cup {Pending, None}]
<1>1. Shapes'
  BY DEF IInv, Shapes
<1>2. /\ state' = [state EXCEPT ![current] = "done"]
      /\ state \in [Tasks -> {"none", "ready", "running", "waiting", "done"}] /\ current \in Tasks
  BY DEF Ends, IInv, Types
<1>3. state'[current] = "done" /\ \A t \in Tasks \ {current} : state'[t] = state[t] /\ Context(t)' = Context(t)
  BY <1>2 DEF Context
<1>4. Control'
  <2>1. \A t \in Tasks : state'[t] # "running"
    BY <1>3 DEF IInv, Control
  <2>2. ~ Running'
    BY <1>2, <2>1 DEF Running
  <2>3. \A t \in Tasks : state'[t] \in {"ready", "waiting"} => Resumable(Context(t)')
    BY <1>3 DEF IInv, Control
  <2>4. \A t \in Tasks : state'[t] = "none" => t # current' /\ saved'[t] = Blank
    BY <1>3 DEF IInv, Control
  <2>5. QED
    BY <2>1, <2>2, <2>3, <2>4 DEF Control
<1>5. QED
  BY <1>1, <1>2, <1>4 DEF Ends, IInv, Types

\* No upvalue is freed and the open list of the VM only holds allocated ones.
LEMMA StaysListed ==
  ASSUME IInv, UNCHANGED <<current, saved>>, Allocated \subseteq Allocated', vm'.open \subseteq Allocated'
  PROVE  Listed'
  BY DEF IInv, Listed, Context

\* Closing upvalues of the running task frees none.
LEMMA CloseKeeps ==
  ASSUME IInv, NEW i, upvalues' = Close(ClosedFrom(i))
  PROVE  /\ upvalues' \in [Upvalues -> UpvalueType \cup {None}]
         /\ Allocated' = Allocated
         /\ ClosedFrom(i) \subseteq Allocated
<1>1. Types /\ current \in Tasks
  BY DEF IInv, Types
<1>2. vm.open \subseteq Allocated
  BY <1>1 DEF IInv, Listed, Context
<1>3. ClosedFrom(i) \in SUBSET Allocated
  BY <1>2 DEF ClosedFrom
<1>4. \A u \in Upvalues : upvalues'[u] = None <=> upvalues[u] = None
  BY <1>1, <1>3, CloseFields DEF Allocated
<1>5. Allocated' = Allocated
  BY <1>4 DEF Allocated
<1>6. QED
  BY <1>1, <1>3, <1>5, CloseFields

\* Declaring a local is nothing more than a push.
LEMMA PushStep ==
  ASSUME IInv, Running, NEW v \in Values, vm' = Pushed(vm, v),
         UNCHANGED <<current, saved, state, reentry, temps>>, Allocated \subseteq Allocated'
  PROVE  vm' \in CtxType /\ Shapes' /\ Control' /\ Listed'
<1>1. vm \in CtxType /\ Shape(vm) /\ vm.frames # <<>>
  BY TopFacts
<1>2. vm' \in CtxType /\ Shape(vm') /\ vm'.frames = vm.frames /\ vm'.open = vm.open
  BY <1>1, PushedCtx
<1>3. Shapes' /\ Control'
  BY <1>1, <1>2, GoesOnPlainly
<1>4. vm.open \subseteq Allocated
  BY DEF IInv, Types, Listed, Context
<1>5. Listed'
  BY <1>2, <1>4, StaysListed
<1>6. QED
  BY <1>2, <1>3, <1>5

LEMMA PushSteps ==
  ASSUME IInv, Running, Declare \/ ReadCaptured \/ (\E c \in Closures : MakeInner(c))
                        \/ (\E t \in Tasks : TakeResult(t))
  PROVE  IInv'
<1> USE DEF IInv, Types
<1>1. CASE Declare
  <2>1. vm' \in CtxType /\ Shapes' /\ Control' /\ Listed'
    <3>1. Allocated \subseteq Allocated'
      BY <1>1 DEF Declare, Allocated
    <3>2. QED
      BY <1>1, <3>1, PushStep, Constants DEF Declare
  <2>2. QED
    BY <1>1, <2>1 DEF Declare
<1>2. CASE ReadCaptured
  <2>1. vm' \in CtxType /\ Shapes' /\ Control' /\ Listed'
    <3>1. Allocated \subseteq Allocated'
      BY <1>2 DEF ReadCaptured, Allocated
    <3>2. Get(Captured) \in Values
      BY <1>2, GetTyped DEF ReadCaptured
    <3>3. QED
      BY <1>2, <3>1, <3>2, PushStep DEF ReadCaptured
  <2>2. QED
    BY <1>2, <2>1 DEF ReadCaptured
<1>3. ASSUME NEW c \in Closures, MakeInner(c)
      PROVE  IInv'
  <2>1. vm' \in CtxType /\ Shapes' /\ Control' /\ Listed'
    <3>1. Allocated \subseteq Allocated'
      BY <1>3 DEF MakeInner, Allocated
    <3>2. QED
      BY <1>3, <3>1, PushStep, Constants DEF MakeInner
  <2>2. QED
    BY <1>3, <2>1 DEF MakeInner
<1>4. ASSUME NEW t \in Tasks, TakeResult(t)
      PROVE  IInv'
  <2>1. vm' \in CtxType /\ Shapes' /\ Control' /\ Listed'
    <3>1. Allocated \subseteq Allocated'
      BY <1>4 DEF TakeResult, Allocated
    <3>2. result[t] \in Values
      BY <1>4, Constants DEF TakeResult
    <3>3. QED
      BY <1>4, <3>1, <3>2, PushStep DEF TakeResult
  <2>2. QED
    BY <1>4, <2>1 DEF TakeResult
<1>5. QED
  BY <1>1, <1>2, <1>3, <1>4

\* Changing a slot of the running task's stack.
LEMMA AssignStep ==
  ASSUME IInv, Running, NEW v \in Expressible, NEW i \in Locals, Assign(i, v)
  PROVE  IInv'
<1>1. vm \in CtxType /\ Shape(vm) /\ vm.frames # <<>> /\ i \in 1 .. Len(vm.stack) /\ v \in Values
  BY TopFacts, ExpressibleTyped
<1>2. vm' \in CtxType /\ Shape(vm') /\ vm'.frames = vm.frames /\ vm'.open = vm.open
  BY <1>1, ValueExcept DEF Assign
<1>3. Shapes' /\ Control'
  BY <1>1, <1>2, GoesOnPlainly DEF Assign
<1>4. Allocated' = Allocated /\ vm.open \subseteq Allocated
  BY DEF Assign, Allocated, IInv, Types, Listed, Context
<1>5. Listed'
  BY <1>2, <1>4, StaysListed DEF Assign
<1>6. store' \in [Upvalues -> Values \cup {None}]
  BY <1>1 DEF Assign, IInv, Types
<1>7. QED
  BY <1>2, <1>3, <1>5, <1>6 DEF Assign, IInv, Types

\* Assigning through an upvalue: to its own value, or to a slot of the stack
\* that is the VM's, or a suspended task's.
LEMMA SetTyped ==
  ASSUME Types, NEW u \in Allocated, NEW v \in Values, Set(u, v)
  PROVE  /\ upvalues' \in [Upvalues -> UpvalueType \cup {None}] /\ Allocated' = Allocated
         /\ vm' \in CtxType /\ vm'.frames = vm.frames /\ vm'.open = vm.open /\ (Shape(vm) => Shape(vm'))
         /\ saved' \in [Tasks -> CtxType]
         /\ \A t \in Tasks : /\ saved'[t].frames = saved[t].frames /\ saved'[t].open = saved[t].open
                             /\ (Shape(saved[t]) => Shape(saved'[t]))
                             /\ saved[t] = Blank => saved'[t] = Blank
<1> DEFINE t == upvalues[u].task
           i == upvalues[u].slot
<1>0. t \in Tasks /\ i \in Nat /\ upvalues[u] \in UpvalueType /\ u \in Upvalues
  BY UpvalueFields
<1>1. CASE /\ upvalues[u].closed
           /\ upvalues' = [upvalues EXCEPT ![u].value = v]
           /\ UNCHANGED <<vm, saved>>
  <2>1. upvalues' = [upvalues EXCEPT ![u] = [upvalues[u] EXCEPT !.value = v]]
    BY <1>1
  <2>2. [upvalues[u] EXCEPT !.value = v] \in UpvalueType
    BY <1>0 DEF UpvalueType
  <2>3. upvalues' \in [Upvalues -> UpvalueType \cup {None}]
    BY <1>0, <2>1, <2>2 DEF Types
  <2>4. Allocated' = Allocated
    BY <1>0, <2>1, <2>2, Constants DEF Types, Allocated
  <2>5. QED
    BY <1>1, <2>3, <2>4 DEF Types
<1>2. CASE /\ ~ upvalues[u].closed /\ Readable(u) /\ t = current
           /\ vm' = [vm EXCEPT !.stack[i].val = v]
           /\ UNCHANGED <<saved, upvalues>>
  <2>1. vm \in CtxType /\ i \in 1 .. Len(vm.stack)
    BY <1>2, CtxFields DEF Types, Readable, LiveStack
  <2>2. vm' \in CtxType /\ vm'.frames = vm.frames /\ vm'.open = vm.open /\ (Shape(vm) => Shape(vm'))
    BY <1>2, <2>1, ValueExcept
  <2>3. Allocated' = Allocated
    BY <1>2 DEF Allocated
  <2>4. QED
    BY <1>2, <2>2, <2>3 DEF Types
<1>3. CASE /\ ~ upvalues[u].closed /\ Readable(u) /\ t # current
           /\ saved' = [saved EXCEPT ![t].stack[i].val = v]
           /\ UNCHANGED <<vm, upvalues>>
  <2>1. saved[t] \in CtxType /\ i \in 1 .. Len(saved[t].stack)
    BY <1>0, <1>3, CtxFields DEF Types, Readable, LiveStack
  <2>2. PICK ctx \in CtxType : ctx = saved[t]
    BY <2>1
  <2>3. PICK j \in 1 .. Len(ctx.stack) : j = i
    BY <2>1, <2>2
  <2>4. PICK new : new = [ctx EXCEPT !.stack[j].val = v]
    OBVIOUS
  <2>5. saved' = [saved EXCEPT ![t] = new]
    BY <1>3, <2>2, <2>3, <2>4
  <2>6. new \in CtxType /\ new.frames = ctx.frames /\ new.open = ctx.open
        /\ (Shape(ctx) => Shape(new))
    BY <2>4, ValueExcept
  <2>7. saved[t] # Blank
    BY <2>1 DEF Blank
  <2>8. Allocated' = Allocated
    BY <1>3 DEF Allocated
  <2>9. QED
    BY <1>0, <1>3, <2>2, <2>5, <2>6, <2>7, <2>8 DEF Types
<1>4. QED
  BY <1>1, <1>2, <1>3 DEF Set

LEMMA AssignCapturedStep ==
  ASSUME IInv, Running, NEW v \in Expressible, AssignCaptured(v)
  PROVE  IInv'
<1>1. v \in Values /\ vm \in CtxType /\ Shape(vm) /\ vm.frames # <<>>
  BY TopFacts, ExpressibleTyped
<1>2. Captured \in Allocated /\ Types /\ Set(Captured, v)
  BY DEF AssignCaptured, Allocated, IInv
<1>3. /\ upvalues' \in [Upvalues -> UpvalueType \cup {None}] /\ Allocated' = Allocated
      /\ vm' \in CtxType /\ vm'.frames = vm.frames /\ vm'.open = vm.open /\ (Shape(vm) => Shape(vm'))
      /\ saved' \in [Tasks -> CtxType]
      /\ \A t \in Tasks : /\ saved'[t].frames = saved[t].frames /\ saved'[t].open = saved[t].open
                          /\ (Shape(saved[t]) => Shape(saved'[t]))
                          /\ saved[t] = Blank => saved'[t] = Blank
  BY <1>1, <1>2, SetTyped
<1>4. UNCHANGED <<current, state, reentry, temps, closures, result>>
  BY DEF AssignCaptured
<1>5. \A t \in Tasks : Context(t)'.frames = Context(t).frames /\ Context(t)'.open = Context(t).open
  BY <1>3, <1>4 DEF Context
<1>6. Shapes'
  BY <1>1, <1>3 DEF IInv, Shapes
<1>7. Control'
  BY <1>3, <1>4, <1>5 DEF IInv, Control, Running, Resumable
<1>8. Listed'
  BY <1>3, <1>5 DEF IInv, Listed
<1>9. store' \in [Upvalues -> Values \cup {None}]
  BY <1>1, <1>2, UpvalueFields DEF AssignCaptured, Types
<1>10. QED
  BY <1>2, <1>3, <1>4, <1>6, <1>7, <1>8, <1>9 DEF IInv, Types

LEMMA MakeClosureStep ==
  ASSUME IInv, Running, NEW c \in Closures, NEW i \in Locals, MakeClosure(i, c)
  PROVE  IInv'
<1>1. vm \in CtxType /\ Shape(vm) /\ vm.frames # <<>> /\ i \in 1 .. Len(vm.stack) /\ c \in Values
      /\ vm.open \in SUBSET Upvalues
  BY TopFacts, CtxFields, Constants
<1>2. CASE /\ Capturing(i) # {}
           /\ \E u \in Capturing(i) : closures' = [closures EXCEPT ![c] = u]
           /\ vm' = Pushed(vm, c)
           /\ UNCHANGED <<upvalues, store>>
  <2>1. Allocated \subseteq Allocated'
    BY <1>2 DEF Allocated
  <2>2. vm' \in CtxType /\ Shapes' /\ Control' /\ Listed'
    BY <1>1, <1>2, <2>1, PushStep DEF MakeClosure
  <2>3. closures' \in [Closures -> Upvalues \cup {None}]
    BY <1>1, <1>2 DEF Capturing, IInv, Types
  <2>4. QED
    BY <1>2, <2>2, <2>3 DEF MakeClosure, IInv, Types
<1>3. ASSUME NEW u \in Unused(upvalues), NEW var, var = IF vm.stack[i].var = None THEN u ELSE vm.stack[i].var,
             closures' = [closures EXCEPT ![c] = u],
             upvalues' = [upvalues EXCEPT ![u] = [task |-> current, slot |-> i, closed |-> FALSE,
                                                  value |-> 0, var |-> var]],
             vm' = Pushed([vm EXCEPT !.open = @ \cup {u}, !.stack[i].var = var], c),
             store' = [store EXCEPT ![var] = vm.stack[i].val]
      PROVE  IInv'
  <2>1. u \in Upvalues /\ upvalues[u] = None
    BY DEF Unused, IInv, Types
  <2>2. var \in Upvalues
    BY <1>1, <1>3, <2>1, CtxFields
  <2> DEFINE new == [task |-> current, slot |-> i, closed |-> FALSE, value |-> 0, var |-> var]
             opened == [vm EXCEPT !.open = vm.open \cup {u}]
             ctx == [opened EXCEPT !.stack[i].var = var]
  <2>3. new \in UpvalueType
    BY <1>1, <2>2, Constants DEF UpvalueType, IInv, Types
  <2> HIDE DEF new
  <2>4. upvalues' \in [Upvalues -> UpvalueType \cup {None}] /\ Allocated' = Allocated \cup {u}
    <3>1. upvalues' = [upvalues EXCEPT ![u] = new]
      BY <1>3 DEF new
    <3>2. QED
      BY <2>1, <2>3, <3>1, Constants DEF IInv, Types, Allocated
  <2>5. opened \in CtxType /\ opened.open = vm.open \cup {u} /\ opened.stack = vm.stack /\ opened.frames = vm.frames
    <3>1. vm.open \cup {u} \in SUBSET Upvalues
      BY <1>1, <2>1
    <3>2. QED
      BY <1>1, <3>1, OpenExcept
  <2>6. Shape(opened)
    BY <1>1, <2>5 DEF Shape
  <2>7. vm' = Pushed(ctx, c)
    BY <1>3
  <2> HIDE DEF opened
  <2>8. i \in 1 .. Len(opened.stack)
    BY <1>1, <2>5
  <2>9. ctx \in CtxType /\ ctx.frames = vm.frames /\ ctx.open = vm.open \cup {u} /\ Shape(ctx)
    BY <2>2, <2>5, <2>6, <2>8, VariableExcept
  <2> HIDE DEF ctx
  <2>10. vm' \in CtxType /\ Shape(vm') /\ vm'.frames = vm.frames /\ vm'.open = vm.open \cup {u}
    BY <1>1, <2>7, <2>9, PushedCtx
  <2>11. Shapes' /\ Control'
    BY <1>1, <2>10, GoesOnPlainly DEF MakeClosure
  <2>12. Listed'
    <3>1. vm.open \subseteq Allocated
      BY DEF IInv, Types, Listed, Context
    <3>2. QED
      BY <2>4, <2>10, <3>1, StaysListed DEF MakeClosure
  <2>13. closures' \in [Closures -> Upvalues \cup {None}]
    BY <1>3, <2>1 DEF IInv, Types
  <2>14. store' \in [Upvalues -> Values \cup {None}]
    BY <1>1, <1>3, <2>2, CtxFields DEF IInv, Types
  <2>15. QED
    BY <2>4, <2>10, <2>11, <2>12, <2>13, <2>14 DEF MakeClosure, IInv, Types
<1>4. QED
  BY <1>2, <1>3 DEF MakeClosure

\* How far the stack may be cut back, and every frame fits that.
LEMMA DepthFacts ==
  ASSUME IInv, Running
  PROVE  /\ Depth \in 0 .. Len(vm.stack)
         /\ \A j \in 1 .. Len(vm.frames) : FrameShape(vm.frames[j], Depth)
<1> DEFINE k == Len(vm.frames)
           hs == Top.handlers
<1>1. /\ k \in Nat \ {0} /\ Len(vm.stack) \in Nat /\ hs \in Seq(Nat) /\ Top.base \in 0 .. Len(vm.stack)
      /\ FrameShape(Top, Len(vm.stack)) /\ Top \in FrameType /\ Top = vm.frames[k] /\ vm \in CtxType
      /\ \A j \in 1 .. k - 1 : FrameShape(vm.frames[j], Top.base)
  BY TopFacts DEF Top
<1>2. CASE hs = <<>>
  <2>1. Depth = Top.base
    BY <1>2 DEF Depth
  <2>2. FrameShape(Top, Depth)
    BY <1>1, <1>2, <2>1, OrderedEmpty DEF FrameShape
  <2>3. QED
    BY <1>1, <2>1, <2>2
<1>3. CASE hs # <<>>
  <2>1. Depth = hs[Len(hs)]
    BY <1>3 DEF Depth
  <2>2. Top.base \in Nat /\ Ordered(hs, Top.base, Len(vm.stack))
    BY <1>1 DEF FrameShape
  <2>3. Depth \in Top.base .. Len(vm.stack) /\ Depth \in Nat /\ Ordered(hs, Top.base, Depth)
    BY <1>1, <1>3, <2>1, <2>2, OrderedFront
  <2>4. FrameShape(Top, Depth)
    BY <1>1, <2>3 DEF FrameShape
  <2>5. \A j \in 1 .. k - 1 : FrameShape(vm.frames[j], Depth)
    BY <1>1, <2>2, <2>3, FrameGrows, CtxFields
  <2>6. QED
    BY <1>1, <2>3, <2>4, <2>5
<1>4. QED
  BY <1>2, <1>3

LEMMA EndLocalStep ==
  ASSUME IInv, Running, EndLocal
  PROVE  IInv'
<1> DEFINE n == Len(vm.stack) - 1
           k == Len(vm.frames)
<1>1. vm \in CtxType /\ Shape(vm) /\ vm.frames # <<>> /\ k \in Nat \ {0} /\ Types
  BY TopFacts DEF IInv
<1>2. n \in 0 .. Len(vm.stack) /\ \A j \in 1 .. k : FrameShape(vm.frames[j], n)
  <2>1. Depth \in 0 .. Len(vm.stack) /\ Depth < Len(vm.stack) /\ Len(vm.stack) \in Nat
        /\ \A j \in 1 .. k : FrameShape(vm.frames[j], Depth)
    BY <1>1, DepthFacts, CtxFields DEF EndLocal
  <2>2. n \in Nat /\ Depth \in Nat /\ Depth <= n
    BY <2>1
  <2>3. QED
    BY <1>1, <2>1, <2>2, FrameGrows, CtxFields
<1>3. vm' = Cut(n, k) /\ upvalues' = Close(ClosedFrom(n + 1))
  <2>1. n + 1 = Len(vm.stack)
    BY <1>1, CtxFields
  <2>2. QED
    BY <2>1 DEF EndLocal
<1>4. k \in 0 .. Len(vm.frames) /\ SubSeq(vm.frames, 1, k) = vm.frames
  BY <1>1, CtxFields, SubSeqFull
<1> HIDE DEF n, k
<1>5. vm' \in CtxType /\ Shape(vm') /\ vm'.open = vm.open \ ClosedFrom(n + 1)
  <2>1. Cut(n, k) \in CtxType /\ Shape(Cut(n, k)) /\ Cut(n, k).open = vm.open \ ClosedFrom(n + 1)
    BY <1>1, <1>2, <1>4, CutCtx
  <2>2. QED
    BY <1>3, <2>1
<1>6. vm'.frames = vm.frames
  BY <1>1, <1>2, <1>3, <1>4, CutCtx
<1>7. upvalues' \in [Upvalues -> UpvalueType \cup {None}] /\ Allocated' = Allocated
  BY <1>3, CloseKeeps
<1>8. Shapes' /\ Control'
  BY <1>1, <1>5, <1>6, GoesOnPlainly DEF EndLocal
<1>9. Listed'
  <2>1. vm.open \subseteq Allocated
    BY DEF IInv, Types, Listed, Context
  <2>2. QED
    BY <1>5, <1>7, <2>1, StaysListed DEF EndLocal
<1>10. QED
  BY <1>5, <1>7, <1>8, <1>9 DEF EndLocal, IInv, Types

LEMMA TrySteps ==
  ASSUME IInv, Running, Try \/ EndTry
  PROVE  IInv'
<1>1. /\ vm \in CtxType /\ Shape(vm) /\ vm.frames # <<>> /\ Len(vm.frames) \in Nat \ {0}
      /\ Top.handlers \in Seq(Nat) /\ FrameShape(Top, Len(vm.stack)) /\ Len(vm.stack) \in Nat
      /\ Top.base \in 0 .. Len(vm.stack) /\ Top = vm.frames[Len(vm.frames)]
  BY TopFacts DEF Top
<1>2. Top.base \in Nat /\ Ordered(Top.handlers, Top.base, Len(vm.stack)) /\ Top.base <= Len(vm.stack)
  BY <1>1 DEF FrameShape
<1>3. PICK hs \in Seq(Nat) : /\ vm' = [vm EXCEPT !.frames[Len(vm.frames)].handlers = hs]
                             /\ Ordered(hs, Top.base, Len(vm.stack))
  <2>1. CASE Try
    <3>1. vm' = [vm EXCEPT !.frames[Len(vm.frames)].handlers = Append(Top.handlers, Len(vm.stack))]
      BY <1>1, <2>1 DEF Try
    <3>2. QED
      BY <1>1, <1>2, <3>1, OrderedAppend
  <2>2. CASE EndTry
    <3> DEFINE hs == SubSeq(Top.handlers, 1, Len(Top.handlers) - 1)
               m == Top.handlers[Len(Top.handlers)]
    <3>1. vm' = [vm EXCEPT !.frames[Len(vm.frames)].handlers = hs]
      BY <1>1, <2>2 DEF EndTry
    <3>2. m \in Top.base .. Len(vm.stack) /\ m \in Nat /\ hs \in Seq(Nat) /\ Ordered(hs, Top.base, m)
      <4>1. Top.handlers # <<>>
        BY <2>2 DEF EndTry
      <4>2. QED
        BY <1>1, <1>2, <4>1, OrderedFront
    <3> HIDE DEF hs, m
    <3>3. Ordered(hs, Top.base, Len(vm.stack))
      BY <1>1, <1>2, <3>2, OrderedGrows
    <3>4. QED
      BY <3>1, <3>2, <3>3
  <2>3. QED
    BY <2>1, <2>2
<1>4. UNCHANGED <<current, saved, state, reentry, temps, closures, upvalues, result, store>>
  BY DEF Try, EndTry
<1>5. /\ vm' \in CtxType /\ Shape(vm') /\ vm'.frames # <<>> /\ vm'.open = vm.open
      /\ Callbacks(vm'.frames) = Callbacks(vm.frames)
  BY <1>1, <1>3, HandlersExcept
<1>6. Shapes' /\ Control'
  BY <1>1, <1>4, <1>5, GoesOnPlainly
<1>7. Listed'
  <2>1. vm.open \subseteq Allocated /\ Allocated' = Allocated
    BY <1>4 DEF IInv, Types, Listed, Context, Allocated
  <2>2. QED
    BY <1>4, <1>5, <2>1, StaysListed
<1>8. QED
  BY <1>4, <1>5, <1>6, <1>7 DEF IInv, Types

\* A slot that holds a closure.
LEMMA ClosureSlot ==
  ASSUME IInv, Running, NEW i \in Locals, IsClosure(i)
  PROVE  i \in 1 .. Len(vm.stack) /\ vm.stack[i].val \in Closures
  BY TopFacts DEF IsClosure

LEMMA CallSteps ==
  ASSUME IInv, Running, NEW i \in Locals, Call(i) \/ \E j \in Locals : CallNative(i, j)
  PROVE  IInv'
<1>1. vm \in CtxType /\ Shape(vm) /\ vm.frames # <<>> /\ Len(vm.stack) \in Nat
  BY TopFacts
<1>2. vm.open \subseteq Allocated
  BY DEF IInv, Types, Listed, Context
<1>3. Len(temps) = Callbacks(vm.frames) /\ reentry[current] = 1 + Callbacks(vm.frames)
      /\ reentry \in [Tasks -> Nat] /\ current \in Tasks /\ Callbacks(vm.frames) \in Nat
      /\ vm.frames \in Seq(FrameType)
  BY <1>1, CallbackSets, CtxFields DEF IInv, Control, Types
<1>4. ASSUME NEW n \in 0 .. 2, NEW c \in Closures,
             vm' = [vm EXCEPT !.frames = Append(@, Frame(c, Len(vm.stack), n))]
      PROVE  /\ vm' \in CtxType /\ Shape(vm') /\ vm'.frames # <<>> /\ vm'.open = vm.open
             /\ n = 0 => Callbacks(vm'.frames) = Callbacks(vm.frames)
             /\ n = 1 => Callbacks(vm'.frames) = Callbacks(vm.frames) + 1
  <2>1. /\ vm' \in CtxType /\ Shape(vm') /\ vm'.frames # <<>> /\ vm'.open = vm.open
        /\ vm'.frames = Append(vm.frames, Frame(c, Len(vm.stack), n))
    BY <1>1, <1>4, FramePushed
  <2>2. Frame(c, Len(vm.stack), n) \in FrameType /\ Frame(c, Len(vm.stack), n).callback = n
    BY <1>1, FrameMade
  <2>3. QED
    BY <1>3, <2>1, <2>2, CallbacksAppend
<1>5. CASE Call(i)
  <2>1. PICK c \in Closures : c = vm.stack[i].val
    BY <1>5, ClosureSlot DEF Call
  <2>2. /\ vm' \in CtxType /\ Shape(vm') /\ vm'.frames # <<>> /\ vm'.open = vm.open
        /\ Callbacks(vm'.frames) = Callbacks(vm.frames)
    <3>1. vm' = [vm EXCEPT !.frames = Append(@, Frame(c, Len(vm.stack), 0))]
      BY <1>5, <2>1 DEF Call
    <3>2. 0 \in 0 .. 2
      OBVIOUS
    <3>3. QED
      BY <1>4, <3>1, <3>2, Zenon
  <2>3. Shapes' /\ Control'
    BY <1>5, <2>2, GoesOnPlainly DEF Call
  <2>4. Listed'
    BY <1>2, <1>5, <2>2, StaysListed DEF Call, Allocated
  <2>5. QED
    BY <1>5, <2>2, <2>3, <2>4 DEF Call, IInv, Types
<1>6. ASSUME NEW j \in Locals, CallNative(i, j)
      PROVE  IInv'
  <2>1. PICK c \in Closures, d \in Closures : c = vm.stack[i].val /\ d = vm.stack[j].val
    BY <1>6, ClosureSlot DEF CallNative
  <2>2. /\ vm' \in CtxType /\ Shape(vm') /\ vm'.frames # <<>> /\ vm'.open = vm.open
        /\ Callbacks(vm'.frames) = Callbacks(vm.frames) + 1
    <3>1. vm' = [vm EXCEPT !.frames = Append(@, Frame(c, Len(vm.stack), 1))]
      BY <1>6, <2>1 DEF CallNative
    <3>2. 1 \in 0 .. 2
      OBVIOUS
    <3>3. QED
      BY <1>4, <3>1, <3>2, Zenon
  <2>3. temps' \in Seq(Closures \X Closures) /\ Len(temps') = Len(temps) + 1
    <3>1. temps \in Seq(Closures \X Closures)
      BY DEF IInv, Types
    <3>2. QED
      BY <1>6, <2>1, <3>1, AppendProperties DEF CallNative
  <2>4. reentry' \in [Tasks -> Nat] /\ reentry'[current] = reentry[current] + 1
    BY <1>3, <1>6 DEF CallNative
  <2>5. Shapes' /\ Control'
    BY <1>3, <1>6, <2>2, <2>3, <2>4, GoesOn DEF CallNative
  <2>6. Listed'
    BY <1>2, <1>6, <2>2, StaysListed DEF CallNative, Allocated
  <2>7. QED
    BY <1>6, <2>2, <2>3, <2>4, <2>5, <2>6 DEF CallNative, IInv, Types
<1>7. QED
  BY <1>5, <1>6

LEMMA CallAsyncStep ==
  ASSUME IInv, Running, NEW v \in Expressible, NEW i \in Locals, CallAsync(i, v)
  PROVE  IInv'
<1>1. vm.stack[i].val \in Closures /\ v \in Values
  BY ClosureSlot, ExpressibleTyped DEF CallAsync
<1>2. PICK t \in Tasks : t = Oldest(Waits("none")) /\ state[t] = "none"
  <2>1. Waits("none") \in SUBSET Tasks /\ Waits("none") # {}
    BY DEF CallAsync, Waits
  <2>2. Oldest(Waits("none")) \in Waits("none")
    BY <2>1, OldestIn
  <2>3. QED
    BY <2>2 DEF Waits
<1>3. t # current /\ saved[t] = Blank
  BY <1>2 DEF IInv, Control
<1> DEFINE new(c) == [stack |-> <<Slot(v)>>, frames |-> <<Frame(c, 0, 0)>>, open |-> {}]
<1>4. PICK c \in Closures :
         /\ saved' = [saved EXCEPT ![t] = new(c)] /\ state' = [state EXCEPT ![t] = "ready"]
         /\ UNCHANGED <<current, vm, reentry, temps, closures, upvalues, result, store>>
  BY <1>1, <1>2 DEF CallAsync
<1>5. Frame(c, 0, 0) \in FrameType /\ Frame(c, 0, 0).base = 0 /\ Frame(c, 0, 0).callback = 0
      /\ Frame(c, 0, 0).handlers = <<>> /\ Slot(v) \in SlotType
  BY <1>1, FrameMade, SlotMade
<1>6. <<Slot(v)>> \in Seq(SlotType) /\ Len(<<Slot(v)>>) = 1
      /\ <<Frame(c, 0, 0)>> \in Seq(FrameType) /\ DOMAIN <<Frame(c, 0, 0)>> = {1}
      /\ <<Frame(c, 0, 0)>>[1] = Frame(c, 0, 0) /\ <<Frame(c, 0, 0)>> # <<>>
  BY <1>5
<1>7. new(c) \in CtxType
  BY <1>6, CtxMade
<1>8. FrameShape(Frame(c, 0, 0), 1)
  BY <1>5, OrderedEmpty DEF FrameShape
<1>9. Shape(new(c))
  BY <1>5, <1>6, <1>8 DEF Shape
<1>10. Resumable(new(c))
  BY <1>5, <1>6, CallbacksNone DEF Resumable
<1>11. new(c).open = {}
  OBVIOUS
<1> HIDE DEF new
<1>12. saved' \in [Tasks -> CtxType] /\ state' \in [Tasks -> {"none", "ready", "running", "waiting", "done"}]
  BY <1>4, <1>7 DEF IInv, Types
<1>13. Shapes'
  BY <1>2, <1>4, <1>9 DEF IInv, Types, Shapes
<1>14. Context(t)' = new(c) /\ \A s \in Tasks \ {t} : Context(s)' = Context(s) /\ state'[s] = state[s] /\ saved'[s] = saved[s]
  BY <1>2, <1>3, <1>4 DEF Context, IInv, Types
<1>15. state'[t] = "ready" /\ state'[current] = state[current]
  BY <1>2, <1>3, <1>4 DEF IInv, Types
<1>16. Control'
  <2>1. Running' <=> Running
    BY <1>4, <1>15 DEF Running
  <2>2. \A s \in Tasks : state'[s] = "running" => s = current'
    BY <1>4, <1>14, <1>15 DEF IInv, Control
  <2>3. \A s \in Tasks : state'[s] \in {"ready", "waiting"} => Resumable(Context(s)')
    BY <1>10, <1>14 DEF IInv, Control
  <2>4. \A s \in Tasks : state'[s] = "none" => s # current' /\ saved'[s] = Blank
    BY <1>4, <1>14, <1>15 DEF IInv, Control
  <2>5. QED
    BY <1>4, <2>1, <2>2, <2>3, <2>4 DEF IInv, Control
<1>17. Listed'
  BY <1>4, <1>11, <1>14 DEF IInv, Listed, Allocated
<1>18. QED
  BY <1>4, <1>12, <1>13, <1>16, <1>17 DEF IInv, Types

\* The running context without its top frame and that frame's slots.
LEMMA ReturnedFacts ==
  ASSUME IInv, Running
  PROVE  /\ Returned \in CtxType /\ Shape(Returned)
         /\ Returned.frames = SubSeq(vm.frames, 1, Len(vm.frames) - 1)
         /\ Returned.open = vm.open \ ClosedFrom(Top.base + 1)
         /\ Len(Returned.stack) = Top.base
         /\ \A i \in 1 .. Top.base : Returned.stack[i] = vm.stack[i]
         /\ Len(vm.frames) > 1 => Returned.frames # <<>>
         /\ Callbacks(Returned.frames) \in Nat
         /\ Top.callback = 0 => Callbacks(vm.frames) = Callbacks(Returned.frames)
         /\ Top.callback # 0 => Callbacks(vm.frames) = Callbacks(Returned.frames) + 1
         /\ Len(vm.frames) = 1 => Top.callback = 0 /\ Callbacks(vm.frames) = 0
<1> DEFINE n == Top.base
           k == Len(vm.frames) - 1
<1>1. /\ vm \in CtxType /\ Shape(vm) /\ vm.frames # <<>> /\ Len(vm.frames) \in Nat \ {0} /\ Types
      /\ n \in 0 .. Len(vm.stack) /\ Top = vm.frames[Len(vm.frames)] /\ vm.frames \in Seq(FrameType)
      /\ \A j \in 1 .. k : FrameShape(vm.frames[j], n)
  BY TopFacts, CtxFields DEF Top, IInv
<1>2. k \in 0 .. Len(vm.frames) /\ Returned = Cut(n, k)
  BY <1>1 DEF Returned
<1>3. Callbacks(vm.frames) = Callbacks(SubSeq(vm.frames, 1, k)) + (IF Top.callback = 0 THEN 0 ELSE 1)
  BY <1>1, CallbacksFront
<1>4. SubSeq(vm.frames, 1, k) \in Seq(FrameType) /\ Callbacks(SubSeq(vm.frames, 1, k)) \in Nat
  BY <1>1, <1>2, CallbacksCut
<1>5. Len(vm.frames) = 1 => Top.callback = 0
  BY <1>1 DEF Shape
<1>6. Len(vm.frames) = 1 => SubSeq(vm.frames, 1, k) = <<>>
  BY <1>1
<1>7. Len(vm.frames) > 1 => SubSeq(vm.frames, 1, k) # <<>>
  <2>1. Len(SubSeq(vm.frames, 1, k)) = k
    BY <1>1, <1>2
  <2>2. Len(vm.frames) > 1 => k # 0
    BY <1>1
  <2>3. SubSeq(vm.frames, 1, k) = <<>> => Len(SubSeq(vm.frames, 1, k)) = 0
    OBVIOUS
  <2>4. QED
    BY <2>1, <2>2, <2>3, Zenon
<1> HIDE DEF n, k
<1>8. /\ Returned \in CtxType /\ Shape(Returned)
      /\ Returned.frames = SubSeq(vm.frames, 1, k)
      /\ Returned.open = vm.open \ ClosedFrom(n + 1)
      /\ Len(Returned.stack) = n
      /\ \A i \in 1 .. n : Returned.stack[i] = vm.stack[i]
  BY <1>1, <1>2, CutCtx
<1>9. Callbacks(Returned.frames) \in Nat /\ (Len(vm.frames) > 1 => Returned.frames # <<>>)
  BY <1>4, <1>7, <1>8, Zenon
<1>10. /\ Top.callback = 0 => Callbacks(vm.frames) = Callbacks(Returned.frames)
       /\ Top.callback # 0 => Callbacks(vm.frames) = Callbacks(Returned.frames) + 1
  <2>1. Callbacks(SubSeq(vm.frames, 1, k)) = Callbacks(Returned.frames)
    BY <1>8, Zenon
  <2>2. QED
    BY <1>3, <1>9, <2>1
<1>11. Len(vm.frames) = 1 => Top.callback = 0 /\ Callbacks(vm.frames) = 0
  <2>1. Len(vm.frames) = 1 => Callbacks(Returned.frames) = 0
    BY <1>6, <1>8, CallbacksNone, Zenon
  <2>2. QED
    BY <1>5, <1>10, <2>1
<1>12. QED
  BY <1>8, <1>9, <1>10, <1>11, Zenon DEF n, k

LEMMA ReturnStep ==
  ASSUME IInv, Running, NEW v \in Expressible, Return(v)
  PROVE  IInv'
<1> DEFINE k == Len(vm.frames)
<1>1. /\ vm \in CtxType /\ vm.frames # <<>> /\ k \in Nat \ {0} /\ v \in Values
      /\ Top.base \in 0 .. Len(vm.stack) /\ Top.callback \in 0 .. 2
  BY TopFacts, ExpressibleTyped DEF FrameType
<1>2. /\ Returned \in CtxType /\ Shape(Returned) /\ Callbacks(Returned.frames) \in Nat
      /\ Returned.open \subseteq vm.open /\ Len(Returned.stack) = Top.base
      /\ k > 1 => Returned.frames # <<>>
      /\ Top.callback = 0 => Callbacks(vm.frames) = Callbacks(Returned.frames)
      /\ Top.callback # 0 => Callbacks(vm.frames) = Callbacks(Returned.frames) + 1
      /\ k = 1 => Top.callback = 0 /\ Callbacks(vm.frames) = 0
  BY ReturnedFacts
<1>3. /\ reentry[current] = 1 + Callbacks(vm.frames) /\ Len(temps) = Callbacks(vm.frames)
      /\ temps \in Seq(Closures \X Closures) /\ reentry \in [Tasks -> Nat] /\ current \in Tasks
      /\ Callbacks(vm.frames) \in Nat
  BY <1>1, CtxFields, CallbackSets DEF IInv, Types, Control
<1>4. UNCHANGED <<current, saved, closures, store>>
  BY DEF Return
<1>5. upvalues' \in [Upvalues -> UpvalueType \cup {None}] /\ Allocated' = Allocated
  BY CloseKeeps DEF Return
<1>6. ASSUME vm'.open \subseteq Returned.open
      PROVE  Listed'
  <2>1. vm.open \subseteq Allocated
    BY DEF IInv, Types, Listed, Context
  <2>2. QED
    BY <1>2, <1>4, <1>5, <1>6, <2>1, StaysListed
<1>7. CASE /\ k = 1
           /\ vm' = Returned
           /\ Ends(IF current = Zero THEN 0 ELSE v)
           /\ UNCHANGED temps
  <2>1. temps' = <<>>
    BY <1>2, <1>3, <1>7
  <2>2. PICK w \in Values : w = (IF current = Zero THEN 0 ELSE v)
    BY <1>1, Constants
  <2>3. Ends(w)
    BY <1>7, <2>2
  <2>4. /\ Shapes' /\ Control'
        /\ state' \in [Tasks -> {"none", "ready", "running", "waiting", "done"}]
        /\ reentry' \in [Tasks -> Nat]
        /\ result' \in [Tasks -> Values \cup {Pending, None}]
    BY <1>2, <1>4, <1>7, <2>1, <2>3, EndsTask
  <2>5. Listed'
    BY <1>6, <1>7
  <2>6. temps' \in Seq(Closures \X Closures)
    BY <2>1
  <2>7. QED
    BY <1>2, <1>4, <1>5, <1>7, <2>4, <2>5, <2>6 DEF IInv, Types
<1>8. CASE /\ k > 1 /\ Top.callback = 0
           /\ vm' = Pushed(Returned, v) \/ vm' = Returned
           /\ UNCHANGED <<state, result, reentry, temps>>
  <2>1. vm' \in CtxType /\ Shape(vm') /\ vm'.frames = Returned.frames /\ vm'.open = Returned.open
    BY <1>1, <1>2, <1>8, PushedCtx
  <2>2. Shapes' /\ Control'
    BY <1>2, <1>4, <1>8, <2>1, GoesOnPlainly
  <2>3. Listed'
    BY <1>6, <2>1
  <2>4. QED
    BY <1>4, <1>5, <1>8, <2>1, <2>2, <2>3 DEF IInv, Types
<1>9. CASE /\ Top.callback = 1
           /\ vm' = [Returned EXCEPT !.frames = Append(@, Frame(temps[Len(temps)][2], Top.base, 2))]
           /\ UNCHANGED <<state, result, reentry, temps>>
  <2>1. PICK c \in Closures : c = temps[Len(temps)][2]
    <3>1. Len(temps) \in 1 .. Len(temps)
      BY <1>2, <1>3, <1>9
    <3>2. temps[Len(temps)] \in Closures \X Closures
      BY <1>3, <3>1
    <3>3. QED
      BY <3>2
  <2>2. Returned.frames # <<>> /\ Returned.frames \in Seq(FrameType)
    <3>1. k # 1
      BY <1>2, <1>9
    <3>2. k \in Nat \ {0}
      BY <1>1
    <3>3. \A m \in Nat \ {0} : m # 1 => m > 1
      OBVIOUS
    <3>4. k > 1
      BY <3>1, <3>2, <3>3, Zenon
    <3>5. QED
      BY <1>2, <3>4, CtxFields
  <2>3. PICK ctx \in CtxType : ctx = Returned
    BY <1>2
  <2>4. vm' = [ctx EXCEPT !.frames = Append(@, Frame(c, Len(ctx.stack), 2))]
    BY <1>2, <1>9, <2>1, <2>3
  <2>5. 2 \in 0 .. 2
    OBVIOUS
  <2>6. vm' \in CtxType /\ Shape(vm') /\ vm'.frames # <<>> /\ vm'.open = ctx.open
        /\ vm'.frames = Append(ctx.frames, Frame(c, Len(ctx.stack), 2))
    BY <1>2, <2>2, <2>3, <2>4, <2>5, FramePushed
  <2>7. Callbacks(vm'.frames) = Callbacks(vm.frames)
    <3>1. Frame(c, Len(ctx.stack), 2) \in FrameType /\ Frame(c, Len(ctx.stack), 2).callback = 2
      BY <2>5, FrameMade, CtxFields
    <3>2. QED
      BY <1>2, <1>9, <2>2, <2>3, <2>6, <3>1, CallbacksAppend
  <2>8. Shapes' /\ Control'
    BY <1>4, <1>9, <2>6, <2>7, GoesOnPlainly
  <2>9. Listed'
    BY <1>6, <2>3, <2>6
  <2>10. QED
    BY <1>4, <1>5, <1>9, <2>6, <2>8, <2>9 DEF IInv, Types
<1>10. CASE /\ Top.callback = 2
            /\ vm' = Returned
            /\ reentry' = [reentry EXCEPT ![current] = @ - 1]
            /\ temps' = SubSeq(temps, 1, Len(temps) - 1)
            /\ UNCHANGED <<state, result>>
  <2>1. Returned.frames # <<>>
    <3>1. k # 1
      BY <1>2, <1>10
    <3>2. k \in Nat \ {0}
      BY <1>1
    <3>3. \A m \in Nat \ {0} : m # 1 => m > 1
      OBVIOUS
    <3>4. k > 1
      BY <3>1, <3>2, <3>3, Zenon
    <3>5. QED
      BY <1>2, <3>4
  <2>2. Callbacks(vm.frames) = Callbacks(Returned.frames) + 1
    BY <1>2, <1>10
  <2>3. reentry' \in [Tasks -> Nat] /\ reentry'[current] = 1 + Callbacks(Returned.frames)
    BY <1>2, <1>3, <1>10, <2>2
  <2>4. temps' \in Seq(Closures \X Closures) /\ Len(temps') = Callbacks(Returned.frames)
    <3>1. Len(temps) - 1 \in 0 .. Len(temps)
      BY <1>2, <1>3, <2>2
    <3>2. QED
      BY <1>2, <1>3, <1>10, <2>2, <3>1
  <2>5. Shapes' /\ Control'
    BY <1>2, <1>4, <1>10, <2>1, <2>3, <2>4, GoesOn
  <2>6. Listed'
    BY <1>6, <1>10
  <2>7. QED
    BY <1>2, <1>4, <1>5, <1>10, <2>3, <2>4, <2>5, <2>6 DEF IInv, Types
<1>11. QED
  BY <1>7, <1>8, <1>9, <1>10 DEF Return

\* The handler an error finds: the last of the topmost frame that has one.
LEMMA CatcherFacts ==
  ASSUME IInv, Running, Catchers # {}, NEW k,
         k = CHOOSE m \in Catchers : \A j \in Catchers : j <= m
  PROVE  LET hs == vm.frames[k].handlers
             n == hs[Len(hs)]
             gs == SubSeq(hs, 1, Len(hs) - 1)
         IN /\ k \in 1 .. Len(vm.frames) /\ n \in 0 .. Len(vm.stack)
            /\ \A j \in 1 .. k : FrameShape(vm.frames[j], n)
            /\ gs \in Seq(Nat) /\ Ordered(gs, vm.frames[k].base, n)
            /\ vm.frames[k].base \in Nat
<1>1. vm \in CtxType /\ Shape(vm) /\ Len(vm.frames) \in Nat /\ DOMAIN vm.frames = 1 .. Len(vm.frames)
      /\ Len(vm.stack) \in Nat
  BY TopFacts, CtxFields
<1>2. k \in Catchers
  <2>1. Catchers \in SUBSET (1 .. Len(vm.frames))
    BY <1>1 DEF Catchers
  <2>2. \E x \in Catchers : \A y \in Catchers : y <= x
    BY <1>1, <2>1, GreatestExists
  <2>3. QED
    BY <2>2
<1> DEFINE fr == vm.frames[k]
           hs == fr.handlers
           n == hs[Len(hs)]
           gs == SubSeq(hs, 1, Len(hs) - 1)
<1>3. k \in 1 .. Len(vm.frames) /\ hs # <<>>
  BY <1>1, <1>2 DEF Catchers
<1>4. fr \in FrameType /\ fr.base \in Nat /\ hs \in Seq(Nat)
  BY <1>1, <1>3, CtxFields
<1>5. FrameShape(fr, Len(vm.stack))
  BY <1>1, <1>3 DEF Shape
<1>6. n \in fr.base .. Len(vm.stack) /\ n \in Nat /\ Ordered(hs, fr.base, n)
      /\ gs \in Seq(Nat) /\ Ordered(gs, fr.base, n)
  <2>1. Ordered(hs, fr.base, Len(vm.stack))
    BY <1>5 DEF FrameShape
  <2>2. QED
    BY <1>1, <1>3, <1>4, <2>1, OrderedFront
<1> HIDE DEF n, gs
<1>7. FrameShape(fr, n)
  BY <1>4, <1>6 DEF FrameShape
<1>8. ASSUME NEW j \in 1 .. k, j # k
      PROVE  FrameShape(vm.frames[j], n)
  <2>1. j \in 1 .. Len(vm.frames) /\ j < k
    BY <1>1, <1>3, <1>8
  <2>2. FrameShape(vm.frames[j], fr.base) /\ vm.frames[j] \in FrameType
    BY <1>1, <1>3, <2>1, CtxFields DEF Shape
  <2>3. fr.base <= n
    BY <1>4, <1>6
  <2>4. QED
    BY <1>4, <1>6, <2>2, <2>3, FrameGrows
<1>9. \A j \in 1 .. k : FrameShape(vm.frames[j], n)
  BY <1>7, <1>8
<1>10. n \in 0 .. Len(vm.stack)
  BY <1>1, <1>4, <1>6
<1>11. QED
  BY <1>3, <1>4, <1>6, <1>9, <1>10 DEF n, gs


LEMMA FailStep ==
  ASSUME IInv, Running, Fail
  PROVE  IInv'
<1>1. /\ vm \in CtxType /\ Shape(vm) /\ vm.frames # <<>> /\ vm.frames \in Seq(FrameType)
      /\ Len(vm.frames) \in Nat /\ Len(vm.stack) \in Nat /\ Types
  BY TopFacts, CtxFields DEF IInv
<1>2. /\ reentry[current] = 1 + Callbacks(vm.frames) /\ Len(temps) = Callbacks(vm.frames)
      /\ temps \in Seq(Closures \X Closures) /\ reentry \in [Tasks -> Nat] /\ current \in Tasks
      /\ Callbacks(vm.frames) \in Nat
  BY <1>1, CallbackSets DEF IInv, Types, Control
<1>3. UNCHANGED <<current, saved, closures, store>>
  BY DEF Fail
<1>4. ASSUME NEW i, upvalues' = Close(ClosedFrom(i)), vm'.open \subseteq vm.open
      PROVE  upvalues' \in [Upvalues -> UpvalueType \cup {None}] /\ Listed'
  <2>1. upvalues' \in [Upvalues -> UpvalueType \cup {None}] /\ Allocated' = Allocated
    BY <1>4, CloseKeeps
  <2>2. vm.open \subseteq Allocated
    BY DEF IInv, Types, Listed, Context
  <2>3. QED
    BY <1>3, <1>4, <2>1, <2>2, StaysListed
<1>5. ASSUME Catchers # {},
             NEW k, k = CHOOSE m \in Catchers : \A j \in Catchers : j <= m,
             NEW hs, hs = vm.frames[k].handlers,
             NEW n, n = hs[Len(hs)],
             upvalues' = Close(ClosedFrom(n + 1)),
             vm' = [Pushed(Cut(n, k), 0) EXCEPT !.frames[k].handlers = SubSeq(hs, 1, Len(hs) - 1)],
             reentry' = [reentry EXCEPT ![current] = @ - Leaves(k)],
             temps' = SubSeq(temps, 1, Len(temps) - Leaves(k)),
             UNCHANGED <<state, result>>
      PROVE  IInv'
  <2>1. PICK gs \in Seq(Nat) : gs = SubSeq(hs, 1, Len(hs) - 1) /\ Ordered(gs, vm.frames[k].base, n)
    BY <1>5, CatcherFacts
  <2>2. /\ k \in 1 .. Len(vm.frames) /\ n \in 0 .. Len(vm.stack) /\ vm.frames[k].base \in Nat
        /\ \A j \in 1 .. k : FrameShape(vm.frames[j], n)
    BY <1>5, CatcherFacts
  <2>3. k \in 0 .. Len(vm.frames) /\ n \in Nat /\ k \in 1 .. k
    BY <1>1, <2>2
  <2>4. PICK cut \in CtxType :
          /\ cut = Cut(n, k) /\ Shape(cut) /\ cut.frames = SubSeq(vm.frames, 1, k) /\ cut.open \subseteq vm.open
          /\ Len(cut.stack) = n /\ Len(cut.frames) = k /\ cut.frames[k] = vm.frames[k]
    BY <1>1, <2>2, <2>3, CutCtx
  <2>5. PICK ctx \in CtxType :
          /\ ctx = Pushed(cut, 0) /\ Shape(ctx) /\ ctx.frames = cut.frames /\ ctx.open = cut.open
          /\ Len(ctx.stack) = n + 1
    BY <2>4, PushedCtx, Constants
  <2>6. ctx.frames # <<>> /\ Len(ctx.frames) = k
    BY <1>1, <2>2, <2>4, <2>5
  <2>7. Ordered(gs, ctx.frames[k].base, Len(ctx.stack))
    <3>1. n + 1 \in Nat /\ n <= n + 1
      BY <2>3
    <3>2. QED
      BY <2>1, <2>2, <2>3, <2>4, <2>5, <3>1, OrderedGrows
  <2>8. vm' = [ctx EXCEPT !.frames[Len(ctx.frames)].handlers = gs]
    BY <1>5, <2>1, <2>4, <2>5, <2>6
  <2>9. /\ vm' \in CtxType /\ Shape(vm') /\ vm'.frames # <<>> /\ vm'.open \subseteq vm.open
        /\ Callbacks(vm'.frames) = Callbacks(ctx.frames)
    BY <2>4, <2>5, <2>6, <2>7, <2>8, HandlersExcept
  <2>10. PICK m \in Nat : m = Callbacks(SubSeq(vm.frames, 1, k)) /\ m <= Callbacks(vm.frames)
    BY <1>1, <2>3, CallbacksCut
  <2>11. Callbacks(vm'.frames) = m
    BY <2>4, <2>5, <2>9, <2>10
  <2>12. Leaves(k) = Callbacks(vm.frames) - m
    BY <2>10 DEF Leaves
  <2>13. reentry' \in [Tasks -> Nat] /\ reentry'[current] = 1 + m
    <3>1. reentry[current] - Leaves(k) = 1 + m
      BY <1>2, <2>10, <2>12
    <3>2. reentry' = [reentry EXCEPT ![current] = 1 + m]
      BY <1>5, <3>1
    <3>3. QED
      BY <1>2, <3>2
  <2>14. temps' \in Seq(Closures \X Closures) /\ Len(temps') = m
    <3>1. Len(temps) - Leaves(k) = m /\ m \in 0 .. Len(temps)
      BY <1>2, <2>10, <2>12
    <3>2. temps' = SubSeq(temps, 1, m)
      BY <1>5, <3>1
    <3>3. QED
      BY <1>2, <3>1, <3>2
  <2>15. Shapes' /\ Control'
    BY <1>3, <1>5, <2>9, <2>11, <2>13, <2>14, GoesOn
  <2>16. upvalues' \in [Upvalues -> UpvalueType \cup {None}] /\ Listed'
    BY <1>4, <1>5, <2>9
  <2>17. QED
    BY <1>3, <1>5, <2>9, <2>13, <2>14, <2>15, <2>16 DEF IInv, Types
<1>6. CASE /\ Catchers = {}
           /\ upvalues' = Close(ClosedFrom(1))
           /\ vm' = Cut(0, 0)
           /\ temps' = <<>>
           /\ Ends(None)
  <2>1. vm' \in CtxType /\ Shape(vm') /\ vm'.open \subseteq vm.open
    <3>1. 0 \in 0 .. Len(vm.stack) /\ 0 \in 0 .. Len(vm.frames) /\ \A j \in 1 .. 0 : FrameShape(vm.frames[j], 0)
      BY <1>1
    <3>2. Cut(0, 0) \in CtxType /\ Shape(Cut(0, 0)) /\ Cut(0, 0).open \subseteq vm.open
      BY <1>1, <3>1, CutCtx
    <3>3. QED
      BY <1>6, <3>2
  <2>2. /\ Shapes' /\ Control'
        /\ state' \in [Tasks -> {"none", "ready", "running", "waiting", "done"}]
        /\ reentry' \in [Tasks -> Nat]
        /\ result' \in [Tasks -> Values \cup {Pending, None}]
    <3>1. None \in Values \cup {None}
      OBVIOUS
    <3>2. QED
      BY <1>3, <1>6, <2>1, <3>1, EndsTask
  <2>3. upvalues' \in [Upvalues -> UpvalueType \cup {None}] /\ Listed'
    BY <1>4, <1>6, <2>1
  <2>4. temps' \in Seq(Closures \X Closures)
    BY <1>6
  <2>5. QED
    BY <1>3, <2>1, <2>2, <2>3, <2>4 DEF IInv, Types
<1>7. CASE Catchers # {}
  <2>1. PICK k : k = CHOOSE m \in Catchers : \A j \in Catchers : j <= m
    OBVIOUS
  <2>2. PICK hs, n : hs = vm.frames[k].handlers /\ n = hs[Len(hs)]
    OBVIOUS
  <2>3. /\ upvalues' = Close(ClosedFrom(n + 1))
        /\ vm' = [Pushed(Cut(n, k), 0) EXCEPT !.frames[k].handlers = SubSeq(hs, 1, Len(hs) - 1)]
        /\ reentry' = [reentry EXCEPT ![current] = @ - Leaves(k)]
        /\ temps' = SubSeq(temps, 1, Len(temps) - Leaves(k))
        /\ UNCHANGED <<state, result>>
    BY <1>7, <2>1, <2>2 DEF Fail
  <2>4. QED
    BY <1>5, <1>7, <2>1, <2>2, <2>3
<1>8. QED
  BY <1>6, <1>7 DEF Fail

LEMMA DipStep ==
  ASSUME IInv, Running, Dip
  PROVE  IInv'
<1>1. vm \in CtxType /\ Shape(vm) /\ vm' = vm
  BY TopFacts DEF Dip
<1>2. UNCHANGED <<current, saved, closures, upvalues, store>> /\ temps' = <<>> /\ Ends(None)
  BY DEF Dip
<1>3. /\ Shapes' /\ Control'
      /\ state' \in [Tasks -> {"none", "ready", "running", "waiting", "done"}]
      /\ reentry' \in [Tasks -> Nat]
      /\ result' \in [Tasks -> Values \cup {Pending, None}]
  <2>1. None \in Values \cup {None}
    OBVIOUS
  <2>2. QED
    BY <1>1, <1>2, <2>1, EndsTask
<1>4. Listed'
  BY <1>1, <1>2 DEF IInv, Listed, Context, Allocated
<1>5. temps' \in Seq(Closures \X Closures)
  BY <1>2
<1>6. QED
  BY <1>1, <1>2, <1>3, <1>4, <1>5 DEF IInv, Types

\* A task that may suspend has no callback on its stack and no temp roots.
LEMMA SuspendStep ==
  ASSUME IInv, Running, Suspend
  PROVE  IInv'
<1>1. /\ reentry[current] = 1 + Callbacks(vm.frames) /\ Len(temps) = Callbacks(vm.frames)
      /\ temps \in Seq(Closures \X Closures) /\ reentry \in [Tasks -> Nat] /\ current \in Tasks
      /\ state \in [Tasks -> {"none", "ready", "running", "waiting", "done"}]
      /\ Callbacks(vm.frames) \in Nat /\ vm.frames # <<>>
  BY TopFacts, CtxFields, CallbackSets DEF IInv, Types, Control
<1>2. Callbacks(vm.frames) = 0 /\ temps = <<>>
  <2>1. Callbacks(vm.frames) = 0
    BY <1>1 DEF Suspend, MaySuspend
  <2>2. QED
    BY <1>1, <2>1
<1>3. UNCHANGED <<current, vm, saved, temps, closures, upvalues, result, store>>
  BY DEF Suspend
<1>4. /\ state' \in [Tasks -> {"none", "ready", "running", "waiting", "done"}]
      /\ reentry' \in [Tasks -> Nat]
      /\ state'[current] = "waiting" /\ \A t \in Tasks \ {current} : state'[t] = state[t]
  BY <1>1 DEF Suspend
<1>5. \A t \in Tasks : Context(t)' = Context(t)
  BY <1>3 DEF Context
<1>6. Control'
  <2>1. ~ Running'
    BY <1>3, <1>4 DEF Running
  <2>2. \A t \in Tasks : state'[t] = "running" => t = current'
    BY <1>3, <1>4 DEF IInv, Control
  <2>3. Resumable(Context(current))
    BY <1>1, <1>2 DEF Resumable, Context
  <2>4. \A t \in Tasks : state'[t] \in {"ready", "waiting"} => Resumable(Context(t)')
    BY <1>4, <1>5, <2>3 DEF IInv, Control
  <2>5. \A t \in Tasks : state'[t] = "none" => t # current' /\ saved'[t] = Blank
    BY <1>3, <1>4 DEF IInv, Control
  <2>6. QED
    BY <1>2, <1>3, <2>1, <2>2, <2>4, <2>5 DEF Control
<1>7. Listed'
  BY <1>3, <1>5 DEF IInv, Listed, Allocated
<1>8. QED
  BY <1>3, <1>4, <1>6, <1>7 DEF IInv, Types, Shapes

\* A turn moves stacks between the VM and the tasks, and drops only those of
\* finished tasks.
LEMMA TurnContexts ==
  ASSUME IInv, Turn
  PROVE  \E to \in Tasks :
           /\ state[to] = "ready" /\ current' = to
           /\ state' = [state EXCEPT ![to] = "running"] /\ reentry' = [reentry EXCEPT ![to] = 1]
           /\ vm' = Context(to)
           /\ saved' \in [Tasks -> CtxType]
           /\ \A t \in Tasks : /\ saved'[t] \in {Blank, saved[t], vm}
                               /\ state[t] = "none" => saved'[t] = Blank
                               /\ \/ Context(t)' = Context(t)
                                  \/ state[t] = "done" /\ Context(t)' = Blank
<1>1. PICK to \in Tasks : to = Oldest(Waits("ready")) /\ state[to] = "ready"
  <2>1. Waits("ready") \in SUBSET Tasks /\ Waits("ready") # {}
    BY DEF Turn, Waits
  <2>2. Oldest(Waits("ready")) \in Waits("ready")
    BY <2>1, OldestIn
  <2>3. QED
    BY <2>2 DEF Waits
<1>2. PICK reaped : reaped = [t \in Tasks |-> IF Retired(t) THEN Blank ELSE saved[t]]
  OBVIOUS
<1>3. /\ current' = to /\ state' = [state EXCEPT ![to] = "running"] /\ reentry' = [reentry EXCEPT ![to] = 1]
      /\ to = current => vm' = vm /\ saved' = reaped
      /\ to # current => vm' = saved[to] /\ saved' = [reaped EXCEPT ![to] = Blank, ![current] = vm]
  BY <1>1, <1>2 DEF Turn
<1>4. /\ saved \in [Tasks -> CtxType] /\ vm \in CtxType /\ current \in Tasks
      /\ \A t \in Tasks : state[t] = "none" => t # current /\ saved[t] = Blank
  BY DEF IInv, Types, Control
<1>5. Blank \in CtxType
  BY DEF Blank, CtxType
<1>6. \A t \in Tasks : reaped[t] \in CtxType /\ (~ Retired(t) => reaped[t] = saved[t])
                       /\ (Retired(t) => reaped[t] = Blank)
  BY <1>2, <1>4, <1>5
<1>7. CASE to = current
  <2>1. \A t \in Tasks : /\ saved'[t] \in {Blank, saved[t], vm}
                         /\ state[t] = "none" => saved'[t] = Blank
    BY <1>3, <1>4, <1>6, <1>7
  <2>2. \A t \in Tasks : Context(t)' = Context(t) \/ (state[t] = "done" /\ Context(t)' = Blank)
    BY <1>3, <1>6, <1>7 DEF Context, Retired
  <2>3. vm' = Context(to) /\ saved' \in [Tasks -> CtxType]
    BY <1>2, <1>3, <1>6, <1>7 DEF Context
  <2>4. QED
    BY <1>1, <1>3, <2>1, <2>2, <2>3
<1>8. CASE to # current
  <2>1. /\ saved'[to] = Blank /\ saved'[current] = vm
        /\ \A t \in Tasks \ {to, current} : saved'[t] = reaped[t]
        /\ saved' \in [Tasks -> CtxType]
    BY <1>2, <1>3, <1>4, <1>5, <1>6, <1>8
  <2>2. \A t \in Tasks : /\ saved'[t] \in {Blank, saved[t], vm}
                         /\ state[t] = "none" => saved'[t] = Blank
    BY <1>1, <1>4, <1>6, <2>1
  <2>3. \A t \in Tasks : Context(t)' = Context(t) \/ (state[t] = "done" /\ Context(t)' = Blank)
    BY <1>3, <1>6, <1>8, <2>1 DEF Context, Retired
  <2>4. vm' = Context(to)
    BY <1>3, <1>8 DEF Context
  <2>5. QED
    BY <1>1, <1>3, <2>1, <2>2, <2>3, <2>4
<1>9. QED
  BY <1>7, <1>8

LEMMA TurnStep ==
  ASSUME IInv, Turn
  PROVE  IInv'
<1>1. PICK to \in Tasks :
         /\ state[to] = "ready" /\ current' = to
         /\ state' = [state EXCEPT ![to] = "running"] /\ reentry' = [reentry EXCEPT ![to] = 1]
         /\ vm' = Context(to)
         /\ saved' \in [Tasks -> CtxType]
         /\ \A t \in Tasks : /\ saved'[t] \in {Blank, saved[t], vm}
                             /\ state[t] = "none" => saved'[t] = Blank
                             /\ \/ Context(t)' = Context(t)
                                \/ state[t] = "done" /\ Context(t)' = Blank
  BY TurnContexts
<1>2. UNCHANGED <<temps, closures, upvalues, result, store>> /\ ~ Running
  BY DEF Turn
<1>3. /\ Types /\ Shapes /\ Listed /\ temps = <<>> /\ Resumable(Context(to)) /\ Context(to) \in CtxType
      /\ \A t \in Tasks : state[t] # "running"
  BY <1>1, <1>2, ContextTypes DEF IInv, Control, Running
<1>4. /\ state' \in [Tasks -> {"none", "ready", "running", "waiting", "done"}]
      /\ reentry' \in [Tasks -> Nat]
      /\ state'[to] = "running" /\ reentry'[to] = 1
      /\ \A t \in Tasks \ {to} : state'[t] = state[t]
  BY <1>1, <1>3 DEF Types
<1>5. Shapes'
  <2>1. Shape(Blank)
    BY DEF Blank, Shape
  <2>2. Shape(vm')
    BY <1>1, <1>3 DEF Shapes, Context
  <2>3. \A t \in Tasks : Shape(saved'[t])
    BY <1>1, <1>3, <2>1 DEF Shapes
  <2>4. QED
    BY <2>2, <2>3 DEF Shapes
<1>6. Control'
  <2>1. \A t \in Tasks : state'[t] = "running" => t = current'
    BY <1>1, <1>3, <1>4
  <2>2. Running' /\ vm'.frames # <<>> /\ Callbacks(vm'.frames) = 0
    BY <1>1, <1>3, <1>4 DEF Running, Resumable
  <2>3. reentry'[current'] = 1 + Callbacks(vm'.frames) /\ Len(temps') = Callbacks(vm'.frames)
    <3>1. Len(temps') = 0
      BY <1>2, <1>3
    <3>2. QED
      BY <1>1, <1>4, <2>2, <3>1
  <2>4. \A t \in Tasks : state'[t] \in {"ready", "waiting"} => Resumable(Context(t)')
    <3>1. ASSUME NEW t \in Tasks, state'[t] \in {"ready", "waiting"}
          PROVE  Resumable(Context(t)')
      <4>1. state[t] \in {"ready", "waiting"}
        BY <1>4, <3>1
      <4>2. Context(t)' = Context(t)
        BY <1>1, <4>1
      <4>3. QED
        BY <4>1, <4>2 DEF IInv, Control
    <3>2. QED
      BY <3>1
  <2>5. \A t \in Tasks : state'[t] = "none" => t # current' /\ saved'[t] = Blank
    BY <1>1, <1>4
  <2>6. QED
    BY <2>1, <2>2, <2>3, <2>4, <2>5 DEF Control
<1>7. Listed'
  <2>1. Blank.open = {}
    BY DEF Blank
  <2>2. QED
    BY <1>1, <1>2, <1>3, <2>1 DEF Listed, Allocated
<1>8. QED
  BY <1>1, <1>2, <1>3, <1>4, <1>5, <1>6, <1>7 DEF IInv, Types

LEMMA WakeStep ==
  ASSUME IInv, Wake
  PROVE  IInv'
<1>1. PICK ts \in SUBSET Waits("waiting") :
        state' = [t \in Tasks |-> IF t \in ts THEN "ready" ELSE state[t]]
  BY DEF Wake
<1>2. UNCHANGED <<current, vm, saved, reentry, temps, closures, upvalues, result, store>> /\ ~ Running
  BY DEF Wake
<1>3. state' \in [Tasks -> {"none", "ready", "running", "waiting", "done"}]
      /\ \A t \in Tasks : state'[t] = state[t] \/ (state[t] = "waiting" /\ state'[t] = "ready")
  BY <1>1 DEF Waits, IInv, Types
<1>4. \A t \in Tasks : Context(t)' = Context(t)
  BY <1>2 DEF Context
<1>5. Control'
  <2>1. \A t \in Tasks : state'[t] = "running" => t = current'
    BY <1>2, <1>3 DEF IInv, Control
  <2>2. ~ Running'
    BY <1>2, <1>3 DEF Running, IInv, Types
  <2>3. \A t \in Tasks : state'[t] \in {"ready", "waiting"} => Resumable(Context(t)')
    BY <1>3, <1>4 DEF IInv, Control
  <2>4. \A t \in Tasks : state'[t] = "none" => t # current' /\ saved'[t] = Blank
    BY <1>2, <1>3 DEF IInv, Control
  <2>5. temps' = <<>>
    BY <1>2 DEF IInv, Control
  <2>6. QED
    BY <2>1, <2>2, <2>3, <2>4, <2>5 DEF Control
<1>6. QED
  BY <1>2, <1>3, <1>4, <1>5 DEF IInv, Types, Shapes, Listed, Allocated

\* What a root holds is reached.
LEMMA RootsReached ==
  ASSUME NEW roots, NEW read
  PROVE  roots \cap Heap \subseteq Reachable(roots, read) /\ Reachable(roots, read) \subseteq Heap
  BY DEF Reachable, Named

LEMMA CollectStep ==
  ASSUME IInv, Collect
  PROVE  IInv'
<1>1. PICK marked, live :
         /\ marked = Marked
         /\ closures' = [c \in Closures |-> IF c \in marked THEN closures[c] ELSE None]
         /\ upvalues' = [u \in Upvalues |-> IF u \in marked THEN upvalues[u] ELSE None]
         /\ store' = [u \in Upvalues |-> IF u \in live THEN store[u] ELSE None]
  BY DEF Collect
<1>2. UNCHANGED <<current, vm, saved, state, reentry, temps, result>>
  BY DEF Collect
<1>3. Types'
  BY <1>1, <1>2 DEF IInv, Types
<1>4. ASSUME NEW t \in Tasks, NEW u \in Context(t).open
      PROVE  u \in Allocated'
  <2>1. u \in Allocated /\ u \in Upvalues /\ upvalues[u] # None
    BY <1>4 DEF IInv, Listed, Allocated
  <2>2. u \in Roots
    BY <1>4 DEF Roots, Context
  <2>3. u \in marked
    BY <1>1, <2>1, <2>2, RootsReached DEF Marked, Heap
  <2>4. QED
    BY <1>1, <2>1, <2>3 DEF Allocated
<1>5. Listed'
  BY <1>2, <1>4 DEF Listed, Context
<1>6. Shapes' /\ Control'
  BY <1>2 DEF IInv, Shapes, Control, Context, Running
<1>7. QED
  BY <1>3, <1>5, <1>6 DEF IInv

-----------------------------------------------------------------------------
(* The first theorems.                                                     *)

LEMMA Initially == Init => IInv
<1> SUFFICES ASSUME Init PROVE IInv
  OBVIOUS
<1> USE DEF Init
<1>1. PICK fr \in FrameType : /\ fr = Frame(Script, 0, 0)
                              /\ fr.base = 0 /\ fr.callback = 0 /\ fr.handlers = <<>>
  <2>1. Frame(Script, 0, 0) \in FrameType
    BY DEF Frame, FrameType
  <2>2. QED
    BY <2>1 DEF Frame
<1>2. Blank \in CtxType /\ Blank.open = {} /\ Blank.frames = <<>> /\ Blank.stack = <<>>
  BY DEF Blank, CtxType
<1>3. <<fr>> \in Seq(FrameType) /\ <<fr>> # <<>> /\ DOMAIN <<fr>> = {1} /\ <<fr>>[1] = fr
  BY <1>1
<1>4. vm = [Blank EXCEPT !.frames = <<fr>>]
  BY <1>1
<1>5. vm \in CtxType /\ vm.frames = <<fr>> /\ vm.stack = <<>> /\ vm.open = {}
  BY <1>2, <1>3, <1>4, FramesExcept
<1>6. Types
  BY <1>2, <1>5, Constants DEF Types
<1>7. Shapes
  <2>1. FrameShape(fr, 0)
    <3>1. Ordered(<<>>, 0, 0)
      BY OrderedEmpty
    <3>2. QED
      BY <1>1, <3>1 DEF FrameShape
  <2>2. Shape(vm)
    BY <1>1, <1>3, <1>5, <2>1 DEF Shape
  <2>3. Shape(Blank)
    BY <1>2 DEF Shape
  <2>4. QED
    BY <2>2, <2>3 DEF Shapes
<1>8. Control
  <2>1. Callbacks(vm.frames) = 0
    BY <1>1, <1>5, CallbacksNone
  <2>2. Running /\ current = Zero /\ Zero \in Tasks
    BY Constants DEF Running
  <2>3. vm.frames # <<>> /\ reentry[current] = 1 + Callbacks(vm.frames) /\ Len(temps) = Callbacks(vm.frames)
    BY <1>3, <1>5, <2>1, <2>2
  <2>4. QED
    BY <2>2, <2>3 DEF Control
<1>9. Listed
  BY <1>2, <1>5 DEF Listed, Context
<1>10. QED
  BY <1>6, <1>7, <1>8, <1>9 DEF IInv

\* A statement keeps the invariant.
LEMMA StatementStep ==
  ASSUME IInv, Running, Statement
  PROVE  IInv'
<1>1. CASE Declare \/ ReadCaptured \/ (\E c \in Closures : MakeInner(c)) \/ (\E t \in Tasks : TakeResult(t))
  BY <1>1, PushSteps
<1>2. CASE EndLocal
  BY <1>2, EndLocalStep
<1>3. CASE Try \/ EndTry
  BY <1>3, TrySteps
<1>4. CASE \E v \in Expressible : AssignCaptured(v) \/ Return(v)
                                  \/ \E i \in Locals : Assign(i, v) \/ CallAsync(i, v)
  BY <1>4, AssignCapturedStep, ReturnStep, AssignStep, CallAsyncStep
<1>5. CASE \E c \in Closures : \E i \in Locals : MakeClosure(i, c)
  BY <1>5, MakeClosureStep
<1>6. CASE \E i \in Locals : Call(i) \/ \E j \in Locals : CallNative(i, j)
  BY <1>6, CallSteps
<1>7. CASE Fail \/ Dip \/ Suspend
  BY <1>7, FailStep, DipStep, SuspendStep
<1>8. QED
  BY <1>1, <1>2, <1>3, <1>4, <1>5, <1>6, <1>7, Zenon DEF Statement

LEMMA Stuttering == IInv /\ UNCHANGED vars => IInv'
  BY DEF vars, IInv, Types, Shapes, Control, Listed, Running, Context, Allocated

LEMMA Step == IInv /\ [Next]_vars => IInv'
<1>1. ASSUME IInv, Next PROVE IInv'
  BY <1>1, StatementStep, TurnStep, WakeStep, CollectStep, Stuttering DEF Next, Over
<1>2. QED
  BY <1>1, Stuttering

\* Every stack is shaped like nested calls, only the current task runs, and its
\* executes and temp roots are counted by the callbacks on its stack.
THEOREM Inductive == Spec => []IInv
<1>1. QED
  BY Initially, Step, PTL DEF Spec

\* Types: frames and handlers never name slots beyond their stack's count,
\* whatever is called, returned from, failed in, suspended or switched
\* (frames.c, task.c).
THEOREM TypeCorrect == Spec => []TypeOK
<1>1. IInv => TypeOK
  <2>1. ASSUME NEW ctx \in CtxType, Shape(ctx)
        PROVE  ContextType(ctx)
    <3>1. \A k \in DOMAIN ctx.frames : /\ ctx.frames[k].base \in 0 .. Len(ctx.stack)
                                       /\ \A n \in DOMAIN ctx.frames[k].handlers :
                                            ctx.frames[k].handlers[n] \in ctx.frames[k].base .. Len(ctx.stack)
      BY <2>1, CtxFields DEF Shape, FrameShape, Ordered
    <3>2. QED
      BY <3>1, CtxFields DEF ContextType
  <2>2. ASSUME IInv PROVE \A ctx \in Contexts : ContextType(ctx)
    BY <2>1, <2>2 DEF IInv, Types, Shapes, Contexts, Context
  <2>3. QED
    BY <2>2 DEF IInv, Types, TypeOK
<1>2. QED
  BY <1>1, Inductive, PTL

\* A task is suspended only in its own vm_execute, never under a native
\* function, and nobody runs with another's temp roots (OP_AWAIT).
THEOREM Suspends == Spec => []SuspendsAlone
<1>1. IInv => SuspendsAlone
  BY DEF IInv, Control, Resumable, Context, SuspendsAlone
<1>2. QED
  BY <1>1, Inductive, PTL

\* The count of executes is exact: an await is refused in a native function's
\* callback and nowhere else (vm_execute, Task.reentry).
THEOREM Refused == Spec => []RefusedOnlyInCallbacks
<1>1. IInv => RefusedOnlyInCallbacks
  BY DEF IInv, Control, RefusedOnlyInCallbacks
<1>2. QED
  BY <1>1, Inductive, PTL

-----------------------------------------------------------------------------
(* The inductive invariant: where every variable's value is.               *)

\* The open upvalues of task t's context are open over slots of its stack that say so, and
\* a slot that was captured is in the list, at its place, with the variable's value.
Tracks(ctx, t, ups, st) ==
  /\ \A u \in ctx.open :
       /\ ~ ups[u].closed /\ ups[u].task = t
       /\ ups[u].slot \in DOMAIN ctx.stack /\ ctx.stack[ups[u].slot].var = u
  /\ \A i \in DOMAIN ctx.stack : ctx.stack[i].var # None =>
       /\ ctx.stack[i].var \in ctx.open
       /\ ups[ctx.stack[i].var].slot = i
       /\ ctx.stack[i].val = st[ctx.stack[i].var]

Tracked == \A t \in Tasks : Tracks(Context(t), t, upvalues, store)

\* An upvalue is its variable's own, and either closed over the variable's
\* value or in its task's open list.
Variables ==
  \A u \in Allocated :
    /\ upvalues[u].var = u
    /\ upvalues[u].closed => upvalues[u].value = store[u]
    /\ ~ upvalues[u].closed => u \in Context(upvalues[u].task).open

\* A finished task has closed everything; task zero's result is no object.
Finished ==
  /\ \A t \in Tasks : state[t] = "done" => Context(t).open = {}
  /\ result[Zero] \in {Pending, 0, None}

MInv == Tracked /\ Variables /\ Finished /\ NothingUsableFreed

-----------------------------------------------------------------------------
(* Reachability: the least set that holds the roots and is closed.         *)

Closed(S, read) == \A x \in S : Refers(x, read) \in Heap => Refers(x, read) \in S

LEMMA ReachableClosed ==
  ASSUME NEW roots, NEW read
  PROVE  Closed(Reachable(roots, read), read)
<1> DEFINE held == roots \cap Heap
           others == Named(Heap, read) \ held
           closed == {S \in SUBSET others : Named(held \cup S, read) \subseteq held \cup S}
<1>1. Reachable(roots, read) = held \cup {x \in others : \A S \in closed : x \in S}
  BY DEF Reachable
<1>2. ASSUME NEW x \in Reachable(roots, read), Refers(x, read) \in Heap, Refers(x, read) \notin held
      PROVE  Refers(x, read) \in others /\ \A S \in closed : Refers(x, read) \in S
  <2>1. x \in Heap
    BY <1>1, RootsReached
  <2>2. Refers(x, read) \in others
    BY <1>2, <2>1 DEF Named
  <2>3. ASSUME NEW S \in closed
        PROVE  Refers(x, read) \in S
    <3>1. x \in held \cup S
      BY <1>1, <1>2
    <3>2. Refers(x, read) \in Named(held \cup S, read)
      BY <1>2, <3>1 DEF Named
    <3>3. QED
      BY <1>2, <3>2
  <2>4. QED
    BY <2>2, <2>3
<1> HIDE DEF held, others, closed
<1>3. QED
  BY <1>1, <1>2 DEF Closed

LEMMA ReachableLeast ==
  ASSUME NEW roots, NEW read, NEW S \in SUBSET Heap, roots \cap Heap \subseteq S, Closed(S, read)
  PROVE  Reachable(roots, read) \subseteq S
<1> DEFINE held == roots \cap Heap
           others == Named(Heap, read) \ held
           closed == {T \in SUBSET others : Named(held \cup T, read) \subseteq held \cup T}
<1>1. Reachable(roots, read) = held \cup {x \in others : \A T \in closed : x \in T}
  BY DEF Reachable
<1>2. S \cap others \in closed
  <2>1. ASSUME NEW x \in held \cup (S \cap others), Refers(x, read) \in Heap
        PROVE  Refers(x, read) \in held \cup (S \cap others)
    <3>1. Refers(x, read) \in S
      BY <2>1 DEF Closed
    <3>2. Refers(x, read) \in Named(Heap, read)
      BY <2>1 DEF Named
    <3>3. QED
      BY <3>1, <3>2
  <2>2. Named(held \cup (S \cap others), read) \subseteq held \cup (S \cap others)
    BY <2>1 DEF Named
  <2>3. QED
    BY <2>2
<1>3. QED
  BY <1>1, <1>2

LEMMA LeastAlways ==
  \A roots, read : \A T \in SUBSET Heap :
    roots \cap Heap \subseteq T /\ Closed(T, read) => Reachable(roots, read) \subseteq T
  BY ReachableLeast

UsableRoots == Temps \cup (UNION {Holds(ctx) : ctx \in Contexts}) \cup {result[t] : t \in Tasks}

\* What a stack, a frame, a temp root or a result holds is usable, and so is
\* what a usable object refers to.
LEMMA UsableFacts ==
  /\ Usable \subseteq Heap
  /\ \A t \in Tasks : Holds(Context(t)) \cap Heap \subseteq Usable
  /\ Temps \cap Heap \subseteq Usable
  /\ \A t \in Tasks : result[t] \in Heap => result[t] \in Usable
  /\ Closed(Usable, store)
<1>1. Usable = Reachable(UsableRoots, store)
  BY DEF Usable, UsableRoots
<1>2. Usable \subseteq Heap /\ UsableRoots \cap Heap \subseteq Usable /\ Closed(Usable, store)
  BY <1>1, RootsReached, ReachableClosed
<1>3. \A t \in Tasks : Holds(Context(t)) \subseteq UsableRoots
  BY DEF UsableRoots, Contexts
<1>4. Temps \subseteq UsableRoots /\ \A t \in Tasks : result[t] \in UsableRoots
  BY DEF UsableRoots
<1>5. QED
  BY <1>2, <1>3, <1>4

\* What a step makes usable: what was, and extra.
LEMMA UsableStep ==
  ASSUME NEW extra \in SUBSET Heap,
         \A t \in Tasks : Holds(Context(t)') \cap Heap \subseteq Usable \cup extra,
         Temps' \cap Heap \subseteq Usable \cup extra,
         \A t \in Tasks : result'[t] \in Heap => result'[t] \in Usable \cup extra,
         \A c \in Closures : c \in Usable \cup extra /\ closures'[c] \in Heap => closures'[c] \in Usable \cup extra,
         \A u \in Upvalues : u \in Usable \cup extra /\ store'[u] \in Heap => store'[u] \in Usable \cup extra
  PROVE  Usable' \subseteq Usable \cup extra
<1>1. Usable \subseteq Heap
  BY UsableFacts
<1>2. PICK S \in SUBSET Heap : S = Usable \cup extra
  BY <1>1
<1>3. UsableRoots' \cap Heap \subseteq S
  <2>1. \A ctx \in Contexts' : Holds(ctx) \cap Heap \subseteq S
    BY <1>2 DEF Contexts, Holds
  <2>2. QED
    BY <1>2, <2>1 DEF UsableRoots, Holds
<1>4. \A c \in Closures : c \in S /\ closures'[c] \in Heap => closures'[c] \in S
  BY <1>2
<1>5. \A u \in Upvalues : u \in S /\ store'[u] \in Heap => store'[u] \in S
  BY <1>2
<1>6. ASSUME NEW x \in S, Refers(x, store)' \in Heap
      PROVE  Refers(x, store)' \in S
  BY <1>4, <1>5, <1>6 DEF Refers, Heap
<1>7. Closed(S, store)'
  BY <1>6 DEF Closed
<1>8. (Reachable(UsableRoots, store) \subseteq S)'
  <2>1. (\A roots, read : \A T \in SUBSET Heap :
           roots \cap Heap \subseteq T /\ Closed(T, read) => Reachable(roots, read) \subseteq T)'
    BY LeastAlways, PTL
  <2>2. QED
    BY <1>3, <1>7, <2>1
<1>9. QED
  BY <1>2, <1>8 DEF Usable, UsableRoots

LEMMA UsableReads ==
  /\ \A c \in Closures : c \in Usable /\ closures[c] \in Heap => closures[c] \in Usable
  /\ \A u \in Upvalues : u \in Usable /\ store[u] \in Heap => store[u] \in Usable
<1>1. \A u \in Upvalues : u \notin Closures
  BY Constants
<1>2. QED
  BY <1>1, UsableFacts DEF Closed, Refers

\* A step that makes no object and assigns, if anything, what is usable.
LEMMA UsableStays ==
  ASSUME UNCHANGED closures,
         \A t \in Tasks : Holds(Context(t)') \cap Heap \subseteq Usable,
         Temps' \cap Heap \subseteq Usable,
         \A t \in Tasks : result'[t] \in Heap => result'[t] \in Usable,
         \A u \in Upvalues : store'[u] = store[u] \/ store'[u] \notin Heap \/ store'[u] \in Usable
  PROVE  Usable' \subseteq Usable
<1>1. PICK extra \in SUBSET Heap : extra = {}
  OBVIOUS
<1>2. \A c \in Closures : c \in Usable \cup extra /\ closures'[c] \in Heap => closures'[c] \in Usable \cup extra
  BY <1>1, UsableReads
<1>3. \A u \in Upvalues : u \in Usable \cup extra /\ store'[u] \in Heap => store'[u] \in Usable \cup extra
  BY <1>1, UsableReads
<1>4. /\ \A t \in Tasks : Holds(Context(t)') \cap Heap \subseteq Usable \cup extra
      /\ Temps' \cap Heap \subseteq Usable \cup extra
      /\ \A t \in Tasks : result'[t] \in Heap => result'[t] \in Usable \cup extra
  BY <1>1
<1>5. Usable' \subseteq Usable \cup extra
  BY <1>2, <1>3, <1>4, UsableStep
<1>6. QED
  BY <1>1, <1>5

-----------------------------------------------------------------------------
(* What the operations on a context do to the variables it tracks.         *)

\* Only the stack and the open list matter, and of the upvalues and variables
\* only those in it.
LEMMA TracksSame ==
  ASSUME NEW ctx, NEW new, NEW t, NEW ups, NEW upsNew, NEW st, NEW stNew,
         new.stack = ctx.stack, new.open = ctx.open,
         \A u \in ctx.open : upsNew[u] = ups[u] /\ stNew[u] = st[u],
         Tracks(ctx, t, ups, st)
  PROVE  Tracks(new, t, upsNew, stNew)
  BY DEF Tracks

LEMMA TracksBlank ==
  ASSUME NEW t, NEW ups, NEW st
  PROVE  Tracks(Blank, t, ups, st)
  BY DEF Tracks, Blank

LEMMA TracksPushed ==
  ASSUME NEW ctx \in CtxType, NEW v \in Values, NEW t, NEW ups, NEW st, Tracks(ctx, t, ups, st)
  PROVE  Tracks(Pushed(ctx, v), t, ups, st)
<1>1. PICK new \in CtxType :
        /\ new = Pushed(ctx, v) /\ new.open = ctx.open /\ Len(new.stack) = Len(ctx.stack) + 1
        /\ \A i \in 1 .. Len(ctx.stack) : new.stack[i] = ctx.stack[i]
        /\ new.stack[Len(ctx.stack) + 1].var = None
  BY PushedCtx, SlotMade
<1>2. /\ DOMAIN ctx.stack = 1 .. Len(ctx.stack) /\ Len(ctx.stack) \in Nat
      /\ DOMAIN new.stack = 1 .. Len(ctx.stack) + 1
  BY <1>1, CtxFields
<1>3. Tracks(new, t, ups, st)
  BY <1>1, <1>2 DEF Tracks
<1>4. QED
  BY <1>1, <1>3

\* Cutting the running context back closes what it takes away.
LEMMA TracksCut ==
  ASSUME IInv, NEW n \in 0 .. Len(vm.stack), NEW k \in 0 .. Len(vm.frames),
         Tracks(vm, current, upvalues, store)
  PROVE  Tracks(Cut(n, k), current, Close(ClosedFrom(n + 1)), store)
<1>1. vm \in CtxType /\ Types /\ vm.open \subseteq Allocated /\ Len(vm.stack) \in Nat
      /\ DOMAIN vm.stack = 1 .. Len(vm.stack)
  <2>1. vm \in CtxType /\ Types /\ vm.open \subseteq Allocated
    BY DEF IInv, Types, Listed, Context
  <2>2. QED
    BY <2>1, CtxFields
<1>2. PICK cut \in CtxType :
        /\ cut = Cut(n, k) /\ cut.open = vm.open \ ClosedFrom(n + 1)
        /\ Len(cut.stack) = n /\ \A i \in 1 .. n : cut.stack[i] = vm.stack[i]
  BY <1>1, CutCtx
<1>3. DOMAIN cut.stack = 1 .. n /\ n \in Nat /\ 1 .. n \subseteq 1 .. Len(vm.stack)
  BY <1>1, <1>2, CtxFields
<1>4. PICK ups : ups = Close(ClosedFrom(n + 1))
  OBVIOUS
<1>5. \A u \in cut.open : u \in vm.open /\ ups[u] = upvalues[u] /\ upvalues[u].slot \in Nat /\ ~ (upvalues[u].slot >= n + 1)
  <2>1. ASSUME NEW u \in cut.open
        PROVE  u \in vm.open /\ ups[u] = upvalues[u] /\ upvalues[u].slot \in Nat /\ ~ (upvalues[u].slot >= n + 1)
    <3>1. u \in vm.open /\ u \notin ClosedFrom(n + 1)
      BY <1>2, <2>1
    <3>2. u \in Allocated /\ ups[u] = upvalues[u]
      BY <1>1, <1>4, <3>1 DEF Close, Allocated
    <3>3. upvalues[u].slot \in Nat
      BY <1>1, <3>2, UpvalueFields
    <3>4. QED
      BY <3>1, <3>2, <3>3 DEF ClosedFrom
  <2>2. QED
    BY <2>1
<1>6. ASSUME NEW u \in cut.open
      PROVE  /\ ~ ups[u].closed /\ ups[u].task = current
             /\ ups[u].slot \in DOMAIN cut.stack /\ cut.stack[ups[u].slot].var = u
  <2>1. /\ ~ upvalues[u].closed /\ upvalues[u].task = current
        /\ upvalues[u].slot \in 1 .. Len(vm.stack) /\ vm.stack[upvalues[u].slot].var = u
    BY <1>1, <1>5 DEF Tracks
  <2>2. upvalues[u].slot \in 1 .. n
    BY <1>3, <1>5, <2>1
  <2>3. QED
    BY <1>2, <1>3, <1>5, <2>1, <2>2
<1>7. ASSUME NEW i \in DOMAIN cut.stack, cut.stack[i].var # None
      PROVE  /\ cut.stack[i].var \in cut.open
             /\ ups[cut.stack[i].var].slot = i
             /\ cut.stack[i].val = store[cut.stack[i].var]
  <2>1. i \in 1 .. n /\ i \in 1 .. Len(vm.stack) /\ cut.stack[i] = vm.stack[i]
    BY <1>2, <1>3
  <2>2. PICK u : u = vm.stack[i].var
    OBVIOUS
  <2>3. u \in vm.open /\ upvalues[u].slot = i /\ vm.stack[i].val = store[u]
    BY <1>1, <1>7, <2>1, <2>2 DEF Tracks
  <2>4. u \notin ClosedFrom(n + 1)
    BY <1>3, <2>1, <2>3 DEF ClosedFrom
  <2>5. u \in cut.open
    BY <1>2, <2>3, <2>4
  <2>6. QED
    BY <1>5, <2>1, <2>2, <2>3, <2>5
<1>8. QED
  BY <1>2, <1>4, <1>6, <1>7 DEF Tracks

\* Whatever task an upvalue belongs to, it shows its variable.
LEMMA GetShows ==
  ASSUME IInv, MInv, NEW u \in Allocated
  PROVE  Readable(u) /\ upvalues[u].var = u /\ Get(u) = store[u]
<1>1. /\ u \in Upvalues /\ upvalues[u] # None /\ upvalues[u].task \in Tasks /\ upvalues[u].var = u
      /\ upvalues[u].closed => upvalues[u].value = store[u]
      /\ ~ upvalues[u].closed => u \in Context(upvalues[u].task).open
  BY UpvalueFields DEF IInv, MInv, Variables, Allocated
<1>2. CASE upvalues[u].closed
  BY <1>1, <1>2 DEF Get, Readable
<1>3. CASE ~ upvalues[u].closed
  <2>1. PICK t, ctx : t \in Tasks /\ t = upvalues[u].task /\ ctx = Context(t) /\ Tracks(ctx, t, upvalues, store)
    BY <1>1 DEF MInv, Tracked
  <2>2. LiveStack(t) = ctx.stack
    BY <2>1, ContextTypes DEF IInv
  <2>3. upvalues[u].slot \in DOMAIN ctx.stack /\ ctx.stack[upvalues[u].slot].var = u
        /\ ctx.stack[upvalues[u].slot].val = store[u]
    BY <1>1, <1>3, <2>1, Constants DEF Tracks
  <2>4. Readable(u)
    BY <2>1, <2>2, <2>3 DEF Readable
  <2>5. QED
    BY <1>1, <1>3, <2>1, <2>2, <2>3, <2>4 DEF Get
<1>4. QED
  BY <1>2, <1>3

\* Tasks' open lists have nothing in common.
LEMMA OpenApart ==
  ASSUME Tracked, NEW t \in Tasks, NEW u \in Context(t).open
  PROVE  upvalues[u].task = t /\ ~ upvalues[u].closed
  BY DEF Tracked, Tracks

\* What a usable object refers to is usable, and allocated; so are the
\* values of slots and the closures of frames.
LEMMA UsableSlot ==
  ASSUME IInv, NEW t \in Tasks, NEW i \in DOMAIN Context(t).stack, Context(t).stack[i].val \in Heap
  PROVE  Context(t).stack[i].val \in Usable
  BY UsableFacts DEF Holds

LEMMA UsableCaptured ==
  ASSUME IInv, Running, NothingUsableFreed, Captured \in Upvalues
  PROVE  /\ Captured \in Usable /\ Captured \in Allocated
         /\ store[Captured] \in Heap => store[Captured] \in Usable
<1>1. Top.closure \in Closures /\ Captured = closures[Top.closure] /\ vm.frames # <<>> /\ current \in Tasks
      /\ Context(current) = vm /\ Len(vm.frames) \in Nat \ {0} /\ vm \in CtxType
  BY TopFacts, Constants DEF Captured, IInv, Types
<1>2. Top.closure \in Holds(vm)
  <2>1. Len(vm.frames) \in DOMAIN vm.frames
    BY <1>1, CtxFields
  <2>2. QED
    BY <2>1 DEF Holds, Top
<1>3. Top.closure \in Usable
  BY <1>1, <1>2, UsableFacts DEF Heap
<1>4. Captured \in Usable
  BY <1>1, <1>3, UsableFacts DEF Closed, Refers, Heap
<1>5. Captured \notin Closures
  BY Constants
<1>6. Captured \in Allocated
  BY <1>4, <1>5 DEF NothingUsableFreed, Allocated
<1>7. store[Captured] \in Heap => store[Captured] \in Usable
  BY <1>4, <1>5, UsableFacts DEF Closed, Refers
<1>8. QED
  BY <1>4, <1>6, <1>7

-----------------------------------------------------------------------------
(* What contexts hold.                                                     *)

LEMMA HoldsOf ==
  ASSUME NEW ctx, NEW S,
         \A i \in DOMAIN ctx.stack : ctx.stack[i].val \in Heap => ctx.stack[i].val \in S,
         \A k \in DOMAIN ctx.frames : ctx.frames[k].closure \in Heap => ctx.frames[k].closure \in S
  PROVE  Holds(ctx) \cap Heap \subseteq S
  BY DEF Holds

LEMMA HoldsPushed ==
  ASSUME NEW ctx \in CtxType, NEW v \in Values, NEW S, Holds(ctx) \cap Heap \subseteq S, v \in Heap => v \in S
  PROVE  Holds(Pushed(ctx, v)) \cap Heap \subseteq S
<1>1. PICK new \in CtxType :
        /\ new = Pushed(ctx, v) /\ new.frames = ctx.frames /\ Len(new.stack) = Len(ctx.stack) + 1
        /\ \A i \in 1 .. Len(ctx.stack) : new.stack[i] = ctx.stack[i]
        /\ new.stack[Len(ctx.stack) + 1].val = v
  BY PushedCtx, SlotMade
<1>2. /\ DOMAIN ctx.stack = 1 .. Len(ctx.stack) /\ Len(ctx.stack) \in Nat
      /\ DOMAIN new.stack = 1 .. Len(ctx.stack) + 1
  BY <1>1, CtxFields
<1>3. \A i \in DOMAIN new.stack : new.stack[i].val \in Heap => new.stack[i].val \in S
  BY <1>1, <1>2 DEF Holds
<1>4. \A k \in DOMAIN new.frames : new.frames[k].closure \in Heap => new.frames[k].closure \in S
  BY <1>1 DEF Holds
<1>5. QED
  BY <1>1, <1>3, <1>4, HoldsOf

\* A context with one more frame, or other handlers.
LEMMA HoldsFrames ==
  ASSUME NEW ctx \in CtxType, NEW new \in CtxType, NEW S, new.stack = ctx.stack,
         Holds(ctx) \cap Heap \subseteq S,
         \A k \in DOMAIN new.frames :
           (k \in DOMAIN ctx.frames /\ new.frames[k].closure = ctx.frames[k].closure) \/ new.frames[k].closure \in S
  PROVE  Holds(new) \cap Heap \subseteq S
<1>1. \A i \in DOMAIN new.stack : new.stack[i].val \in Heap => new.stack[i].val \in S
  BY DEF Holds
<1>2. \A k \in DOMAIN new.frames : new.frames[k].closure \in Heap => new.frames[k].closure \in S
  BY DEF Holds
<1>3. QED
  BY <1>1, <1>2, HoldsOf

LEMMA HoldsFramePushed ==
  ASSUME NEW ctx \in CtxType, NEW new \in CtxType, NEW fr \in FrameType, NEW S, new.stack = ctx.stack,
         new.frames = Append(ctx.frames, fr), Holds(ctx) \cap Heap \subseteq S, fr.closure \in S
  PROVE  Holds(new) \cap Heap \subseteq S
<1>1. ctx.frames \in Seq(FrameType) /\ Len(ctx.frames) \in Nat /\ DOMAIN ctx.frames = 1 .. Len(ctx.frames)
  BY CtxFields
<1>2. DOMAIN new.frames = 1 .. Len(ctx.frames) + 1 /\ new.frames[Len(ctx.frames) + 1] = fr
      /\ \A k \in 1 .. Len(ctx.frames) : new.frames[k] = ctx.frames[k]
  BY <1>1
<1>3. \A k \in DOMAIN new.frames :
        (k \in DOMAIN ctx.frames /\ new.frames[k].closure = ctx.frames[k].closure) \/ new.frames[k].closure \in S
  BY <1>1, <1>2
<1>4. QED
  BY <1>3, HoldsFrames

LEMMA HoldsCut ==
  ASSUME IInv, NEW n \in 0 .. Len(vm.stack), NEW k \in 0 .. Len(vm.frames), NEW S, Holds(vm) \cap Heap \subseteq S
  PROVE  Holds(Cut(n, k)) \cap Heap \subseteq S
<1>1. vm \in CtxType /\ Types
  BY DEF IInv, Types
<1>2. PICK cut \in CtxType :
        /\ cut = Cut(n, k)
        /\ Len(cut.stack) = n /\ \A i \in 1 .. n : cut.stack[i] = vm.stack[i]
        /\ Len(cut.frames) = k /\ \A i \in 1 .. k : cut.frames[i] = vm.frames[i]
  BY <1>1, CutCtx
<1>3. /\ DOMAIN cut.stack = 1 .. n /\ DOMAIN cut.frames = 1 .. k
      /\ 1 .. n \subseteq DOMAIN vm.stack /\ 1 .. k \subseteq DOMAIN vm.frames
  BY <1>1, <1>2, CtxFields
<1>4. \A i \in DOMAIN cut.stack : cut.stack[i].val \in Heap => cut.stack[i].val \in S
  BY <1>2, <1>3 DEF Holds
<1>5. \A i \in DOMAIN cut.frames : cut.frames[i].closure \in Heap => cut.frames[i].closure \in S
  BY <1>2, <1>3 DEF Holds
<1>6. QED
  BY <1>2, <1>4, <1>5, HoldsOf

-----------------------------------------------------------------------------
(* What the steps of the running task have in common.                      *)

\* The other tasks' variables stay as they are unless the step touches them.
LEMMA TrackedKeeps ==
  ASSUME IInv, MInv, UNCHANGED <<current, saved>>,
         Tracks(vm', current, upvalues', store'),
         \A t \in Tasks \ {current} : \A u \in Context(t).open : upvalues'[u] = upvalues[u] /\ store'[u] = store[u]
  PROVE  Tracked'
<1>1. ASSUME NEW t \in Tasks
      PROVE  Tracks(Context(t)', t, upvalues', store')
  <2>1. CASE t = current
    BY <2>1 DEF Context
  <2>2. CASE t # current
    <3>1. PICK ctx : ctx = Context(t) /\ ctx = Context(t)'
      BY <2>2 DEF Context
    <3>2. Tracks(ctx, t, upvalues, store)
      BY <3>1 DEF MInv, Tracked
    <3>3. \A u \in ctx.open : upvalues'[u] = upvalues[u] /\ store'[u] = store[u]
      BY <2>2, <3>1
    <3>4. Tracks(ctx, t, upvalues', store')
      BY <3>2, <3>3, TracksSame
    <3>5. QED
      BY <3>1, <3>4
  <2>3. QED
    BY <2>1, <2>2
<1>2. QED
  BY <1>1 DEF Tracked

LEMMA FinishedKeeps ==
  ASSUME IInv, MInv, Running, UNCHANGED <<current, saved, state, result>>
  PROVE  Finished'
<1>1. \A t \in Tasks : state[t] = "done" => t # current
  BY DEF Running
<1>2. QED
  BY <1>1 DEF MInv, Finished, Context

LEMMA FinishedEnds ==
  ASSUME IInv, MInv, UNCHANGED <<current, saved>>, vm'.open = {},
         NEW v, Ends(v), current = Zero => v \in {0, None}
  PROVE  Finished'
<1>1. /\ state' = [state EXCEPT ![current] = "done"] /\ result' = [result EXCEPT ![current] = v]
      /\ state \in [Tasks -> {"none", "ready", "running", "waiting", "done"}]
      /\ result \in [Tasks -> Values \cup {Pending, None}] /\ Zero \in Tasks /\ current \in Tasks
  BY Constants DEF Ends, IInv, Types
<1>2. \A t \in Tasks : t # current => state'[t] = state[t] /\ Context(t)' = Context(t)
  BY <1>1 DEF Context
<1>3. Context(current)'.open = {}
  BY DEF Context
<1>4. \A t \in Tasks : state'[t] = "done" => Context(t)'.open = {}
  BY <1>2, <1>3 DEF MInv, Finished
<1>5. result'[Zero] \in {Pending, 0, None}
  BY <1>1 DEF MInv, Finished
<1>6. QED
  BY <1>4, <1>5 DEF Finished

LEMMA FreedKeeps ==
  ASSUME NothingUsableFreed, Usable' \subseteq Usable, Allocated \subseteq Allocated',
         \A c \in Closures : closures[c] # None => closures'[c] # None
  PROVE  NothingUsableFreed'
<1>1. Usable \subseteq Heap
  BY UsableFacts
<1>2. QED
  BY <1>1 DEF NothingUsableFreed, Allocated, Heap

\* A step that changes no variable and no object.
LEMMA PlainStep ==
  ASSUME IInv, MInv, Running, UNCHANGED <<current, saved, state, upvalues, store, closures, result>>,
         Tracks(vm', current, upvalues, store), vm'.open = vm.open,
         Holds(vm') \cap Heap \subseteq Usable, Temps' \cap Heap \subseteq Usable
  PROVE  MInv'
<1>1. Tracked'
  BY TrackedKeeps
<1>2. Variables'
  <2>1. \A t \in Tasks : Context(t)'.open = Context(t).open
    BY DEF Context
  <2>2. \A u \in Allocated : upvalues[u].task \in Tasks
    BY UpvalueFields DEF IInv
  <2>3. QED
    BY <2>1, <2>2 DEF MInv, Variables, Allocated
<1>3. Finished'
  BY FinishedKeeps
<1>4. NothingUsableFreed'
  <2>1. \A t \in Tasks : Holds(Context(t)') \cap Heap \subseteq Usable
    <3>1. ASSUME NEW t \in Tasks PROVE Holds(Context(t)') \cap Heap \subseteq Usable
      <4>1. Context(t)' = IF t = current THEN vm' ELSE Context(t)
        BY DEF Context
      <4>2. QED
        BY <4>1, UsableFacts
    <3>2. QED
      BY <3>1
  <2>2. Usable' \subseteq Usable
    BY <2>1, UsableFacts, UsableStays
  <2>3. QED
    BY <2>2, FreedKeeps DEF MInv, Allocated
<1>5. QED
  BY <1>1, <1>2, <1>3, <1>4 DEF MInv

-----------------------------------------------------------------------------
(* The steps.                                                              *)

LEMMA RunnerFacts ==
  ASSUME IInv, MInv, Running
  PROVE  /\ vm \in CtxType /\ Context(current) = vm /\ current \in Tasks /\ Types
         /\ Tracks(vm, current, upvalues, store)
         /\ Holds(vm) \cap Heap \subseteq Usable /\ Temps \cap Heap \subseteq Usable
         /\ vm.open \subseteq Allocated /\ NothingUsableFreed /\ Tracked
<1>1. vm \in CtxType /\ Context(current) = vm /\ current \in Tasks /\ Types
  BY DEF IInv, Types, Context
<1>2. QED
  BY <1>1, UsableFacts DEF IInv, Listed, MInv, Tracked

LEMMA HeapPush ==
  ASSUME IInv, MInv, Running, UNCHANGED <<current, saved, state, temps, upvalues, store, closures, result>>,
         NEW v \in Values, v \in Heap => v \in Usable, vm' = Pushed(vm, v)
  PROVE  MInv'
<1>1. Tracks(vm', current, upvalues, store) /\ vm'.open = vm.open
  BY RunnerFacts, TracksPushed, PushedCtx
<1>2. Holds(vm') \cap Heap \subseteq Usable
  BY RunnerFacts, HoldsPushed
<1>3. Temps' \cap Heap \subseteq Usable
  BY RunnerFacts DEF Temps
<1>4. QED
  BY <1>1, <1>2, <1>3, PlainStep

LEMMA HeapPushes ==
  ASSUME IInv, MInv, Running, Declare \/ ReadCaptured \/ (\E t \in Tasks : TakeResult(t))
  PROVE  MInv'
<1>1. CASE Declare
  <2>1. 0 \in Values /\ 0 \notin Heap
    BY Constants, TasksAssumption
  <2>2. QED
    BY <1>1, <2>1, HeapPush DEF Declare
<1>2. CASE ReadCaptured
  <2>1. Captured \in Upvalues
    BY <1>2 DEF ReadCaptured
  <2>2. Captured \in Allocated /\ (store[Captured] \in Heap => store[Captured] \in Usable)
    BY <2>1, RunnerFacts, UsableCaptured
  <2>3. PICK v \in Values : v = Get(Captured) /\ v = store[Captured]
    BY <2>1, <2>2, RunnerFacts, GetTyped, GetShows
  <2>4. vm' = Pushed(vm, v)
    BY <1>2, <2>3 DEF ReadCaptured
  <2>5. QED
    BY <1>2, <2>2, <2>3, <2>4, HeapPush DEF ReadCaptured
<1>3. ASSUME NEW t \in Tasks, TakeResult(t)
      PROVE  MInv'
  <2>1. PICK v \in Values : v = result[t]
    BY <1>3, Constants DEF TakeResult
  <2>2. v \in Heap => v \in Usable
    BY <2>1, UsableFacts
  <2>3. vm' = Pushed(vm, v)
    BY <1>3, <2>1 DEF TakeResult
  <2>4. QED
    BY <1>3, <2>2, <2>3, HeapPush DEF TakeResult
<1>4. QED
  BY <1>1, <1>2, <1>3

LEMMA HeapTry ==
  ASSUME IInv, MInv, Running, Try \/ EndTry
  PROVE  MInv'
<1>1. vm \in CtxType /\ vm.frames # <<>> /\ Top.handlers \in Seq(Nat) /\ Len(vm.stack) \in Nat
      /\ Top = vm.frames[Len(vm.frames)]
  BY TopFacts DEF Top
<1>2. PICK hs \in Seq(Nat) : vm' = [vm EXCEPT !.frames[Len(vm.frames)].handlers = hs]
  <2>1. CASE Try
    <3>1. vm' = [vm EXCEPT !.frames[Len(vm.frames)].handlers = Append(Top.handlers, Len(vm.stack))]
      BY <1>1, <2>1 DEF Try
    <3>2. Append(Top.handlers, Len(vm.stack)) \in Seq(Nat)
      BY <1>1
    <3>3. QED
      BY <3>1, <3>2
  <2>2. CASE EndTry
    <3>1. vm' = [vm EXCEPT !.frames[Len(vm.frames)].handlers = SubSeq(Top.handlers, 1, Len(Top.handlers) - 1)]
      BY <1>1, <2>2 DEF EndTry
    <3>2. SubSeq(Top.handlers, 1, Len(Top.handlers) - 1) \in Seq(Nat)
      BY <1>1
    <3>3. QED
      BY <3>1, <3>2
  <2>3. QED
    BY <2>1, <2>2
<1>3. UNCHANGED <<current, saved, state, reentry, temps, closures, upvalues, result, store>>
  BY DEF Try, EndTry
<1>4. /\ vm' \in CtxType /\ vm'.stack = vm.stack /\ vm'.open = vm.open /\ Len(vm'.frames) = Len(vm.frames)
      /\ \A j \in 1 .. Len(vm.frames) : vm'.frames[j].closure = vm.frames[j].closure
  BY <1>1, <1>2, HandlersExcept
<1>5. Tracks(vm', current, upvalues, store)
  BY <1>4, RunnerFacts, TracksSame
<1>6. DOMAIN vm'.frames = DOMAIN vm.frames /\ DOMAIN vm.frames = 1 .. Len(vm.frames)
  BY <1>1, <1>4, CtxFields
<1>7. Holds(vm') \cap Heap \subseteq Usable
  BY <1>1, <1>4, <1>6, RunnerFacts, HoldsFrames
<1>8. Temps' \cap Heap \subseteq Usable
  BY <1>3, RunnerFacts DEF Temps
<1>9. QED
  BY <1>3, <1>4, <1>5, <1>7, <1>8, PlainStep

LEMMA HeapCalls ==
  ASSUME IInv, MInv, Running, NEW i \in Locals, Call(i) \/ \E j \in Locals : CallNative(i, j)
  PROVE  MInv'
<1>1. vm \in CtxType /\ Shape(vm) /\ vm.frames # <<>> /\ Len(vm.stack) \in Nat
  BY TopFacts
<1>2. ASSUME NEW j \in Locals, IsClosure(j)
      PROVE  vm.stack[j].val \in Usable
  <2>1. j \in DOMAIN Context(current).stack /\ vm.stack[j].val \in Closures
    BY <1>1, <1>2, ClosureSlot, CtxFields, RunnerFacts
  <2>2. QED
    BY <2>1, RunnerFacts, UsableSlot DEF Heap
<1>3. PICK c \in Closures, n \in 0 .. 2 :
        c \in Usable /\ vm' = [vm EXCEPT !.frames = Append(@, Frame(c, Len(vm.stack), n))]
  <2>1. 0 \in 0 .. 2 /\ 1 \in 0 .. 2
    OBVIOUS
  <2>2. vm.stack[i].val \in Closures /\ vm.stack[i].val \in Usable
    BY <1>2, ClosureSlot DEF Call, CallNative
  <2>3. QED
    BY <2>1, <2>2 DEF Call, CallNative
<1>4. PICK fr \in FrameType : fr = Frame(c, Len(vm.stack), n) /\ fr.closure = c
  BY <1>1, FrameMade
<1>5. /\ vm' \in CtxType /\ vm'.stack = vm.stack /\ vm'.open = vm.open
      /\ vm'.frames = Append(vm.frames, fr)
  BY <1>1, <1>3, <1>4, FramePushed
<1>6. Tracks(vm', current, upvalues, store)
  BY <1>5, RunnerFacts, TracksSame
<1>7. Holds(vm') \cap Heap \subseteq Usable
  <2>1. PICK ctx, new, S :
          /\ ctx \in CtxType /\ new \in CtxType
          /\ S = Usable /\ ctx = vm /\ new = vm' /\ new.stack = ctx.stack
          /\ new.frames = Append(ctx.frames, fr) /\ Holds(ctx) \cap Heap \subseteq S /\ fr.closure \in S
    BY <1>1, <1>3, <1>4, <1>5, RunnerFacts
  <2>2. Holds(new) \cap Heap \subseteq S
    BY <2>1, HoldsFramePushed
  <2>3. QED
    BY <2>1, <2>2
<1>8. Temps' \cap Heap \subseteq Usable
  <2>1. CASE Call(i)
    BY <2>1, RunnerFacts DEF Call, Temps
  <2>2. ASSUME NEW j \in Locals, CallNative(i, j)
        PROVE  Temps' \cap Heap \subseteq Usable
    <3>1. PICK d \in Closures \X Closures : temps' = Append(temps, d) /\ d[1] \in Usable /\ d[2] \in Usable
      BY <1>2, <2>2, ClosureSlot DEF CallNative
    <3>2. temps \in Seq(Closures \X Closures)
      BY DEF IInv, Types
    <3>3. /\ DOMAIN temps = 1 .. Len(temps) /\ DOMAIN temps' = 1 .. Len(temps) + 1 /\ Len(temps) \in Nat
          /\ temps'[Len(temps) + 1] = d /\ \A k \in 1 .. Len(temps) : temps'[k] = temps[k]
      BY <3>1, <3>2
    <3>4. \A k \in DOMAIN temps' : temps'[k] = d \/ (k \in DOMAIN temps /\ temps'[k] = temps[k])
      BY <3>3
    <3>5. QED
      BY <3>1, <3>4, RunnerFacts DEF Temps
  <2>3. QED
    BY <2>1, <2>2
<1>9. QED
  BY <1>5, <1>6, <1>7, <1>8, PlainStep DEF Call, CallNative

\* Writing slot i of a stack, and the variable it is with it.
Written(s, i, v) ==
  /\ i \in 1 .. Len(Context(s).stack)
  /\ Context(s)' = [Context(s) EXCEPT !.stack[i].val = v]
  /\ \A t \in Tasks \ {s} : Context(t)' = Context(t)
  /\ \A u \in Upvalues : (u = Context(s).stack[i].var => store'[u] = v)
                         /\ (u # Context(s).stack[i].var => store'[u] = store[u])

LEMMA SlotWritten ==
  ASSUME IInv, MInv, NEW s \in Tasks, NEW i, NEW v \in Values, v \in Heap => v \in Usable,
         Written(s, i, v), UNCHANGED <<upvalues, closures, temps, result>>
  PROVE  Tracked' /\ Variables' /\ NothingUsableFreed'
<1>a. PICK ctx \in CtxType : ctx = Context(s)
  BY ContextTypes DEF IInv
<1>b. /\ i \in 1 .. Len(ctx.stack)
      /\ Context(s)' = [ctx EXCEPT !.stack[i].val = v]
      /\ \A t \in Tasks \ {s} : Context(t)' = Context(t)
      /\ \A u \in Upvalues : (u = ctx.stack[i].var => store'[u] = v)
                             /\ (u # ctx.stack[i].var => store'[u] = store[u])
  BY <1>a DEF Written
<1>c. PICK j0 \in 1 .. Len(ctx.stack) : j0 = i
  BY <1>b
<1>1. Types /\ Tracked /\ Tracks(ctx, s, upvalues, store) /\ ctx.open \subseteq Upvalues
  BY <1>a, CtxFields DEF IInv, MInv, Tracked
<1>0. PICK new : new = [ctx EXCEPT !.stack[j0].val = v]
  OBVIOUS
<1>2. /\ new \in CtxType
      /\ new.frames = ctx.frames /\ new.open = ctx.open
      /\ Len(new.stack) = Len(ctx.stack)
      /\ new.stack[j0].val = v /\ new.stack[j0].var = ctx.stack[j0].var
      /\ \A j \in 1 .. Len(ctx.stack) : j # j0 => new.stack[j] = ctx.stack[j]
  BY <1>0, ValueExcept
<1>3. Context(s)' = new
  BY <1>0, <1>b, <1>c
<1>4. PICK x : /\ x = ctx.stack[j0].var /\ x \in Upvalues \cup {None}
               /\ \A u \in Upvalues : (u = x => store'[u] = v) /\ (u # x => store'[u] = store[u])
  BY <1>b, <1>c, CtxFields
<1>5. /\ DOMAIN ctx.stack = 1 .. Len(ctx.stack) /\ DOMAIN new.stack = 1 .. Len(ctx.stack) /\ None \notin Upvalues
  BY <1>2, CtxFields, Constants
<1>6. \A j \in 1 .. Len(ctx.stack) : j # j0 /\ ctx.stack[j].var # None => ctx.stack[j].var # x
  BY <1>1, <1>4, <1>5 DEF Tracks
<1>7. x # None => x \in ctx.open /\ x \in Upvalues /\ upvalues[x].task = s /\ ~ upvalues[x].closed
  BY <1>1, <1>4, <1>5 DEF Tracks
<1>8. \A u \in Upvalues : u # x => store'[u] = store[u]
  BY <1>4
<1>9. Tracks(new, s, upvalues, store')
  <2>1. \A u \in new.open :
          /\ ~ upvalues[u].closed /\ upvalues[u].task = s
          /\ upvalues[u].slot \in DOMAIN new.stack /\ new.stack[upvalues[u].slot].var = u
    BY <1>1, <1>2, <1>5 DEF Tracks
  <2>2. ASSUME NEW j \in DOMAIN new.stack, new.stack[j].var # None
        PROVE  /\ new.stack[j].var \in new.open
               /\ upvalues[new.stack[j].var].slot = j
               /\ new.stack[j].val = store'[new.stack[j].var]
    <3>1. CASE j = j0
      <4>1. x \in new.open /\ upvalues[x].slot = j0 /\ store'[x] = v
        BY <1>1, <1>2, <1>4, <1>5, <1>7, <2>2, <3>1 DEF Tracks
      <4>2. QED
        BY <1>2, <1>4, <3>1, <4>1
    <3>2. CASE j # j0
      <4>1. PICK y : y = ctx.stack[j].var /\ new.stack[j] = ctx.stack[j] /\ y # None /\ y # x
        BY <1>2, <1>5, <1>6, <2>2, <3>2
      <4>2. y \in ctx.open /\ upvalues[y].slot = j /\ ctx.stack[j].val = store[y]
        BY <1>1, <1>5, <4>1 DEF Tracks
      <4>3. store'[y] = store[y]
        BY <1>1, <1>8, <4>1, <4>2
      <4>4. QED
        BY <1>2, <4>1, <4>2, <4>3
    <3>3. QED
      BY <3>1, <3>2
  <2>3. QED
    BY <2>1, <2>2 DEF Tracks
<1>10. Tracked'
  <2>1. ASSUME NEW t \in Tasks
        PROVE  Tracks(Context(t)', t, upvalues', store')
    <3>1. CASE t = s
      BY <1>3, <1>9, <3>1
    <3>2. CASE t # s
      <4>1. PICK other : other = Context(t) /\ Context(t)' = other
        BY <1>b, <3>2
      <4>2. Tracks(other, t, upvalues, store) /\ other.open \subseteq Upvalues
        BY <1>1, <4>1, ContextTypes, CtxFields DEF Tracked
      <4>3. \A u \in other.open : upvalues[u].task = t
        BY <4>2 DEF Tracks
      <4>4. \A u \in other.open : store'[u] = store[u]
        BY <1>5, <1>7, <1>8, <3>2, <4>2, <4>3
      <4>5. Tracks(other, t, upvalues, store')
        BY <4>2, <4>4, TracksSame
      <4>6. QED
        BY <4>1, <4>5
    <3>3. QED
      BY <3>1, <3>2
  <2>2. QED
    BY <2>1 DEF Tracked
<1>11. Variables'
  <2>1. \A t \in Tasks : Context(t)'.open = Context(t).open
    BY <1>a, <1>b, <1>2, <1>3
  <2>2. \A u \in Allocated : u \in Upvalues /\ upvalues[u].task \in Tasks
    BY <1>1, UpvalueFields
  <2>3. \A u \in Allocated : upvalues[u].closed => store'[u] = store[u]
    BY <1>5, <1>7, <1>8, <2>2
  <2>4. QED
    BY <2>1, <2>2, <2>3 DEF MInv, Variables, Allocated
<1>12. NothingUsableFreed'
  <2>1. Holds(new) \cap Heap \subseteq Usable
    <3>1. Holds(ctx) \cap Heap \subseteq Usable
      BY <1>a, UsableFacts
    <3>2. \A j \in DOMAIN new.stack : new.stack[j].val \in Heap => new.stack[j].val \in Usable
      BY <1>2, <1>5, <3>1 DEF Holds
    <3>3. \A j \in DOMAIN new.frames : new.frames[j].closure \in Heap => new.frames[j].closure \in Usable
      BY <1>2, <3>1 DEF Holds
    <3>4. QED
      BY <3>2, <3>3, HoldsOf
  <2>2. \A t \in Tasks : Holds(Context(t)') \cap Heap \subseteq Usable
    <3>1. ASSUME NEW t \in Tasks PROVE Holds(Context(t)') \cap Heap \subseteq Usable
      <4>1. Context(t)' = IF t = s THEN new ELSE Context(t)
        BY <1>b, <1>3
      <4>2. QED
        BY <2>1, <4>1, UsableFacts
    <3>2. QED
      BY <3>1
  <2>3. Temps' \cap Heap \subseteq Usable
    BY UsableFacts DEF Temps
  <2>4. \A u \in Upvalues : store'[u] = store[u] \/ store'[u] \notin Heap \/ store'[u] \in Usable
    BY <1>4
  <2>5. Usable' \subseteq Usable
    BY <2>2, <2>3, <2>4, UsableFacts, UsableStays
  <2>6. QED
    BY <2>5, FreedKeeps DEF MInv, Allocated
<1>13. QED
  BY <1>10, <1>11, <1>12

\* The value of an expression is usable.
LEMMA UsableExpression ==
  ASSUME IInv, MInv, Running, NEW v \in Expressible
  PROVE  v \in Values /\ (v \in Heap => v \in Usable)
<1>1. v \in Values /\ (v \in Heap => \E i \in 1 .. Len(vm.stack) : v = vm.stack[i].val)
  BY ExpressibleTyped
<1>2. ASSUME v \in Heap PROVE v \in Usable
  <2>1. PICK i \in 1 .. Len(vm.stack) : v = vm.stack[i].val
    BY <1>1, <1>2
  <2>2. i \in DOMAIN Context(current).stack /\ Context(current) = vm /\ current \in Tasks
    BY RunnerFacts, CtxFields
  <2>3. QED
    BY <1>2, <2>1, <2>2, UsableSlot
<1>3. QED
  BY <1>1, <1>2

LEMMA HeapAssign ==
  ASSUME IInv, MInv, Running, NEW v \in Expressible, NEW i \in Locals, Assign(i, v)
  PROVE  MInv'
<1>1. PICK s \in Tasks : s = current /\ Context(s) = vm
  BY RunnerFacts
<1>2. i \in 1 .. Len(vm.stack) /\ v \in Values /\ (v \in Heap => v \in Usable)
  BY TopFacts, UsableExpression
<1>3. Context(s)' = [vm EXCEPT !.stack[i].val = v] /\ \A t \in Tasks \ {s} : Context(t)' = Context(t)
  BY <1>1 DEF Assign, Context
<1>4. \A u \in Upvalues : (u = vm.stack[i].var => store'[u] = v) /\ (u # vm.stack[i].var => store'[u] = store[u])
  BY DEF Assign
<1>5. Written(s, i, v) /\ UNCHANGED <<upvalues, closures, temps, result>>
  BY <1>1, <1>2, <1>3, <1>4 DEF Assign, Written
<1>6. Tracked' /\ Variables' /\ NothingUsableFreed'
  BY <1>2, <1>5, SlotWritten
<1>7. Finished'
  BY FinishedKeeps DEF Assign
<1>8. QED
  BY <1>6, <1>7 DEF MInv

LEMMA HeapAssignCaptured ==
  ASSUME IInv, MInv, Running, NEW v \in Expressible, AssignCaptured(v)
  PROVE  MInv'
<1>1. v \in Values /\ (v \in Heap => v \in Usable) /\ Types /\ current \in Tasks
  BY UsableExpression, RunnerFacts
<1>2. PICK u \in Allocated : u = Captured /\ u \in Upvalues /\ upvalues[u].var = u /\ Readable(u)
  BY GetShows DEF AssignCaptured, Allocated
<1>3. PICK s \in Tasks, i \in {upvalues[u].slot} : s = upvalues[u].task /\ i = upvalues[u].slot
  BY <1>1, UpvalueFields
<1>4. UNCHANGED <<current, state, reentry, temps, closures, result>>
      /\ store' = [store EXCEPT ![u] = v]
  BY <1>2 DEF AssignCaptured
<1>5. \A w \in Upvalues : store'[w] = IF w = u THEN v ELSE store[w]
  BY <1>1, <1>2, <1>4 DEF Types
<1>6. \A t \in Tasks : state[t] = "done" => t # current
  BY DEF Running
<1>7. CASE /\ upvalues[u].closed
           /\ upvalues' = [upvalues EXCEPT ![u].value = v]
           /\ UNCHANGED <<vm, saved>>
  <2>1. \A t \in Tasks : Context(t)' = Context(t)
    BY <1>4, <1>7 DEF Context
  <2>2. \A w \in Upvalues : w # u => upvalues'[w] = upvalues[w]
    BY <1>1, <1>2, <1>7 DEF Types
  <2>3. upvalues[u] \in UpvalueType
    BY <1>1, UpvalueFields
  <2>4. upvalues'[u] = [upvalues[u] EXCEPT !.value = v]
    BY <1>1, <1>2, <1>7 DEF Types
  <2>5. upvalues'[u].value = v /\ upvalues'[u].var = upvalues[u].var /\ upvalues'[u].closed /\ upvalues'[u] # None
    <3>1. PICK new : new = [upvalues[u] EXCEPT !.value = v]
      OBVIOUS
    <3>2. new \in UpvalueType /\ new.value = v /\ new.var = upvalues[u].var /\ new.closed = upvalues[u].closed
      BY <1>1, <2>3, <3>1 DEF UpvalueType
    <3>3. QED
      BY <1>7, <2>4, <3>1, <3>2, Constants
  <2>6. Tracked'
    <3>1. ASSUME NEW t \in Tasks
          PROVE  Tracks(Context(t)', t, upvalues', store')
      <4>1. PICK ctx : ctx = Context(t) /\ Context(t)' = ctx
        BY <2>1
      <4>2. Tracks(ctx, t, upvalues, store) /\ ctx.open \subseteq Upvalues
        BY <1>1, <4>1, ContextTypes, CtxFields DEF MInv, Tracked
      <4>3. u \notin ctx.open
        BY <1>7, <4>2 DEF Tracks
      <4>4. \A w \in ctx.open : upvalues'[w] = upvalues[w] /\ store'[w] = store[w]
        BY <1>5, <2>2, <4>2, <4>3
      <4>5. Tracks(ctx, t, upvalues', store')
        BY <4>2, <4>4, TracksSame
      <4>6. QED
        BY <4>1, <4>5
    <3>2. QED
      BY <3>1 DEF Tracked
  <2>7. Allocated' = Allocated
    BY <1>2, <2>2, <2>5 DEF Allocated
  <2>8. Variables'
    <3>1. ASSUME NEW w \in Allocated
          PROVE  /\ upvalues'[w].var = w
                 /\ upvalues'[w].closed => upvalues'[w].value = store'[w]
                 /\ ~ upvalues'[w].closed => w \in Context(upvalues[w].task).open /\ upvalues'[w] = upvalues[w]
      BY <1>2, <1>5, <2>2, <2>5 DEF MInv, Variables, Allocated
    <3>2. \A w \in Allocated : upvalues[w].task \in Tasks
      BY <1>1, UpvalueFields
    <3>3. QED
      BY <2>1, <2>7, <3>1, <3>2 DEF Variables
  <2>9. NothingUsableFreed'
    <3>1. \A t \in Tasks : Holds(Context(t)') \cap Heap \subseteq Usable
      BY <2>1, UsableFacts DEF Holds
    <3>2. Temps' \cap Heap \subseteq Usable
      BY <1>4, UsableFacts DEF Temps
    <3>3. \A w \in Upvalues : store'[w] = store[w] \/ store'[w] \notin Heap \/ store'[w] \in Usable
      BY <1>1, <1>5
    <3>4. Usable' \subseteq Usable
      BY <1>4, <3>1, <3>2, <3>3, UsableFacts, UsableStays
    <3>5. QED
      BY <1>4, <2>7, <3>4, FreedKeeps DEF MInv
  <2>10. Finished'
    BY <1>4, <1>7, FinishedKeeps
  <2>11. QED
    BY <2>6, <2>8, <2>9, <2>10 DEF MInv
<1>8. CASE ~ upvalues[u].closed
  <2>1. PICK ctx \in CtxType : ctx = Context(s) /\ LiveStack(s) = ctx.stack
    BY <1>1, ContextTypes
  <2>2. i \in 1 .. Len(ctx.stack) /\ ctx.stack[i].var = u /\ u \in ctx.open
    <3>1. Tracks(ctx, s, upvalues, store) /\ u \in ctx.open
      BY <1>3, <1>8, <2>1 DEF MInv, Tracked, Variables
    <3>2. QED
      BY <1>3, <2>1, <3>1, CtxFields DEF Tracks
  <2>3. /\ Context(s)' = [ctx EXCEPT !.stack[i].val = v] /\ UNCHANGED upvalues
        /\ \A t \in Tasks \ {s} : Context(t)' = Context(t)
    <3>1. CASE s = current
      <4>1. vm' = [vm EXCEPT !.stack[i].val = v] /\ UNCHANGED <<saved, upvalues>>
        BY <1>2, <1>3, <1>8, <3>1 DEF AssignCaptured, Set
      <4>2. QED
        BY <1>4, <2>1, <3>1, <4>1 DEF Context
    <3>2. CASE s # current
      <4>1. saved' = [saved EXCEPT ![s].stack[i].val = v] /\ UNCHANGED <<vm, upvalues>>
        BY <1>2, <1>3, <1>8, <3>2 DEF AssignCaptured, Set
      <4>2. ctx = saved[s] /\ saved \in [Tasks -> CtxType]
        BY <1>1, <2>1, <3>2 DEF Context, Types
      <4>3. saved' = [saved EXCEPT ![s] = [ctx EXCEPT !.stack[i].val = v]]
        BY <4>1, <4>2
      <4>4. saved'[s] = [ctx EXCEPT !.stack[i].val = v] /\ \A t \in Tasks \ {s} : saved'[t] = saved[t]
        BY <4>2, <4>3
      <4>5. QED
        BY <1>4, <3>2, <4>1, <4>4 DEF Context
    <3>3. QED
      BY <3>1, <3>2
  <2>4. \A w \in Upvalues : (w = ctx.stack[i].var => store'[w] = v) /\ (w # ctx.stack[i].var => store'[w] = store[w])
    BY <1>5, <2>2
  <2>5. Written(s, i, v) /\ UNCHANGED <<upvalues, closures, temps, result>>
    BY <1>4, <2>1, <2>2, <2>3, <2>4 DEF Written
  <2>6. Tracked' /\ Variables' /\ NothingUsableFreed'
    BY <1>1, <2>5, SlotWritten
  <2>7. Finished'
    <3>1. \A t \in Tasks : Context(t)'.open = Context(t).open
      <4>1. Context(s)'.open = ctx.open
        BY <1>1, <2>2, <2>3, ValueExcept
      <4>2. QED
        BY <2>1, <2>3, <4>1
    <3>2. QED
      BY <1>4, <3>1 DEF MInv, Finished
  <2>8. QED
    BY <2>6, <2>7 DEF MInv
<1>9. Set(u, v)
  BY <1>2 DEF AssignCaptured
<1>10. QED
  BY <1>7, <1>8, <1>9 DEF Set

\* New objects do no harm: what they refer to is usable.
LEMMA FreedGrows ==
  ASSUME NothingUsableFreed, NEW extra \in SUBSET Heap, Usable' \subseteq Usable \cup extra,
         Allocated \subseteq Allocated', \A c \in Closures : closures[c] # None => closures'[c] # None,
         \A x \in extra : (x \in Closures => closures'[x] # None) /\ (x \notin Closures => x \in Allocated')
  PROVE  NothingUsableFreed'
<1>1. Usable \subseteq Heap
  BY UsableFacts
<1>2. QED
  BY <1>1 DEF NothingUsableFreed, Allocated, Heap

\* A closure is made: of an upvalue u that is allocated and shows what is usable.
LEMMA ClosureMade ==
  ASSUME IInv, MInv, Running, NEW c \in Closures, closures[c] = None, NEW u \in Upvalues, u \in Allocated',
         closures' = [closures EXCEPT ![c] = u], UNCHANGED <<current, saved, temps, result>>,
         Holds(vm') \cap Heap \subseteq Usable \cup {c},
         Allocated \subseteq Allocated', \A w \in Upvalues \ {u} : store'[w] = store[w],
         store'[u] \in Heap => store'[u] \in Usable
  PROVE  NothingUsableFreed'
<1>1. PICK extra \in SUBSET Heap : extra = {c, u}
  BY DEF Heap
<1>2. closures'[c] = u /\ \A d \in Closures \ {c} : closures'[d] = closures[d]
  BY DEF IInv, Types
<1>3. \A t \in Tasks : Holds(Context(t)') \cap Heap \subseteq Usable \cup extra
  <2>1. ASSUME NEW t \in Tasks PROVE Holds(Context(t)') \cap Heap \subseteq Usable \cup extra
    <3>1. Context(t)' = IF t = current THEN vm' ELSE Context(t)
      BY DEF Context
    <3>2. QED
      BY <1>1, <3>1, UsableFacts
  <2>2. QED
    BY <2>1
<1>4. Temps' \cap Heap \subseteq Usable \cup extra
  BY UsableFacts DEF Temps
<1>5. \A t \in Tasks : result'[t] \in Heap => result'[t] \in Usable \cup extra
  BY UsableFacts
<1>6. \A d \in Closures : d \in Usable \cup extra /\ closures'[d] \in Heap => closures'[d] \in Usable \cup extra
  BY <1>1, <1>2, UsableReads, Constants
<1>7. \A w \in Upvalues : w \in Usable \cup extra /\ store'[w] \in Heap => store'[w] \in Usable \cup extra
  BY <1>1, UsableReads, Constants
<1>8. Usable' \subseteq Usable \cup extra
  BY <1>3, <1>4, <1>5, <1>6, <1>7, UsableStep
<1>9. \A x \in extra : (x \in Closures => closures'[x] # None) /\ (x \notin Closures => x \in Allocated')
  BY <1>1, <1>2, Constants
<1>10. \A d \in Closures : closures[d] # None => closures'[d] # None
  BY <1>2
<1>11. QED
  BY <1>8, <1>9, <1>10, FreedGrows DEF MInv

LEMMA HeapMakeInner ==
  ASSUME IInv, MInv, Running, NEW c \in Closures, MakeInner(c)
  PROVE  MInv'
<1>1. UNCHANGED <<current, saved, state, reentry, temps, upvalues, result, store>> /\ vm' = Pushed(vm, c)
      /\ closures' = [closures EXCEPT ![c] = Captured] /\ closures[c] = None
  BY DEF MakeInner, Unused, IInv, Types
<1>2. PICK u \in Upvalues : u = Captured /\ u \in Allocated /\ (store[u] \in Heap => store[u] \in Usable)
  BY RunnerFacts, UsableCaptured DEF MakeInner
<1>3. PICK x \in Values, ctx \in CtxType : x = c /\ ctx = vm
  BY RunnerFacts, Constants
<1>4. Tracks(vm', current, upvalues, store) /\ vm'.open = vm.open
  BY <1>1, <1>3, RunnerFacts, TracksPushed, PushedCtx
<1>5. Holds(vm') \cap Heap \subseteq Usable \cup {c}
  <2>1. PICK S : S = Usable \cup {c}
    OBVIOUS
  <2>2. Holds(ctx) \cap Heap \subseteq S /\ x \in S
    BY <1>3, <2>1, RunnerFacts
  <2>3. Holds(Pushed(ctx, x)) \cap Heap \subseteq S
    BY <2>2, HoldsPushed
  <2>4. QED
    BY <1>1, <1>3, <2>1, <2>3
<1>6. NothingUsableFreed'
  <2>1. u \in Allocated' /\ Allocated \subseteq Allocated' /\ (\A w \in Upvalues \ {u} : store'[w] = store[w])
        /\ (store'[u] \in Heap => store'[u] \in Usable) /\ closures' = [closures EXCEPT ![c] = u]
    BY <1>1, <1>2 DEF Allocated
  <2>2. QED
    BY <1>1, <1>5, <2>1, ClosureMade
<1>7. Tracked'
  BY <1>1, <1>4, TrackedKeeps
<1>8. Variables'
  <2>1. \A t \in Tasks : Context(t)'.open = Context(t).open
    BY <1>1, <1>4 DEF Context
  <2>2. \A w \in Allocated : upvalues[w].task \in Tasks
    BY UpvalueFields DEF IInv
  <2>3. QED
    BY <1>1, <2>1, <2>2 DEF MInv, Variables, Allocated
<1>9. Finished'
  BY <1>1, FinishedKeeps
<1>10. QED
  BY <1>6, <1>7, <1>8, <1>9 DEF MInv

LEMMA HeapMakeClosure ==
  ASSUME IInv, MInv, Running, NEW c \in Closures, NEW i \in Locals, MakeClosure(i, c)
  PROVE  MInv'
<1>1. UNCHANGED <<current, saved, state, reentry, temps, result>> /\ closures[c] = None
  BY DEF MakeClosure, Unused, IInv, Types
<1>2. i \in 1 .. Len(vm.stack) /\ vm \in CtxType /\ DOMAIN vm.stack = 1 .. Len(vm.stack)
  BY TopFacts, CtxFields
<1>3. vm.stack[i].val \in Values /\ (vm.stack[i].val \in Heap => vm.stack[i].val \in Usable)
  <2>1. i \in DOMAIN Context(current).stack
    BY <1>2, RunnerFacts
  <2>2. QED
    BY <1>2, <2>1, RunnerFacts, UsableSlot, CtxFields
<1>4. PICK x \in Values : x = c
  BY Constants
<1>5. ASSUME NEW ctx \in CtxType, NEW S, Holds(ctx) \cap Heap \subseteq Usable
      PROVE  Holds(Pushed(ctx, x)) \cap Heap \subseteq Usable \cup {c}
  <2>1. PICK T : T = Usable \cup {c}
    OBVIOUS
  <2>2. Holds(ctx) \cap Heap \subseteq T /\ x \in T
    BY <1>4, <1>5, <2>1
  <2>3. Holds(Pushed(ctx, x)) \cap Heap \subseteq T
    BY <2>2, HoldsPushed
  <2>4. QED
    BY <2>1, <2>3
<1>6. Finished'
  BY <1>1, FinishedKeeps
<1>7. ASSUME NEW u \in Capturing(i), closures' = [closures EXCEPT ![c] = u], vm' = Pushed(vm, c),
             UNCHANGED <<upvalues, store>>
      PROVE  MInv'
  <2>1. u \in vm.open /\ u \in Upvalues /\ u \in Allocated /\ upvalues[u].slot = i
    BY <1>7, RunnerFacts DEF Capturing, Allocated
  <2>2. vm.stack[i].var = u /\ store[u] = vm.stack[i].val
    BY <1>2, <2>1, RunnerFacts, Constants DEF Tracks
  <2>3. Tracks(vm', current, upvalues, store) /\ vm'.open = vm.open
    BY <1>4, <1>7, RunnerFacts, TracksPushed, PushedCtx
  <2>4. Holds(vm') \cap Heap \subseteq Usable \cup {c}
    BY <1>4, <1>5, <1>7, RunnerFacts
  <2>5. NothingUsableFreed'
    <3>1. u \in Allocated' /\ Allocated \subseteq Allocated' /\ (\A w \in Upvalues \ {u} : store'[w] = store[w])
          /\ (store'[u] \in Heap => store'[u] \in Usable)
      BY <1>3, <1>7, <2>1, <2>2 DEF Allocated
    <3>2. QED
      BY <1>1, <1>7, <2>1, <2>4, <3>1, ClosureMade
  <2>6. Tracked'
    BY <1>1, <1>7, <2>3, TrackedKeeps
  <2>7. Variables'
    <3>1. \A t \in Tasks : Context(t)'.open = Context(t).open
      BY <1>1, <2>3 DEF Context
    <3>2. \A w \in Allocated : upvalues[w].task \in Tasks
      BY UpvalueFields DEF IInv
    <3>3. QED
      BY <1>7, <3>1, <3>2 DEF MInv, Variables, Allocated
  <2>8. QED
    BY <1>6, <2>5, <2>6, <2>7 DEF MInv
<1>8. ASSUME Capturing(i) = {}, NEW u \in Unused(upvalues), NEW var,
             var = IF vm.stack[i].var = None THEN u ELSE vm.stack[i].var,
             closures' = [closures EXCEPT ![c] = u],
             upvalues' = [upvalues EXCEPT ![u] = [task |-> current, slot |-> i, closed |-> FALSE,
                                                  value |-> 0, var |-> var]],
             vm' = Pushed([vm EXCEPT !.open = @ \cup {u}, !.stack[i].var = var], c),
             store' = [store EXCEPT ![var] = vm.stack[i].val]
      PROVE  MInv'
  <2>1. u \in Upvalues /\ upvalues[u] = None /\ u \notin Allocated
    BY DEF Unused, Allocated, IInv, Types
  <2>2. vm.stack[i].var = None /\ var = u
    <3>1. ASSUME vm.stack[i].var # None PROVE FALSE
      <4>1. vm.stack[i].var \in Capturing(i)
        BY <1>2, <3>1, RunnerFacts DEF Tracks, Capturing
      <4>2. QED
        BY <1>8, <4>1
    <3>2. QED
      BY <1>8, <3>1
  <2>3. PICK new, ctx, ups, st :
          /\ new = [task |-> current, slot |-> i, closed |-> FALSE, value |-> 0, var |-> u]
          /\ ctx = [[vm EXCEPT !.open = vm.open \cup {u}] EXCEPT !.stack[i].var = u]
          /\ ups = upvalues' /\ st = store'
    OBVIOUS
  <2>4. /\ new # None /\ new.task = current /\ new.slot = i /\ ~ new.closed /\ new.var = u
    <3>1. new \in UpvalueType
      BY <1>2, <2>1, <2>3, RunnerFacts, Constants DEF UpvalueType
    <3>2. QED
      BY <2>3, <3>1, Constants
  <2>5. ups[u] = new /\ \A w \in Upvalues \ {u} : ups[w] = upvalues[w]
    BY <1>8, <2>1, <2>2, <2>3 DEF IInv, Types
  <2>6. st[u] = vm.stack[i].val /\ \A w \in Upvalues \ {u} : st[w] = store[w]
    BY <1>8, <2>1, <2>2, <2>3 DEF IInv, Types
  <2>7. /\ ctx \in CtxType /\ ctx.frames = vm.frames /\ ctx.open = vm.open \cup {u}
        /\ Len(ctx.stack) = Len(vm.stack)
        /\ ctx.stack[i].val = vm.stack[i].val /\ ctx.stack[i].var = u
        /\ \A j \in 1 .. Len(vm.stack) : j # i => ctx.stack[j] = vm.stack[j]
    <3>1. PICK us \in SUBSET Upvalues : us = vm.open \cup {u}
      BY <1>2, <2>1, CtxFields
    <3>2. PICK opened : opened = [vm EXCEPT !.open = us]
      OBVIOUS
    <3>3. opened \in CtxType /\ opened.open = us /\ opened.stack = vm.stack /\ opened.frames = vm.frames
      BY <1>2, <3>2, OpenExcept
    <3>4. PICK j \in 1 .. Len(opened.stack) : j = i
      BY <1>2, <3>3
    <3>5. ctx = [opened EXCEPT !.stack[j].var = u]
      BY <2>3, <3>1, <3>2, <3>4
    <3>6. /\ ctx \in CtxType /\ ctx.frames = opened.frames /\ ctx.open = opened.open
          /\ Len(ctx.stack) = Len(opened.stack)
          /\ ctx.stack[j].val = opened.stack[j].val /\ ctx.stack[j].var = u
          /\ \A m \in 1 .. Len(opened.stack) : m # j => ctx.stack[m] = opened.stack[m]
      BY <2>1, <3>3, <3>5, VariableExcept
    <3>7. QED
      BY <3>1, <3>3, <3>4, <3>6
  <2>8. vm' = Pushed(ctx, x)
    BY <1>4, <1>8, <2>2, <2>3
  <2>9. DOMAIN ctx.stack = 1 .. Len(vm.stack)
    BY <2>7, CtxFields
  <2>10. Tracks(ctx, current, ups, st)
    <3>1. ASSUME NEW w \in ctx.open
          PROVE  /\ ~ ups[w].closed /\ ups[w].task = current
                 /\ ups[w].slot \in DOMAIN ctx.stack /\ ctx.stack[ups[w].slot].var = w
      <4>1. CASE w = u
        BY <1>2, <2>4, <2>5, <2>7, <2>9, <4>1
      <4>2. CASE w # u
        <5>1. w \in vm.open /\ w \in Upvalues /\ ups[w] = upvalues[w]
          BY <2>5, <2>7, <4>2, RunnerFacts DEF Allocated
        <5>2. upvalues[w].slot # i
          BY <1>8, <5>1 DEF Capturing
        <5>3. QED
          BY <1>2, <2>7, <2>9, <5>1, <5>2, RunnerFacts DEF Tracks
      <4>3. QED
        BY <4>1, <4>2
    <3>2. ASSUME NEW j \in DOMAIN ctx.stack, ctx.stack[j].var # None
          PROVE  /\ ctx.stack[j].var \in ctx.open
                 /\ ups[ctx.stack[j].var].slot = j
                 /\ ctx.stack[j].val = st[ctx.stack[j].var]
      <4>1. CASE j = i
        BY <2>4, <2>5, <2>6, <2>7, <4>1
      <4>2. CASE j # i
        <5>1. PICK y : y = vm.stack[j].var /\ y # None /\ ctx.stack[j] = vm.stack[j]
          BY <2>7, <2>9, <3>2, <4>2
        <5>2. y \in vm.open /\ upvalues[y].slot = j /\ vm.stack[j].val = store[y]
          BY <1>2, <2>9, <5>1, RunnerFacts DEF Tracks
        <5>3. y \in Upvalues /\ y # u
          BY <2>1, <5>2, RunnerFacts DEF Allocated
        <5>4. QED
          BY <2>5, <2>6, <2>7, <5>1, <5>2, <5>3
      <4>3. QED
        BY <4>1, <4>2
    <3>3. QED
      BY <3>1, <3>2 DEF Tracks
  <2>11. Tracks(vm', current, upvalues', store') /\ vm'.open = vm.open \cup {u}
    BY <2>3, <2>7, <2>8, <2>10, TracksPushed, PushedCtx
  <2>12. Allocated' = Allocated \cup {u}
    BY <2>1, <2>3, <2>4, <2>5 DEF Allocated
  <2>13. Tracked'
    <3>1. \A t \in Tasks \ {current} : \A w \in Context(t).open : upvalues'[w] = upvalues[w] /\ store'[w] = store[w]
      <4>1. \A t \in Tasks : Context(t).open \subseteq Allocated
        BY DEF IInv, Listed
      <4>2. QED
        BY <2>1, <2>3, <2>5, <2>6, <4>1 DEF Allocated
    <3>2. QED
      BY <1>1, <2>11, <3>1, TrackedKeeps
  <2>14. Variables'
    <3>1. \A t \in Tasks : Context(t).open \subseteq Context(t)'.open
      BY <1>1, <2>11 DEF Context
    <3>2. (\A t \in Tasks : t = current => u \in Context(t)'.open) /\ current \in Tasks
      BY <1>1, <2>11, RunnerFacts DEF Context
    <3>3. ASSUME NEW w \in Allocated'
          PROVE  /\ upvalues'[w].var = w
                 /\ upvalues'[w].closed => upvalues'[w].value = store'[w]
                 /\ \E t \in Tasks : t = upvalues'[w].task /\ (~ upvalues'[w].closed => w \in Context(t)'.open)
      <4>1. CASE w = u
        <5>1. PICK t \in Tasks : t = current
          BY <3>2
        <5>2. u \in Context(t)'.open
          BY <3>2, <5>1
        <5>3. QED
          BY <2>3, <2>4, <2>5, <4>1, <5>1, <5>2
      <4>2. CASE w # u
        <5>1. w \in Allocated /\ upvalues'[w] = upvalues[w] /\ store'[w] = store[w] /\ upvalues[w].task \in Tasks
          BY <2>3, <2>5, <2>6, <2>12, <4>2, UpvalueFields DEF Allocated, IInv
        <5>2. PICK t \in Tasks : t = upvalues[w].task /\ (~ upvalues[w].closed => w \in Context(t).open)
          BY <5>1 DEF MInv, Variables
        <5>3. ~ upvalues[w].closed => w \in Context(t)'.open
          BY <3>1, <5>2
        <5>4. QED
          BY <5>1, <5>2, <5>3 DEF MInv, Variables
      <4>3. QED
        BY <4>1, <4>2
    <3>4. QED
      BY <3>3 DEF Variables
  <2>15. Holds(ctx) \cap Heap \subseteq Usable
    <3>1. \A j \in DOMAIN ctx.stack : ctx.stack[j].val \in Heap => ctx.stack[j].val \in Usable
      BY <1>2, <1>3, <2>7, <2>9, RunnerFacts DEF Holds
    <3>2. \A k \in DOMAIN ctx.frames : ctx.frames[k].closure \in Heap => ctx.frames[k].closure \in Usable
      BY <2>7, RunnerFacts DEF Holds
    <3>3. QED
      BY <3>1, <3>2, HoldsOf
  <2>16. Holds(vm') \cap Heap \subseteq Usable \cup {c}
    BY <1>5, <2>7, <2>8, <2>15
  <2>17. NothingUsableFreed'
    <3>1. u \in Allocated' /\ Allocated \subseteq Allocated' /\ (\A w \in Upvalues \ {u} : store'[w] = store[w])
          /\ (store'[u] \in Heap => store'[u] \in Usable)
      BY <1>3, <2>3, <2>6, <2>12
    <3>2. QED
      BY <1>1, <1>8, <2>1, <2>16, <3>1, ClosureMade
  <2>18. QED
    BY <1>6, <2>13, <2>14, <2>17 DEF MInv
<1>9. QED
  BY <1>7, <1>8 DEF MakeClosure

-----------------------------------------------------------------------------
(* Cutting the running stack back.                                         *)

\* What a step does that closes the upvalues from slot i on, whatever else it
\* pushes: each takes its variable's value with it.
LEMMA HeapCut ==
  ASSUME IInv, MInv, Running, UNCHANGED <<current, saved, closures, store>>,
         NEW i, upvalues' = Close(ClosedFrom(i)), vm'.open = vm.open \ ClosedFrom(i),
         Tracks(vm', current, upvalues', store),
         Holds(vm') \cap Heap \subseteq Usable, Temps' \cap Heap \subseteq Usable,
         \A t \in Tasks : result'[t] \in Heap => result'[t] \in Usable
  PROVE  Tracked' /\ Variables' /\ NothingUsableFreed'
<1>1. Types /\ current \in Tasks /\ Context(current) = vm
  BY RunnerFacts
<1>2. PICK us \in SUBSET Allocated : us = ClosedFrom(i) /\ us \subseteq vm.open
  BY CloseKeeps DEF ClosedFrom
<1>3. Allocated' = Allocated
  BY CloseKeeps
<1>4. /\ \A u \in Upvalues \ us : upvalues'[u] = upvalues[u]
      /\ \A u \in us : upvalues'[u].closed /\ upvalues'[u].value = Get(u) /\ upvalues'[u].var = upvalues[u].var
  BY <1>1, <1>2, CloseFields
<1>5. \A u \in us : upvalues'[u].closed /\ upvalues'[u].value = store[u] /\ upvalues'[u].var = u
  BY <1>2, <1>4, GetShows
<1>6. Tracked'
  <2>1. ASSUME NEW t \in Tasks \ {current}, NEW u \in Context(t).open
        PROVE  upvalues'[u] = upvalues[u] /\ store'[u] = store[u]
    <3>1. upvalues[u].task = t /\ u \in Allocated
      BY <2>1, OpenApart DEF MInv, IInv, Listed
    <3>2. \A w \in vm.open : upvalues[w].task = current
      BY <1>1, OpenApart DEF MInv
    <3>3. u \notin us
      BY <1>2, <2>1, <3>1, <3>2
    <3>4. QED
      BY <1>4, <3>1, <3>3 DEF Allocated
  <2>2. QED
    BY <2>1, TrackedKeeps
<1>7. Variables'
  <2>1. \A t \in Tasks : Context(t).open \ us \subseteq Context(t)'.open
    BY <1>2 DEF Context
  <2>2. ASSUME NEW w \in Allocated
        PROVE  /\ upvalues'[w].var = w
               /\ upvalues'[w].closed => upvalues'[w].value = store[w]
               /\ \/ upvalues'[w].closed
                  \/ \E t \in Tasks : t = upvalues'[w].task /\ w \in Context(t)'.open
    <3>1. CASE w \in us
      BY <1>5, <3>1
    <3>2. CASE w \notin us
      <4>1. upvalues'[w] = upvalues[w] /\ upvalues[w].task \in Tasks
        BY <1>1, <1>4, <3>2, UpvalueFields DEF Allocated
      <4>2. PICK t \in Tasks : t = upvalues[w].task /\ (~ upvalues[w].closed => w \in Context(t).open)
        BY <4>1 DEF MInv, Variables
      <4>3. ~ upvalues[w].closed => w \in Context(t)'.open
        BY <2>1, <3>2, <4>2
      <4>4. QED
        BY <4>1, <4>2, <4>3 DEF MInv, Variables
    <3>3. QED
      BY <3>1, <3>2
  <2>3. QED
    BY <1>3, <2>2 DEF Variables
<1>8. NothingUsableFreed'
  <2>1. \A t \in Tasks : Holds(Context(t)') \cap Heap \subseteq Usable
    <3>1. ASSUME NEW t \in Tasks PROVE Holds(Context(t)') \cap Heap \subseteq Usable
      <4>1. Context(t)' = IF t = current THEN vm' ELSE Context(t)
        BY DEF Context
      <4>2. QED
        BY <4>1, UsableFacts
    <3>2. QED
      BY <3>1
  <2>2. Usable' \subseteq Usable
    BY <2>1, UsableStays
  <2>3. QED
    BY <1>3, <2>2, FreedKeeps DEF MInv
<1>9. QED
  BY <1>6, <1>7, <1>8

LEMMA TempsCut ==
  ASSUME IInv, NEW m \in Nat, m <= Len(temps), temps' = SubSeq(temps, 1, m)
  PROVE  Temps' \cap Heap \subseteq Usable
<1>1. temps \in Seq(Closures \X Closures)
  BY DEF IInv, Types
<1>2. DOMAIN temps = 1 .. Len(temps) /\ Len(temps) \in Nat
      /\ DOMAIN temps' = 1 .. m /\ \A j \in 1 .. m : temps'[j] = temps[j]
  BY <1>1
<1>3. \A j \in DOMAIN temps' : j \in DOMAIN temps /\ temps'[j] = temps[j]
  BY <1>2
<1>4. Temps' \subseteq Temps
  BY <1>3 DEF Temps
<1>5. QED
  BY <1>4, UsableFacts

\* The running context cut back to n slots and k frames, whatever is pushed next.
LEMMA CutFacts ==
  ASSUME IInv, MInv, Running, NEW n \in 0 .. Len(vm.stack), NEW k \in 0 .. Len(vm.frames)
  PROVE  /\ Cut(n, k) \in CtxType
         /\ Cut(n, k).open = vm.open \ ClosedFrom(n + 1)
         /\ Tracks(Cut(n, k), current, Close(ClosedFrom(n + 1)), store)
         /\ Holds(Cut(n, k)) \cap Heap \subseteq Usable
  BY RunnerFacts, CutCtx, TracksCut, HoldsCut

LEMMA HeapEndLocal ==
  ASSUME IInv, MInv, Running, EndLocal
  PROVE  MInv'
<1>1. PICK n \in 0 .. Len(vm.stack), k \in 0 .. Len(vm.frames) :
        vm' = Cut(n, k) /\ upvalues' = Close(ClosedFrom(n + 1))
  <2>1. Len(vm.stack) \in Nat /\ Len(vm.frames) \in Nat /\ Depth \in 0 .. Len(vm.stack) /\ Depth < Len(vm.stack)
    BY TopFacts, DepthFacts DEF EndLocal
  <2>2. Len(vm.stack) - 1 \in 0 .. Len(vm.stack) /\ (Len(vm.stack) - 1) + 1 = Len(vm.stack)
    BY <2>1
  <2>3. Len(vm.frames) \in 0 .. Len(vm.frames)
    BY <2>1
  <2>4. QED
    BY <2>2, <2>3 DEF EndLocal
<1>2. UNCHANGED <<current, saved, state, reentry, temps, closures, result, store>>
  BY DEF EndLocal
<1>3. PICK i : i = n + 1
  OBVIOUS
<1>4. vm'.open = vm.open \ ClosedFrom(i) /\ upvalues' = Close(ClosedFrom(i))
      /\ Tracks(vm', current, upvalues', store) /\ Holds(vm') \cap Heap \subseteq Usable
  BY <1>1, <1>3, CutFacts
<1>5. Temps' \cap Heap \subseteq Usable
  BY <1>2, UsableFacts DEF Temps
<1>6. Tracked' /\ Variables' /\ NothingUsableFreed'
  BY <1>2, <1>4, <1>5, UsableFacts, HeapCut
<1>7. Finished'
  BY <1>2, FinishedKeeps
<1>8. QED
  BY <1>6, <1>7 DEF MInv

\* A task that ends closes all it has open.
LEMMA AllClosed ==
  ASSUME IInv, MInv, Running
  PROVE  ClosedFrom(0 + 1) = vm.open
<1>1. \A u \in vm.open : upvalues[u].slot \in 1 .. Len(vm.stack) /\ Len(vm.stack) \in Nat
  BY RunnerFacts, CtxFields DEF Tracks
<1>2. \A u \in vm.open : upvalues[u].slot >= 0 + 1
  BY <1>1
<1>3. QED
  BY <1>2 DEF ClosedFrom

LEMMA ReturnedHeap ==
  ASSUME IInv, MInv, Running
  PROVE  /\ Returned \in CtxType /\ Returned.open = vm.open \ ClosedFrom(Top.base + 1)
         /\ Tracks(Returned, current, Close(ClosedFrom(Top.base + 1)), store)
         /\ Holds(Returned) \cap Heap \subseteq Usable
         /\ Len(vm.frames) = 1 => Returned.open = {}
<1>1. Top.base \in 0 .. Len(vm.stack) /\ Len(vm.frames) - 1 \in 0 .. Len(vm.frames) /\ Len(vm.frames) \in Nat \ {0}
  BY TopFacts
<1>2. PICK n \in 0 .. Len(vm.stack), k \in 0 .. Len(vm.frames) :
        n = Top.base /\ k = Len(vm.frames) - 1 /\ Returned = Cut(n, k)
  BY <1>1 DEF Returned
<1>3. /\ Returned \in CtxType /\ Returned.open = vm.open \ ClosedFrom(Top.base + 1)
      /\ Tracks(Returned, current, Close(ClosedFrom(Top.base + 1)), store)
      /\ Holds(Returned) \cap Heap \subseteq Usable
  BY <1>2, CutFacts
<1>4. Len(vm.frames) = 1 => Top.base = 0
  BY TopFacts DEF Top, Shape
<1>5. Len(vm.frames) = 1 => Returned.open = {}
  BY <1>3, <1>4, AllClosed
<1>6. QED
  BY <1>3, <1>5

LEMMA HeapReturn ==
  ASSUME IInv, MInv, Running, NEW v \in Expressible, Return(v)
  PROVE  MInv'
<1>1. v \in Values /\ (v \in Heap => v \in Usable)
  BY UsableExpression
<1>2. UNCHANGED <<current, saved, closures, store>>
  BY DEF Return
<1>i. PICK i : i = Top.base + 1
  OBVIOUS
<1>3. PICK ctx \in CtxType :
        /\ ctx = Returned
        /\ ctx.open = vm.open \ ClosedFrom(i) /\ upvalues' = Close(ClosedFrom(i))
        /\ Tracks(ctx, current, upvalues', store) /\ Holds(ctx) \cap Heap \subseteq Usable
        /\ Len(vm.frames) = 1 => ctx.open = {}
  BY <1>i, ReturnedHeap DEF Return
<1>4. CASE /\ Len(vm.frames) = 1
           /\ vm' = Returned
           /\ Ends(IF current = Zero THEN 0 ELSE v)
           /\ UNCHANGED temps
  <2>1. PICK w \in Values : /\ w = (IF current = Zero THEN 0 ELSE v) /\ Ends(w)
                            /\ w \in Heap => w \in Usable
                            /\ current = Zero => w = 0
    <3>1. 0 \in Values /\ 0 \notin Heap
      BY Constants, TasksAssumption
    <3>2. QED
      BY <1>1, <1>4, <3>1
  <2>2. \A t \in Tasks : result'[t] \in Heap => result'[t] \in Usable
    BY <2>1, UsableFacts DEF Ends, IInv, Types
  <2>3. Temps' \cap Heap \subseteq Usable
    BY <1>4, UsableFacts DEF Temps
  <2>4. Tracked' /\ Variables' /\ NothingUsableFreed'
    BY <1>2, <1>3, <1>4, <2>2, <2>3, HeapCut
  <2>5. Finished'
    <3>1. vm'.open = {}
      BY <1>3, <1>4
    <3>2. QED
      BY <1>2, <2>1, <3>1, FinishedEnds
  <2>6. QED
    BY <2>4, <2>5 DEF MInv
<1>5. ASSUME vm' = ctx \/ vm' = Pushed(ctx, v), UNCHANGED <<state, result>>, Temps' \cap Heap \subseteq Usable
      PROVE  MInv'
  <2>1. vm'.open = ctx.open /\ Tracks(vm', current, upvalues', store)
    BY <1>1, <1>3, <1>5, PushedCtx, TracksPushed
  <2>2. Holds(vm') \cap Heap \subseteq Usable
    BY <1>1, <1>3, <1>5, HoldsPushed
  <2>3. \A t \in Tasks : result'[t] \in Heap => result'[t] \in Usable
    BY <1>5, UsableFacts
  <2>4. Tracked' /\ Variables' /\ NothingUsableFreed'
    BY <1>2, <1>3, <1>5, <2>1, <2>2, <2>3, HeapCut
  <2>5. Finished'
    BY <1>2, <1>5, FinishedKeeps
  <2>6. QED
    BY <2>4, <2>5 DEF MInv
<1>6. CASE /\ Len(vm.frames) > 1 /\ Top.callback = 0
           /\ vm' = Pushed(Returned, v) \/ vm' = Returned
           /\ UNCHANGED <<state, result, reentry, temps>>
  <2>1. Temps' \cap Heap \subseteq Usable
    BY <1>6, UsableFacts DEF Temps
  <2>2. QED
    BY <1>3, <1>5, <1>6, <2>1
<1>7. /\ Len(temps) = Callbacks(vm.frames) /\ temps \in Seq(Closures \X Closures) /\ Callbacks(vm.frames) \in Nat
      /\ Top.callback # 0 => Len(temps) > 0
  <2>1. Len(temps) = Callbacks(vm.frames) /\ temps \in Seq(Closures \X Closures)
    BY DEF IInv, Types, Control
  <2>2. QED
    BY <2>1, ReturnedFacts
<1>8. CASE /\ Top.callback = 1
           /\ vm' = [Returned EXCEPT !.frames = Append(@, Frame(temps[Len(temps)][2], Top.base, 2))]
           /\ UNCHANGED <<state, result, reentry, temps>>
  <2>1. PICK c \in Closures : c = temps[Len(temps)][2] /\ c \in Temps
    <3>1. Len(temps) \in DOMAIN temps
      BY <1>7, <1>8
    <3>2. temps[Len(temps)] \in Closures \X Closures
      BY <1>7, <3>1
    <3>3. QED
      BY <3>1, <3>2 DEF Temps
  <2>2. c \in Usable
    BY <2>1, UsableFacts DEF Heap
  <2>3. PICK fr \in FrameType : fr = Frame(c, Top.base, 2) /\ fr.closure = c
    <3>1. Top.base \in Nat /\ 2 \in 0 .. 2
      BY TopFacts
    <3>2. QED
      BY <3>1, FrameMade
  <2>4. PICK fs \in Seq(FrameType) : fs = Append(ctx.frames, fr)
    <3>1. ctx.frames \in Seq(FrameType)
      BY CtxFields
    <3>2. Append(ctx.frames, fr) \in Seq(FrameType)
      BY <3>1
    <3>3. QED
      BY <3>2
  <2>5. vm' = [ctx EXCEPT !.frames = fs]
    BY <1>3, <1>8, <2>1, <2>3, <2>4
  <2>6. PICK new \in CtxType : new = vm' /\ new.stack = ctx.stack /\ new.open = ctx.open /\ new.frames = fs
    BY <2>5, FramesExcept
  <2>7. Tracks(vm', current, upvalues', store)
    BY <1>3, <2>6, TracksSame
  <2>8. Holds(vm') \cap Heap \subseteq Usable
    <3>1. PICK S : S = Usable /\ Holds(ctx) \cap Heap \subseteq S /\ fr.closure \in S
      BY <1>3, <2>2, <2>3
    <3>2. Holds(new) \cap Heap \subseteq S
      BY <2>4, <2>6, <3>1, HoldsFramePushed
    <3>3. QED
      BY <2>6, <3>1, <3>2
  <2>9. Temps' \cap Heap \subseteq Usable
    BY <1>8, UsableFacts DEF Temps
  <2>10. \A t \in Tasks : result'[t] \in Heap => result'[t] \in Usable
    BY <1>8, UsableFacts
  <2>11. Tracked' /\ Variables' /\ NothingUsableFreed'
    BY <1>2, <1>3, <2>6, <2>7, <2>8, <2>9, <2>10, HeapCut
  <2>12. Finished'
    BY <1>2, <1>8, FinishedKeeps
  <2>13. QED
    BY <2>11, <2>12 DEF MInv
<1>9. CASE /\ Top.callback = 2
           /\ vm' = Returned
           /\ temps' = SubSeq(temps, 1, Len(temps) - 1)
           /\ UNCHANGED <<state, result>>
  <2>1. PICK m \in Nat : m = Len(temps) - 1 /\ m <= Len(temps)
    BY <1>7, <1>9
  <2>2. Temps' \cap Heap \subseteq Usable
    BY <1>9, <2>1, TempsCut
  <2>3. QED
    BY <1>3, <1>5, <1>9, <2>2
<1>10. QED
  BY <1>4, <1>6, <1>8, <1>9 DEF Return

\* The error goes to frame k, whose last handler cuts the stack back to n slots.
Catches(n, k, gs) ==
  /\ UNCHANGED <<current, saved, closures, store, state, result>>
  /\ upvalues' = Close(ClosedFrom(n + 1))
  /\ vm' = [Pushed(Cut(n, k), 0) EXCEPT !.frames[k].handlers = gs]
  /\ temps' = SubSeq(temps, 1, Len(temps) - Leaves(k))

LEMMA HeapCatches ==
  ASSUME IInv, MInv, Running, NEW n \in 0 .. Len(vm.stack), NEW k \in 1 .. Len(vm.frames), NEW gs \in Seq(Nat),
         Catches(n, k, gs)
  PROVE  MInv'
<1>1. UNCHANGED <<current, saved, closures, store, state, result>>
  BY DEF Catches
<1>3. vm.frames \in Seq(FrameType) /\ Len(vm.frames) \in Nat /\ k \in 0 .. Len(vm.frames) /\ k \in Nat \ {0} /\ Types
  BY TopFacts, CtxFields DEF IInv
<1>4. PICK i : i = n + 1
  OBVIOUS
<1>5. PICK cut \in CtxType :
        /\ cut = Cut(n, k) /\ cut.open = vm.open \ ClosedFrom(i)
        /\ Tracks(cut, current, upvalues', store) /\ Holds(cut) \cap Heap \subseteq Usable
        /\ Len(cut.frames) = k
  BY <1>3, <1>4, CutFacts, CutCtx DEF Catches
<1>6. PICK w \in Values : w = 0 /\ w \notin Heap
  BY Constants, TasksAssumption
<1>7. PICK ctx \in CtxType :
        /\ ctx = Pushed(cut, w) /\ ctx.open = cut.open /\ ctx.frames = cut.frames
        /\ Tracks(ctx, current, upvalues', store) /\ Holds(ctx) \cap Heap \subseteq Usable
  BY <1>5, <1>6, PushedCtx, TracksPushed, HoldsPushed
<1>8. ctx.frames # <<>> /\ Len(ctx.frames) = k
  BY <1>3, <1>5, <1>7
<1>9. vm' = [ctx EXCEPT !.frames[Len(ctx.frames)].handlers = gs]
  BY <1>5, <1>6, <1>7, <1>8 DEF Catches
<1>10. PICK new \in CtxType :
        /\ new = vm' /\ new.stack = ctx.stack /\ new.open = ctx.open /\ Len(new.frames) = Len(ctx.frames)
        /\ \A j \in 1 .. Len(ctx.frames) : new.frames[j].closure = ctx.frames[j].closure
  BY <1>8, <1>9, HandlersExcept
<1>11. Tracks(vm', current, upvalues', store)
  BY <1>7, <1>10, TracksSame
<1>12. Holds(vm') \cap Heap \subseteq Usable
  <2>1. DOMAIN new.frames = DOMAIN ctx.frames /\ DOMAIN ctx.frames = 1 .. Len(ctx.frames)
    BY <1>10, CtxFields
  <2>2. \A j \in DOMAIN new.frames : j \in DOMAIN ctx.frames /\ new.frames[j].closure = ctx.frames[j].closure
    BY <1>10, <2>1
  <2>3. PICK S : S = Usable /\ Holds(ctx) \cap Heap \subseteq S
    BY <1>7
  <2>4. Holds(new) \cap Heap \subseteq S
    BY <1>10, <2>2, <2>3, HoldsFrames
  <2>5. QED
    BY <1>10, <2>3, <2>4
<1>13. Temps' \cap Heap \subseteq Usable
  <2>1. Len(temps) = Callbacks(vm.frames) /\ Callbacks(vm.frames) \in Nat
    BY <1>3, TopFacts, CallbackSets DEF IInv, Control
  <2>2. PICK m \in Nat : m = Callbacks(SubSeq(vm.frames, 1, k)) /\ m <= Callbacks(vm.frames)
    BY <1>3, CallbacksCut
  <2>3. Len(temps) - Leaves(k) = m
    BY <2>1, <2>2 DEF Leaves
  <2>4. temps' = SubSeq(temps, 1, m) /\ m <= Len(temps)
    BY <2>1, <2>2, <2>3 DEF Catches
  <2>5. QED
    BY <2>4, TempsCut
<1>14. upvalues' = Close(ClosedFrom(i)) /\ vm'.open = vm.open \ ClosedFrom(i)
  BY <1>4, <1>5, <1>7, <1>10 DEF Catches
<1>15. Tracked' /\ Variables' /\ NothingUsableFreed'
  <2>1. \A t \in Tasks : result'[t] \in Heap => result'[t] \in Usable
    BY <1>1, UsableFacts
  <2>2. QED
    BY <1>1, <1>11, <1>12, <1>13, <1>14, <2>1, HeapCut
<1>16. Finished'
  BY <1>1, FinishedKeeps
<1>17. QED
  BY <1>15, <1>16 DEF MInv

LEMMA HeapFail ==
  ASSUME IInv, MInv, Running, Fail
  PROVE  MInv'
<1>1. UNCHANGED <<current, saved, closures, store>>
  BY DEF Fail
<1>2. CASE Catchers # {}
  <2>1. PICK k : k = CHOOSE m \in Catchers : \A j \in Catchers : j <= m
    OBVIOUS
  <2>2. PICK hs, n, gs : hs = vm.frames[k].handlers /\ n = hs[Len(hs)] /\ gs = SubSeq(hs, 1, Len(hs) - 1)
    OBVIOUS
  <2>3. k \in 1 .. Len(vm.frames) /\ n \in 0 .. Len(vm.stack) /\ gs \in Seq(Nat)
    BY <1>2, <2>1, <2>2, CatcherFacts
  <2>4. Catches(n, k, gs)
    BY <1>1, <1>2, <2>1, <2>2 DEF Fail, Catches
  <2>5. QED
    BY <2>3, <2>4, HeapCatches
<1>3. CASE /\ Catchers = {}
           /\ upvalues' = Close(ClosedFrom(1))
           /\ vm' = Cut(0, 0)
           /\ temps' = <<>>
           /\ Ends(None)
  <2>1. PICK n \in 0 .. Len(vm.stack), k \in 0 .. Len(vm.frames) : n = 0 /\ k = 0 /\ n + 1 = 1
    BY TopFacts
  <2>2. PICK i : i = 1 /\ i = n + 1 /\ i = 0 + 1
    BY <2>1
  <2>3. /\ vm'.open = vm.open \ ClosedFrom(i) /\ upvalues' = Close(ClosedFrom(i))
        /\ Tracks(vm', current, upvalues', store) /\ Holds(vm') \cap Heap \subseteq Usable
    <3>1. vm' = Cut(n, k) /\ upvalues' = Close(ClosedFrom(i))
      BY <1>3, <2>1, <2>2
    <3>2. QED
      BY <2>2, <3>1, CutFacts
  <2>4. vm'.open = {}
    BY <2>2, <2>3, AllClosed
  <2>5. Temps' \cap Heap \subseteq Usable
    BY <1>3 DEF Temps
  <2>6. \A t \in Tasks : result'[t] \in Heap => result'[t] \in Usable
    BY <1>3, UsableFacts, TasksAssumption DEF Ends, IInv, Types
  <2>7. Tracked' /\ Variables' /\ NothingUsableFreed'
    BY <1>1, <2>3, <2>5, <2>6, HeapCut
  <2>8. Finished'
    BY <1>1, <1>3, <2>4, FinishedEnds
  <2>9. QED
    BY <2>7, <2>8 DEF MInv
<1>4. QED
  BY <1>2, <1>3 DEF Fail

-----------------------------------------------------------------------------
(* The switch from one task to another.                                    *)

\* Stacks change hands, and the new or the dropped ones have captured nothing.
LEMMA StacksMove ==
  ASSUME IInv, MInv, UNCHANGED <<temps, closures, upvalues, result, store>>,
         \A t \in Tasks : \/ Context(t)' = Context(t)
                          \/ /\ Context(t).open = {} /\ Context(t)'.open = {}
                             /\ Tracks(Context(t)', t, upvalues, store)
                             /\ Holds(Context(t)') \cap Heap \subseteq Usable
  PROVE  Tracked' /\ Variables' /\ NothingUsableFreed'
<1>1. \A t \in Tasks : Context(t)'.open = Context(t).open
  OBVIOUS
<1>2. \A t \in Tasks : Tracks(Context(t)', t, upvalues, store)
  BY DEF MInv, Tracked
<1>3. Tracked'
  BY <1>2 DEF Tracked
<1>4. Variables'
  <2>1. \A w \in Allocated : upvalues[w].task \in Tasks
    BY UpvalueFields DEF IInv
  <2>2. QED
    BY <1>1, <2>1 DEF MInv, Variables, Allocated
<1>5. NothingUsableFreed'
  <2>1. \A t \in Tasks : Holds(Context(t)') \cap Heap \subseteq Usable
    BY UsableFacts
  <2>2. Temps' \cap Heap \subseteq Usable
    BY UsableFacts DEF Temps
  <2>3. Usable' \subseteq Usable
    BY <2>1, <2>2, UsableFacts, UsableStays
  <2>4. QED
    BY <2>3, FreedKeeps DEF MInv, Allocated
<1>6. QED
  BY <1>3, <1>4, <1>5

LEMMA HeapCallAsync ==
  ASSUME IInv, MInv, Running, NEW v \in Expressible, NEW i \in Locals, CallAsync(i, v)
  PROVE  MInv'
<1>1. PICK c \in Closures : c = vm.stack[i].val /\ c \in Usable
  <2>1. i \in DOMAIN Context(current).stack /\ vm.stack[i].val \in Closures
    BY ClosureSlot, CtxFields, RunnerFacts DEF CallAsync
  <2>2. QED
    BY <2>1, RunnerFacts, UsableSlot DEF Heap
<1>2. v \in Values /\ (v \in Heap => v \in Usable)
  BY UsableExpression
<1>3. PICK t \in Tasks : t = Oldest(Waits("none")) /\ state[t] = "none"
  <2>1. Waits("none") \in SUBSET Tasks /\ Waits("none") # {}
    BY DEF CallAsync, Waits
  <2>2. Oldest(Waits("none")) \in Waits("none")
    BY <2>1, OldestIn
  <2>3. QED
    BY <2>2 DEF Waits
<1>4. t # current /\ saved[t] = Blank
  BY <1>3 DEF IInv, Control
<1>e. PICK fr : fr = Frame(c, 0, 0) /\ fr.closure = c
  <2>1. Frame(c, 0, 0).closure = c
    BY DEF Frame
  <2>2. QED
    BY <2>1
<1>5. PICK sl : sl = Slot(v) /\ sl.val = v /\ sl.var = None
  BY <1>2, SlotMade
<1>6. PICK new : new = [stack |-> <<sl>>, frames |-> <<fr>>, open |-> {}]
  OBVIOUS
<1>7. /\ new.open = {} /\ DOMAIN new.stack = {1} /\ new.stack[1] = sl
      /\ DOMAIN new.frames = {1} /\ new.frames[1] = fr
  BY <1>6
<1>8. /\ saved' = [saved EXCEPT ![t] = new] /\ state' = [state EXCEPT ![t] = "ready"]
      /\ UNCHANGED <<current, vm, reentry, temps, closures, upvalues, result, store>>
  BY <1>1, <1>3, <1>e, <1>5, <1>6 DEF CallAsync
<1>9. Context(t) = Blank /\ Context(t)' = new /\ \A s \in Tasks \ {t} : Context(s)' = Context(s) /\ state'[s] = state[s]
  BY <1>3, <1>4, <1>8 DEF Context, IInv, Types
<1>10. Tracks(new, t, upvalues, store)
  BY <1>5, <1>7 DEF Tracks
<1>11. Holds(new) \cap Heap \subseteq Usable
  BY <1>1, <1>2, <1>e, <1>5, <1>7 DEF Holds
<1>12. Blank.open = {}
  BY DEF Blank
<1>13. Tracked' /\ Variables' /\ NothingUsableFreed'
  BY <1>7, <1>8, <1>9, <1>10, <1>11, <1>12, StacksMove
<1>14. Finished'
  <2>1. state'[t] = "ready"
    BY <1>8 DEF IInv, Types
  <2>2. QED
    BY <1>8, <1>9, <2>1 DEF MInv, Finished
<1>15. QED
  BY <1>13, <1>14 DEF MInv

LEMMA HeapSuspend ==
  ASSUME IInv, MInv, Running, Suspend
  PROVE  MInv'
<1>1. UNCHANGED <<current, vm, saved, temps, closures, upvalues, result, store>>
      /\ state' = [state EXCEPT ![current] = "waiting"]
  BY DEF Suspend
<1>2. \A t \in Tasks : Context(t)' = Context(t)
  BY <1>1 DEF Context
<1>3. Tracked' /\ Variables' /\ NothingUsableFreed'
  BY <1>1, <1>2, StacksMove
<1>4. \A t \in Tasks : state'[t] = "done" => state[t] = "done"
  BY <1>1 DEF IInv, Types
<1>5. QED
  BY <1>1, <1>2, <1>3, <1>4 DEF MInv, Finished

LEMMA HeapTurn ==
  ASSUME IInv, MInv, Turn
  PROVE  MInv'
<1>1. PICK to \in Tasks :
         /\ state' = [state EXCEPT ![to] = "running"]
         /\ \A t \in Tasks : Context(t)' = Context(t) \/ (state[t] = "done" /\ Context(t)' = Blank)
  BY TurnContexts
<1>2. UNCHANGED <<temps, closures, upvalues, result, store>>
  BY DEF Turn
<1>3. Blank.open = {} /\ Holds(Blank) \cap Heap \subseteq Usable
  BY DEF Blank, Holds
<1>4. \A t \in Tasks : Tracks(Blank, t, upvalues, store)
  BY TracksBlank
<1>5. \A t \in Tasks : state[t] = "done" => Context(t).open = {}
  BY DEF MInv, Finished
<1>6. Tracked' /\ Variables' /\ NothingUsableFreed'
  BY <1>1, <1>2, <1>3, <1>4, <1>5, StacksMove
<1>7. \A t \in Tasks : state'[t] = "done" => state[t] = "done"
  BY <1>1 DEF IInv, Types
<1>8. Finished'
  BY <1>1, <1>2, <1>3, <1>5, <1>7 DEF MInv, Finished
<1>9. QED
  BY <1>6, <1>8 DEF MInv

LEMMA HeapWake ==
  ASSUME IInv, MInv, Wake
  PROVE  MInv'
<1>1. UNCHANGED <<current, vm, saved, temps, closures, upvalues, result, store>>
      /\ \A t \in Tasks : state'[t] = "done" => state[t] = "done"
  BY DEF Wake
<1>2. \A t \in Tasks : Context(t)' = Context(t)
  BY <1>1 DEF Context
<1>3. Tracked' /\ Variables' /\ NothingUsableFreed'
  BY <1>1, <1>2, StacksMove
<1>4. QED
  BY <1>1, <1>2, <1>3 DEF MInv, Finished

LEMMA HeapStuttering ==
  ASSUME IInv, MInv, UNCHANGED vars
  PROVE  MInv'
<1>1. UNCHANGED <<current, vm, saved, state, temps, closures, upvalues, result, store>>
  BY DEF vars
<1>2. \A t \in Tasks : Context(t)' = Context(t)
  BY <1>1 DEF Context
<1>3. Tracked' /\ Variables' /\ NothingUsableFreed'
  BY <1>1, <1>2, StacksMove
<1>4. QED
  BY <1>1, <1>2, <1>3 DEF MInv, Finished

-----------------------------------------------------------------------------
(* The collector.                                                          *)

\* What the program can still use, the collector reaches: its roots are the
\* program's but for task zero's result, and an upvalue shows its variable.
LEMMA UsableMarked ==
  ASSUME IInv, MInv
  PROVE  /\ Usable \subseteq Marked
         /\ \A t \in Tasks : Context(t).open \cap Heap \subseteq Marked
<1>1. PICK read : read = [u \in Upvalues |-> Get(u)] /\ Marked = Reachable(Roots, read)
  BY DEF Marked
<1>2. Marked \subseteq Heap /\ Roots \cap Heap \subseteq Marked /\ Closed(Marked, read)
  BY <1>1, RootsReached, ReachableClosed
<1>3. /\ Temps \subseteq Roots
      /\ \A t \in Tasks : Holds(Context(t)) \subseteq Roots /\ Context(t).open \subseteq Roots
      /\ \A t \in Tasks \ {Zero} : result[t] \in Roots
  BY DEF Roots, Context
<1>4. result[Zero] \notin Heap
  BY Constants, TasksAssumption DEF MInv, Finished
<1>5. \A t \in Tasks : result[t] \in Heap => result[t] \in Roots
  BY <1>3, <1>4
<1>6. UsableRoots \cap Heap \subseteq Roots
  BY <1>3, <1>5 DEF UsableRoots, Contexts
<1>7. PICK S \in SUBSET Heap : S = Usable \cap Marked
  BY UsableFacts
<1>8. Usable = Reachable(UsableRoots, store)
  BY DEF Usable, UsableRoots
<1>9. UsableRoots \cap Heap \subseteq S
  <2>1. UsableRoots \cap Heap \subseteq Usable
    BY <1>8, RootsReached
  <2>2. QED
    BY <1>2, <1>6, <1>7, <2>1
<1>10. Closed(S, store)
  <2>1. ASSUME NEW x \in S, Refers(x, store) \in Heap
        PROVE  Refers(x, store) \in S
    <3>1. Refers(x, store) \in Usable
      BY <1>7, <2>1, UsableFacts DEF Closed
    <3>2. Refers(x, store) = Refers(x, read)
      <4>1. CASE x \in Closures
        BY <4>1 DEF Refers
      <4>2. CASE x \notin Closures
        <5>1. x \in Allocated
          BY <1>7, <4>2 DEF MInv, NothingUsableFreed, Allocated, Heap
        <5>2. Get(x) = store[x] /\ x \in Upvalues
          BY <5>1, GetShows DEF Allocated
        <5>3. QED
          BY <1>1, <4>2, <5>2 DEF Refers
      <4>3. QED
        BY <4>1, <4>2
    <3>3. Refers(x, store) \in Marked
      BY <1>2, <1>7, <2>1, <3>2 DEF Closed
    <3>4. QED
      BY <1>7, <3>1, <3>3
  <2>2. QED
    BY <2>1 DEF Closed
<1>11. Usable \subseteq S
  BY <1>8, <1>9, <1>10, ReachableLeast
<1>12. QED
  BY <1>2, <1>3, <1>7, <1>11

LEMMA HeapCollect ==
  ASSUME IInv, MInv, Collect
  PROVE  MInv'
<1>1. PICK marked, live :
         /\ marked = Marked
         /\ live = {upvalues[u].var : u \in {u \in marked \cap Upvalues : upvalues[u] # None}}
         /\ closures' = [c \in Closures |-> IF c \in marked THEN closures[c] ELSE None]
         /\ upvalues' = [u \in Upvalues |-> IF u \in marked THEN upvalues[u] ELSE None]
         /\ store' = [u \in Upvalues |-> IF u \in live THEN store[u] ELSE None]
  BY DEF Collect
<1>2. UNCHANGED <<current, vm, saved, state, reentry, temps, result>>
  BY DEF Collect
<1>3. \A t \in Tasks : Context(t)' = Context(t)
  BY <1>2 DEF Context
<1>4. \A u \in Allocated : u \in marked => upvalues'[u] = upvalues[u] /\ store'[u] = store[u]
  <2>1. ASSUME NEW u \in Allocated, u \in marked PROVE upvalues'[u] = upvalues[u] /\ store'[u] = store[u]
    <3>1. u \in Upvalues /\ upvalues[u] # None /\ upvalues[u].var = u
      BY DEF Allocated, MInv, Variables
    <3>2. u \in live
      BY <1>1, <2>1, <3>1
    <3>3. QED
      BY <1>1, <2>1, <3>1, <3>2
  <2>2. QED
    BY <2>1
<1>5. \A t \in Tasks : \A u \in Context(t).open : u \in Allocated /\ u \in marked
  BY <1>1, UsableMarked DEF IInv, Listed, Allocated, Heap
<1>6. Tracked'
  <2>1. ASSUME NEW t \in Tasks
        PROVE  Tracks(Context(t)', t, upvalues', store')
    <3>1. PICK ctx : ctx = Context(t) /\ Context(t)' = ctx
      BY <1>3
    <3>2. Tracks(ctx, t, upvalues, store)
      BY <3>1 DEF MInv, Tracked
    <3>3. \A u \in ctx.open : upvalues'[u] = upvalues[u] /\ store'[u] = store[u]
      BY <1>4, <1>5, <3>1
    <3>4. Tracks(ctx, t, upvalues', store')
      BY <3>2, <3>3, TracksSame
    <3>5. QED
      BY <3>1, <3>4
  <2>2. QED
    BY <2>1 DEF Tracked
<1>7. \A u \in Allocated' : u \in Allocated /\ u \in marked
  BY <1>1 DEF Allocated
<1>8. Variables'
  <2>1. \A u \in Allocated : upvalues[u].task \in Tasks
    BY UpvalueFields DEF IInv
  <2>2. QED
    BY <1>3, <1>4, <1>7, <2>1 DEF MInv, Variables
<1>9. Finished'
  BY <1>2, <1>3 DEF MInv, Finished
<1>10. Usable' \subseteq Usable
  <2>1. PICK extra \in SUBSET Heap : extra = {}
    OBVIOUS
  <2>2. \A t \in Tasks : Holds(Context(t)') \cap Heap \subseteq Usable \cup extra
    BY <1>3, UsableFacts
  <2>3. Temps' \cap Heap \subseteq Usable \cup extra
    BY <1>2, UsableFacts DEF Temps
  <2>4. \A t \in Tasks : result'[t] \in Heap => result'[t] \in Usable \cup extra
    BY <1>2, UsableFacts
  <2>5. \A c \in Closures : c \in Usable \cup extra /\ closures'[c] \in Heap => closures'[c] \in Usable \cup extra
    BY <1>1, <2>1, UsableReads, Constants
  <2>6. \A u \in Upvalues : u \in Usable \cup extra /\ store'[u] \in Heap => store'[u] \in Usable \cup extra
    BY <1>1, <2>1, UsableReads, Constants
  <2>7. Usable' \subseteq Usable \cup extra
    BY <2>2, <2>3, <2>4, <2>5, <2>6, UsableStep
  <2>8. QED
    BY <2>1, <2>7
<1>11. NothingUsableFreed'
  <2>1. ASSUME NEW x \in Usable'
        PROVE  /\ x \in Closures => closures'[x] # None
               /\ x \notin Closures => upvalues'[x] # None
    <3>1. x \in Usable /\ x \in marked /\ x \in Heap
      BY <1>1, <1>10, UsableMarked, UsableFacts
    <3>2. CASE x \in Closures
      BY <1>1, <3>1, <3>2 DEF MInv, NothingUsableFreed
    <3>3. CASE x \notin Closures
      BY <1>1, <3>1, <3>3 DEF MInv, NothingUsableFreed, Heap
    <3>4. QED
      BY <3>2, <3>3
  <2>2. QED
    BY <2>1 DEF NothingUsableFreed
<1>12. QED
  BY <1>6, <1>8, <1>9, <1>11 DEF MInv

-----------------------------------------------------------------------------
(* The theorems.                                                           *)

LEMMA HeapInit == Init => MInv
<1> SUFFICES ASSUME Init PROVE MInv
  OBVIOUS
<1> USE DEF Init
<1>1. PICK fr : fr = Frame(Script, 0, 0) /\ fr.closure = Script
  <2>1. Frame(Script, 0, 0).closure = Script
    BY DEF Frame
  <2>2. QED
    BY <2>1
<1>2. vm.stack = <<>> /\ vm.open = {} /\ vm.frames = <<fr>>
  BY <1>1 DEF Blank
<1>3. Blank.stack = <<>> /\ Blank.open = {} /\ Blank.frames = <<>>
  BY DEF Blank
<1>4. ASSUME NEW t \in Tasks
      PROVE  Context(t).stack = <<>> /\ Context(t).open = {} /\ Holds(Context(t)) \cap Heap = {}
  <2>1. CASE t = current
    <3>1. DOMAIN <<fr>> = {1} /\ <<fr>>[1] = fr /\ Context(t) = vm
      BY <2>1 DEF Context
    <3>2. Holds(Context(t)) \subseteq {Script}
      BY <1>1, <1>2, <3>1 DEF Holds
    <3>3. Script \notin Heap
      BY TasksAssumption
    <3>4. QED
      BY <1>2, <3>1, <3>2, <3>3
  <2>2. CASE t # current
    <3>1. Context(t) = Blank
      BY <2>2 DEF Context
    <3>2. QED
      BY <1>3, <3>1 DEF Holds
  <2>3. QED
    BY <2>1, <2>2
<1>5. Tracked
  BY <1>4 DEF Tracked, Tracks
<1>6. Allocated = {}
  BY DEF Allocated
<1>7. Variables
  BY <1>6 DEF Variables
<1>8. Finished
  BY <1>4, Constants DEF Finished
<1>9. NothingUsableFreed
  <2>1. PICK S \in SUBSET Heap : S = {}
    OBVIOUS
  <2>2. UsableRoots \cap Heap = {}
    <3>1. Temps = {}
      BY DEF Temps
    <3>2. \A t \in Tasks : result[t] \notin Heap
      BY Constants
    <3>3. QED
      BY <1>4, <3>1, <3>2 DEF UsableRoots, Contexts
  <2>3. UsableRoots \cap Heap \subseteq S /\ Closed(S, store)
    BY <2>1, <2>2 DEF Closed
  <2>4. Usable \subseteq S
    <3>1. Usable = Reachable(UsableRoots, store)
      BY DEF Usable, UsableRoots
    <3>2. QED
      BY <2>3, <3>1, ReachableLeast
  <2>5. QED
    BY <2>1, <2>4 DEF NothingUsableFreed
<1>10. QED
  BY <1>5, <1>7, <1>8, <1>9 DEF MInv

LEMMA HeapStatement ==
  ASSUME Dippers = {}, IInv, MInv, Running, Statement
  PROVE  MInv'
<1>1. CASE Declare \/ ReadCaptured \/ (\E t \in Tasks : TakeResult(t))
  BY <1>1, HeapPushes
<1>2. CASE EndLocal
  BY <1>2, HeapEndLocal
<1>3. CASE Try \/ EndTry
  BY <1>3, HeapTry
<1>4. CASE \E v \in Expressible : AssignCaptured(v) \/ Return(v)
                                  \/ \E i \in Locals : Assign(i, v) \/ CallAsync(i, v)
  BY <1>4, HeapAssignCaptured, HeapReturn, HeapAssign, HeapCallAsync
<1>5. CASE \E c \in Closures : MakeInner(c) \/ \E i \in Locals : MakeClosure(i, c)
  BY <1>5, HeapMakeInner, HeapMakeClosure
<1>6. CASE \E i \in Locals : Call(i) \/ \E j \in Locals : CallNative(i, j)
  BY <1>6, HeapCalls
<1>7. CASE Fail \/ Suspend
  BY <1>7, HeapFail, HeapSuspend
<1>8. ~ Dip
  BY DEF Dip
<1>9. QED
  BY <1>1, <1>2, <1>3, <1>4, <1>5, <1>6, <1>7, <1>8, Zenon DEF Statement

LEMMA HeapStep ==
  ASSUME Dippers = {}, IInv, MInv, [Next]_vars
  PROVE  MInv'
<1>1. CASE Next
  BY <1>1, HeapStatement, HeapTurn, HeapWake, HeapCollect, HeapStuttering DEF Next, Over
<1>2. QED
  BY <1>1, HeapStuttering

\* In a program whose async tasks do not dip, every captured variable is where
\* its upvalue says, with the value last assigned to it, and nothing usable is
\* freed, whatever is captured, cut back, suspended, switched and collected.
THEOREM HeapInductive == Dippers = {} => (Spec => [](IInv /\ MInv))
<1> SUFFICES ASSUME Dippers = {} PROVE Spec => [](IInv /\ MInv)
  OBVIOUS
<1>1. Init => IInv /\ MInv
  BY Initially, HeapInit
<1>2. IInv /\ MInv /\ [Next]_vars => (IInv /\ MInv)'
  BY Step, HeapStep
<1>3. QED
  BY <1>1, <1>2, PTL DEF Spec

\* An open upvalue the program can still use names a slot of a stack that
\* exists, the VM's or its Task's (live_stack in frames.c): never one that a
\* return, an error, a switch or reap_done took away.
THEOREM EveryUpvalueHasASlot == Dippers = {} => (Spec => []UpvaluesHaveASlot)
<1> SUFFICES ASSUME Dippers = {} PROVE Spec => []UpvaluesHaveASlot
  OBVIOUS
<1>1. IInv /\ MInv => UpvaluesHaveASlot
  BY GetShows DEF UpvaluesHaveASlot
<1>2. QED
  BY <1>1, HeapInductive, PTL

\* Every closure over a variable, in whichever task, and the frame it lives in
\* show what was last assigned to it (capture_upvalue, close_upvalues_from,
\* upvalue_get, upvalue_set).
THEOREM Sharing == Dippers = {} => (Spec => []SharersAgree)
<1> SUFFICES ASSUME Dippers = {} PROVE Spec => []SharersAgree
  OBVIOUS
<1>1. IInv /\ MInv => SharersAgree
  <2> SUFFICES ASSUME IInv, MInv PROVE SharersAgree
    OBVIOUS
  <2>1. \A u \in Allocated : Get(u) = store[upvalues[u].var]
    BY GetShows
  <2>2. ASSUME NEW t \in Tasks, NEW i \in DOMAIN Context(t).stack, Context(t).stack[i].var # None
        PROVE  Context(t).stack[i].val = store[Context(t).stack[i].var]
    BY <2>2 DEF MInv, Tracked, Tracks
  <2>3. QED
    BY <2>1, <2>2 DEF SharersAgree, Contexts
<1>2. QED
  BY <1>1, HeapInductive, PTL

\* A collection frees nothing the program can still use: not what only a
\* suspended task, a finished task's otw, an open upvalue or a native
\* function's C locals still hold (gc_collect).
THEOREM CollectorSound == Dippers = {} => (Spec => []NothingUsableFreed)
<1> SUFFICES ASSUME Dippers = {} PROVE Spec => []NothingUsableFreed
  OBVIOUS
<1>1. IInv /\ MInv => NothingUsableFreed
  BY DEF MInv
<1>2. QED
  BY <1>1, HeapInductive, PTL
=============================================================================
