-------------------------------- MODULE Stash --------------------------------
(***************************************************************************)
(* stash.c: an array with room to grow, and the methods on it.  Those that  *)
(* call a function of the program go on from what they read before the      *)
(* call, while the function may change the stash they work on, and a        *)
(* collection may free what is in the array but no longer in the stash.     *)
(*                                                                          *)
(* A behaviour is one method on a stash as other methods may have left it.  *)
(* One step is a whole method, or one call that it makes and what it does   *)
(* up to the next.                                                          *)
(***************************************************************************)
EXTENDS Integers, Sequences, FiniteSets, FiniteSetsExt, SequencesExt

CONSTANTS
    Elements,       \* what stashes hold
    Results,        \* and functions answer
    Verdicts,       \* and comparators
    Numbas,         \* those of them that default_less puts first
    Rank,           \* and how it orders numbas and yapstrings; the others it cannot compare
    Boolskis,
    TruthyOnes,
    WholeNumbas,    \* the numbas that IS_INT is true of
    AboveZero,
    Nothing,        \* what is read from where no value is
    InitialCapacity, \* INITIAL_STASH_CAPACITY
    MaxCount,       \* bound on a stash's length
    Changers,       \* the methods whose functions may change the stash
    Chuckers,       \* and those in which a function, or a comparison, may fail
    Forgetters      \* and those whose functions may drop their arguments before a collection

ASSUME StashAssumption ==
    /\ Nothing \notin Elements \cup Results \cup Verdicts
    /\ WholeNumbas \subseteq Numbas
    /\ \A v \in DOMAIN Rank : Rank[v] \in Int
    /\ InitialCapacity \in Nat \ {0} /\ MaxCount \in Nat

VARIABLES
    array,          \* s->items, with the capacity as its length
    length,
    doing,          \* the method, with its locals
    before,         \* what the stash held at its start
    made,           \* the calls it made
    told

stashVars == <<array, length, doing, before, made, told>>

Now == [array |-> array, count |-> length]
Contents(s) == SubSeq(s.array, 1, s.count)
TurnsInto(s) == array' = s.array /\ length' = s.count

-----------------------------------------------------------------------------
(* The array.  Offsets count from 0, as in C. *)

ItemAt(a, i) == IF i + 1 \in DOMAIN a THEN a[i + 1] ELSE Nothing
PutItem(a, i, v) == [a EXCEPT ![i + 1] = v]
MemMove(a, to, from, n) == [k \in DOMAIN a |-> IF k - 1 \in to .. to + n - 1 THEN ItemAt(a, k - 1 - to + from) ELSE a[k]]

\* What the count no longer covers is nobody's.
Shortened(a, n) == [array |-> [k \in DOMAIN a |-> IF k <= n THEN a[k] ELSE Nothing], count |-> n]

\* stash_push
Wanted(a) == IF Len(a) < InitialCapacity THEN InitialCapacity ELSE 2 * Len(a)
Room(a, n) == IF n = Len(a) THEN a \o [k \in 1 .. Wanted(a) - n |-> Nothing] ELSE a
Pushed(s, v) == [array |-> PutItem(Room(s.array, s.count), s.count, v), count |-> s.count + 1]

\* What a loop that starts with first comes to in n rounds.
Looped(Round(_, _), first, n) ==
    LET after[k \in 0 .. n] == IF k = 0 THEN first ELSE Round(after[k - 1], k)
    IN after[n]

-----------------------------------------------------------------------------
(* Methods that call nobody *)

Local(method, args) ==
    [method |-> method, args |-> args, how |-> "running", i |-> 0, j |-> 0, n |-> length, held |-> Len(array),
     key |-> Nothing, acc |-> Nothing, out |-> <<>>]

Ended(how) == [doing EXCEPT !.how = how]

Done(method, args, how, s, v) ==
    /\ doing.how = "not yet"
    /\ doing' = [Local(method, args) EXCEPT !.how = how]
    /\ TurnsInto(s) /\ told' = v
    /\ UNCHANGED <<before, made>>

Answers(method, args, s, v) == Done(method, args, "answered", s, v)
Chucks(method, args) == Done(method, args, "chucked", Now, Nothing)

\* Full, or with room for one more.
Capacities(n) == {n, n + 1} \ {0}

StashStart(items, capacity) ==
    /\ array = items \o [k \in 1 .. capacity - Len(items) |-> Nothing] /\ length = Len(items)
    /\ doing = [Local("none", <<>>) EXCEPT !.how = "not yet"]
    /\ before = Contents(Now) /\ made = <<>> /\ told = Nothing

StashInit == \E n \in 0 .. MaxCount : \E items \in [1 .. n -> Elements], capacity \in Capacities(n) : StashStart(items, capacity)

YeetIn(v) == length < MaxCount /\ Answers("yeet_in", <<v>>, Pushed(Now, v), "stash")

\* A list that is not the stash itself.
Extend(list) ==
    /\ length + Len(list) <= MaxCount
    /\ Answers("extend", <<list>>, Looped(LAMBDA s, k : Pushed(s, list[k]), Now, Len(list)), "stash")

ClearAll == Answers("clear", <<>>, Shortened(array, 0), "stash")

Yoink ==
    \/ length > 0 /\ Answers("yoink", <<>>, Shortened(array, length - 1), ItemAt(array, length - 1))
    \/ length = 0 /\ Chucks("yoink", <<>>)

\* norm_index
Norm(i) == IF i < 0 THEN i + length ELSE i

YoinkAt(i) ==
    LET k == Norm(i) IN
    \/ /\ k \in 0 .. length - 1
       /\ Answers("yoink_at", <<i>>, Shortened(MemMove(array, k, k + 1, length - k - 1), length - 1), ItemAt(array, k))
    \/ k \notin 0 .. length - 1 /\ Chucks("yoink_at", <<i>>)

Within(i) == IF i < 0 THEN 0 ELSE IF i > length THEN length ELSE i

Insert(i, v) ==
    LET k == Within(Norm(i))
        longer == Pushed(Now, Nothing)
    IN /\ length < MaxCount
       /\ Answers("insert", <<i, v>>,
                  [longer EXCEPT !.array = PutItem(MemMove(@, k + 1, k, length - k), k, v)], "stash")

Reverse_ ==
    Answers("reverse", <<>>,
            [Now EXCEPT !.array = [k \in DOMAIN @ |-> IF k <= length THEN @[length + 1 - k] ELSE @[k]]], "stash")

\* stop is bounded above and start below, then start by stop.
Slice(i, j) ==
    LET stop == Min({Norm(j), length})
        start == Min({Max({Norm(i), 0}), stop})
    IN Answers("slice", <<i, j>>, Now, [k \in 1 .. stop - start |-> ItemAt(array, start + k - 1)])

Unique ==
    LET Add(out, k) == IF Contains(out, array[k]) THEN out ELSE Append(out, array[k])
    IN Answers("unique", <<>>, Now, Looped(Add, <<>>, length))

Chunk(n) ==
    LET first(c) == (c - 1) * n
        chunk(c) == [k \in 1 .. Min({n, length - first(c)}) |-> ItemAt(array, first(c) + k - 1)]
    IN \/ n > 0 /\ Answers("chunk", <<n>>, Now, [c \in 1 .. (length + n - 1) \div n |-> chunk(c)])
       \/ n <= 0 /\ Chucks("chunk", <<n>>)

\* rizz_next_u64's numbers may be anything.
ShuffleIt(picks) ==
    LET Swap(list, k) == LET i == length + 1 - k
                             j == (picks[i] % i) + 1
                         IN [list EXCEPT ![i] = list[j], ![j] = list[i]]
    IN Answers("shuffle_it", <<>>, Now, Looped(Swap, Contents(Now), IF length = 0 THEN 0 ELSE length - 1))

-----------------------------------------------------------------------------
(* Methods that call a function for every element *)

Begins(local) ==
    /\ doing.how = "not yet"
    /\ doing' = local
    /\ UNCHANGED <<array, length, before, made, told>>

\* glow_up, vibe_check, any, all, sort_by and group_by
Visit(method) == Begins(Local(method, <<>>))

\* initial is a value, or none.
Squish(initial) ==
    \/ initial # <<>> /\ Begins([Local("squish", initial) EXCEPT !.acc = initial[1]])
    \/ initial = <<>> /\ length > 0 /\ Begins([Local("squish", <<>>) EXCEPT !.acc = ItemAt(array, 0), !.i = 1])
    \/ initial = <<>> /\ length = 0 /\ Chucks("squish", <<>>)

Visiting == doing.how = "running" /\ doing.method # "sort"

\* Most look at the count again after every call.
BoundOnce == doing.n
Bound == IF doing.method = "sort_by" THEN doing.n ELSE length

\* What a function that answers r may leave of the stash.
Changed(r) ==
    {Now} \cup IF doing.method \notin Changers THEN {} ELSE
        {Shortened(array, n) : n \in {0, Max({0, length - 1})}} \cup {Pushed(Now, v) : v \in IF length < MaxCount THEN {r} ELSE {}}

Args == (IF doing.method = "squish" THEN <<doing.acc>> ELSE <<>>) \o <<ItemAt(array, doing.i)>>

GroupsOf(groups, k, v) ==
    IF \E g \in DOMAIN groups : groups[g].key = k
    THEN [g \in DOMAIN groups |-> IF groups[g].key = k THEN [groups[g] EXCEPT !.items = Append(@, v)] ELSE groups[g]]
    ELSE Append(groups, [key |-> k, items |-> <<v>>])

\* The locals after a call that answered r and left items in the array.
After(r, items) ==
    LET item == ItemAt(items, doing.i)
        out == CASE doing.method = "glow_up"  -> Append(doing.out, r)
                 [] doing.method = "sort_by"  -> Append(doing.out, <<r, item>>)
                 [] doing.method = "group_by" -> GroupsOf(doing.out, r, item)
                 [] doing.method = "vibe_check" /\ r \in TruthyOnes -> Append(doing.out, item)
                 [] OTHER -> doing.out
    IN [doing EXCEPT !.i = @ + 1, !.acc = r, !.out = out]

\* any and all know enough after one such answer.
Settles(r) == (doing.method = "any" /\ r \in TruthyOnes) \/ (doing.method = "all" /\ r \notin TruthyOnes)

CallFunction(r, s) ==
    /\ Visiting /\ doing.i < Bound
    /\ made' = Append(made, [args |-> Args, result |-> r])
    /\ TurnsInto(s)
    /\ IF Settles(r) THEN doing' = Ended("answered") /\ told' = (doing.method = "any")
       ELSE doing' = After(r, s.array) /\ UNCHANGED told
    /\ UNCHANGED before

\* default_less: a before b, not before it, or no comparison.
Comparison(a, b) ==
    CASE (a \in Numbas) # (b \in Numbas) -> IF a \in Numbas THEN "less" ELSE "not"
      [] (a \in Numbas) = (b \in Numbas) /\ {a, b} \subseteq DOMAIN Rank -> IF Rank[a] < Rank[b] THEN "less" ELSE "not"
      [] OTHER -> "can't compare"

\* sort_by_less, which asks for the truth of both when one is boolski.
KeyComparison(a, b) ==
    IF {a, b} \cap Boolskis = {} THEN Comparison(a, b)
    ELSE IF a \notin TruthyOnes /\ b \in TruthyOnes THEN "less" ELSE "not"

\* insertion_sort_pairs_by_key, one element: it moves left past those it is less than.
InsertPair(sorted, pair) ==
    LET place == Max({0} \cup {k \in DOMAIN sorted.list : KeyComparison(pair[1], sorted.list[k][1]) # "less"})
        fails == place > 0 /\ KeyComparison(pair[1], sorted.list[place][1]) # "not"
    IN IF ~ sorted.ok \/ fails THEN [sorted EXCEPT !.ok = FALSE]
       ELSE [sorted EXCEPT !.list = InsertAt(@, place + 1, pair)]
SortedPairs == Looped(LAMBDA sorted, k : InsertPair(sorted, doing.out[k]), [ok |-> TRUE, list |-> <<>>], Len(doing.out))

EndVisit ==
    /\ Visiting /\ doing.i >= Bound
    /\ UNCHANGED <<array, length, before, made>>
    /\ \/ /\ doing.method = "sort_by" /\ ~ SortedPairs.ok
          /\ doing' = Ended("chucked") /\ UNCHANGED told
       \/ /\ doing.method = "sort_by" => SortedPairs.ok
          /\ doing' = Ended("answered")
          /\ told' = CASE doing.method = "squish" -> doing.acc
                         [] doing.method \in {"any", "all"} -> doing.method = "all"
                         [] doing.method = "sort_by" -> [k \in DOMAIN doing.out |-> SortedPairs.list[k][2]]
                         [] OTHER -> doing.out

\* The function chucks, and the method answers nothing.
CallFails ==
    /\ doing.how = "running" /\ doing.method \in Chuckers
    /\ doing.method = "sort" => doing.args = <<"cmp">>
    /\ doing' = Ended("chucked")
    /\ UNCHANGED <<array, length, before, made, told>>

-----------------------------------------------------------------------------
(* sort, in place: the element at i is taken out and moves left *)

Comparable == \A a, b \in ToSet(Contents(Now)) : Comparison(a, b) # "can't compare"

Sort(cmp) ==
    \/ length <= 1 /\ Answers("sort", cmp, Now, "stash")
    \/ /\ length > 1 /\ (cmp # <<>> \/ Comparable \/ "sort" \in Chuckers)
       /\ Begins([Local("sort", cmp) EXCEPT !.i = 1, !.key = ItemAt(array, 1)])

Sorting == doing.how = "running" /\ doing.method = "sort"

\* After a comparison that says whether the one at j moves, in the array that sort holds.
Shifted(moves, items) == IF moves THEN PutItem(items, doing.j + 1, ItemAt(items, doing.j)) ELSE items
Stays(moves) == ~ moves \/ doing.j = 0
Gap(moves) == IF moves THEN doing.j ELSE doing.j + 1

Compared(moves, key, items) ==
    IF Stays(moves) THEN PutItem(Shifted(moves, items), Gap(moves), key) ELSE Shifted(moves, items)

NextLocals(moves, key, items) ==
    CASE ~ Stays(moves) -> [doing EXCEPT !.j = @ - 1, !.key = key]
      [] Stays(moves) /\ doing.i + 1 < doing.n ->
            [doing EXCEPT !.i = @ + 1, !.j = doing.i, !.key = ItemAt(items, doing.i + 1)]
      [] OTHER -> Ended("answered")

SortStep(moves, key, s) ==
    LET held == IF Len(s.array) = doing.held THEN s.array ELSE [k \in 1 .. doing.held |-> Nothing]
        next == NextLocals(moves, key, held)
    IN /\ array' = IF Len(s.array) = doing.held THEN Compared(moves, key, held) ELSE s.array
       /\ length' = s.count
       /\ doing' = next
       /\ told' = IF next.how = "answered" THEN "stash" ELSE told
       /\ UNCHANGED before

\* Of a whole numba it asks the sign, of anything else the truth.
MovesOnTruth(r) == r \in TruthyOnes
MovesPast(r) == IF r \in WholeNumbas THEN r \in AboveZero ELSE r \in TruthyOnes

\* The program compares: only the arguments, and the array, keep the key from being collected.
CallCmp(r, s) ==
    /\ Sorting /\ doing.args = <<"cmp">>
    /\ made' = Append(made, [args |-> <<ItemAt(array, doing.j), doing.key>>, result |-> r])
    /\ \/ SortStep(MovesPast(r), doing.key, s)
       \/ "sort" \in Forgetters /\ ~ Contains(Contents(s), doing.key) /\ SortStep(MovesPast(r), Nothing, s)

Compare ==
    /\ Sorting /\ doing.args = <<>>
    /\ LET verdict == Comparison(doing.key, ItemAt(array, doing.j)) IN
       \/ verdict # "can't compare" /\ SortStep(verdict = "less", doing.key, Now) /\ UNCHANGED made
       \/ /\ verdict = "can't compare"
          /\ doing' = Ended("chucked") /\ UNCHANGED <<array, length, before, made, told>>

-----------------------------------------------------------------------------
StashNext ==
    \/ \E v \in Elements : YeetIn(v)
    \/ Yoink \/ ClearAll \/ Reverse_ \/ Unique
    \/ \E i \in - MaxCount - 1 .. MaxCount + 1 : YoinkAt(i) \/ Chunk(i)
    \/ \E i \in - MaxCount - 1 .. MaxCount + 1, v \in Elements : Insert(i, v)
    \/ \E i, j \in - MaxCount - 1 .. MaxCount + 1 : Slice(i, j)
    \/ \E v, w \in Elements : Extend(<<v, w>>)
    \/ \E picks \in [1 .. MaxCount -> 0 .. MaxCount - 1] : ShuffleIt(picks)
    \/ \E method \in {"glow_up", "vibe_check", "any", "all", "sort_by", "group_by"} : Visit(method)
    \/ Squish(<<>>) \/ \E v \in Elements : Squish(<<v>>)
    \/ \E r \in Results : \E s \in Changed(r) : CallFunction(r, s)
    \/ \E r \in Verdicts : \E s \in Changed(r) : CallCmp(r, s)
    \/ Sort(<<>>) \/ Sort(<<"cmp">>)
    \/ EndVisit \/ CallFails \/ Compare

StashSpec == StashInit /\ [][StashNext]_stashVars

-----------------------------------------------------------------------------
(* What each method promises *)

Given == [k \in DOMAIN made |-> Last(made[k].args)]
Got == [k \in DOMAIN made |-> made[k].result]
Passing(list, results) == {k \in DOMAIN list : results[k] \in TruthyOnes}

\* new is the members of list at places, in order.
Picked(list, places, new) ==
    \E p \in [1 .. Len(new) -> places] :
        /\ \A place \in places : \E k \in DOMAIN p : p[k] = place
        /\ \A a, b \in DOMAIN p : a < b => p[a] < p[b]
        /\ \A k \in DOMAIN new : new[k] = list[p[k]]

Orders(n) == {p \in [1 .. n -> 1 .. n] : \A a, b \in 1 .. n : a # b => p[a] # p[b]}

Rearranged(list, new) == Len(new) = Len(list) /\ \E p \in Orders(Len(list)) : new = [k \in DOMAIN list |-> list[p[k]]]

\* new is list in the order of keys, and where none is less in its own.
Ordered(list, keys, Less(_, _), new) ==
    \E p \in Orders(Len(list)) :
        /\ new = [k \in DOMAIN list |-> list[p[k]]]
        /\ \A a, b \in DOMAIN list : a < b =>
              /\ ~ Less(keys[p[b]], keys[p[a]])
              /\ Less(keys[p[a]], keys[p[b]]) \/ p[a] < p[b]

ItemLess(a, b) == Comparison(a, b) = "less"
KeyLess(a, b) == KeyComparison(a, b) = "less"

\* Every comparator's answer agrees with the ranks: above zero, or bet, when the first is to come after the second.
SaysAfter(r) == IF r \in Numbas THEN r \in AboveZero ELSE r \in TruthyOnes
ComparesBy(rank) == \A k \in DOMAIN made : SaysAfter(made[k].result) <=> rank[made[k].args[2]] < rank[made[k].args[1]]
SortsBy(rank, new) == Ordered(before, before, LAMBDA a, b : rank[a] < rank[b], new)

\* sort_by_less puts keys in an order, which it need not if some are boolskis and others are not.
KeysAreOrdered == Boolskis \cap ToSet(Got) = {} \/ ToSet(Got) \subseteq Boolskis

\* An index as the program counts, brought into the stash.
Spot(i) == Max({0, Min({Len(before), IF i < 0 THEN i + Len(before) ELSE i})})

\* reverse and sort may work in place or on a copy: either is what they answer.
Answer(after) == IF told = "stash" THEN after ELSE told
InPlaceOrNot(after) == after \in {before, Answer(after)}

Promise(method, args, after) ==
    CASE method = "yeet_in"  -> after = Append(before, args[1])
      [] method = "extend"   -> after = before \o args[1]
      [] method = "clear"    -> after = <<>>
      [] method = "yoink"    -> Append(after, told) = before
      [] method = "yoink_at" -> InsertAt(after, Spot(args[1]) + 1, told) = before
      [] method = "insert"   -> after = InsertAt(before, Spot(args[1]) + 1, args[2])
      [] method = "reverse"  -> Answer(after) = Reverse(before) /\ InPlaceOrNot(after)
      [] method = "sort"     -> /\ Rearranged(before, Answer(after)) /\ InPlaceOrNot(after)
                                /\ args = <<>> => Ordered(before, before, ItemLess, Answer(after))
                                /\ args = <<"cmp">> =>
                                      \A rank \in [ToSet(before) -> 1 .. Len(before)] :
                                          ComparesBy(rank) => SortsBy(rank, Answer(after))
      [] OTHER               -> method \in Changers \/ after = before

PromisedAnswer(method, args) ==
    CASE method = "slice"      -> told = SubSeq(before, Spot(args[1]) + 1, Spot(args[2]))
      [] method = "unique"     -> /\ ToSet(told) = ToSet(before) /\ IsInjective(told)
                                  /\ \A k \in DOMAIN told : \E n \in DOMAIN before :
                                        ToSet(SubSeq(told, 1, k)) = ToSet(SubSeq(before, 1, n))
      [] method = "chunk"      -> /\ FlattenSeq(told) = before
                                  /\ \A k \in DOMAIN told : k < Len(told) => Len(told[k]) = args[1]
      [] method = "shuffle_it" -> Rearranged(before, told)
      [] method = "glow_up"    -> told = Got
      [] method = "vibe_check" -> Picked(Given, Passing(Given, Got), told)
      [] method = "squish"     -> \A k \in 1 .. Len(made) + 1 :
                                    LET acc == IF k <= Len(made) THEN made[k].args[1] ELSE told IN
                                    acc = IF k > 1 THEN Got[k - 1] ELSE (args \o before)[1]
      [] method = "any"        -> told = (Passing(Given, Got) # {}) /\ Passing(Given, Got) \subseteq {Len(made)}
      [] method = "all"        -> told = (Passing(Given, Got) = DOMAIN made) /\ DOMAIN made \ Passing(Given, Got) \subseteq {Len(made)}
      [] method = "sort_by"    -> Rearranged(Given, told) /\ (KeysAreOrdered => Ordered(Given, Got, KeyLess, told))
      [] method = "group_by"   -> /\ {g.key : g \in ToSet(told)} = ToSet(Got)
                                  /\ \A a, b \in DOMAIN told : told[a].key = told[b].key => a = b
                                  /\ \A g \in ToSet(told) : Picked(Given, {k \in DOMAIN made : Got[k] = g.key}, g.items)
      [] OTHER                 -> TRUE

\* A function that leaves the stash alone is given all its elements in order, up to where the answer is known.
VisitsTheStash ==
    doing.method \notin Changers \cup {"sort"} =>
        LET elements == IF doing.method = "squish" /\ doing.args = <<>> THEN SubSeq(before, 2, Len(before)) ELSE before
        IN /\ IsPrefix(Given, elements)
           /\ (doing.how = "answered" /\ made # <<>> /\ ~ Settles(Last(Got))) => Given = elements

\* No method reads where no value is, loses an element or answers what its calls do not lead to,
\* when functions chuck or change the stash under those that allow for it (stash.c, all methods).
KeepsItsPromises ==
    /\ Nothing \notin ToSet(Contents(Now)) \cup UNION {ToSet(c.args) : c \in ToSet(made)}
    /\ VisitsTheStash
    /\ doing.how = "answered" =>
          Promise(doing.method, doing.args, Contents(Now)) /\ PromisedAnswer(doing.method, doing.args)
    /\ doing.how = "chucked" => doing.method \in Changers \/ Rearranged(before, Contents(Now))
=============================================================================
