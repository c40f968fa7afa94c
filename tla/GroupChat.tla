------------------------------ MODULE GroupChat ------------------------------
(***************************************************************************)
(* groupchat.c: an array of entries in insertion order and, from IndexMin   *)
(* entries on, an open-addressed hash index over the string keys, which     *)
(* holds positions in the array.  Other keys are found by scanning.         *)
(*                                                                          *)
(* It is meant to implement OrderedMap, with every lookup answered through  *)
(* the index.  The thresholds are constants, so that small maps grow an     *)
(* index, outgrow it and lose it again.                                     *)
(***************************************************************************)
EXTENDS Naturals, Integers, Sequences, FiniteSets, FiniteSetsExt

CONSTANTS
    StringKeys,     \* keys that are yapstrings
    OtherKeys,      \* numbas, boolskis and blobs
    Vals,
    Batches,        \* what merge, clone's source and from_pairs may be given
    Hash,           \* each string key's hash
    IndexMin,       \* GROUPCHAT_INDEX_MIN
    SmallestIndex,  \* the capacity rebuild_index begins with, 8
    LoadNum,        \* GROUPCHAT_INDEX_LOAD_NUM, less than
    LoadDen,        \* GROUPCHAT_INDEX_LOAD_DEN
    ClearFrom,      \* clear() is called on groupchats of up to this many entries
    NotThere

Keys == StringKeys \cup OtherKeys

\* The load an index may have is no more than all of it, and one entry does not fill the smallest.
ASSUME ChatAssumption ==
    /\ Hash \in [StringKeys -> Nat]
    /\ {IndexMin, SmallestIndex, LoadNum, LoadDen, ClearFrom} \subseteq Nat
    /\ SmallestIndex > 0
    /\ LoadNum <= LoadDen
    /\ LoadDen < SmallestIndex * LoadNum
    /\ \A es \in Batches : /\ Len(es) \in Nat /\ DOMAIN es = 1 .. Len(es)
                           /\ \A i \in DOMAIN es : es[i].key \in Keys

VARIABLES
    slots,      \* the entries array; beyond what is filled, what was there before
    filled,     \* ObjGroupChat.count: how many of them are entries
    index,      \* ObjGroupChat.index: positions, counted from 1, or Empty; NoIndex when dropped
    chatAnswer

chatVars == <<slots, filled, index, chatAnswer>>

Empty == -1
NoIndex == <<>>

EntryOf(k, v) == [key |-> k, value |-> v]

\* A groupchat as a value, so that whole ones can be built and merged in one operation.
Chat(s, n, ix) == [slots |-> s, count |-> n, index |-> ix]
This == Chat(slots, filled, index)
Fresh == Chat(<<>>, 0, NoIndex)
Becomes(g) == slots' = g.slots /\ filled' = g.count /\ index' = g.index

Live(g) == [i \in 1 .. g.count |-> g.slots[i]]

Size(ix) == Cardinality(DOMAIN ix)

Full(n, capacity) == n * LoadDen >= capacity * LoadNum

-----------------------------------------------------------------------------
(* The index *)

\* The n-th place a probe for hash h looks at.  Places count from 0, as the mask makes them.
Place(h, n, capacity) == (h + n) % capacity

\* Where a probe for hash h ends that is to stop at any of these places, or none at all.
Probe(ends, h, capacity) ==
    LET steps == {n \in 0 .. capacity - 1 : Place(h, n, capacity) \in ends}
    IN IF steps = {} THEN Empty ELSE Place(h, Min(steps), capacity)

EmptyPlaces(ix) == {p \in DOMAIN ix : ix[p] = Empty}

IndexInsert(ix, h, position) == [ix EXCEPT ![Probe(EmptyPlaces(ix), h, Size(ix))] = position]

\* The first capacity, doubling from the smallest, that the count does not fill.
CapacityForAny(n) == SmallestIndex
CapacityFor(n) ==
    LET wanted[d \in 0 .. n] == IF d = 0 THEN SmallestIndex
                                ELSE IF Full(n, wanted[d - 1]) THEN 2 * wanted[d - 1] ELSE wanted[d - 1]
    IN wanted[n]

Inserted(ix, s, i) == IF s[i].key \in StringKeys THEN IndexInsert(ix, Hash[s[i].key], i) ELSE ix

Blank(capacity) == [p \in 0 .. capacity - 1 |-> Empty]

IndexOf(s, n) ==
    LET ix[i \in 0 .. n] == IF i = 0 THEN Blank(CapacityFor(n)) ELSE Inserted(ix[i - 1], s, i)
    IN ix[n]

Rebuilt(g) == Chat(g.slots, g.count, IndexOf(g.slots, g.count))

-----------------------------------------------------------------------------
(* Lookup, set and remove *)

Scan(g, k) ==
    LET at == {i \in 1 .. g.count : g.slots[i].key = k}
    IN IF at = {} THEN Empty ELSE Min(at)

\* The places at which a probe for k stops.
Stops(g, k) == {p \in DOMAIN g.index : g.index[p] = Empty \/ g.slots[g.index[p]].key = k}

\* groupchat_find: the position of k's entry, or Empty.  A string key goes by the index alone.
Find(g, k) ==
    IF g.index # NoIndex /\ k \in StringKeys
    THEN LET place == Probe(Stops(g, k), Hash[k], Size(g.index))
         IN IF place = Empty THEN Empty ELSE g.index[place]
    ELSE Scan(g, k)

Written(s, n, e) == [i \in DOMAIN s \cup {n} |-> IF i = n THEN e ELSE s[i]]

\* What the entry that was just added does to the index.
Indexed(g) ==
    CASE g.index = NoIndex -> IF g.count >= IndexMin THEN Rebuilt(g) ELSE g
      [] g.index # NoIndex -> IF Full(g.count, Size(g.index)) THEN Rebuilt(g)
                              ELSE Chat(g.slots, g.count, Inserted(g.index, g.slots, g.count))

\* groupchat_set
Put(g, e) ==
    LET at == Find(g, e.key)
    IN IF at # Empty THEN Chat(Written(g.slots, at, e), g.count, g.index)
       ELSE Indexed(Chat(Written(g.slots, g.count + 1, e), g.count + 1, g.index))

PutAll(g, es) ==
    LET put[i \in 0 .. Len(es)] == IF i = 0 THEN g ELSE Put(put[i - 1], es[i])
    IN put[Len(es)]

\* What a removal does to the index, all of whose positions may have shifted.
ReindexedKept(g) == IF g.index # NoIndex /\ g.count < IndexMin THEN Chat(g.slots, g.count, NoIndex) ELSE g
Reindexed(g) ==
    CASE g.index = NoIndex -> g
      [] g.index # NoIndex -> IF g.count < IndexMin THEN Chat(g.slots, g.count, NoIndex) ELSE Rebuilt(g)

\* groupchat_remove: the memmove and the index, after which nothing leads to what lies behind.
Without(g, at) ==
    Reindexed(Chat([i \in 1 .. g.count - 1 |-> IF i < at THEN g.slots[i] ELSE g.slots[i + 1]],
                   g.count - 1, g.index))

-----------------------------------------------------------------------------
(* Operations *)

ChatInit == slots = <<>> /\ filled = 0 /\ index = NoIndex /\ chatAnswer = NotThere

Get(k) ==
    /\ chatAnswer' = IF Find(This, k) = Empty THEN NotThere ELSE slots[Find(This, k)].value
    /\ UNCHANGED <<slots, filled, index>>

Set(k, v) == Becomes(Put(This, EntryOf(k, v))) /\ chatAnswer' = "groupchat"

RemoveKey(k) ==
    \/ /\ Scan(This, k) # Empty
       /\ Becomes(Without(This, Scan(This, k)))
       /\ chatAnswer' = "removed"
    \/ /\ Scan(This, k) = Empty
       /\ chatAnswer' = "KeyGhosted"
       /\ UNCHANGED <<slots, filled, index>>

Merge(es) == Becomes(PutAll(This, es)) /\ chatAnswer' = "groupchat"

\* The program goes on with a clone of the groupchat, or with one made from pairs.
Clone == Becomes(PutAll(Fresh, Live(This))) /\ chatAnswer' = "groupchat"
FromPairs(es) == Becomes(PutAll(Fresh, es)) /\ chatAnswer' = "groupchat"

\* m_clear resets the count and nothing else.
Clear ==
    /\ filled <= ClearFrom
    /\ filled' = 0
    /\ UNCHANGED <<slots, index>>
    /\ chatAnswer' = "groupchat"

ChatNext ==
    \/ \E k \in Keys : Get(k) \/ RemoveKey(k) \/ \E v \in Vals : Set(k, v)
    \/ \E es \in Batches : Merge(es) \/ FromPairs(es)
    \/ Clone \/ Clear

ChatSpec == ChatInit /\ [][ChatNext]_chatVars

-----------------------------------------------------------------------------
(* Properties *)

Map == INSTANCE OrderedMap WITH chat <- Live(This), answer <- chatAnswer

\* Every lookup, through the index or not, answers what an ordered map would, and set, remove,
\* merge, clone and from_pairs leave the entries such a map would have, in its order (groupchat.c,
\* all operations).
ChatIsAnOrderedMap == Map!Spec

\* The index holds the position of every string key's entry, once, and no other position, so
\* that nothing stale is ever followed (index_insert, rebuild_index, index_drop).
IndexIsExact ==
    index # NoIndex =>
        /\ {index[p] : p \in DOMAIN index} \ {Empty} = {i \in 1 .. filled : slots[i].key \in StringKeys}
        /\ \A p, q \in DOMAIN index : p # q /\ index[p] # Empty => index[p] # index[q]

\* A probe always ends: some place of the index is empty, whatever share of the keys are strings
\* (GROUPCHAT_INDEX_LOAD_NUM / DEN).
ProbesEnd == index # NoIndex => EmptyPlaces(index) # {}

\* The hash index never holds a stale or a doubled position, and probing it always ends (groupchat.c:
\* index_insert to index_drop, and the load factor of rebuild_index).
ChatIndexIsSound == IndexIsExact /\ ProbesEnd
=============================================================================
