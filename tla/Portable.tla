------------------------------ MODULE Portable ------------------------------
(***************************************************************************)
(* How a value crosses to another heap (portable.c): it is copied into a    *)
(* tree that belongs to no heap, which the receiver turns into values of    *)
(* its own.  A heap is a set of containers that may share parts, contain    *)
(* themselves, or hold what belongs to its heap for good.                   *)
(***************************************************************************)
EXTENDS Naturals, Sequences, FiniteSets

CONSTANTS
    Containers,     \* the sender's stashes and groupchats
    Scalars,        \* ghosts, boolskis, numbas, yapstrings and blobs
    Foreign,        \* bets, squads, modules, pointas, otws: what cannot cross
    Heaps           \* the sender's heaps, functions from Containers to Container(kind, items)

Sendable == Containers \cup Scalars \cup Foreign

Kinds == {"stash", "groupchat"}

\* What can cross and what cannot are told apart; a groupchat has a value for each key, and a key once.
ASSUME PortableAssumption ==
    /\ IsFiniteSet(Containers)
    /\ Containers \cap (Scalars \cup Foreign) = {} /\ Scalars \cap (Foreign \cup Kinds \cup {"refused"}) = {}
    /\ Heaps \subseteq [Containers -> [kind : Kinds, items : Seq(Sendable)]]
    /\ \A heap \in Heaps, c \in Containers : heap[c].kind = "groupchat" =>
          LET keys == {i \in DOMAIN heap[c].items : i % 2 = 1}
          IN /\ Len(heap[c].items) % 2 = 0
             /\ \A i, j \in keys : heap[c].items[i] = heap[c].items[j] => i = j

VARIABLES
    sent,           \* the heap and the value, once somebody sent one
    received        \* what the receiver has for it

portableVars == <<sent, received>>

\* items of a groupchat alternate keys and values.
Container(kind, items) == [kind |-> kind, items |-> items]

Refused == [kind |-> "refused", items |-> <<>>]
Leaf(v) == [kind |-> v, items |-> <<>>]
Leaves == {Leaf(v) : v \in Scalars}

\* Trees of containers, no more of them one within another than the sender has.
PortableValues ==
    LET trees[n \in 0 .. Cardinality(Containers)] ==
            IF n = 0 THEN Leaves ELSE Leaves \cup [kind : Kinds, items : Seq(trees[n - 1])]
    IN trees[Cardinality(Containers)]

-----------------------------------------------------------------------------
(* The code *)

\* copy_value, copy_stash and copy_groupchat, by the containers that are being copied: the trail.
Copy(heap) ==
    LET copy[trail \in SUBSET Containers] ==
            [v \in Sendable |->
                IF v \in Scalars THEN Leaf(v)
                ELSE IF v \in Foreign \cup trail THEN Refused
                ELSE LET parts == [i \in DOMAIN heap[v].items |-> copy[trail \cup {v}][heap[v].items[i]]]
                     IN IF \E i \in DOMAIN parts : parts[i] = Refused THEN Refused
                        ELSE Container(heap[v].kind, parts)]
    IN copy

\* portable_from_value starts with an empty trail.
FromValueRemembering(heap, v) ==
    LET part(i) == Copy(heap)[{v} \cup ({heap[v].items[j] : j \in 1 .. i - 1} \cap Containers)][heap[v].items[i]]
    IN IF v \notin Containers THEN Copy(heap)[{}][v]
       ELSE IF \E i \in DOMAIN heap[v].items : part(i) = Refused THEN Refused
       ELSE Container(heap[v].kind, [i \in DOMAIN heap[v].items |-> part(i)])
FromValue(heap, v) == Copy(heap)[{}][v]

\* groupchat_set, which finds an equal key only among scalars: a new container is no other's equal.
SetEntry(items, key, value) ==
    LET at == {i \in DOMAIN items : i % 2 = 1 /\ key.kind \in Scalars /\ items[i] = key}
    IN IF at = {} THEN items \o <<key, value>> ELSE [items EXCEPT ![(CHOOSE i \in at : TRUE) + 1] = value]

\* Its loop over the entries of a portable groupchat.
Entries(parts) ==
    LET set[n \in 0 .. Len(parts) \div 2] ==
            IF n = 0 THEN <<>> ELSE SetEntry(set[n - 1], parts[2 * n - 1], parts[2 * n])
    IN set[Len(parts) \div 2]

\* portable_to_value
ToValue ==
    LET value[pv \in PortableValues] ==
            LET parts == [i \in DOMAIN pv.items |-> value[pv.items[i]]]
            IN Container(pv.kind, IF pv.kind = "groupchat" THEN Entries(parts) ELSE parts)
    IN value

\* What the receiver gets for a value of the sender's.
Crossed(heap, v) ==
    LET pv == FromValue(heap, v) IN IF pv = Refused THEN Refused ELSE ToValue[pv]

-----------------------------------------------------------------------------
(* What it is measured against *)

ItemsOf(heap, v) == IF v \in Containers THEN {heap[v].items[i] : i \in DOMAIN heap[v].items} ELSE {}

\* Sets that hold every scalar, and a container when they hold all its items.
Builds(heap, S) ==
    \A v \in Sendable : v \in Scalars \/ (v \in Containers /\ ItemsOf(heap, v) \subseteq S) => v \in S

\* The finite trees of portable types, shared parts allowed: the least such set.
Portables(heap) == {v \in Sendable : \A S \in SUBSET Sendable : Builds(heap, S) => v \in S}

\* The sender's values that a value of the receiver's looks like, all the way down.
LooksLike(heap) ==
    LET like[pv \in PortableValues] ==
            {v \in Sendable :
                IF v \in Scalars THEN pv = Leaf(v)
                ELSE /\ v \in Containers
                     /\ pv.kind = heap[v].kind /\ DOMAIN pv.items = DOMAIN heap[v].items
                     /\ \A i \in DOMAIN pv.items : heap[v].items[i] \in like[pv.items[i]]}
    IN like

-----------------------------------------------------------------------------
PortableInit == sent = <<>> /\ received = <<>>

\* Somebody hires an intern with a value, dms it, or delivers it.
Cross ==
    \E heap \in Heaps, v \in Sendable :
        /\ sent' = <<heap, v>>
        /\ received' = Crossed(heap, v)

PortableNext == sent = <<>> /\ Cross

PortableSpec == PortableInit /\ [][PortableNext]_portableVars

\* A value crosses exactly when it is a finite tree of portable types, shared parts allowed, and
\* the receiver's value then looks the same all the way down (portable.c).
PortableCrossesWhole ==
    sent # <<>> =>
        LET heap == sent[1]
            v == sent[2]
        IN IF v \in Portables(heap) THEN received \in PortableValues /\ v \in LooksLike(heap)[received] ELSE received = Refused
=============================================================================
