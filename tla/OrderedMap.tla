----------------------------- MODULE OrderedMap -----------------------------
(***************************************************************************)
(* What a groupchat promises: keys in the order they were first given, each *)
(* with the value it was last given, and answers that follow from that.     *)
(***************************************************************************)
EXTENDS Naturals, Sequences

CONSTANTS
    Keys,
    Vals,
    Batches,        \* the groupchats and lists of pairs that whole ones are made from
    NotThere          \* what a lookup of a key that is not there answers

VARIABLES
    chat,           \* the entries, oldest first
    answer          \* what the last operation handed back

Entry(k, v) == [key |-> k, value |-> v]

KeysOf(es) == {es[i].key : i \in DOMAIN es}

\* Where k's entry is, in entries of which one has it.
PlaceOf(es, k) == CHOOSE i \in DOMAIN es : es[i].key = k

\* The value of k, if any.
ValueOf(es, k) == IF k \in KeysOf(es) THEN es[PlaceOf(es, k)].value ELSE NotThere

Put(es, e) ==
    IF e.key \in KeysOf(es)
    THEN [i \in DOMAIN es |-> IF es[i].key = e.key THEN e ELSE es[i]]
    ELSE Append(es, e)

PutAll(es, new) ==
    LET put[i \in 0 .. Len(new)] == IF i = 0 THEN es ELSE Put(put[i - 1], new[i])
    IN put[Len(new)]

Without(es, k) ==
    IF k \in KeysOf(es)
    THEN [i \in 1 .. Len(es) - 1 |-> IF i < PlaceOf(es, k) THEN es[i] ELSE es[i + 1]]
    ELSE es

Init == chat = <<>> /\ answer = NotThere

Get == \E k \in Keys : answer' = ValueOf(chat, k) /\ UNCHANGED chat

Set == \E k \in Keys, v \in Vals : chat' = Put(chat, Entry(k, v)) /\ answer' = "groupchat"

RemoveKey ==
    \E k \in Keys :
        /\ chat' = Without(chat, k)
        /\ answer' = IF k \in KeysOf(chat) THEN "removed" ELSE "KeyGhosted"

Merge == \E b \in Batches : chat' = PutAll(chat, b) /\ answer' = "groupchat"

Replace == \E b \in Batches \cup {chat} : chat' = PutAll(<<>>, b) /\ answer' = "groupchat"

Clear == chat' = <<>> /\ answer' = "groupchat"

Next == Get \/ Set \/ RemoveKey \/ Merge \/ Replace \/ Clear

Spec == Init /\ [][Next]_<<chat, answer>>
=============================================================================
