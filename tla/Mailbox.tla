------------------------------- MODULE Mailbox -------------------------------
(***************************************************************************)
(* An intern's mailbox (interns.c): a ring that grows by copying itself     *)
(* out in order.  Every operation holds the mailbox's lock for as long as   *)
(* it runs, so each is one step; Interns models the threads that take them. *)
(***************************************************************************)
EXTENDS Naturals, Sequences, FiniteSets

CONSTANTS
    Dms,
    Cap,            \* MAILBOX_CAP
    FirstCapacity,  \* the first capacity of the ring, 8
    None            \* a place of the ring that was never written

VARIABLES
    items,          \* the ring, a function from 0 .. capacity - 1
    count,
    head,
    out,            \* what the last operation handed out or refused
    released

mailboxVars == <<items, count, head, out, released>>

Capacity == Cardinality(DOMAIN items)

At(i, capacity) == (head + i) % capacity

\* The dms in the order they are to be popped.
InOrder == [n \in 1 .. count |-> items[At(n - 1, Capacity)]]

MailboxInit == items = <<>> /\ count = 0 /\ head = 0 /\ out = <<>> /\ released = <<>>

\* The ring after growth, if there is need of it, and where it then starts.
WantedCapacity == IF Capacity = 0 THEN FirstCapacity ELSE Capacity * 2
GrownByMemcpy == [p \in 0 .. WantedCapacity - 1 |-> IF p < count THEN items[p] ELSE None]
Grown == [p \in 0 .. WantedCapacity - 1 |-> IF p < count THEN InOrder[p + 1] ELSE None]

\* mailbox_push
Push(d) ==
    \/ /\ count < Cap /\ count = Capacity
       /\ items' = [Grown EXCEPT ![count] = d]
       /\ head' = 0 /\ count' = count + 1
       /\ out' = <<>>
       /\ UNCHANGED released
    \/ /\ count < Cap /\ count # Capacity
       /\ items' = [items EXCEPT ![At(count, Capacity)] = d]
       /\ count' = count + 1
       /\ out' = <<>>
       /\ UNCHANGED <<head, released>>
    \/ /\ count >= Cap
       /\ out' = <<"full">>
       /\ UNCHANGED <<items, count, head, released>>

\* mailbox_pop
Pop ==
    \/ /\ count > 0
       /\ out' = <<"dm", items[head]>>
       /\ head' = At(1, Capacity)
       /\ count' = count - 1
       /\ UNCHANGED <<items, released>>
    \/ /\ count = 0
       /\ out' = <<"empty">>
       /\ UNCHANGED <<items, count, head, released>>

\* mailbox_count
Count == out' = <<"count", count>> /\ UNCHANGED <<items, count, head, released>>

\* mailbox_free
Free ==
    /\ released' = InOrder
    /\ items' = <<>> /\ count' = 0 /\ head' = 0
    /\ out' = <<"freed">>

\* Nobody touches a mailbox that was freed.
Freed == out = <<"freed">> /\ UNCHANGED mailboxVars

MailboxNext == Freed \/ (out # <<"freed">> /\ (Pop \/ Count \/ Free \/ \E d \in Dms : Push(d)))

MailboxSpec == MailboxInit /\ [][MailboxNext]_mailboxVars

Fifo == INSTANCE BoundedFifo WITH queue <- InOrder

\* However pushes, pops and growths fall on the ring, dms come out in the order they went in, none
\* is lost or doubled, and free lets go of exactly those that nobody popped.
IsABoundedFifo == Fifo!Spec
=============================================================================
