----------------------------- MODULE BoundedFifo -----------------------------
(***************************************************************************)
(* What Interns assumes of a mailbox: a queue of at most Cap dms that hands *)
(* them out in the order they came, and on being freed frees what is left.  *)
(***************************************************************************)
EXTENDS Naturals, Sequences

CONSTANTS Dms, Cap

VARIABLES
    queue,
    out,            \* what the last operation handed out or refused
    released        \* the dms that free let go of, once it did

Init == queue = <<>> /\ out = <<>> /\ released = <<>>

Push(d) ==
    /\ IF Len(queue) < Cap THEN queue' = Append(queue, d) /\ out' = <<>>
                           ELSE queue' = queue /\ out' = <<"full">>
    /\ UNCHANGED released

Pop ==
    /\ IF queue = <<>> THEN queue' = queue /\ out' = <<"empty">>
                       ELSE queue' = Tail(queue) /\ out' = <<"dm", Head(queue)>>
    /\ UNCHANGED released

Count == out' = <<"count", Len(queue)>> /\ UNCHANGED <<queue, released>>

Free == queue' = <<>> /\ released' = queue /\ out' = <<"freed">>

Next == out # <<"freed">> /\ (Pop \/ Count \/ Free \/ \E d \in Dms : Push(d))

Spec == Init /\ [][Next]_<<queue, out, released>>
=============================================================================
