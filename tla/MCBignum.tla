------------------------------ MODULE MCBignum ------------------------------
(* The text of bignums that are many limbs long (bignum.c to_decimal_string). *)
EXTENDS Bignum

CONSTANT Longest        \* in limbs

VARIABLES number, chunks

\* The largest number of each length.
Init ==
    /\ \E n \in 1 .. Longest : number = [sign |-> 1, limbs |-> [i \in 1 .. n |-> Base - 1]]
    /\ chunks = 0

\* The chunks that to_decimal_string writes.
ToText == chunks = 0 /\ chunks' = Len(Chunks(number.limbs)) /\ UNCHANGED number

Next == ToText

Spec == Init /\ [][Next]_<<number, chunks>>

\* The chunks of a number fit the array made for them (bignum.c:663-664: "worst case is roughly
\* one chunk per limb, plus a little slack").
ChunksFit == chunks <= ChunkCapacity(number)
=============================================================================
