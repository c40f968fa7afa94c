------------------------------ MODULE LongJumps ------------------------------
(***************************************************************************)
(* Jumps of more than 64 KB: how the compiler turns a function's            *)
(* instructions into bytes and widens the jumps whose offset does not fit   *)
(* (compiler.funny, chunk_emit to chunk_finish).                            *)
(*                                                                         *)
(* A function is given as Sketchy's code generator leaves it, its jumps     *)
(* counted in instructions.                                                 *)
(***************************************************************************)
EXTENDS Integers, Sequences, FiniteSetsExt

CONSTANTS
    Codes,      \* functions
    MaxShorts   \* the largest offsets a short jump can hold: 0xFFFF, and small values to check

VARIABLES
    emitted,    \* <<code, maxShort>>
    final       \* the bytes it became: pieces, and where the line table says each starts

jumpVars == <<emitted, final>>

CondJumpOps == {"JUMP_IF_FALSE"}
JumpOps == {"JUMP", "LOOP", "ITER_NEXT"} \cup CondJumpOps

\* Bytes of an instruction, or of the instructions it stands for.
Width(op) ==
    CASE op \in {"POP", "CLOSE_UPVAL", "RETURN", "CHUCK", "ITER_NEW", "TRY_POP"} -> 1
      [] op \in {"GET_LOCAL", "SET_LOCAL"} -> 2
      [] op \in JumpOps \cup {"CONST", "YAP"} -> 3
      [] op \in {"CLOSURE", "RING", "CALL", "TRY_PUSH"} -> 5
      [] op = "STEP" -> 8
      [] op = "IN_RANGE" -> 25

-----------------------------------------------------------------------------
(* As first emitted *)

\* The running totals of w, from 0.
Sums(w) ==
    LET sums[n \in 0 .. Len(w)] ==
            IF n = 0 THEN <<0>> ELSE LET before == sums[n - 1] IN Append(before, before[n] + w[n])
    IN sums[Len(w)]

\* Where each instruction starts, and the end of the code.
Offsets(code) == Sums([i \in DOMAIN code |-> Width(code[i].op)])

TargetOf(code, i) == IF code[i].op = "LOOP" THEN i + 1 - code[i].n ELSE i + 1 + code[i].n

\* A short jump can hop over a wide one.  Jumps go to instructions of the function or to its end, loops
\* back and the others ahead; handlers lie ahead.
ASSUME CodesAssumption ==
    /\ MaxShorts \subseteq Nat \ 0 .. 4
    /\ \A code \in Codes :
        /\ Len(code) \in Nat /\ DOMAIN code = 1 .. Len(code)
        /\ \A i \in DOMAIN code :
            /\ Width(code[i].op) \in Nat
            /\ code[i].op \in JumpOps => code[i].n \in Nat /\ TargetOf(code, i) \in 1 .. Len(code) + 1
            /\ code[i].op = "TRY_PUSH" => {code[i].n, code[i].else} \subseteq {-1} \cup 0 .. Len(code) - i

\* What a jump at pos of so many bytes needs to reach a target.
Reach(op, pos, size, target) == IF op = "LOOP" THEN pos + size - target ELSE target - (pos + size)

Fits(offset, maxShort) == offset \in 0 .. maxShort

\* ch.jumps: the jumps among the instructions, which are in the order of their positions.
Sites(code) == {i \in DOMAIN code : code[i].op \in JumpOps}

NeedsRelax(code, maxShort) ==
    LET at == Offsets(code)
    IN \E i \in Sites(code) : ~ Fits(Reach(code[i].op, at[i], 3, at[TargetOf(code, i)]), maxShort)

\* patch_try_push: two bytes each, whatever the distance, 0xFFFF for none.
TryOffset(at, i, n, maxShort) == IF n = -1 THEN maxShort ELSE (at[i + 1 + n] - at[i + 1]) % (maxShort + 1)

-----------------------------------------------------------------------------
(* chunk_relax *)

RelaxSize(op, long) == IF ~ long THEN 3 ELSE IF op \in CondJumpOps THEN 11 ELSE 5

\* By how much the jumps before each instruction have grown.
Prefix(code, long) ==
    Sums([i \in DOMAIN code |-> IF i \in Sites(code) THEN RelaxSize(code[i].op, i \in long) - 3 ELSE 0])

\* By how much the jumps that start at p or before it have grown.
Growth(code, cum, p) ==
    LET at == Offsets(code)
        starts == {i \in Sites(code) : at[i] <= p}
    IN IF starts = {} THEN 0 ELSE cum[Max(starts) + 1]

ShiftBehind(code, cum, p) == p + Growth(code, cum, p)

\* Where an old offset goes: every jump that ended by then has grown.
Shift(code, cum, p) == p + Growth(code, cum, p - 3)

\* One round marks what does not fit when those in long are wide.
Marked(code, long, maxShort) ==
    LET at == Offsets(code)
        cum == Prefix(code, long)
    IN long \cup {i \in Sites(code) :
            ~ Fits(Reach(code[i].op, Shift(code, cum, at[i]), 3, Shift(code, cum, at[TargetOf(code, i)])), maxShort)}

\* Round after round, until one marks nothing.
MarkedAll(code, maxShort) ==
    LET round[n \in 0 .. Len(code)] == IF n = 0 THEN {} ELSE Marked(code, round[n - 1], maxShort)
    IN round[CHOOSE n \in 0 .. Len(code) : Marked(code, round[n], maxShort) = round[n]]

\* An instruction of the final code: its bytes, and its offset, or a handler's two.
Out(op, bytes, to) == [op |-> op, bytes |-> bytes, to |-> to, else |-> 0]

Unmoved(code, i, maxShort) ==
    LET at == Offsets(code)
    IN IF code[i].op = "TRY_PUSH"
       THEN [Out("TRY_PUSH", 5, TryOffset(at, i, code[i].n, maxShort))
                EXCEPT !.else = TryOffset(at, i, code[i].else, maxShort)]
       ELSE Out(code[i].op, Width(code[i].op), 0)

\* A jump at its new place: short, wide, or over a trampoline.
Jump(op, long, newPos, newTarget) ==
    LET Offset(size) == Reach(op, newPos, size, newTarget)
    IN CASE ~ long -> <<Out(op, 3, Offset(3))>>
         [] long /\ op = "LOOP" -> <<Out("LOOP_LONG", 5, Offset(5))>>
         [] long /\ op = "JUMP" -> <<Out("JUMP_LONG", 5, Offset(5))>>
         [] OTHER -> <<Out(op, 3, 3), Out("JUMP", 3, 5), Out("JUMP_LONG", 5, Offset(11))>>

Bytes(piece) == Sums([i \in DOMAIN piece |-> piece[i].bytes])[Len(piece) + 1]

\* One piece per instruction, and the line table's offset of each.
Relaxed(code, maxShort) ==
    LET at == Offsets(code)
        long == MarkedAll(code, maxShort)
        cum == Prefix(code, long)
        Piece(i, newPos) ==
            IF i \in Sites(code)
            THEN Jump(code[i].op, i \in long, newPos, Shift(code, cum, at[TargetOf(code, i)]))
            ELSE <<Unmoved(code, i, maxShort)>>
        out[n \in 0 .. Len(code)] ==    \* the pieces up to n, and their bytes
            IF n = 0 THEN [pieces |-> <<>>, bytes |-> 0]
            ELSE LET before == out[n - 1]
                     piece == Piece(n, before.bytes)
                 IN [pieces |-> Append(before.pieces, piece), bytes |-> before.bytes + Bytes(piece)]
    IN [pieces |-> out[Len(code)].pieces, lines |-> [i \in DOMAIN code |-> Shift(code, cum, at[i])]]

Unrelaxed(code, maxShort) ==
    LET at == Offsets(code)
    IN [pieces |-> [i \in DOMAIN code |->
            <<IF i \in Sites(code)
              THEN Out(code[i].op, 3, Reach(code[i].op, at[i], 3, at[TargetOf(code, i)]))
              ELSE Unmoved(code, i, maxShort)>>],
        lines |-> [i \in DOMAIN code |-> at[i]]]

\* chunk_finish
Finished(code, maxShort) ==
    IF NeedsRelax(code, maxShort) THEN Relaxed(code, maxShort) ELSE Unrelaxed(code, maxShort)

-----------------------------------------------------------------------------
JumpInit == emitted = <<>> /\ final = <<>>

FinishChunk ==
    \E code \in Codes, maxShort \in MaxShorts :
        emitted' = <<code, maxShort>> /\ final' = Finished(code, maxShort)

JumpNext == emitted = <<>> /\ FinishChunk

JumpSpec == JumpInit /\ [][JumpNext]_jumpVars

-----------------------------------------------------------------------------
\* Where the pieces really start.
Starts(pieces) == Sums([i \in DOMAIN pieces |-> Bytes(pieces[i])])

\* Where the interpreter is after the instructions of a piece that starts at pos, the jump taken.
Taken(piece, pos) ==
    LET first == piece[1]
        landed == IF first.op \in {"LOOP", "LOOP_LONG"} THEN pos + first.bytes - first.to ELSE pos + first.bytes + first.to
    IN IF Len(piece) = 3 /\ landed = pos + 6 THEN pos + 11 + piece[3].to ELSE landed

Handler(offset, end, maxShort) == IF offset = maxShort THEN -1 ELSE end + offset

\* What chunk_relax and patch_try_push do not take care of: a widened ITER_NEXT, a widened jump between
\* a TRY_PUSH and its handler, a handler too far away.
Spared(code, maxShort) ==
    LET at == Offsets(code)
        long == IF NeedsRelax(code, maxShort) THEN MarkedAll(code, maxShort) ELSE {}
    IN /\ \A i \in long : code[i].op # "ITER_NEXT"
       /\ \A i \in DOMAIN code : code[i].op = "TRY_PUSH" =>
            \A n \in {code[i].n, code[i].else} \ {-1} :
                at[i + 1 + n] - at[i + 1] < maxShort /\ long \cap (i + 1 .. i + n) = {}

\* Every jump and every handler goes to the instruction it named, a jump not taken goes on to the next
\* one, and the line table names each instruction's place
\* (compiler.funny chunk_relax; vm.c OP_JUMP to OP_LOOP_LONG, OP_ITER_NEXT, OP_TRY_PUSH).
JumpsLand ==
    emitted # <<>> =>
        LET code == emitted[1]
            maxShort == emitted[2]
            pieces == final.pieces
            at == Starts(pieces)
        IN \A i \in DOMAIN code :
            /\ final.lines[i] = at[i]
            /\ i \in Sites(code) => Taken(pieces[i], at[i]) = at[TargetOf(code, i)]
            /\ Len(pieces[i]) = 3 => at[i] + 6 + pieces[i][2].to = at[i + 1]
            /\ \A j \in DOMAIN pieces[i] :
                    pieces[i][j].op \notin {"JUMP_LONG", "LOOP_LONG"} => Fits(pieces[i][j].to, maxShort)
            /\ code[i].op = "TRY_PUSH" =>
                LET end == at[i + 1]
                    Named(n) == IF n = -1 THEN -1 ELSE at[i + 1 + n]
                IN /\ Handler(pieces[i][1].to, end, maxShort) = Named(code[i].n)
                   /\ Handler(pieces[i][1].else, end, maxShort) = Named(code[i].else)

\* Whatever had to be widened, the jumps of a function land that has nothing chunk_finish does not take
\* care of.
SparedJumpsLand == emitted # <<>> /\ Spared(emitted[1], emitted[2]) => JumpsLand
=============================================================================
