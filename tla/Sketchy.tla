------------------------------- MODULE Sketchy -------------------------------
(***************************************************************************)
(* sketchy / my_bad / regardless, loops, locals and calls: what the        *)
(* compiler makes of them (compiler.funny, resolver and code generator) and *)
(* how the interpreter runs that (vm.c), against what the statements mean. *)
(*                                                                         *)
(* A program is a function's body.  Values are integers, 0 is ghost, and an *)
(* error is the value that was chucked.  "keep" stores a lambda that        *)
(* captures a variable, "ring" calls it.                                    *)
(***************************************************************************)
EXTENDS Integers, Sequences, FiniteSetsExt

CONSTANTS Programs

VARIABLES
    program,
    frames,     \* vm->frames: code, ip, slotBase, handlers
    stack,      \* vm->stack
    kept,       \* the captured variable of the lambda kept last, open or closed
    said,       \* what was yapped
    outcome     \* of the program

vars == <<program, frames, stack, kept, said, outcome>>

Absent == -1    \* TRY_ABSENT, HANDLER_ABSENT

HasCatch(s) == s.form \in {"my_bad", "both"}
HasEver(s) == s.form \in {"regardless", "both"}

-----------------------------------------------------------------------------
(* The resolver: variables are slots, counted in their order of declaration *)

Slot(locals, x) == Max({i \in DOMAIN locals : locals[i] = x}) - 1

Declared(ss) == Cardinality({i \in DOMAIN ss : ss[i].op = "yo"})

\* The slots that lambdas capture anywhere below these statements.
RECURSIVE CapturedSlots(_, _)
CapturedSlots(ss, locals) ==
    IF ss = <<>> THEN {}
    ELSE LET s == Head(ss)
             later == IF s.op = "yo" THEN Append(locals, s.x) ELSE locals
             hidden == CASE s.op = "each" -> <<"$iter", s.x>>
                         [] s.op = "count" -> <<"$counter", "$step", "$stop", s.x>>
                         [] OTHER -> <<>>
         IN UNION {IF s.op = "keep" THEN {Slot(locals, s.x)} ELSE {},
                   IF s.op = "call" THEN {} ELSE CapturedSlots(s.body, locals \o hidden),
                   CapturedSlots(s.caught, Append(locals, s.x)),
                   CapturedSlots(s.ever, locals),
                   CapturedSlots(Tail(ss), later)}

-----------------------------------------------------------------------------
(* The code generator.  c holds the resolver's locals, the stack_depth, the depths that bail and *)
(* nvm unwind to, and the captured slots.                                                        *)

Ins(op, n) == <<[op |-> op, n |-> n, else |-> Absent, code |-> <<>>]>>
Op(op) == Ins(op, 0)

Expr(e, c) == IF e.var = "" THEN Ins("CONST", e.n) ELSE Ins("GET_LOCAL", Slot(c.locals, e.var))

\* close_locals_above, close_or_pop_top, emit_unwind_to
ClosesByPop(from, to, c) == [i \in 1 .. from - to |-> Op("POP")[1]]
Closes(from, to, c) ==
    [i \in 1 .. from - to |-> Op(IF from - i \in c.captured THEN "CLOSE_UPVAL" ELSE "POP")[1]]

\* Patches the jumps of bail or nvm to the place that many instructions from the start.
Land(code, op, place) ==
    [i \in DOMAIN code |->
        IF code[i].op = op THEN Ins("JUMP", place - i)[1] ELSE code[i]]

With(c, names) == [c EXCEPT !.locals = @ \o names, !.depth = @ + Len(names)]

RECURSIVE Code(_, _)

Block(ss, c) == Code(ss, c) \o Closes(c.depth + Declared(ss), c.depth, c)

\* A loop's body, as nvm leaves it: its variable is the last of the names.
LoopBody(s, c, names) ==
    LET inner == [With(c, names) EXCEPT !.bail = c.depth + Len(names) - 1, !.nvm = c.depth + Len(names)]
        body == Block(s.body, inner)
    IN Land(body, "NVM", Len(body)) \o Closes(inner.depth, inner.depth - 1, inner)

\* ITER_NEXT or the range's test, the body, and back; bail goes past it all.
Looped(test, body) ==
    LET code == Ins(test[1].op, test[1].n) \o test[2] \o body
    IN Land(code \o Ins("LOOP", Len(code) + 1), "BAIL", Len(code) + 1)

ForEach(s, c) ==
    LET body == LoopBody(s, c, <<"$iter", s.x>>)
    IN Expr(s.e, c) \o Op("ITER_NEW") \o Looped(<<Ins("ITER_NEXT", Len(body) + 1)[1], <<>> >>, body) \o Op("POP")

\* Counter, step and stop in three slots.  IN_RANGE stands for the fifteen instructions of the
\* test, STEP for the five that add the step to the counter.
ForRange(s, c) ==
    LET body == Ins("GET_LOCAL", c.depth) \o LoopBody(s, c, <<"$counter", "$step", "$stop", s.x>>)
                \o Ins("STEP", c.depth)
    IN Ins("CONST", 1) \o Ins("CONST", 1) \o Expr(s.e, c)
       \o Looped(<<Ins("IN_RANGE", c.depth)[1], Ins("JUMP_IF_FALSE", Len(body) + 1)>>, body)
       \o Op("POP") \o Op("POP") \o Op("POP")

While(s, c) ==
    LET inner == [c EXCEPT !.bail = c.depth, !.nvm = c.depth]
        block == Block(s.body, inner)
        body == Land(block, "NVM", Len(block))
    IN Looped(<<Expr(s.e, c)[1], Ins("JUMP_IF_FALSE", Len(body) + 1)>>, body)

If(s, c) ==
    LET then == Block(s.body, c)
        else == Block(s.ever, c)
    IN Expr(s.e, c) \o Ins("JUMP_IF_FALSE", Len(then) + 1) \o then \o Ins("JUMP", Len(else)) \o else

\* regardless is compiled twice: after a normal end, and on top of the error it then chucks again.
Try(s, c) ==
    LET TryPush(handler, finally) == <<[Ins("TRY_PUSH", handler)[1] EXCEPT !.else = finally]>>
        body == Block(s.body, c) \o Op("TRY_POP")
        normal == Block(s.ever, c)
        raised == Block(s.ever, [c EXCEPT !.depth = @ + 1]) \o Op("CHUCK")
        ever == IF HasEver(s) THEN normal \o Ins("JUMP", Len(raised)) \o raised ELSE <<>>
        caught == Block(s.caught, With(c, <<s.x>>)) \o Op("POP")
        catch == CASE s.form = "both" ->
                        TryPush(Absent, Len(caught) + Len(normal) + 2) \o caught \o Op("TRY_POP")
                   [] s.form = "my_bad" -> caught
                   [] OTHER -> <<>>
    IN TryPush(IF HasCatch(s) THEN Len(body) + 1 ELSE Absent,
               IF HasEver(s) THEN Len(body) + 1 + Len(catch) + Len(normal) + 1 ELSE Absent)
       \o body \o Ins("JUMP", Len(catch)) \o catch \o ever

\* compile_closure
Function(ss) ==
    LET c == [locals |-> <<>>, depth |-> 0, bail |-> 0, nvm |-> 0, captured |-> CapturedSlots(ss, <<>>)]
    IN Code(ss, c) \o Ins("CONST", 0) \o Op("RETURN")

Statement(s, c) ==
    CASE s.op = "yo" -> Expr(s.e, c)
      [] s.op = "set" -> Expr(s.e, c) \o Ins("SET_LOCAL", Slot(c.locals, s.x)) \o Op("POP")
      [] s.op = "yap" -> Expr(s.e, c) \o Op("YAP")
      [] s.op = "keep" -> Ins("CLOSURE", Slot(c.locals, s.x))
      [] s.op = "ring" -> Op("RING") \o Op("YAP")
      [] s.op = "call" -> <<[Op("CALL")[1] EXCEPT !.code = Function(s.body)]>> \o Op("YAP")
      [] s.op = "bounce" -> Expr(s.e, c) \o Op("RETURN")
      [] s.op = "chuck" -> Expr(s.e, c) \o Op("CHUCK")
      [] s.op = "bail" -> Closes(c.depth, c.bail, c) \o Op("BAIL")
      [] s.op = "nvm" -> Closes(c.depth, c.nvm, c) \o Op("NVM")
      [] s.op = "each" -> ForEach(s, c)
      [] s.op = "count" -> ForRange(s, c)
      [] s.op = "bruh" -> While(s, c)
      [] s.op = "sus" -> If(s, c)
      [] s.op = "sketchy" -> Try(s, c)

Code(ss, c) ==
    IF ss = <<>> THEN <<>>
    ELSE Statement(Head(ss), c) \o
         Code(Tail(ss), IF Head(ss).op = "yo" THEN With(c, <<Head(ss).x>>) ELSE c)

-----------------------------------------------------------------------------
(* The interpreter.  A slot of the stack holds a value, or an iterator with what it has left. *)

Val(n) == [v |-> n, left |-> <<>>]

Frame(code, base) == [code |-> code, ip |-> 0, base |-> base, handlers |-> <<>>]

Init ==
    /\ program \in Programs
    /\ frames = <<Frame(Function(program), 0)>>
    /\ stack = <<>> /\ said = <<>>
    /\ kept = [open |-> FALSE, slot |-> 0, v |-> 0]
    /\ outcome = [how |-> "running", v |-> 0]

Top == frames[Len(frames)]
Instruction == Top.code[Top.ip + 1]
Fetched(op) == outcome.how = "running" /\ Instruction.op = op

\* What is above the stack is whatever was there.
At(i) == IF i \in DOMAIN stack THEN stack[i] ELSE Val(0)
Peek == At(Len(stack))
Cut(n) == SubSeq(stack, 1, n)
Popped == Cut(Len(stack) - 1)
Local(slot) == Top.base + slot + 1

Closed(from) ==
    IF kept.open /\ kept.slot >= from THEN [kept EXCEPT !.open = FALSE, !.v = At(kept.slot + 1).v] ELSE kept

\* The next instruction is n further than the one after this.
Skip(n) == frames' = [frames EXCEPT ![Len(frames)].ip = @ + 1 + n]
Continue == Skip(0)

Push(v) == stack' = Append(stack, v)

Const ==
    /\ Fetched("CONST") /\ Push(Val(Instruction.n)) /\ Continue
    /\ UNCHANGED <<program, kept, said, outcome>>

GetLocal ==
    /\ Fetched("GET_LOCAL") /\ Push(At(Local(Instruction.n))) /\ Continue
    /\ UNCHANGED <<program, kept, said, outcome>>

SetLocal ==
    /\ Fetched("SET_LOCAL") /\ Continue
    /\ stack' = [stack EXCEPT ![Local(Instruction.n)] = Peek]
    /\ UNCHANGED <<program, kept, said, outcome>>

Pop ==
    /\ Fetched("POP") /\ stack' = Popped /\ Continue
    /\ UNCHANGED <<program, kept, said, outcome>>

CloseUpval ==
    /\ Fetched("CLOSE_UPVAL") /\ kept' = Closed(Len(stack) - 1) /\ stack' = Popped /\ Continue
    /\ UNCHANGED <<program, said, outcome>>

Yap ==
    /\ Fetched("YAP") /\ said' = Append(said, Peek.v) /\ stack' = Popped /\ Continue
    /\ UNCHANGED <<program, kept, outcome>>

\* CLOSURE, and SET_GLOBAL of the variable that keeps it
Keep ==
    /\ Fetched("CLOSURE") /\ Continue
    /\ kept' = [open |-> TRUE, slot |-> Top.base + Instruction.n, v |-> 0]
    /\ UNCHANGED <<program, stack, said, outcome>>

\* GET_GLOBAL, CALL, and the lambda's GET_UPVAL and RETURN
Ring ==
    /\ Fetched("RING") /\ Push(Val(IF kept.open THEN At(kept.slot + 1).v ELSE kept.v)) /\ Continue
    /\ UNCHANGED <<program, kept, said, outcome>>

IterNew ==
    /\ Fetched("ITER_NEW") /\ Continue
    /\ stack' = Append(Popped, [v |-> 0, left |-> [i \in 1 .. Peek.v |-> i]])
    /\ UNCHANGED <<program, kept, said, outcome>>

IterNext ==
    /\ Fetched("ITER_NEXT")
    /\ IF Peek.left # <<>>
       THEN /\ stack' = Append(Append(Popped, [Peek EXCEPT !.left = Tail(@)]), Val(Head(Peek.left)))
            /\ Continue
       ELSE UNCHANGED stack /\ Skip(Instruction.n)
    /\ UNCHANGED <<program, kept, said, outcome>>

InRange ==
    /\ Fetched("IN_RANGE") /\ Continue
    /\ LET counter == At(Local(Instruction.n)).v
           step == At(Local(Instruction.n + 1)).v
           stop == At(Local(Instruction.n + 2)).v
       IN Push(Val(IF (step >= 0 /\ counter < stop) \/ (step < 0 /\ counter > stop) THEN 1 ELSE 0))
    /\ UNCHANGED <<program, kept, said, outcome>>

Step ==
    /\ Fetched("STEP") /\ Continue
    /\ stack' = [stack EXCEPT ![Local(Instruction.n)] = Val(@.v + At(Local(Instruction.n + 1)).v)]
    /\ UNCHANGED <<program, kept, said, outcome>>

Jump ==
    /\ \/ Fetched("JUMP") /\ Skip(Instruction.n)
       \/ Fetched("LOOP") /\ Skip(- Instruction.n)
    /\ UNCHANGED <<program, stack, kept, said, outcome>>

JumpIfFalse ==
    /\ Fetched("JUMP_IF_FALSE") /\ stack' = Popped
    /\ Skip(IF Peek.v = 0 THEN Instruction.n ELSE 0)
    /\ UNCHANGED <<program, kept, said, outcome>>

TryPush ==
    /\ Fetched("TRY_PUSH")
    /\ LET Place(offset) == IF offset = Absent THEN Absent ELSE Top.ip + 1 + offset
           handler == [handler |-> Place(Instruction.n), finally |-> Place(Instruction.else), depth |-> Len(stack)]
       IN frames' = [frames EXCEPT ![Len(frames)].ip = @ + 1, ![Len(frames)].handlers = Append(@, handler)]
    /\ UNCHANGED <<program, stack, kept, said, outcome>>

TryPop ==
    /\ Fetched("TRY_POP")
    /\ frames' = [frames EXCEPT ![Len(frames)].ip = @ + 1, ![Len(frames)].handlers = SubSeq(@, 1, Len(@) - 1)]
    /\ UNCHANGED <<program, stack, kept, said, outcome>>

Call ==
    /\ Fetched("CALL")
    /\ frames' = Append([frames EXCEPT ![Len(frames)].ip = @ + 1], Frame(Instruction.code, Len(stack)))
    /\ UNCHANGED <<program, stack, kept, said, outcome>>

Return ==
    /\ Fetched("RETURN")
    /\ kept' = Closed(Top.base)
    /\ IF Len(frames) = 1
       THEN /\ outcome' = [how |-> "bounce", v |-> Peek.v]
            /\ stack' = <<>> /\ UNCHANGED frames
       ELSE /\ frames' = SubSeq(frames, 1, Len(frames) - 1)
            /\ stack' = Append(Cut(Top.base), Peek) /\ UNCHANGED outcome
    /\ UNCHANGED <<program, said>>

\* vm_unwind_to_handler: the innermost handler of the innermost frame that has one.
Chuck ==
    /\ Fetched("CHUCK")
    /\ LET ready == {i \in DOMAIN frames : frames[i].handlers # <<>>}
           frame == frames[Max(ready)]
           h == frame.handlers[Len(frame.handlers)]
       IN IF ready = {}
          THEN /\ outcome' = [how |-> "chuck", v |-> Peek.v]
               /\ kept' = Closed(0) /\ stack' = <<>> /\ UNCHANGED frames
          ELSE /\ frames' = Append(SubSeq(frames, 1, Max(ready) - 1),
                              [frame EXCEPT !.ip = IF h.handler # Absent THEN h.handler ELSE h.finally,
                                            !.handlers = SubSeq(@, 1, Len(@) - 1)])
               /\ kept' = Closed(h.depth) /\ stack' = Append(Cut(h.depth), Peek)
               /\ UNCHANGED outcome
    /\ UNCHANGED <<program, said>>

Next ==
    \/ Const \/ GetLocal \/ SetLocal \/ Pop \/ CloseUpval \/ Yap \/ Keep \/ Ring
    \/ IterNew \/ IterNext \/ InRange \/ Step \/ Jump \/ JumpIfFalse
    \/ TryPush \/ TryPop \/ Call \/ Return \/ Chuck

Spec == Init /\ [][Next]_vars

-----------------------------------------------------------------------------
(* What the statements mean (LANGUAGE.md): variables are cells, and a statement ends normally     *)
(* ("on") or by bail, nvm, bounce or chuck.                                                        *)

Now(st, e, env) == IF e.var = "" THEN e.n ELSE st.cells[env[e.var]]

Ends(st, how, v) == [st EXCEPT !.how = how, !.v = v]
Says(st, v) == [st EXCEPT !.said = Append(@, v)]
NewCell(st, v) == [st EXCEPT !.cells = Append(@, v)]
Bind(env, x, st) == [y \in DOMAIN env \cup {x} |-> IF y = x THEN Len(st.cells) ELSE env[y]]

RECURSIVE Meaning(_, _, _)

\* The body for each of the values, until it is left.
RECURSIVE Each(_, _, _, _, _)
Each(s, env, st, i, n) ==
    IF i > n THEN st
    ELSE LET bound == NewCell(st, i)
             r == Meaning(s.body, Bind(env, s.x, bound), bound)
         IN CASE r.how \in {"on", "nvm"} -> Each(s, env, Ends(r, "on", 0), i + 1, n)
              [] r.how = "bail" -> Ends(r, "on", 0)
              [] OTHER -> r

RECURSIVE Bruh(_, _, _)
Bruh(s, env, st) ==
    IF Now(st, s.e, env) = 0 THEN st
    ELSE LET r == Meaning(s.body, env, st)
         IN CASE r.how \in {"on", "nvm"} -> Bruh(s, env, Ends(r, "on", 0))
              [] r.how = "bail" -> Ends(r, "on", 0)
              [] OTHER -> r

Tried(s, env, st) ==
    LET b == Meaning(s.body, env, st)
        bound == NewCell(Ends(b, "on", 0), b.v)
        c == IF HasCatch(s) /\ b.how = "chuck" THEN Meaning(s.caught, Bind(env, s.x, bound), bound) ELSE b
        f == Meaning(s.ever, env, Ends(c, "on", 0))
    IN CASE ~ HasEver(s) -> c
         [] f.how = "on" -> Ends(f, c.how, c.v)
         [] OTHER -> f

Called(s, st) ==
    LET r == Meaning(s.body, [x \in {} |-> 0], st)
    IN IF r.how = "chuck" THEN r ELSE Says(Ends(r, "on", 0), r.v)

Effect(s, env, st) ==
    CASE s.op = "yo" -> NewCell(st, Now(st, s.e, env))
      [] s.op = "set" -> [st EXCEPT !.cells[env[s.x]] = Now(st, s.e, env)]
      [] s.op = "yap" -> Says(st, Now(st, s.e, env))
      [] s.op = "keep" -> [st EXCEPT !.kept = env[s.x]]
      [] s.op = "ring" -> Says(st, IF st.kept = 0 THEN 0 ELSE st.cells[st.kept])
      [] s.op = "call" -> Called(s, st)
      [] s.op \in {"bounce", "chuck"} -> Ends(st, s.op, Now(st, s.e, env))
      [] s.op \in {"bail", "nvm"} -> Ends(st, s.op, 0)
      [] s.op = "each" -> Each(s, env, st, 1, Now(st, s.e, env))
      [] s.op = "count" -> Each(s, env, st, 1, Now(st, s.e, env) - 1)
      [] s.op = "bruh" -> Bruh(s, env, st)
      [] s.op = "sus" -> Meaning(IF Now(st, s.e, env) # 0 THEN s.body ELSE s.ever, env, st)
      [] s.op = "sketchy" -> Tried(s, env, st)

Meaning(ss, env, st) ==
    IF ss = <<>> THEN st
    ELSE LET r == Effect(Head(ss), env, st)
         IN IF r.how # "on" THEN r
            ELSE Meaning(Tail(ss), IF Head(ss).op = "yo" THEN Bind(env, Head(ss).x, r) ELSE env, r)

\* A program says and answers what its statements mean, whatever is caught, cleaned up or left on the
\* way (compiler.funny cstmt_Try, cstmt_Break, emit_unwind_to; vm.c vm_unwind_to_handler).
MeansWhatItSays ==
    outcome.how # "running" =>
      LET m == Meaning(program, [x \in {} |-> 0],
                       [said |-> <<>>, cells |-> <<>>, kept |-> 0, how |-> "on", v |-> 0])
      IN /\ said = m.said
         /\ outcome = [how |-> IF m.how = "on" THEN "bounce" ELSE m.how, v |-> m.v]
=============================================================================
