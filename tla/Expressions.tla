----------------------------- MODULE Expressions -----------------------------
(***************************************************************************)
(* Expressions: what the compiler makes of them (compiler.funny, folding    *)
(* and code generation) and how the interpreter runs that (vm.c), against   *)
(* what they mean.                                                          *)
(*                                                                         *)
(* An expression's operands wait on the stack, next to the variables of the *)
(* functions that are running, and the compiler has to know how deep the    *)
(* stack is at every instruction: it addresses variables, and the operands  *)
(* of a[i] += v, by their place, and leaves a block by popping down to it.  *)
(*                                                                         *)
(* A program is the body of a function.  The functions it calls are         *)
(* numbered; number 0 is a native that says its argument and hands it back. *)
(* Upvalues are those of functions that capture the program's variables.    *)
(* An error ends the program (see Sketchy for handlers).                    *)
(***************************************************************************)
EXTENDS Integers, SequencesExt

CONSTANTS
    Programs,
    Functions,      \* params, defaults (of the last params), rest and body; the last one is the
                    \* method m of the squad
    Captured,       \* the program's variables that functions use: their slots
    Objects         \* what is on the heap at the start: a stash and an instance, which has the field p

VARIABLES
    program,
    frames,     \* vm->frames: code, ip, slotBase
    stack,      \* vm->stack
    heap,       \* stashes, instances and pointas
    said,
    outcome

vars == <<program, frames, stack, heap, said, outcome>>

-----------------------------------------------------------------------------
(* Values.  A numba that is not whole is a floating one and counts halves; objects are their     *)
(* place on the heap; what is thrown instead of a value is an error, named by its kind.          *)

Of(kind, n) == [kind |-> kind, n |-> n]
Numba(n) == Of("numba", n)
Ghost == Of("ghost", 0)
Boolski(b) == Of("boolski", IF b THEN 1 ELSE 0)
Pointa(ref) == Of("pointa", ref)

IsError(v) == v.kind \in {"TypeVibeMismatch", "GhostError", "OutOfPocket", "WhoDis", "NotACallableRizz",
                          "WrongNumberOfHomies", "MathAintMathin"}
Error(kind) == Of(kind, 0)

IsNumba(v) == v.kind \in {"numba", "halves"}
IsIntLike(v) == v.kind \in {"numba", "boolski"}
Halves(v) == IF v.kind = "halves" THEN v.n ELSE 2 * v.n
Truthy(v, h) ==
    CASE v.kind \in {"numba", "halves", "boolski"} -> v.n # 0
      [] v.kind = "ghost" -> FALSE
      [] v.kind = "stash" -> h[v.n].items # <<>>
      [] OTHER -> TRUE

\* Numbas that count halves once one of them does.
Arithmetic(op, a, b) ==
    LET N(i, j) == IF op = "+" THEN i + j ELSE i - j
    IN IF a.kind = "numba" /\ b.kind = "numba" THEN Numba(N(a.n, b.n)) ELSE Of("halves", N(Halves(a), Halves(b)))

\* vm_add, vm_sub, vm_value_equal, vm_compare, vm_shift
\* No program here has pointas or two stashes as the operands of these: + and - would join or
\* move them, and == compare what is in them.
Binary(op, a, b) ==
    CASE op = "==" -> Boolski(IF IsNumba(a) /\ IsNumba(b) THEN Halves(a) = Halves(b) ELSE a = b)
      [] op \in {"+", "-"} /\ IsNumba(a) /\ IsNumba(b) -> Arithmetic(op, a, b)
      [] op = "<" /\ IsNumba(a) /\ IsNumba(b) -> Boolski(Halves(a) < Halves(b))
      [] op = "<<" /\ IsIntLike(a) /\ IsIntLike(b) ->
            IF b.n < 0 THEN Error("MathAintMathin") ELSE Numba(a.n * 2 ^ b.n)
      [] OTHER -> Error("TypeVibeMismatch")

\* vm_neg, OP_NOT, vm_bnot
Unary(op, a, h) ==
    CASE op = "!" -> Boolski(~ Truthy(a, h))
      [] op = "-" /\ IsNumba(a) -> Of(a.kind, - a.n)
      [] op = "~" /\ IsIntLike(a) -> Numba(- a.n - 1)
      [] OTHER -> Error("TypeVibeMismatch")

-----------------------------------------------------------------------------
(* Places: an element of a stash, or the field p of an instance.  A pointa's object on the heap  *)
(* has the container and the key, or the cell of a variable.                                     *)

p == Of("name", 1)

Index(h, obj, key) == IF key.n < 0 THEN key.n + Len(h[obj.n].items) + 1 ELSE key.n + 1

\* What is wrong with a place, or ghost.  vm_get_index, vm_set_index, vm_get_prop, vm_set_prop
Flaw(h, obj, key, otherwise) ==
    CASE obj.kind = "ghost" -> Error("GhostError")
      [] key.kind = "name" /\ obj.kind = "instance" -> Ghost
      [] key.kind = "name" -> Error(otherwise)
      [] obj.kind = "instance" -> Error("WhoDis")
      [] obj.kind # "stash" \/ ~ IsIntLike(key) -> Error("TypeVibeMismatch")
      [] Index(h, obj, key) \notin DOMAIN h[obj.n].items -> Error("OutOfPocket")
      [] OTHER -> Ghost

Get(h, obj, key) ==
    LET flaw == Flaw(h, obj, key, "WhoDis")
    IN IF IsError(flaw) THEN flaw ELSE h[obj.n].items[IF key.kind = "name" THEN key.n ELSE Index(h, obj, key)]

Set(h, obj, key, v) ==
    LET flaw == Flaw(h, obj, key, "TypeVibeMismatch")
        at == IF key.kind = "name" THEN key.n ELSE Index(h, obj, key)
    IN IF IsError(flaw) THEN [heap |-> h, v |-> flaw]
       ELSE [heap |-> [h EXCEPT ![obj.n].items[at] = v], v |-> v]

\* What dereferencing something that is no pointa throws.
Astray(v) == Error(IF v.kind = "ghost" THEN "GhostError" ELSE "TypeVibeMismatch")

-----------------------------------------------------------------------------
(* Folding *)

\* An expression: its form, what is special about it, and its operands in the order of the text.
Expr(form, what, args) == [form |-> form, what |-> what, args |-> args]

Literal(v) == Expr("literal", v, <<>>)
IsNumeric(e) == e.form = "literal" /\ IsNumba(e.what)

Folds == {"+", "-", "==", "<", "<<"}     \* of FOLDABLE_NUMERIC

\* to_int, which cuts off
Whole(v) == IF v.kind = "numba" THEN v ELSE Numba(IF v.n < 0 THEN - ((- v.n) \div 2) ELSE v.n \div 2)

ApplyNumeric(op, a, b) == IF op = "<<" THEN Binary(op, Whole(a), Whole(b)) ELSE Binary(op, a, b)

RECURSIVE Fold(_)
Fold(e) ==
    LET folded == [e EXCEPT !.args = [i \in DOMAIN @ |-> Fold(@[i])]]
        constant == \A i \in DOMAIN folded.args : IsNumeric(folded.args[i])
    IN CASE e.form = "unary" /\ e.what # "!" ->
              IF ~ constant THEN folded
              ELSE LET v == folded.args[1].what
                   IN Literal(Unary(e.what, IF e.what = "~" THEN Whole(v) ELSE v, <<>>))
         [] e.form = "binary" ->
              LET v == ApplyNumeric(e.what, folded.args[1].what, folded.args[2].what)
              IN IF constant /\ e.what \in Folds /\ ~ IsError(v) THEN Literal(v) ELSE folded
         [] OTHER -> e

-----------------------------------------------------------------------------
(* The code generator.  A chunk has the code, the depth (stack_depth) the compiler takes the     *)
(* stack to have after it, and the names of the slots.                                           *)

Emit(ch, op, n, effect) ==
    [ch EXCEPT !.code = Append(@, [op |-> op, n |-> n]), !.depth = @ + effect]

\* A jump that stands at an instruction lands after the last one.
Patch(ch, site) == [ch EXCEPT !.code[site].n = Len(ch.code) - site]

GetVariable(ch, x) ==
    IF Contains(ch.locals, x) THEN Emit(ch, "GET_LOCAL", SelectLastInSeq(ch.locals, LAMBDA y : y = x) - 1, 1)
    ELSE Emit(ch, "GET_UPVAL", Captured[x], 1)

SetVariable(ch, x) ==
    IF Contains(ch.locals, x) THEN Emit(ch, "SET_LOCAL", SelectLastInSeq(ch.locals, LAMBDA y : y = x) - 1, 0)
    ELSE Emit(ch, "SET_UPVAL", Captured[x], 0)

RECURSIVE Compile(_, _)

All(ch, es) == FoldLeft(Compile, ch, es)

\* Past a jump over the second operand, unless the first one is to be replaced by it.
Either(ch, jump, second) ==
    LET jumped == Emit(ch, jump, 0, 0)
    IN Patch(Compile(Emit(jumped, "POP", 0, -1), second), Len(jumped.code))

Coalesce(ch, second) ==
    LET jumped == Emit(Emit(ch, "JUMP_IF_GHOST_KEEP", 0, 0), "JUMP", 0, 0)
        site == Len(jumped.code)
    IN Patch(Compile(Emit(Patch(jumped, site - 1), "POP", 0, -1), second), site)

\* A mutation: the second branch is compiled as if it came after the first.
TernaryOnBoth(ch, e) ==
    LET test == Emit(Compile(ch, e.args[1]), "JUMP_IF_FALSE", 0, -1)
        then == Emit(Compile(test, e.args[2]), "JUMP", 0, 0)
    IN Patch(Compile(Patch(then, Len(test.code)), e.args[3]), Len(then.code))

Ternary(ch, e) ==
    LET test == Emit(Compile(ch, e.args[1]), "JUMP_IF_FALSE", 0, -1)
        then == Emit(Compile(test, e.args[2]), "JUMP", 0, 0)
        else == Compile(Patch([then EXCEPT !.depth = test.depth], Len(test.code)), e.args[3])
    IN Patch(else, Len(then.code))

\* Takes the depth for one more than it is.
Pipe(ch, e) ==
    LET argc == Len(e.args) - 1     \* callee, left, and further arguments
    IN [Emit(All(ch, e.args), "CALL", argc, - argc) EXCEPT !.depth = @ + 1]

\* x op= v
Assign(ch, x, op, value) ==
    LET old == GetVariable(ch, x)
        new == CASE op = "" -> Compile(ch, value)
                 [] op = "||" -> Either(old, "JUMP_IF_TRUE_KEEP", value)
                 [] OTHER -> Emit(Compile(old, value), op, 0, -1)
    IN SetVariable(new, x)

\* o.p op= v and *q op= v read through a copy of what is on top.
SetOf(ch, get, set, n, op, value) ==
    IF op = "" THEN Emit(Compile(ch, value), set, n, -1)
    ELSE LET old == Emit(Emit(ch, "DUP", 0, 1), get, n, 0)
         IN Emit(Emit(Compile(old, value), op, 0, -1), set, n, -1)

\* a[i] op= v reads through copies of the slots in which it takes a and i to be.
SetIndex(ch, e) ==
    LET obj == Compile(ch, e.args[1])
        key == Compile(obj, e.args[2])
        old == Emit(Emit(Emit(key, "GET_LOCAL", obj.depth - 1, 1), "GET_LOCAL", key.depth - 1, 1), "GET_INDEX", 0, -1)
        new == IF e.what = "" THEN Compile(key, e.args[3]) ELSE Emit(Compile(old, e.args[3]), e.what, 0, -1)
    IN Emit(new, "SET_INDEX", 0, -2)

\* obj?.name(args) jumps over the arguments and the call.
Invoke(ch, e, safe) ==
    LET obj == Compile(ch, e.args[1])
        ready == IF safe THEN Emit(obj, "JUMP_IF_GHOST_KEEP", 0, 0) ELSE obj
        argc == Len(e.args) - 1
        called == Emit(All(ready, Tail(e.args)), "INVOKE", [name |-> e.what, argc |-> argc], - argc)
    IN IF safe THEN Patch(called, Len(ready.code)) ELSE called

Address(ch, place) ==
    CASE place.form = "variable" ->
            IF Contains(ch.locals, place.what)
            THEN Emit(ch, "PTR_LOCAL", SelectLastInSeq(ch.locals, LAMBDA y : y = place.what) - 1, 1)
            ELSE Emit(ch, "PTR_UPVAL", Captured[place.what], 1)
      [] place.form = "index" -> Emit(All(ch, place.args), "PTR_INDEX", 0, -1)
      [] place.form = "get" -> Emit(All(ch, place.args), "PTR_PROP", p, 0)

Form(ch, e) ==
    LET first == Compile(ch, e.args[1])
    IN CASE e.form = "literal" -> Emit(ch, "CONST", e.what, 1)
         [] e.form = "variable" -> GetVariable(ch, e.what)
         [] e.form = "unary" -> Emit(first, "UNARY", e.what, 0)
         [] e.form = "binary" -> Emit(All(ch, e.args), e.what, 0, -1)
         [] e.form = "&&" -> Either(first, "JUMP_IF_FALSE_KEEP", e.args[2])
         [] e.form = "||" -> Either(first, "JUMP_IF_TRUE_KEEP", e.args[2])
         [] e.form = "??" -> Coalesce(first, e.args[2])
         [] e.form = "?:" -> Ternary(ch, e)
         [] e.form = "|>" -> Pipe(ch, e)
         [] e.form = "assign" -> Assign(ch, e.what.x, e.what.op, e.args[1])
         [] e.form = "set" -> SetOf(first, "GET_PROP", "SET_PROP", p, e.what, e.args[2])
         [] e.form = "set index" -> SetIndex(ch, e)
         [] e.form = "set deref" -> SetOf(first, "DEREF", "SET_DEREF", 0, e.what, e.args[2])
         [] e.form = "call" -> Emit(All(ch, e.args), "CALL", Len(e.args) - 1, 1 - Len(e.args))
         [] e.form = "invoke" -> Invoke(ch, e, FALSE)
         [] e.form = "safe invoke" -> Invoke(ch, e, TRUE)
         [] e.form = "index" -> Emit(All(ch, e.args), "GET_INDEX", 0, -1)
         [] e.form = "get" -> Emit(first, "GET_PROP", p, 0)
         [] e.form = "safe get" -> Emit(first, "GET_PROP_SAFE", p, 0)
         [] e.form = "stash" -> Emit(All(ch, e.args), "BUILD_STASH", Len(e.args), 1 - Len(e.args))
         [] e.form = "address" -> Address(ch, e.args[1])
         [] e.form = "deref" -> Emit(first, "DEREF", 0, 0)

Compile(ch, e) == Form(ch, Fold(e))

\* Statements: yo x = e, e, { ... } and bounce e.
RECURSIVE Statements(_, _)
Statements(ch, ss) ==
    LET Pops(c, n) == FoldLeft(LAMBDA d, i : Emit(d, "POP", 0, -1), c, [i \in 1 .. n |-> i])
        Statement(c, s) ==
            CASE s.op = "yo" -> [Compile(c, s.e) EXCEPT !.locals = Append(@, s.x)]
              [] s.op = "do" -> Emit(Compile(c, s.e), "POP", 0, -1)
              [] s.op = "bounce" -> Emit(Compile(c, s.e), "RETURN", 0, -1)
              [] s.op = "block" ->
                    LET inner == Statements(c, s.body)
                    IN [Pops(inner, inner.depth - c.depth) EXCEPT !.locals = c.locals]
    IN FoldLeft(Statement, ch, ss)

\* A parameter that is ghost takes its default; the defaults are those of the last parameters.
Default(f, ch, slot) ==
    LET skip == Emit(Emit(Emit(Emit(ch, "GET_LOCAL", slot, 1), "CONST", Ghost, 1), "==", 0, -1), "JUMP_IF_FALSE", 0, -1)
        e == f.defaults[slot + 1 - (Len(f.params) - Len(f.defaults))]
    IN Patch(Emit(Emit(Compile(skip, e), "SET_LOCAL", slot, 0), "POP", 0, -1), Len(skip.code))

\* compile_closure; a method's first parameter is me.
Function(f) ==
    LET slots == f.params \o (IF f.rest = "" THEN <<>> ELSE <<f.rest>>)
        ch == [code |-> <<>>, depth |-> Len(slots), locals |-> slots]
        ready == FoldLeft(LAMBDA c, i : Default(f, c, Len(f.params) - Len(f.defaults) + i - 1), ch,
                          [i \in DOMAIN f.defaults |-> i])
    IN Emit(Emit(Statements(ready, f.body), "CONST", Ghost, 1), "RETURN", 0, -1).code

-----------------------------------------------------------------------------
(* The interpreter *)

Frame(f, base) == [code |-> Function(f), ip |-> 0, base |-> base]

Init ==
    /\ program \in Programs
    /\ frames = <<Frame([params |-> <<>>, defaults |-> <<>>, rest |-> "", body |-> program], 0)>>
    /\ stack = <<>> /\ heap = Objects /\ said = <<>>
    /\ outcome = [how |-> "running", v |-> Ghost]

Top == Last(frames)
Instruction == Top.code[Top.ip + 1]
n == Instruction.n
Fetched(ops) == outcome.how = "running" /\ Instruction.op \in ops

\* What is above the stack is whatever was there.
At(i) == IF i \in DOMAIN stack THEN stack[i] ELSE Ghost
Peek(i) == At(Len(stack) - i)
Below(i) == SubSeq(stack, 1, Len(stack) - i)

\* The next instruction is so much further than the one after this.
Advanced(far) == [frames EXCEPT ![Len(frames)].ip = @ + 1 + far]
Skip(far) == frames' = Advanced(far)
Continue == Skip(0)

\* A result takes the place of what is above, and an error ends the program.
Answer(v, below) ==
    IF IsError(v)
    THEN outcome' = [how |-> "chuck", v |-> v] /\ stack' = <<>> /\ UNCHANGED frames
    ELSE stack' = Append(below, v) /\ Continue /\ UNCHANGED outcome

Load ==
    /\ Fetched({"CONST", "GET_LOCAL", "GET_UPVAL", "DUP"})
    /\ Answer(CASE Instruction.op = "CONST" -> n
                [] Instruction.op = "GET_LOCAL" -> At(Top.base + n + 1)
                [] Instruction.op = "GET_UPVAL" -> At(n + 1)
                [] Instruction.op = "DUP" -> Peek(0), stack)
    /\ UNCHANGED <<program, heap, said>>

Store ==
    /\ Fetched({"SET_LOCAL", "SET_UPVAL"}) /\ Continue
    /\ stack' = [stack EXCEPT ![IF Instruction.op = "SET_LOCAL" THEN Top.base + n + 1 ELSE n + 1] = Peek(0)]
    /\ UNCHANGED <<program, heap, said, outcome>>

Pop ==
    /\ Fetched({"POP"}) /\ stack' = Below(1) /\ Continue
    /\ UNCHANGED <<program, heap, said, outcome>>

Operate ==
    /\ \/ Fetched({"UNARY"}) /\ Answer(Unary(n, Peek(0), heap), Below(1))
       \/ Fetched({"+", "-", "==", "<", "<<"}) /\ Answer(Binary(Instruction.op, Peek(1), Peek(0)), Below(2))
    /\ UNCHANGED <<program, heap, said>>

Jump ==
    /\ \/ Fetched({"JUMP"}) /\ Skip(n) /\ UNCHANGED stack
       \/ Fetched({"JUMP_IF_FALSE"}) /\ stack' = Below(1) /\ Skip(IF Truthy(Peek(0), heap) THEN 0 ELSE n)
       \/ Fetched({"JUMP_IF_FALSE_KEEP"}) /\ Skip(IF Truthy(Peek(0), heap) THEN 0 ELSE n) /\ UNCHANGED stack
       \/ Fetched({"JUMP_IF_TRUE_KEEP"}) /\ Skip(IF Truthy(Peek(0), heap) THEN n ELSE 0) /\ UNCHANGED stack
       \/ Fetched({"JUMP_IF_GHOST_KEEP"}) /\ Skip(IF Peek(0) = Ghost THEN n ELSE 0) /\ UNCHANGED stack
    /\ UNCHANGED <<program, heap, said, outcome>>

\* closure_arity_ok
Takes(f, argc) ==
    /\ argc >= Len(f.params) - Len(f.defaults)
    /\ f.rest # "" \/ argc <= Len(f.params)

\* bind_args_in_place: ghosts for what is missing, and a stash for what is left over.
Given(f, args) == [i \in DOMAIN f.params |-> IF i \in DOMAIN args THEN args[i] ELSE Ghost]
Stash(items) == [items |-> items]
LeftOver(f, args) == Stash(SubSeq(args, Len(f.params) + 1, Len(args)))

\* do_call, call_native_fn: the function's frame begins where the callee was.
Enter(callee, args, below) ==
    IF callee.kind = "native" /\ Len(args) = 1
    THEN Answer(args[1], below) /\ said' = Append(said, args[1]) /\ UNCHANGED heap
    ELSE IF callee.kind = "function" /\ Takes(Functions[callee.n], Len(args))
    THEN LET f == Functions[callee.n]
         IN /\ frames' = Append(Advanced(0), Frame(f, Len(below)))
            /\ stack' = below \o Given(f, args) \o (IF f.rest = "" THEN <<>> ELSE <<Of("stash", Len(heap) + 1)>>)
            /\ heap' = IF f.rest = "" THEN heap ELSE Append(heap, LeftOver(f, args))
            /\ UNCHANGED <<said, outcome>>
    ELSE /\ Answer(Error(IF callee.kind \in {"native", "function"} THEN "WrongNumberOfHomies" ELSE "NotACallableRizz"),
                   below)
         /\ UNCHANGED <<said, heap>>

Arguments(argc) == SubSeq(stack, Len(stack) - argc + 1, Len(stack))

Call ==
    /\ Fetched({"CALL"}) /\ Enter(Peek(n), Arguments(n), Below(n + 1))
    /\ UNCHANGED program

\* do_invoke: a field is called for what it is, a method gets its instance.
Invoked ==
    /\ Fetched({"INVOKE"})
    /\ LET obj == Peek(n.argc)
           args == Arguments(n.argc)
           below == Below(n.argc + 1)
       IN \/ /\ obj.kind = "instance" /\ n.name = "p"
             /\ Enter(heap[obj.n].items[p.n], args, below)
          \/ /\ obj.kind = "instance" /\ n.name = "m"
             /\ Enter(Of("function", Len(Functions)), <<obj>> \o args, below)
          \/ /\ obj.kind # "instance"
             /\ Answer(Error(IF obj = Ghost THEN "GhostError" ELSE "WhoDis"), below)
             /\ UNCHANGED <<said, heap>>
    /\ UNCHANGED program

Return ==
    /\ Fetched({"RETURN"})
    /\ IF Len(frames) = 1
       THEN /\ outcome' = [how |-> "bounce", v |-> Peek(0)]
            /\ stack' = <<>> /\ UNCHANGED frames
       ELSE /\ frames' = Front(frames)
            /\ stack' = Append(SubSeq(stack, 1, Top.base), Peek(0)) /\ UNCHANGED outcome
    /\ UNCHANGED <<program, heap, said>>

\* A new object takes the place of what it was made of.
Allocate(kind, items, below) ==
    /\ heap' = Append(heap, Stash(items))
    /\ Answer(Of(kind, Len(heap) + 1), below)
    /\ UNCHANGED <<program, said>>

BuildStash == Fetched({"BUILD_STASH"}) /\ Allocate("stash", Arguments(n), Below(n))

Point ==
    \/ Fetched({"PTR_LOCAL"}) /\ Allocate("pointa", <<Of("cell", Top.base + n + 1)>>, stack)
    \/ Fetched({"PTR_UPVAL"}) /\ Allocate("pointa", <<Of("cell", n + 1)>>, stack)
    \/ Fetched({"PTR_INDEX"}) /\ Allocate("pointa", <<Peek(1), Peek(0)>>, Below(2))
    \/ Fetched({"PTR_PROP"}) /\ Allocate("pointa", <<Peek(0), p>>, Below(1))

GetPlace ==
    /\ \/ Fetched({"GET_INDEX"}) /\ Answer(Get(heap, Peek(1), Peek(0)), Below(2))
       \/ Fetched({"GET_PROP"}) /\ Answer(Get(heap, Peek(0), p), Below(1))
       \/ Fetched({"GET_PROP_SAFE"}) /\ Answer(IF Peek(0) = Ghost THEN Ghost ELSE Get(heap, Peek(0), p), Below(1))
    /\ UNCHANGED <<program, heap, said>>

SetPlace ==
    /\ \/ /\ Fetched({"SET_INDEX"})
          /\ LET set == Set(heap, Peek(2), Peek(1), Peek(0)) IN heap' = set.heap /\ Answer(set.v, Below(3))
       \/ /\ Fetched({"SET_PROP"})
          /\ LET set == Set(heap, Peek(1), p, Peek(0)) IN heap' = set.heap /\ Answer(set.v, Below(2))
    /\ UNCHANGED <<program, said>>

\* pointa_deref_value, pointa_set_value
Deref ==
    /\ Fetched({"DEREF"})
    /\ LET place == heap[Peek(0).n].items
       IN Answer(CASE Peek(0).kind # "pointa" -> Astray(Peek(0))
                   [] place[1].kind = "cell" -> At(place[1].n)
                   [] OTHER -> Get(heap, place[1], place[2]), Below(1))
    /\ UNCHANGED <<program, heap, said>>

SetDeref ==
    /\ Fetched({"SET_DEREF"})
    /\ LET place == heap[Peek(1).n].items
           set == Set(heap, place[1], place[2], Peek(0))
       IN \/ Peek(1).kind # "pointa" /\ Answer(Astray(Peek(1)), Below(2)) /\ UNCHANGED heap
          \/ /\ Peek(1).kind = "pointa" /\ place[1].kind = "cell"
             /\ Answer(Peek(0), [Below(2) EXCEPT ![place[1].n] = Peek(0)]) /\ UNCHANGED heap
          \/ /\ Peek(1).kind = "pointa" /\ place[1].kind # "cell"
             /\ heap' = set.heap /\ Answer(set.v, Below(2))
    /\ UNCHANGED <<program, said>>

Next ==
    \/ Load \/ Store \/ Pop \/ Operate \/ Jump \/ Call \/ Invoked \/ Return
    \/ BuildStash \/ Point \/ GetPlace \/ SetPlace \/ Deref \/ SetDeref

Spec == Init /\ [][Next]_vars

-----------------------------------------------------------------------------
(* What the expressions mean (LANGUAGE.md): operands are evaluated once, from left to right, a    *)
(* variable is a cell, and x op= v reads x before it evaluates v.  Functions know the cells of    *)
(* the program's captured variables.                                                              *)

Ends(st, v) == IF IsError(v) THEN [st EXCEPT !.how = "chuck", !.v = v] ELSE [st EXCEPT !.v = v]
NewCell(st, v) == [st EXCEPT !.cells = Append(@, v)]
NewObject(st, kind, items) == [st EXCEPT !.heap = Append(@, Stash(items)), !.v = Of(kind, Len(st.heap) + 1)]
Bind(env, x, cell) == [y \in DOMAIN env \cup {x} |-> IF y = x THEN cell ELSE env[y]]

\* The variable, element, field or target that a place is, given its operands, and the variable's cell.
ReadPlace(st, form, cell, vs) ==
    CASE form = "assign" -> st.cells[cell]
      [] form \in {"index", "set index"} -> Get(st.heap, vs[1], vs[2])
      [] form \in {"get", "set"} -> Get(st.heap, vs[1], p)
      [] form \in {"deref", "set deref"} ->
            LET at == st.heap[vs[1].n].items
            IN CASE vs[1].kind # "pointa" -> Astray(vs[1])
                 [] at[1].kind = "cell" -> st.cells[at[1].n]
                 [] OTHER -> Get(st.heap, at[1], at[2])

WritePlace(st, form, cell, vs, v) ==
    LET To(obj, key) == LET set == Set(st.heap, obj, key, v) IN Ends([st EXCEPT !.heap = set.heap], set.v)
    IN CASE form = "assign" -> Ends([st EXCEPT !.cells[cell] = v], v)
         [] form = "set index" -> To(vs[1], vs[2])
         [] form = "set" -> To(vs[1], p)
         [] form = "set deref" ->
               LET at == st.heap[vs[1].n].items
               IN CASE vs[1].kind # "pointa" -> Ends(st, Astray(vs[1]))
                    [] at[1].kind = "cell" -> Ends([st EXCEPT !.cells[at[1].n] = v], v)
                    [] OTHER -> To(at[1], at[2])

RECURSIVE Meaning(_, _, _), Operands(_, _, _), Does(_, _, _)

Operands(es, env, st) ==
    IF es = <<>> THEN [st EXCEPT !.vs = <<>>]
    ELSE LET first == Meaning(Head(es), env, st)
             others == Operands(Tail(es), env, first)
         IN IF first.how # "on" THEN first ELSE [others EXCEPT !.vs = <<first.v>> \o @]

\* What missing arguments default to, one after the other.
RECURSIVE Defaulted(_, _, _, _)
Defaulted(f, i, env, st) ==
    IF i > Len(f.params) \/ st.how # "on" THEN st
    ELSE LET cell == env[f.params[i]]
             r == Meaning(f.defaults[i - Len(f.params) + Len(f.defaults)], env, st)
             bound == IF r.how = "on" THEN [r EXCEPT !.cells[cell] = r.v] ELSE r
         IN Defaulted(f, i + 1, env, IF st.cells[cell] = Ghost THEN bound ELSE st)

Captures == [x \in DOMAIN Captured |-> Captured[x] + 1]

Returned(st) ==
    CASE st.how = "bounce" -> [st EXCEPT !.how = "on"]
      [] st.how = "on" -> [st EXCEPT !.v = Ghost]
      [] OTHER -> st

\* The body, in the cells of the parameters from the given one on.
Body(f, st, cell) ==
    LET env == FoldLeft(LAMBDA known, i : Bind(known, f.params[i], cell + i),
                        Captures, [i \in DOMAIN f.params |-> i])
        ready == Defaulted(f, Len(f.params) - Len(f.defaults) + 1, env, st)
    IN Returned(Does(f.body, IF f.rest = "" THEN env ELSE Bind(env, f.rest, cell + Len(f.params) + 1), ready))

WithRest(f, args, st) ==
    LET made == NewObject(st, "stash", LeftOver(f, args).items)
    IN IF f.rest = "" THEN st ELSE NewCell(made, made.v)

Called(callee, args, st) ==
    IF callee.kind = "native" /\ Len(args) = 1
    THEN [st EXCEPT !.said = Append(@, args[1]), !.v = args[1]]
    ELSE IF callee.kind = "function" /\ Takes(Functions[callee.n], Len(args))
    THEN LET f == Functions[callee.n]
         IN Body(f, WithRest(f, args, FoldLeft(NewCell, st, Given(f, args))), Len(st.cells))
    ELSE Ends(st, Error(IF callee.kind \in {"native", "function"} THEN "WrongNumberOfHomies" ELSE "NotACallableRizz"))

InvokedOn(name, vs, st) ==
    CASE vs[1].kind = "instance" /\ name = "p" -> Called(st.heap[vs[1].n].items[p.n], Tail(vs), st)
      [] vs[1].kind = "instance" /\ name = "m" -> Called(Of("function", Len(Functions)), vs, st)
      [] OTHER -> Ends(st, Error(IF vs[1] = Ghost THEN "GhostError" ELSE "WhoDis"))

\* x op= v for every kind of x; x ||= v keeps what is truthy.
Assigned(e, op, cell, env, st) ==
    LET place == Operands(Front(e.args), env, st)
        old == IF op = "" THEN Ghost ELSE ReadPlace(place, e.form, cell, place.vs)
        value == Meaning(Last(e.args), env, place)
        new == IF op \in {"", "||"} THEN value.v ELSE Binary(op, old, value.v)
    IN CASE place.how # "on" -> place
         [] IsError(old) -> Ends(place, old)
         [] op = "||" /\ Truthy(old, place.heap) -> Ends(place, old)
         [] value.how # "on" -> value
         [] IsError(new) -> Ends(value, new)
         [] OTHER -> WritePlace(value, e.form, cell, place.vs, new)

Meaning(e, env, st) ==
    LET first == Meaning(e.args[1], env, st)
        r == Operands(e.args, env, st)
        vs == r.vs
        Second == Meaning(e.args[2], env, first)
    IN CASE e.form = "literal" -> Ends(st, e.what)
         [] e.form = "variable" -> Ends(st, st.cells[env[e.what]])
         [] e.form = "assign" -> Assigned(e, e.what.op, env[e.what.x], env, st)
         [] e.form \in {"set", "set index", "set deref"} -> Assigned(e, e.what, 0, env, st)
         [] e.form = "address" ->
               LET place == e.args[1]
                   at == Operands(place.args, env, st)
               IN IF place.form = "variable" THEN NewObject(st, "pointa", <<Of("cell", env[place.what])>>)
                  ELSE IF at.how # "on" THEN at
                  ELSE NewObject(at, "pointa", IF place.form = "get" THEN Append(at.vs, p) ELSE at.vs)
         [] e.form \in {"&&", "||", "??", "?:", "safe invoke"} /\ first.how # "on" -> first
         [] e.form = "&&" -> IF Truthy(first.v, first.heap) THEN Second ELSE first
         [] e.form = "||" -> IF Truthy(first.v, first.heap) THEN first ELSE Second
         [] e.form = "??" -> IF first.v = Ghost THEN Second ELSE first
         [] e.form = "?:" -> IF Truthy(first.v, first.heap) THEN Second ELSE Meaning(e.args[3], env, first)
         [] e.form = "safe invoke" /\ first.v = Ghost -> first
         [] r.how # "on" -> r
         [] e.form = "unary" -> Ends(r, Unary(e.what, vs[1], r.heap))
         [] e.form = "binary" -> Ends(r, Binary(e.what, vs[1], vs[2]))
         [] e.form \in {"call", "|>"} -> Called(vs[1], Tail(vs), r)
         [] e.form \in {"invoke", "safe invoke"} -> InvokedOn(e.what, vs, r)
         [] e.form = "safe get" /\ vs[1] = Ghost -> Ends(r, Ghost)
         [] e.form = "safe get" -> Ends(r, Get(r.heap, vs[1], p))
         [] e.form \in {"index", "get", "deref"} -> Ends(r, ReadPlace(r, e.form, 0, vs))
         [] e.form = "stash" -> NewObject(r, "stash", vs)

\* What is left to do after the first statement.
Rest(ss, env, r) ==
    CASE r.how # "on" -> r
      [] ss[1].op = "yo" -> Does(Tail(ss), Bind(env, ss[1].x, Len(r.cells) + 1), NewCell(r, r.v))
      [] ss[1].op = "bounce" -> [r EXCEPT !.how = "bounce"]
      [] OTHER -> Does(Tail(ss), env, r)

Does(ss, env, st) ==
    IF ss = <<>> \/ st.how # "on" THEN st
    ELSE Rest(ss, env, IF ss[1].op = "block" THEN Does(ss[1].body, env, st) ELSE Meaning(ss[1].e, env, st))

\* A program says, answers and leaves on the heap what its expressions mean (compiler.funny, the
\* cexpr functions; vm.c).
MeansWhatItSays ==
    LET Seen(h) == [i \in DOMAIN h |-> SelectSeq(h[i].items, LAMBDA v : v.kind # "cell")]
        Same(end) == said = end.said /\ outcome = [how |-> end.how, v |-> end.v] /\ Seen(heap) = Seen(end.heap)
    IN outcome.how # "running" =>
         Same(Does(program, <<>>, [cells |-> <<>>, heap |-> Objects, said |-> <<>>, how |-> "on", v |-> Ghost, vs |-> <<>>]))
=============================================================================
