-------------------------------- MODULE Tasks --------------------------------
(***************************************************************************)
(* The stacks of a VM's tasks: local variables, the closures that capture  *)
(* them, frames and handlers, the switch from one task to another, native   *)
(* callbacks and the garbage collector (frames.c, task.c, gc.c and the      *)
(* call, closure, await and unwind parts of vm.c).                          *)
(*                                                                          *)
(* The running task's stack, frames and open upvalues are the VM's own      *)
(* fields; every other task's are in its Task.  A captured variable is read *)
(* through an upvalue, which while open is a slot number in a stack that    *)
(* may be the VM's, a suspended task's, or gone.                            *)
(*                                                                          *)
(* A program is any sequence of statements the compiler could have emitted  *)
(* for nested blocks, functions and sketchy bodies.  One action is one      *)
(* statement: its temporaries live on the stack, which is a root, so what a *)
(* collection in the middle of it could free is what one before or after it *)
(* could.  store is not the program's: it holds what each captured variable *)
(* should contain, by the assignments alone.                                *)
(***************************************************************************)
EXTENDS Naturals, Sequences, FiniteSets, FiniteSetsExt

CONSTANTS
    Async,          \* how many async calls the program makes
    Closures,       \* the closure objects the heap has room for
    Upvalues,       \* the upvalue objects the heap has room for
    MaxSlots,       \* slots in use on all stacks together
    MaxFrames,      \* frames of all tasks together
    MaxHandlers,    \* sketchy blocks open in all frames together
    Dippers,        \* the async tasks that may call dip
    Numbas,         \* the numbers a variable may hold
    Script,         \* the entry's own closure, which captures nothing
    None,           \* no upvalue, no variable, not allocated
    Pending,        \* an async call's otw before it is settled
    Garbage         \* what a read of freed or abandoned memory answers

Zero == 0                       \* task zero, the entry program
Tasks == Zero .. Async          \* in the order of Task.id

Values == Numbas \cup Closures \cup {Garbage}

Heap == Closures \cup Upvalues

\* ObjUpvalue: while open, a slot number in the stack of task; once closed, a value of its own.
\* var names the variable.
UpvalueType == [task : Tasks, slot : Nat, closed : BOOLEAN, value : Values, var : Upvalues]

ASSUME TasksAssumption ==
    /\ Async \in Nat /\ MaxSlots \in Nat /\ MaxFrames \in Nat \ {0} /\ MaxHandlers \in Nat
    /\ Dippers \subseteq Tasks \ {Zero}
    /\ 0 \in Numbas
    /\ Heap \cap (Numbas \cup {Garbage, None, Pending, Script}) = {}
    /\ Closures \cap Upvalues = {}
    /\ None \notin UpvalueType /\ None \notin Numbas /\ None # Garbage

VARIABLES
    current,    \* VM.currentTask
    vm,         \* the VM's stack, frames and openUpvalues
    saved,      \* each Task's copy of them: the truth while it is not current
    state,      \* Task.state, "none" before vm_task_spawn
    reentry,    \* Task.reentry: vm_execute calls running it, on the C stack
    temps,      \* the GC's temp roots, a set for each native call under way
    closures,   \* each closure object's upvalue; None while not allocated
    upvalues,   \* each upvalue object; None while not allocated
    result,     \* how each task ended: Task.result's value; nobody reads task zero's
    store       \* what each captured variable should hold

vars == <<current, vm, saved, state, reentry, temps, closures, upvalues, result, store>>

Blank == [stack |-> <<>>, frames |-> <<>>, open |-> {}]

Frame(c, base, callback) == [closure |-> c, base |-> base, callback |-> callback, handlers |-> <<>>]

Slot(v) == [val |-> v, var |-> None]

Init ==
    /\ current = Zero
    /\ vm = [Blank EXCEPT !.frames = <<Frame(Script, 0, 0)>>]
    /\ saved = [t \in Tasks |-> Blank]
    /\ state = [t \in Tasks |-> IF t = Zero THEN "running" ELSE "none"]
    /\ reentry = [t \in Tasks |-> IF t = Zero THEN 1 ELSE 0]
    /\ temps = <<>>
    /\ closures = [c \in Closures |-> None]
    /\ upvalues = [u \in Upvalues |-> None]
    /\ result = [t \in Tasks |-> Pending]
    /\ store = [u \in Upvalues |-> None]

-----------------------------------------------------------------------------
(* Reading and writing a captured variable *)

\* The stack an upvalue of task t indexes: the VM's while t runs, t's copy otherwise.
LiveStackOfTask(t) == saved[t].stack

LiveStack(t) == IF t = current THEN vm.stack ELSE saved[t].stack

Readable(u) == upvalues[u].closed \/ upvalues[u].slot \in DOMAIN LiveStack(upvalues[u].task)

Get(u) ==
    IF upvalues[u] = None \/ ~ Readable(u) THEN Garbage
    ELSE IF upvalues[u].closed THEN upvalues[u].value
    ELSE LiveStack(upvalues[u].task)[upvalues[u].slot].val

Set(u, v) ==
    LET t == upvalues[u].task
        i == upvalues[u].slot
    IN \/ /\ upvalues[u].closed
          /\ upvalues' = [upvalues EXCEPT ![u].value = v]
          /\ UNCHANGED <<vm, saved>>
       \/ /\ ~ upvalues[u].closed /\ Readable(u) /\ t = current
          /\ vm' = [vm EXCEPT !.stack[i].val = v]
          /\ UNCHANGED <<saved, upvalues>>
       \/ /\ ~ upvalues[u].closed /\ Readable(u) /\ t # current
          /\ saved' = [saved EXCEPT ![t].stack[i].val = v]
          /\ UNCHANGED <<vm, upvalues>>

\* close_upvalues_from(i): the upvalues of the running task that it closes, ...
ClosedFrom(i) == {u \in vm.open : upvalues[u].slot >= i}

\* ... and the upvalues afterwards.
Close(us) ==
    [u \in Upvalues |->
        IF u \in us
        THEN [upvalues[u] EXCEPT !.closed = TRUE, !.value = Get(u), !.slot = 0, !.task = Zero]
        ELSE upvalues[u]]

\* The running context cut back to n slots and the first k frames.
Cut(n, k) ==
    [stack |-> SubSeq(vm.stack, 1, n), frames |-> SubSeq(vm.frames, 1, k), open |-> vm.open \ ClosedFrom(n + 1)]

Pushed(ctx, v) == [ctx EXCEPT !.stack = Append(@, Slot(v))]

-----------------------------------------------------------------------------
(* Statements of the running task *)

Running == state[current] = "running"

Top == vm.frames[Len(vm.frames)]

Locals == Top.base + 1 .. Len(vm.stack)

\* The values an expression of the running frame can have: a numba, or what a local holds.
Expressible == Numbas \cup {vm.stack[i].val : i \in Locals}

\* Where task t's stack, frames and open upvalues are, and all of them.
Context(t) == IF t = current THEN vm ELSE saved[t]
Contexts == {Context(t) : t \in Tasks}

Slots == MapThenSumSet(LAMBDA t : Len(Context(t).stack), Tasks)
Frames == MapThenSumSet(LAMBDA t : Len(Context(t).frames), Tasks)
Handlers ==
    LET Open(fs) == MapThenSumSet(LAMBDA k : Len(fs[k].handlers), DOMAIN fs)
    IN MapThenSumSet(LAMBDA t : Open(Context(t).frames), Tasks)

\* The bounds of the model: an open handler keeps a slot free for the error it may be given.
HasRoom == Running /\ Slots + Handlers < MaxSlots
HasFrame == Running /\ Frames < MaxFrames

\* `fr x = 0`: the initial value is pushed and its slot becomes the local.
Declare ==
    /\ HasRoom
    /\ vm' = Pushed(vm, 0)
    /\ UNCHANGED <<current, saved, state, reentry, temps, closures, upvalues, result, store>>

\* OP_SET_LOCAL
Assign(i, v) ==
    /\ Running
    /\ vm.stack[i].val # v
    /\ vm' = [vm EXCEPT !.stack[i].val = v]
    /\ store' = [u \in Upvalues |-> IF u = vm.stack[i].var THEN v ELSE store[u]]
    /\ UNCHANGED <<current, saved, state, reentry, temps, closures, upvalues, result>>

Captured == IF Top.closure \in Closures THEN closures[Top.closure] ELSE None

\* OP_SET_UPVAL
AssignCaptured(v) ==
    /\ Running
    /\ Captured \in Upvalues /\ upvalues[Captured] # None
    /\ store[upvalues[Captured].var] # v
    /\ Set(Captured, v)
    /\ store' = [store EXCEPT ![upvalues[Captured].var] = v]
    /\ UNCHANGED <<current, state, reentry, temps, closures, result>>

\* OP_GET_UPVAL into a new local
ReadCaptured ==
    /\ HasRoom
    /\ Captured \in Upvalues
    /\ vm' = Pushed(vm, Get(Captured))
    /\ UNCHANGED <<current, saved, state, reentry, temps, closures, upvalues, result, store>>

Unused(heap) == {x \in DOMAIN heap : heap[x] = None}

CapturingNone(i) == {}

Capturing(i) == {u \in vm.open : upvalues[u].slot = i}

\* OP_CLOSURE over a local: capture_upvalue finds the open upvalue of that slot or makes one.
MakeClosure(i, c) ==
    /\ HasRoom
    /\ c \in Unused(closures)
    /\ \/ /\ Capturing(i) # {}
          /\ \E u \in Capturing(i) : closures' = [closures EXCEPT ![c] = u]
          /\ vm' = Pushed(vm, c)
          /\ UNCHANGED <<upvalues, store>>
       \/ /\ Capturing(i) = {}
          /\ \E u \in Unused(upvalues) :
               LET var == IF vm.stack[i].var = None THEN u ELSE vm.stack[i].var
               IN /\ closures' = [closures EXCEPT ![c] = u]
                  /\ upvalues' = [upvalues EXCEPT ![u] = [task |-> current, slot |-> i, closed |-> FALSE,
                                                          value |-> 0, var |-> var]]
                  /\ vm' = Pushed([vm EXCEPT !.open = @ \cup {u}, !.stack[i].var = var], c)
                  /\ store' = [store EXCEPT ![var] = vm.stack[i].val]
    /\ UNCHANGED <<current, saved, state, reentry, temps, result>>

\* OP_CLOSURE over a variable the running closure itself captured.
MakeInner(c) ==
    /\ HasRoom
    /\ c \in Unused(closures)
    /\ Captured \in Upvalues
    /\ closures' = [closures EXCEPT ![c] = Captured]
    /\ vm' = Pushed(vm, c)
    /\ UNCHANGED <<current, saved, state, reentry, temps, upvalues, result, store>>

DepthOfFrame == Top.base

\* How far the blocks of the running frame that are still open may cut the stack back.
Depth == IF Top.handlers = <<>> THEN Top.base ELSE Top.handlers[Len(Top.handlers)]

\* A block ends: OP_CLOSE_UPVAL for a captured local, OP_POP for another.
EndLocal ==
    /\ Running
    /\ Len(vm.stack) > Depth
    /\ vm' = Cut(Len(vm.stack) - 1, Len(vm.frames))
    /\ upvalues' = Close(ClosedFrom(Len(vm.stack)))
    /\ UNCHANGED <<current, saved, state, reentry, temps, closures, result, store>>

\* OP_TRY_PUSH
Try ==
    /\ HasRoom
    /\ Handlers < MaxHandlers
    /\ vm' = [vm EXCEPT !.frames[Len(vm.frames)].handlers = Append(@, Len(vm.stack))]
    /\ UNCHANGED <<current, saved, state, reentry, temps, closures, upvalues, result, store>>

\* OP_TRY_POP, once the body's locals are gone
EndTry ==
    /\ Running
    /\ Top.handlers # <<>>
    /\ Len(vm.stack) = Depth
    /\ vm' = [vm EXCEPT !.frames[Len(vm.frames)].handlers = SubSeq(@, 1, Len(@) - 1)]
    /\ UNCHANGED <<current, saved, state, reentry, temps, closures, upvalues, result, store>>

IsClosure(i) == vm.stack[i].val \in Closures

\* do_call of a closure
Call(i) ==
    /\ HasFrame /\ IsClosure(i)
    /\ vm' = [vm EXCEPT !.frames = Append(@, Frame(vm.stack[i].val, Len(vm.stack), 0))]
    /\ UNCHANGED <<current, saved, state, reentry, temps, closures, upvalues, result, store>>

\* A native function that calls back two closures it was given, one after the other: a combo,
\* a comparator.  It keeps them in C locals, rooted as temps; vm_call_value runs each callback
\* in a vm_execute of its own.
CallNative(i, j) ==
    /\ HasFrame /\ IsClosure(i) /\ IsClosure(j)
    /\ temps' = Append(temps, <<vm.stack[i].val, vm.stack[j].val>>)
    /\ reentry' = [reentry EXCEPT ![current] = @ + 1]
    /\ vm' = [vm EXCEPT !.frames = Append(@, Frame(vm.stack[i].val, Len(vm.stack), 1))]
    /\ UNCHANGED <<current, saved, state, closures, upvalues, result, store>>

Waits(s) == {t \in Tasks : state[t] = s}

Oldest(ts) == CHOOSE t \in ts : \A u \in ts : t <= u

\* start_async_call: the closure's frame and its argument go on a new task's stack.
CallAsync(i, v) ==
    /\ HasRoom /\ HasFrame /\ IsClosure(i)
    /\ Waits("none") # {}
    /\ LET t == Oldest(Waits("none"))
       IN /\ saved' = [saved EXCEPT ![t] = [stack |-> <<Slot(v)>>, frames |-> <<Frame(vm.stack[i].val, 0, 0)>>,
                                            open |-> {}]]
          /\ state' = [state EXCEPT ![t] = "ready"]
    /\ UNCHANGED <<current, vm, reentry, temps, closures, upvalues, result, store>>

-----------------------------------------------------------------------------
(* How calls and tasks end *)

Callbacks(fs) == Cardinality({k \in DOMAIN fs : fs[k].callback # 0})

\* finish_task: whatever the task produced settles its otw.
Ends(v) ==
    /\ state' = [state EXCEPT ![current] = "done"]
    /\ result' = [result EXCEPT ![current] = v]
    /\ reentry' = [reentry EXCEPT ![current] = 0]

Returned == Cut(Top.base, Len(vm.frames) - 1)

\* OP_RETURN
Return(v) ==
    /\ Running
    /\ upvalues' = Close(ClosedFrom(Top.base + 1))
    /\ \/ /\ Len(vm.frames) = 1                     \* the task's own vm_execute returns
          /\ vm' = Returned
          /\ Ends(IF current = Zero THEN 0 ELSE v)
          /\ UNCHANGED temps
       \/ /\ Len(vm.frames) > 1 /\ Top.callback = 0 \* the caller declares what it got, or drops it
          /\ \/ vm' = Pushed(Returned, v) /\ v \in Closures /\ HasRoom
             \/ vm' = Returned
          /\ UNCHANGED <<state, result, reentry, temps>>
       \/ /\ Top.callback = 1                       \* the native function goes on to its second callback
          /\ vm' = [Returned EXCEPT !.frames = Append(@, Frame(temps[Len(temps)][2], Top.base, 2))]
          /\ UNCHANGED <<state, result, reentry, temps>>
       \/ /\ Top.callback = 2                       \* and returns
          /\ vm' = Returned
          /\ reentry' = [reentry EXCEPT ![current] = @ - 1]
          /\ temps' = SubSeq(temps, 1, Len(temps) - 1)
          /\ UNCHANGED <<state, result>>
    /\ UNCHANGED <<current, saved, closures, store>>

LeavesNone(k) == 0

\* The vm_execute calls an error leaves on its way to a handler in frame k.
Leaves(k) == Callbacks(vm.frames) - Callbacks(SubSeq(vm.frames, 1, k))

Catchers == {k \in DOMAIN vm.frames : vm.frames[k].handlers # <<>>}

\* An error, with every vm_execute and native function on its way out: vm_unwind_to_handler
\* stops at each execute's base and the one outside it goes on from there.
Fail ==
    /\ Running
    /\ \/ /\ Catchers # {}
          /\ LET k == CHOOSE k \in Catchers : \A j \in Catchers : j <= k
                 h == vm.frames[k].handlers
                 n == h[Len(h)]
             IN /\ upvalues' = Close(ClosedFrom(n + 1))
                /\ vm' = [Pushed(Cut(n, k), 0) EXCEPT !.frames[k].handlers = SubSeq(h, 1, Len(h) - 1)]
                /\ reentry' = [reentry EXCEPT ![current] = @ - Leaves(k)]
                /\ temps' = SubSeq(temps, 1, Len(temps) - Leaves(k))
          /\ UNCHANGED <<state, result>>
       \/ /\ Catchers = {}
          /\ upvalues' = Close(ClosedFrom(1))
          /\ vm' = Cut(0, 0)
          /\ temps' = <<>>
          /\ Ends(None)
    /\ UNCHANGED <<current, saved, closures, store>>

\* dip's sentinel: vm_unwind_to_handler unwinds nothing, finish_task files it as the task's error.
Dip ==
    /\ Running
    /\ current \in Dippers
    /\ temps' = <<>>
    /\ Ends(None)
    /\ UNCHANGED <<current, vm, saved, closures, upvalues, store>>

MaySuspendAnyway == TRUE

\* This task's own vm_execute is the only one on the C stack.
MaySuspend == reentry[current] = 1

\* OP_AWAIT of a pending otw; under a native function it raises CantWaitRightNow, which is Fail.
Suspend ==
    /\ Running
    /\ MaySuspend
    /\ state' = [state EXCEPT ![current] = "waiting"]
    /\ reentry' = [reentry EXCEPT ![current] = 0]
    /\ UNCHANGED <<current, vm, saved, temps, closures, upvalues, result, store>>

\* OP_AWAIT of a finished task's otw, into a new local
TakeResult(t) ==
    /\ HasRoom
    /\ t # Zero /\ state[t] = "done" /\ result[t] \in Closures
    /\ vm' = Pushed(vm, result[t])
    /\ UNCHANGED <<current, saved, state, reentry, temps, closures, upvalues, result, store>>

-----------------------------------------------------------------------------
(* The loop and the collector *)

\* loop_run stops at an uncaught error of task zero, whatever is still to run.
Stopped == state[Zero] = "done" /\ result[Zero] = None

\* reap_done: every finished task but the one whose arrays the VM's fields are.
Retired(t) == state[t] = "done" /\ t # current

Turn ==
    /\ ~ Running /\ ~ Stopped
    /\ Waits("ready") # {}
    /\ LET to == Oldest(Waits("ready"))
           reaped == [t \in Tasks |-> IF Retired(t) THEN Blank ELSE saved[t]]
       IN /\ current' = to
          /\ state' = [state EXCEPT ![to] = "running"]
          /\ reentry' = [reentry EXCEPT ![to] = 1]
          /\ IF to = current
             THEN vm' = vm /\ saved' = reaped
             ELSE vm' = saved[to] /\ saved' = [reaped EXCEPT ![to] = Blank, ![current] = vm]
    /\ UNCHANGED <<temps, closures, upvalues, result, store>>

\* wake_waiters: whatever the waiting tasks await settles, some of it before the rest.
Wake ==
    /\ ~ Running /\ ~ Stopped
    /\ Waits("ready") = {}
    /\ \E ts \in (SUBSET Waits("waiting")) \ {{}} :
         state' = [t \in Tasks |-> IF t \in ts THEN "ready" ELSE state[t]]
    /\ UNCHANGED <<current, vm, saved, reentry, temps, closures, upvalues, result, store>>

Holds(ctx) ==
    {ctx.stack[i].val : i \in DOMAIN ctx.stack} \cup {ctx.frames[k].closure : k \in DOMAIN ctx.frames}

Temps == UNION {{temps[n][1], temps[n][2]} : n \in DOMAIN temps}

RootsOfRunning == Temps \cup Holds(vm) \cup vm.open \cup {result[t] : t \in Tasks \ {Zero}}

\* mark_vm_roots and task_mark.  Task zero has no result otw: entryValue is a C local.
Roots ==
    Temps \cup Holds(vm) \cup vm.open
    \cup (UNION {Holds(saved[t]) \cup saved[t].open : t \in Tasks \ {current}})
    \cup {result[t] : t \in Tasks \ {Zero}}

\* What an object refers to, as blacken_object walks it: read is upvalue_get.
Refers(x, read) == IF x \in Closures THEN closures[x] ELSE read[x]

\* What the members of S refer to.
Named(S, read) == {Refers(x, read) : x \in S} \cap Heap

\* The least set that holds the roots and what its members refer to.
Reachable(roots, read) ==
    LET held == roots \cap Heap
        others == Named(Heap, read) \ held
        closed == {S \in SUBSET others : Named(held \cup S, read) \subseteq held \cup S}
    IN held \cup {x \in others : \A S \in closed : x \in S}

Marked == Reachable(Roots, [u \in Upvalues |-> Get(u)])

\* gc_collect, at the top of the dispatch loop
Collect ==
    /\ Running
    /\ LET marked == Marked
           live == {upvalues[u].var : u \in {u \in marked \cap Upvalues : upvalues[u] # None}}
       IN /\ \E x \in Heap \ marked : IF x \in Closures THEN closures[x] # None ELSE upvalues[x] # None
          /\ closures' = [c \in Closures |-> IF c \in marked THEN closures[c] ELSE None]
          /\ upvalues' = [u \in Upvalues |-> IF u \in marked THEN upvalues[u] ELSE None]
          /\ store' = [u \in Upvalues |-> IF u \in live THEN store[u] ELSE None]
    /\ UNCHANGED <<current, vm, saved, state, reentry, temps, result>>

\* The loop ends: there is nothing left to run, or it was stopped.
Over ==
    /\ ~ Running
    /\ Stopped \/ Waits("ready") \cup Waits("waiting") = {}
    /\ UNCHANGED vars

Statement ==
    \/ Declare \/ ReadCaptured \/ EndLocal \/ Try \/ EndTry
    \/ \E v \in Expressible : AssignCaptured(v) \/ Return(v) \/ \E i \in Locals : Assign(i, v) \/ CallAsync(i, v)
    \/ \E c \in Closures : MakeInner(c) \/ \E i \in Locals : MakeClosure(i, c)
    \/ \E i \in Locals : Call(i) \/ \E j \in Locals : CallNative(i, j)
    \/ Fail \/ Dip \/ Suspend
    \/ \E t \in Tasks : TakeResult(t)

Next ==
    \/ Running /\ Statement
    \/ Turn \/ Wake \/ Collect \/ Over

Spec == Init /\ [][Next]_vars

-----------------------------------------------------------------------------
(* Properties *)

\* What the rest of the program can still read, by the values its variables should have.
Usable ==
    Reachable(Temps \cup (UNION {Holds(ctx) : ctx \in Contexts}) \cup {result[t] : t \in Tasks}, store)

Allocated == {u \in Upvalues : upvalues[u] # None}

ContextType(ctx) ==
    /\ \A i \in DOMAIN ctx.stack : ctx.stack[i].val \in Values /\ ctx.stack[i].var \in Upvalues \cup {None}
    /\ \A k \in DOMAIN ctx.frames :
         /\ ctx.frames[k].closure \in Closures \cup {Script}
         /\ ctx.frames[k].callback \in 0 .. 2
         /\ ctx.frames[k].base \in 0 .. Len(ctx.stack)
         /\ \A n \in DOMAIN ctx.frames[k].handlers :
              ctx.frames[k].handlers[n] \in ctx.frames[k].base .. Len(ctx.stack)
    /\ ctx.open \subseteq Upvalues

\* Types: frames and handlers never name slots beyond their stack's count (frames.c, task.c).
TypeOK ==
    /\ current \in Tasks
    /\ \A ctx \in Contexts : ContextType(ctx)
    /\ state \in [Tasks -> {"none", "ready", "running", "waiting", "done"}]
    /\ reentry \in [Tasks -> Nat]
    /\ closures \in [Closures -> Upvalues \cup {None}]
    /\ result \in [Tasks -> Values \cup {Pending, None}]

\* Whatever has switched, returned, failed or been reaped, an open upvalue that the program can
\* still use names a slot of a stack that exists: the VM's for the running task, its Task's for
\* a suspended one (live_stack in frames.c).
UpvaluesHaveASlot ==
    \A u \in Allocated : ~ Readable(u) => u \notin Usable

\* All the ways to a captured variable agree, and show what was last assigned to it by anyone:
\* its slot while the frame lives, every closure over it, in whichever task (capture_upvalue,
\* close_upvalues_from, upvalue_get, upvalue_set).
SharersAgree ==
    /\ \A u \in Allocated : Get(u) # store[upvalues[u].var] => u \notin Usable
    /\ \A ctx \in Contexts : \A i \in DOMAIN ctx.stack :
         ctx.stack[i].var # None => ctx.stack[i].val = store[ctx.stack[i].var]

\* A collection frees nothing the program can still use: not what only a suspended task, a
\* finished task's otw, an open upvalue or a native function's C locals still hold (gc_collect).
NothingUsableFreed ==
    \A x \in Usable : IF x \in Closures THEN closures[x] # None ELSE upvalues[x] # None

\* A task is suspended only in its own vm_execute, never with a native function's C frame under
\* it, and the temp roots of native functions are those of the running task (OP_AWAIT).
SuspendsAlone ==
    /\ \A t \in Tasks \ {current} : state[t] \in {"ready", "waiting"} => Callbacks(saved[t].frames) = 0
    /\ ~ Running => temps = <<>>

\* An await is refused only under a native function's callback: the count of executes is exact
\* after every return, error and switch (vm_execute, Task.reentry).
RefusedOnlyInCallbacks ==
    Running => reentry[current] = 1 + Callbacks(vm.frames) /\ Len(temps) = Callbacks(vm.frames)
=============================================================================
