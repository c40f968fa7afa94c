# A verification model of the FunnyLang runtime

TLA+ modules for the native FunnyLang runtime (`native/`) and the parts of its compiler whose
output is hard to test (`selfhost/`): worker threads with their registry and mailboxes, the
event loop, the tasks' stacks with upvalues and garbage collection, imports and bundles, error
handling as it is compiled and run, and the data structures under them. TLC checks the modules
on small instances; TLAPS proves, for every instance, the safety properties of the worker registry
and its messages, the event loop, the tasks' stacks, captured variables and collector, module
loading, the mailbox and the atomic file replacement.

Line numbers are those of the commit these modules were written from. `PROJECT.json` maps
every definition to the lines it stands for, and lists the runs, the mutants, the hazards
and the theorems.

## 1. The system

A FunnyLang program is compiled (by a compiler written in FunnyLang, embedded as bytecode)
to a `CompiledUnit` and run by a VM. A VM is single-threaded; concurrency comes in two
forms that meet in one place:

* **tasks**: calls of `async_ngl` functions, suspended at `await_fr` and resumed by the
  VM's event loop, all on the VM's thread;
* **interns**: OS threads that each run a whole program in a VM of their own, share no heap
  with anybody, and exchange deep copies of values: an assignment, a delivery, and messages.

Both are seen by the program as an `otw`, a promise.

### Inventory

| Component | State | Operations | Meets | What is hard | What makes it correct | Module |
|---|---|---|---|---|---|---|
| Interns (`interns.c`) | `g_interns` and its `Intern` structs, one mailbox per VM, `g_lock`, `g_wake` | hire, deliver, wait_up/everybody, dm, check_dms, collect, teardown, shutdown | the loop asks `interns_ready`, `interns_collect`, `interns_wait_any`, `interns_mail_possible`; `vm_destroy` joins | threads that post, finish, hire and are torn down in any order; pointers used after the lock is released | a thread is joined once, by its owner, before anything it uses is freed; results and messages reach their reader | `Interns`, `Mailbox` |
| Event loop (`loop.c`) | the tasks' states, the otws they wait for | `loop_run`, the passes of `wake_waiters`, `strand_waiters`, `loop_settle_blocking` | everything that can settle an otw | events between two passes, deadlines against answers, when to block and when to give up | never blocks while a task can go on, never strands one that an event can still reach, answers once | `EventLoop` |
| Otw (`otw.c`) | pending, fulfilled or rejected, what it waits for, `awaited` | create, settle | everything above | several parties settle one otw | the first answer stands | in both |
| Tasks (`task.c`, `frames.c`, `vm.c`) | saved stack and frames, open upvalues, state, what it awaits, native re-entry depth | spawn, switch, suspend, finish, retire | loop, upvalues, collector | arrays swapped under open upvalues | a resumed task finds its stack as it left it; a captured variable is one variable | `Tasks` |
| Interpreter (`vm.c`) | stack, frames, handlers, pending error | about ninety opcodes, unwind, nested execute | every native | handlers and `regardless` across nested executes, captured locals, loops | an error reaches the innermost handler, stacks stay balanced, statements and expressions do what they mean | `Tasks`, `Sketchy`, `Expressions`, `Numbas` |
| Collector (`gc.c`, `mark_vm_roots`) | object list, mark bits, temp roots, worklist | allocate, mark, sweep | every allocation | one missed root, on a later collection | nothing that can still be used is freed | in `Tasks` |
| Numbers (`bignum.c`, `vm.c`) | limbs | arithmetic, shifts, text | interpreter | quotient digits, carries, promotion and demotion at 2^63 | exact, and one representation per number | `Bignum`, `Numbas` |
| Groupchat (`groupchat.c`) | entries in insertion order, hash index over string keys | get, put, remove, merge, clear | values, json, modules | index stale after a removal, load factor | agrees with an ordered map | `GroupChat` |
| Stash (`stash.c`) | an array, its length and capacity; in a method, the locals of its loop | the methods and module functions, sort among them | the functions of the program they call, the collector | the function shrinks, fills or reallocates the stash, fails, or lets a value be collected that only a C local holds | each answers what its calls lead to, nothing is lost or read after it is freed | `Stash` |
| Portable values (`portable.c`) | a tree outside any heap | copy in, copy out, refuse | interns | cycles, shared parts, half-built copies | equal value, or a refusal | `Portable` |
| Imports (`modules.c`, `vm.c`) | module cache, stack of modules being loaded, the running module's name | resolve, load, detect a cycle | interpreter | errors half-way through a body, retries | a module runs once, the loading stack is that of the bodies running | `Imports` |
| Bundler (`bundler.funny`) | work list, units by name | resolve, compile, file | imports find what it filed | two independent resolvers must agree | what the build found, the running program finds | `Bundler` |
| Compiler (`compiler.funny`) | scopes, locals, captured locals, tracked depth, jumps | folding, expressions, statements, handlers, jump relaxation | interpreter runs it | two copies of `regardless`, a depth counted by hand in every form, jumps over 64 KB | meaning of statements and expressions, jumps land | `Sketchy`, `Expressions`, `LongJumps` |
| Files (`filez.c`, `platform.c`) | the file system | read, write, replace atomically | OS | a crash between the steps, concurrent writers | old or new contents | `AtomicFile` |
| Sessions (`sus.c`), bytecode files (`chunk.c`), status table (`status.c`) | child VMs; none; rows and a lock | run bytecode; read, write; set, dump | interpreter; compiler; signal handler | – | – | not modelled |
| Platform, network and crypto, strings, blobs, json, number formatting, lexer, parser, formatter, generated tables | – | – | – | sequential data, I/O, third-party code | – | not modelled |

How they interact: `vm_run` makes task zero and calls `loop_run`, which resumes a task until
`vm_execute` returns (`VM_SUSPENDED`, or the task's end); `interns.hire` returns an otw that
the loop's `wake_waiters` settles by joining the thread; `interns.wait_up` and
`loop_settle_blocking` do the same while blocking the whole thread; `vm_destroy` joins what
was never waited for, then frees the inbox. A `gimme` runs the module's body in a nested
`vm_execute`, as does a native's callback, and neither can be suspended. What crosses a mailbox
or is delivered to a worker is a portable copy.

## 2. The modules

| Module | What it is | Source | How it is used |
|---|---|---|---|
| `Interns` | worker threads, registry, inboxes | `interns.c`, `vm.c` | `MCInterns`, proofs in `InternsProofs` |
| `EventLoop` | one VM's scheduler and its otws | `loop.c`, `otw.c`, `task.c`, `vm.c` | run directly, proofs in `EventLoopProofs` |
| `Tasks` | stacks, frames, closures, collections | `frames.c`, `task.c`, `gc.c`, `vm.c` | `MCTasks`, proofs in `TasksProofs` |
| `Sketchy`, `SketchyPrograms` | statements: compiler, interpreter, meaning; the programs | `compiler.funny`, `vm.c` | part "sketchy" of `MCLibrary` |
| `Expressions`, `ExpressionPrograms` | expressions: folding, code, interpreter, meaning; the programs | `compiler.funny`, `vm.c` | part "expressions" |
| `LongJumps` | jump relaxation | `compiler.funny` | part "jumps", proofs in `AnswerProofs` |
| `ModulePaths`, `Imports`, `Bundler` | module names, loading, building a bundle | `modules.c`, `vm.c`, `bundler.funny` | parts "imports", "bundle"; proofs in `ImportsProofs` |
| `Bignum`, `Numbas` | limbs; whole numbers of the VM | `bignum.c`, `vm.c` | part "numbas", and `MCBignum` |
| `OrderedMap` ← `GroupChat` | abstract map ← hash-indexed groupchat | `groupchat.c` | part "groupchat", proofs in `GroupChatProofs` |
| `Stash` | stashes and the functions their methods call | `stash.c` | part "stash", proofs in `StashProofs` |
| `BoundedFifo` ← `Mailbox` | abstract queue ← ring | `interns.c` | part "mailbox", proofs in `HandoverProofs` |
| `Portable` | deep copies between heaps | `portable.c` | part "portable", proofs in `AnswerProofs` |
| `AtomicFile` | atomic replacement of a file | `filez.c`, `platform.c` | part "files", proofs in `HandoverProofs` |

`A ← B`: B is shown to implement A. The parts of `MCLibrary` share no state, so a behaviour
of it picks one part and runs it alone: one run for all of them, without their product.
`MCLibrary` extends the seven of them that are proved about (`Imports`, `AtomicFile`, `Mailbox`, `GroupChat`,
`Portable`, `LongJumps`, `Stash`), so that a run and a theorem speak of one definition, and instantiates the others.
Parts that compute one answer (`Portable`, `Numbas`, `LongJumps`) are given one of all their
inputs in the first step. `Interns` and `EventLoop` meet in
`WorkerFinishes`/`Dm` (what the threads of `Interns` do, seen from one owner) and in
`CollectPass`/`WaitUp` (which `Interns` models in steps); `EventLoop` and `Tasks` are two views
of one task: what it waits for, and what its stack holds.

### `Interns`

The whole life of worker threads, for any hiring tree: `VMs` is the main VM (0) and one VM
per `Intern` struct, numbered in the order they are hired; a worker may hire workers.

A step is one critical section of `g_lock`, one of a mailbox's own lock, or one stretch of
unlocked code that touches shared memory; every other thread can run between two steps.
So `interns_collect` is four steps, as in the code: the lookup under `g_lock` (`WaitUp`), the
join without it (`CollectJoin`), reading the finished worker's fields (`Settle`), and the
release under `g_lock` (`Release`).

| Variable | In the code |
|---|---|
| `pc[v]` | where v's thread is between steps (the C stack); "run" is FunnyLang code |
| `handle`, `target` | `p` and `in`, the locals of `interns_collect` and `interns_join_owned_by` |
| `registry`, `intern` | `g_interns` and the fields of each `Intern` |
| `otw` | the `ObjOtw` `hire` returned, one per worker |
| `inbox`, `open`, `box` | `vm->inbox` set, the mailboxes allocated, their contents |
| `timed` | the blocked `check_dms` has a deadline |
| `waiters` | threads waiting on `g_wake` |
| `posted`, `taken`, `outcome` | history, read by properties only |

| Actions | In the code |
|---|---|
| `Hire`, `HireFails` | `m_hire`, thread started or not; ids by `next_id_for` |
| `Deliver` | `m_deliver` |
| `WaitUp`, `CollectJoin`, `Settle`, `Release` | `m_wait_up` → `settle_and_read` → `loop_settle_blocking` → `interns_collect`, `intern_release` |
| `DmIntern`, `DmBoss` | `m_dm`, `mailbox_push` and the broadcast |
| `CheckDms`, `WaitForDms`, `MailArrives`, `MailTimesOut`, `MailNotYet`, `MailKeepWaiting`, `MailLeftOnRead`, `MailSleep`, `MailWake` | `m_check_dms`, and `wait_up` on it: `interns_settle_mailbox`, `interns_mail_possible`, `interns_wait_for_mail` |
| `Finish`, `TeardownPick`, `TeardownJoin`, `Forget`, `VmTeardown`, `Announce` | `intern_body` after its program, `vm_destroy` → `interns_join_owned_by`, `interns_vm_teardown`, then `done` and the broadcast |
| `Shutdown` | `interns_shutdown`, at exit |

Abstracted: what a value is (members of `Vals`), the ring behind a mailbox (a sequence, which
`Mailbox` is shown to be), captured output, the compile cache, `everybody` (wait_up in
turn), refusals that change nothing. `Finish` may happen anywhere in a program: a return, an
escaping error and `dip` all leave unwaited interns behind.

### `EventLoop`

One VM's loop, its task zero and up to `T` async tasks, and the otws they share. The world
outside the VM's thread is an environment: deadlines pass, sockets become readable, messages
are posted, workers finish, Ctrl-C is pressed, between any two steps of the loop.

`at` is the step of `loop_run`/`wake_waiters` the thread is in: `pick` (pick_ready), `run` (a
task's turn), `exit` (dip's sentinel is unwinding), one value per pass (`timers`, `sockets`,
`mail`, `interrupts`, `collect`, `ready`), `decide`, and the ways to block: `poll`, `park` then
`asleep` (before and inside the wait on `g_wake`), `nap`; `strand`; `ended`. The clock is read
once, at the top of `wake_waiters` (`now`), while deadlines go on passing (`due`). The mail
pass takes a message for one task per step, because a sender can post between two.

`on[t]` keeps the otw a suspended task awaits until its `OP_AWAIT`, which was rewound, has
been executed again (`Proceed`): a woken task is first `ready`, and nothing it awaited is
lost meanwhile. A rejection is recorded as an error, as dip's sentinel ("exit") or as the
loop's own `LeftOnRead` ("stranded"), because properties tell these apart.

| Actions | In the code |
|---|---|
| `Turn`, `LookAround`, `Leave` | `loop_run`: a turn, no task ready, nothing left; `describe_dropped_rejection` |
| `Suspend`, `Proceed`, `Refuse` | `OP_AWAIT`: pending, settled, refused below a native callback (also `wait_up` of a task's result) |
| `Spawn`, `Start`, `CheckDms`, `Hire` | `start_async_call`; chill, hold_up, until_ctrl_c; check_dms; hire |
| `WaitUp`, `WaitUpMail` | `loop_settle_blocking`, with every task blocked |
| `Dip`, `EndTask`, `EndEntry` | `vm_request_exit`, `finish_task`, task zero's end |
| `TimerPass` … `ReadyPass` | the passes of `wake_waiters` |
| `Decide`, `Park`, `Unblock`, `Strand` | what to block in, `interns_wait_any`, the end of a wait, `strand_waiters` |
| `DeadlinePasses`, `SocketReadable`, `Dm`, `WorkerFinishes`, `CtrlC` | the environment |

`missed` is a history variable: the messages that came after the mail pass had looked at an
empty inbox, in this turn of the loop. Only `StrandsOnlyTheStuck` reads it: a task that is given
`LeftOnRead` waits for one that waits itself, or without a deadline for mail when no sender is left
and the inbox holds nothing but those.

Names of timers, sockets and mail waits stand for otw objects and are reused for a fresh
otw when no task waits on the old one. Abstracted: times (only their order against the
clock reading), values, what a task computes, the stacks.

### `Tasks`

The other view of the tasks: what their stacks hold. The running task's stack, frames and open
upvalues are the VM's fields (`vm`), the others' are in their `Task` (`saved`); an upvalue is
a slot number in a stack that may be the VM's, a suspended task's, or freed. A program is any
sequence of statements the compiler could have emitted for nested blocks, functions and
sketchy bodies; one action is one statement, because its temporaries are on the stack, which
is a root. `store`, with the `var` tag of every slot, is what each captured variable should contain, by the
assignments alone.

| Actions | In the code |
|---|---|
| `Declare`, `Assign`, `EndLocal`, `MakeClosure`, `MakeInner`, `ReadCaptured`, `AssignCaptured` | locals, `OP_CLOSURE` and `capture_upvalue`, `OP_GET/SET_UPVAL`, `OP_CLOSE_UPVAL` |
| `Try`, `EndTry`, `Fail` | `OP_TRY_PUSH`, `OP_TRY_POP`, `vm_unwind_to_handler` and `close_upvalues_from` |
| `Call`, `CallNative`, `CallAsync`, `Return` | `call_value`, a native's callback in a nested `vm_execute` (with what it keeps in temp roots), `start_async_call`, `OP_RETURN` |
| `Suspend`, `TakeResult`, `Turn`, `Wake`, `Dip` | `OP_AWAIT`, `vm_task_switch`, `reap_done` and `retire`, `vm_request_exit` |
| `Collect` | `mark_vm_roots` and sweep, between any two statements |

What `trace_references` marks is a set without recursion: `Reachable` is the least set of objects that
holds the roots and, with an object, the one it refers to. That the worklist ends exactly there
is the only thing the collector's order of marking is abstracted to.

### `Sketchy`, `SketchyPrograms`

Three translations of one language side by side. `Code` is the compiler's: locals by slot, the
depth it tracks, which locals are captured and so closed by `CLOSE_UPVAL`, both copies of
`regardless`, loops and `bail`/`nvm`. The actions are the interpreter's, one per instruction,
with handlers and unwinding. `Meaning` is the language's: environments and cells, no stack.
`MeansWhatItSays` compares what was yapped and how the program ended. `SketchyPrograms` lists
the programs: every form of sketchy with every combination of bodies, in a loop of each kind,
a function, another sketchy, and followed by locals and closures that a wrong depth would
disturb. `Liberties` adds the programs that are known to go wrong (section 3).

### `Expressions`, `ExpressionPrograms`

The same for expressions, without handlers. An expression's operands lie on the stack beside the
variables; the compiler reads variables and the operands of `a[i] += v` by slot, and leaves
blocks by popping, so the depth it tracks must be the stack's at every instruction. `Fold`, `Emit` and
the operators up to `Form` are the compiler's cexpr functions, with that depth in the chunk;
`Statements`, `Default` and `Function` put them into blocks and functions with default and rest
parameters. The actions are the interpreter's: one per group of instructions of one kind, calls of functions,
natives and methods, places of stashes and instances, and pointas to variables, elements and
fields. `Meaning` and `Does` evaluate the expression over cells, operands once and from left to right.
`MeansWhatItSays` compares what was said, the answer or error, and the whole heap.

`ExpressionPrograms` has every form with every form as each of its operands; the other operands
say something or call functions that change the variables the form reads, the expression stands in a block
that declares a variable, and what is declared around the block is looked at afterwards, so a wrong
depth is seen. Pipes stand only where a function answers at once, and numbas that are not
whole are no operands of bit operators, unless `Liberties` says so: both are known to go wrong (section 3).
Left out are strings and templates, groupchat literals, slices, lambdas (functions are given, with
the variables they capture), and pointa arithmetic.

### `LongJumps`

What `chunk_finish` does to a function's jumps: sites, the rounds that mark what must be
widened, prefix sums, trampolines for conditional jumps, `TRY_PUSH` and the line table. The
functions come from `Sketchy`'s code generator; the largest short offset is a constant, so that
dozens of bytes are far. `JumpsLand` says that every jump, handler and line entry of the
bytes meets the instruction it was meant for. It is false of functions the code gets wrong (section 3): where a
for-each jump is widened, or a jump between a `TRY_PUSH` and its handler, or where a handler is too far away.
`Spared` says that a function has none of these, and `SparedJumpsLand`, `JumpsLand` for those that are spared,
is what is checked and proved. Of the run's functions and offsets seven in ten are spared.

### `ModulePaths`, `Imports`, `Bundler`

`Imports` is the run time: `do_import` resolves a quoted path against `vm->currentModuleName`,
looks in the cache and the loading stack, and runs the body in a nested execute; bodies import,
call exported functions, chuck, catch and retry. `Bundler` is build time: the work list of
`build_bundle` resolves imports in the file system and files each unit under the name
`canonical_name` makes. `BundleIsClosed` composes the two: for every import of every bundled
file, the name that `do_import` would compute is the name under which the file it means is filed.

### `Bignum`, `Numbas`

All of `bignum.c` on limbs of `LimbBits` bits, columns with carries and borrows as in the code,
Knuth's division with its estimates and corrections, shifts and two's-complement logic, text in
chunks; `Numbas` is the VM's choice between `int64` and bignum for each operator. `Exact`
compares each operation with TLA+'s integers, and demands the one representation that equality and hashing
rely on. Only the approximation of a bignum by a double is left out.

### `GroupChat` ← `OrderedMap`, `Mailbox` ← `BoundedFifo`

`GroupChat` has the slots beyond `count` too, because a stale index reads them. The loops of the C
code that go on from what they did last (inserting every entry into a new index, doubling its
size, putting every entry of a merge) are recursive functions. Whether the hash spreads the keys, and how full the
index may be, is left to `ChatAssumption`, in which the code's 7/10 and 8 places are one case.
Its refinement mapping is the live prefix of the slots; `Mailbox`'s is the ring read from its head
(`InOrder`), which growing (`Grown`) must not change.

### `Stash`

A behaviour is one method on a stash as others may have left it, full or with room. Methods that
call nobody are one step; the others make one step for each call of the program's function and
what they do up to the next. Between the steps the locals of the C function are in `doing`;
the function answers anything and, for the methods in `Changers`, leaves the stash shorter, empty
or longer, whereupon what the count no longer covers, or the array that was reallocated,
is `Nothing`. In `Chuckers` it may fail, in `Forgetters` it may overwrite its arguments before a
collection, after which only what is in the stash is still there. `KeepsItsPromises` says that nothing
freed is read or kept, that a method visits the elements in order, and what each answers and
leaves behind, sorts stable and complete, as far as keys and the program's comparisons are in an order
(a boolski key is compared with a numba by truth, which puts no order on both). `reverse` and `sort` may, for the
property, work in place or on a copy. Of a comparator's answer the code asks the sign if it is a whole
numba and the truth otherwise (`MovesPast`, `stash.c:229`); the property asks what the documentation does:
for every ranking of the elements that all its answers agree with (above zero, or `bet`, when the first
is to come after the second: `ComparesBy`), the answer is in the order of the ranks, and stable. The comparators of the run answer
-1, 0, 1, `bet` and `cap`; were a truthy answer to move whatever its sign, the run would find -1 doing so. `MCLibrary` has every method fail and lets the functions of
`glow_up`, `squish`, `any` and `all`, which look at the count again after each call, change the
stash; the other cases are its `Liberties` "changes", "sort fails", "forgets" and "floats" (a comparator
that answers -0.5), and TLC finds the property violated under each. Methods that only read in one step (`contains`, `join`, `flatten`,
`sum_up` and the like) are left out.

### `Portable`, `AtomicFile`

`Portable` copies a heap's value to a tree and back. `Copy` goes by the trail, the set of containers being
copied, which is how `copy_value` finds a cycle and also why it ends; `ToValue` goes down the tree, and
puts a groupchat's entries in one by one, as `groupchat_set` does. What may cross is defined without a
copy: `Portables` is the least set that has the scalars and every container all of whose items it has.
All are recursive functions, so that they can be proved about.

`AtomicFile` has the directory and the contents twice, as processes see them and as the disk has
them; a crash keeps what was synced and any mixture of the rest, and `platform_durable_write`,
`platform_replace_file` and the flush of the directory are steps with failures. The last has one that
the caller does not hear of: a directory that cannot be opened, or whose `fsync` fails, is left as it is and the
write is answered (`SkipDirectory`, after which the writer is "unsynced", not "answered"). So
`AnsweredSurvives` promises less of such a write: that it is there, or a later one, as long as the power stays on.
Of the others it promises that also after the power was lost.

## 3. The runs

| Run | Config | Instance | Checks |
|---|---|---|---|
| `interns` | `MCInterns.cfg` | 2 workers, hired by main or by one another; one value; inboxes of 2; the first worker may post twice to main, three other pairs once | `TypeOK`, `JoinedOnce`, `NoOrphans`, `MailboxesSafe`, `HandsBack`, `PendingHasIntern`, `FifoOnce`, `ReplyAddress`, `NoMissedMail`, `NothingLeft` |
| `interns_live` | `MCInternsLive.cfg` | 2 workers, one message, fairness | `MailAnswered`, `ProcessExits` |
| `interns_left_on_read` | `MCInternsLeftOnRead.cfg` | 1 worker, one message | `LeftOnReadIsHonest` is violated |
| `loop` | `MCEventLoop.cfg` | task zero and 2 async tasks, one of which may dip; a timer, mail, a worker | `BlocksOnlyWhenIdle`, `LeavesNothing`, `SettledOnce`, `StrandsOnlyTheStuck` |
| `loop_waits` | `MCEventLoopWaits.cfg` | 1 async task; a socket and mail with deadlines, Ctrl-C, a worker | `TypeOK`, `NoMailLost` |
| `loop_live` | `MCEventLoopLive.cfg` | an intern's VM, 1 async task that may dip; socket, mail, worker; fairness | `Resumes`, `NoStarvation` |
| `loop_missed_mail` | `MCEventLoopMissedMail.cfg` | mail and a worker | `HearsItsMail` is violated |
| `tasks` | `MCTasks.cfg` | the entry and 1 async task, 2 closures, 2 upvalues; 3 slots and 3 frames over all stacks, 1 handler | `TypeOK`, `UpvaluesHaveASlot`, `SharersAgree`, `NothingUsableFreed`, `SuspendsAlone`, `RefusedOnlyInCallbacks` |
| `tasks_dip` | `MCTasksDip.cfg` | the same, the async task may dip | `UpvaluesHaveASlot` is violated |
| `library` | `MCLibrary.cfg` | the self-contained parts, one at a time | see below |
| `pipes` | `MCPipes.cfg` | the programs of part "expressions", and pipes in blocks | `ExpressionsMeanWhatTheySay` is violated |
| `bignum_chunks` | `MCBignumChunks.cfg` | bignums of up to 50 limbs of 7 bits, in decimal | `ChunksFit` is violated |

| Part of `library` | Instance | Checks |
|---|---|---|
| groupchat | up to 5 entries; keys of which three meet in the smallest index, one is a number; an index from 2 entries on, first capacity 4, load 7/10 | `ChatIsAnOrderedMap`, `ChatIndexIsSound` |
| stash | up to 3 elements, two of which are equal, full or with room for one more; 3 answers of functions, 5 of comparators; every method | `KeepsItsPromises` |
| mailbox | 2 messages, capacity 5 from a ring of 2 | `IsABoundedFifo` |
| imports | 4 modules, two of one base name, 6 quoted paths, 5 frames | `ModulesRunOnce` |
| bundle | 3000 file trees with up to two imports a file | `BundleWalkIsTheVisit`, `BundleIsClosed` |
| files | 2 writers, a reader, one loss of power | `ReadersSeeWhole`, `AnsweredSurvives` |
| portable | heaps of 3 containers, two stashes or groupchats of up to two items or two entries, a third of one item | `PortableCrossesWhole` |
| numbas | pairs of integers of up to 4 limbs of 4 bits around every boundary | `NumbasAreExact` |
| sketchy | 1023 programs | `SketchyMeansWhatItSays` |
| expressions | 5079 programs | `ExpressionsMeanWhatTheySay` |
| jumps | 207 functions with loops, `sus` and `sketchy` within one another, 5 values of the longest short jump | `SparedJumpsLand` |

What the passing runs show, in a reader's terms:

* a thread is never joined twice or by a stranger, no `Intern` is released while its thread
  runs, and no mailbox is used after it is freed, whatever order programs end in;
* `wait_up` gives what *that* worker's program ended with, though the struct is looked up
  by a number and used after the lock was dropped, and numbers are only unique per owner;
* each message accepted is handed over once, in its sender's order, and its `from` can be
  answered; nobody sleeps on mail that is there (in `wait_up(check_dms())`);
* teardown leaves nothing registered, allocated or running;
* the loop blocks only when every waiting task's otw is pending; a settled otw keeps its answer;
  a message is popped only for an otw that takes it; tasks are stranded only when all they wait for is
  one another, or mail that can never come any more, though it may have come since the loop last looked; the program ends
  with every task done and no rejection that nobody asked about;
* with fairness: blocking reads return, the process exits, what has happened resumes its
  task, and oldest-first scheduling starves nobody;
* in programs without `dip` in async tasks, a captured variable is one variable for all who share it,
  however tasks are switched, errors unwind and collections strike, and no await is suspended
  over a native callback;
* a groupchat is an ordered map, a stash's methods do what they promise when their functions fail and, where they
  allow for it, change the stash, a mailbox a bounded queue, a value crosses threads whole, an
  atomic write is all or nothing for readers and after a crash, and lasts through one if the directory was
  synced, whole numbers are exact;
* modules run once (that a failed one is not found in the cache afterwards is modelled, but no property
  says it) and a bundle holds what its program imports, as long as its files stay in
  the entry's directory and import at their top level;
* `sketchy` in all its forms does what it says, as long as no block is left by `bail`, `nvm`
  or `bounce` and `regardless` declares no locals (`Liberties`);
* an expression of any form in any other does what it says and leaves the variables around it
  alone, without pipes in blocks.

### Bounds, and why they are enough

* `interns`: two workers give every shape the registry code distinguishes: siblings of one owner, a
  worker that owns a worker (its teardown runs inside its owner's wait), and entries with
  equal numbers under different owners. Two messages fill an inbox of `MAILBOX_CAP` = 2, and
  two of one sender are what order needs.
* `loop`, `loop_waits`: two async tasks let one task await another that awaits the
  first, two await the same otw, and a ready task wait behind another. `loop_waits` drops
  the second async task so that all kinds of events fit at once. `MaxMail` = 1 lets the mail
  pass find and miss a message for each of two tasks. Each `Intern` of a behaviour is a fresh
  struct (`N` of them) and each otw of a task or worker is made once.
* `tasks`: two closures and two upvalues are what sharing, chains (a closure in a captured
  variable) and a garbage closure beside a live one need; three slots hold a function's
  argument, a captured local and another value; three frames a caller, a callback and what it calls.
  `HasRoom` and `HasFrame` name the bounds; symmetry is over closures and over upvalues, which
  no constant or property tells apart.
* `library`: each threshold is a constant so small that it is crossed upwards and downwards within the
  bound: the index appears, grows and is dropped within 5 entries; the ring grows twice, wrapped
  or not; limbs of 4 bits give every estimate of a quotient digit and both corrections; short
  jumps of 20 to 97 bytes are too short for some, all or none of a function's jumps. Exhaustive
  inputs are given in comments of `MCLibrary`. Programs of part "expressions" nest forms two deep:
  the compiler's functions know nothing of their operands but the depth they leave.

### Fairness

* `Interns`: weak fairness of a thread's runtime steps (the OS schedules threads; locks are
  held for bounded sections), of the last steps of a worker and of the process;
  strong fairness of a program's end (programs are assumed to end: a program that loops for
  ever is joined for ever, which the code documents) and of a deadline's passing while the
  thread goes round its wait. `PatientVMs` are those whose programs call `check_dms` without
  a deadline: only the main VM, because a worker that waits so for a boss that never writes
  does wait for ever, by design (`interns_mail_possible`).
* `EventLoop`: weak fairness of the loop's steps and of the re-executed `OP_AWAIT` (one
  thread, scheduled by the OS); strong fairness of "the running task suspends or ends": a
  task that computes for ever without awaiting blocks everybody, as in any cooperative
  scheduler. Nothing is assumed of the environment: the properties speak of
  events that have happened.

### What the violations show

* `interns_left_on_read` (`loop.c:409`): the pop and `interns_mail_possible` are two critical
  sections. A worker that posts and finishes in between makes its boss's `check_dms` fail with
  `LeftOnRead` and a message in the inbox.
* `loop_missed_mail` (`interns.c:677`): `interns_wait_any` looks at finished workers only, so a
  message posted after the mail pass is slept on for up to a minute.
* `tasks_dip` (`loop.c:45`, `frames.c:15`): `dip` in an async task is filed as its rejection, its upvalues
  stay open, and its stack is freed; a closure that shares a variable of it reads freed memory.
* `pipes` (`compiler.funny:1951`): after a pipe the compiler takes the stack for one deeper than it is;
  the block around it ends with a `POP` too many, which takes an enclosing block's variable, and
  the next declaration overwrites it. Confirmed by running the program.
* `bignum_chunks` (`bignum.c:666`): the text of a bignum of more than about 28 limbs needs more
  chunks than the array has.

### Disagreements without a run of their own

Found while modelling. Those marked (run) were confirmed by running the program, most with the address
sanitizer; a name in quotes is the `Liberties` (or other constant) of `MCLibrary.cfg` under
which TLC shows it.

| Where | What |
|---|---|
| `vm.c` handlers | `bail` or `nvm` out of `sketchy` leaves its handler behind, which a later error then runs with a stale stack depth ("leave") (run) |
| `compiler.funny` | `regardless` is skipped by `bounce`, `bail` and `nvm` (LANGUAGE.md:172 says it always runs) ("leave") (run) |
| `compiler.funny:1722` | locals and loops in `regardless` use wrong slots after an error: the error value lies under them ("locals in regardless") (run) |
| `compiler.funny` | a captured catch variable is popped, not closed ("keep the error") (run) |
| `compiler.funny` | `bail` in `regardless` after an error in the catch body leaves a value on the stack (by reading) |
| `compiler.funny` | `TRY_PUSH` offsets over 64 KB are truncated, not relaxed, and not moved when a jump before the handler is widened (docs/BYTECODE.md:120) (`JumpsLand` in place of `SparedJumpsLand`) |
| `bundler.funny`, `modules.c` | files in `funny_modules` or outside the entry's directory, paths out of it and back, and imports inside functions are built but not found, or not collected ("packages", "outside", "out and back", "inner imports") (run) |
| `modules.c` | an import in an exported function is resolved against the running module, not the one it is written in (LANGUAGE.md:304) (run); `FUNNYPATH` is documented and not implemented |
| `compiler.funny:316` | `relax_size_of` answers 5 bytes for a widened `ITER_NEXT` and `chunk_relax` writes 11, so in a function with a for-each loop over more than 64 KB everything behind it is reached six bytes early (`JumpsLand` in place of `SparedJumpsLand`) |
| `compiler.funny:1344` | folding cuts floats off, so `~1.5`, `1.5 \| 2` and `1 << 1.5` have values where the interpreter throws `TypeVibeMismatch` for the same operands in variables ("float bits", with `Parts = {"expressions"}`) (run) |
| `compiler.funny:2030` | `a[i] \|\|= v`, `o.p \|\|= v` and `*q \|\|= v` crash the compiler with a GhostError, since `BINOP_OPCODE` has no `\|\|`; LANGUAGE.md:89 allows an index or a property (run) |
| `compiler.funny:2103` | `a?.b.c` and `a?.b[0]` throw GhostError when `a` is ghost; LANGUAGE.md:107 says `?.` ends the chain (run) |
| `vm.c:3494` | a template's parts are kept in an array of 256, and a template may have more (run) |
| `groupchat.c:260` | `clear` keeps the index, so later lookups go through stale positions (`ClearFrom = 2`) (run) |
| `stash.c:215` | `sort` with a failing comparator loses one element and doubles another ("sort fails") (run); the element being moved is held by no root while the comparator runs, so one that overwrites its parameters has it collected ("forgets") (run); functions that change the stash make `sort`, `sort_by`, `vibe_check` and `group_by` read freed or stale slots ("changes") (run) |
| `stash.c:189` | two bignums cannot be compared by `sort`, and whole numbers over 2^53 are ordered by their doubles (run) |
| `stash.c:424` | `sort_by` compares a boolski with anything by truth, so with keys of both kinds what it answers may be in no order: 2, `bet`, 1 stays as it is (STDLIB.md:226) |
| `stash.c:229` | a comparator's answer that is no whole numba counts by its truth, so `sort(lowkey (a, b) => { bounce a - b })` moves elements for -0.5 as for 0.5 and leaves `[0.5, 1]` the wrong way round; docs/STDLIB.md:225 says `(a, b) -> numba` ("floats") |
| `stash.c` | `sort` and `reverse` work in place (docs/STDLIB.md:224 and 225 say copy, the tests of the repository use them in place; `KeepsItsPromises` leaves it open); `s.extend(s)` never ends (run) |
| `loop.c:251`, `loop.c:300` | a worker that posts after the mail pass has found the inbox empty and finishes before `interns_mail_possible` is asked has the task that awaits its message stranded, with the message in the inbox; LANGUAGE.md:478 gives `LeftOnRead` to one "that nothing can possibly answer" (`box = 0` in place of `box = missed` in `StrandsOnlyTheStuck`, run `loop`). The task's side of what `interns_left_on_read` shows of `wait_up` |
| `loop.c:445` | `strand_waiters` judges all waiters at once, also those waiting for a task that recovers from its own `LeftOnRead` |
| `loop.c:45` | `dip` in an async task does not exit the program; `vm.c:3168`: a refused await marks its otw awaited, so its later failure is never reported |
| `loop.c:517` | the entry's answer is held by no root while the tasks left behind run; the REPL then prints it (run) |
| `interns.c:672` | `interns_wait_any` returns at once while any finished worker is uncollected, awaited or not, so the loop spins where the comment at 663 says it sleeps |
| `platform.c:2369` | a write is answered also when its directory could not be opened or synced, and may be gone after a crash; the comment there calls it best effort, and STDLIB.md:294 promises only that a write that fails leaves the old file (`at[w] = "unsynced"` without `up` in `AnsweredSurvives`) |
| `filez.c:570` | the temporary file stays behind when the durable write fails; `yeet_out` answers code points where its documentation says bytes |
| `bignum.c:571` | shifts of 2^36 and more are cut to an `int` |

## 4. The proofs

| Module | Theorems | For every | Assuming |
|---|---|---|---|
| `InternsProofs` | see below | number of workers, values, capacity and message bound | `InternsAssumption` |
| `TasksProofs` | `TypeCorrect`, `Suspends`, `Refused` | number of async calls, closures, upvalues, and bounds on stacks, frames and handlers | `TasksAssumption`: the kinds of value are told apart |
| | `EveryUpvalueHasASlot`, `Sharing`, `CollectorSound` | the same | `TasksAssumption`, and each theorem says `Dippers = {} => ...` |
| `ImportsProofs` | `EachRunsOnce` | bundle, entry, quoted paths and depth of code | nothing |
| `EventLoopProofs` | `LoopTypes`, `NeverBlocksBusy`, `StrandsTheStuck`, `NothingLeftBehind`, `AnswersStand`, `NoMailIsLost` | number of tasks, otws, deadlines, dippers and messages, in main or in a worker | `EventLoopAssumption`: naturals, and the kinds of otw are told apart |
| `GroupChatProofs` | `ChatInductive`, `IndexLeadsToEntries`, `ImplementsOrderedMap` | keys, values, hash function, batches and thresholds | `ChatAssumption`, of which two parts matter: an index is never allowed to be fuller than full (the code: 7/10), and one entry does not fill the smallest (the code: 8 places); each theorem says `ClearFrom < IndexMin => ...` |
| `AnswerProofs` | `ValuesCrossWhole` | set of heaps, of any finite number of containers, with any scalars and foreign values | `PortableAssumption`: the kinds of value are told apart, and a groupchat has a key once |
| | `EveryJumpLands` | set of functions of any length, and largest short offset of 5 or more | `CodesAssumption`: jumps lead to instructions of the function or its end, handlers ahead; the property says which functions are spared |
| `StashProofs` | `StashesKeepTheirPromises` | elements, answers, ranks, capacities and lengths | `StashAssumption`: what no value is is told apart, ranks are integers; and `Careful`: no function changes the stash or fails under `sort`, or changes it under `sort_by`, `vibe_check` and `group_by`, and no comparator answers a numba that is not whole and whose truth is not its sign: there the code does break its promises |
| `HandoverProofs` | `MailboxImplementsFifo` | set of messages, capacity and first capacity | `Cap \in Nat`, `FirstCapacity \in Nat \ {0}` |
| | `NobodyReadsHalf`, `AnsweredWritesLast` | set of writers and readers | `Apart`: writers are told apart from the values for other files and for torn contents |

### `Interns`

`InternsProofs` proves for every number of workers, values, capacity and message bound,
from `InternsAssumption` alone (`N` is a natural number, `MAILBOX_CAP` a positive one):

| Theorem | States |
|---|---|
| `Inductive` | `Spec => []IInv` |
| `TypeCorrect` | `TypeOK` |
| `ThreadsJoinedOnce` | `JoinedOnce` |
| `OwnersOutliveWorkers` | `NoOrphans` |
| `MailboxesOutliveUse` | `MailboxesSafe` |
| `Answers` | `Spec => []AInv` |
| `WaitUpHandsBack` | `HandsBack` |
| `HandlesFindTheirIntern` | `PendingHasIntern` |
| `MailWakesItsReader` | `NoMissedMail` |
| `Descent` | `Spec => []Generations` |
| `TeardownLeavesNothing` | `NothingLeft` |
| `Mailboxes` | `Spec => []FInv` |
| `DeliveredOnceInOrder` | `FifoOnce` |
| `RepliesReachTheSender` | `ReplyAddress` |

The argument. None of the properties is inductive: `NoOrphans`, say, needs that an owner
can leave its join loop only when everything it owns is joined, which needs that `joined`
implies exited, that `spawned` tells which entries have a thread, and that an entry is never
taken from the registry by anybody but its owner. `IInv` collects this:

* `Unhired`: a struct that was not handed out is blank and unknown to everybody;
* `Registered`: an entry belongs to a VM that is still in its program or its join loop, has a
  thread exactly if it was spawned, and is retired only if it was joined or never started;
* `Running`: a live thread has an entry that is spawned, not joined, not retired;
* `Exited`: `done` is set exactly by exiting, and joined only after it;
* `Aims`: the struct a VM is about to join, settle or release is its own, and in the state
  that step expects, although the lock was dropped since it was looked up;
* `Boxes`: exactly which inboxes are set and which mailboxes allocated.

`TypeStep` and `InvStep` prove it step by step, one case per action. On top of it, `AInv` says what handles and
results mean: numbers are unique among one owner's entries (`Numbers`, because `next_id_for`
counts retired entries too), a VM settles a handle of its own through its own struct
(`Handles`), a pending handle has an uncollected entry (`Pending`), the program's recorded
outcome is what the struct's fields settle to (`Ended`, `Settled`), and settled handles hold
it (`Answered`). `AnswerStep` uses `IInv` before and after the step. `NoMissedMail` is
inductive given the types in `IInv`: a post empties `waiters`, and the wait is entered in
the step that finds the inbox empty.

`NothingLeft` is about all workers, while the main program's teardown joins only its own. What
carries it to the others is `Generations`: structs are handed out in order, and a worker's
after its owner's. Were anything left when the main VM is gone, take the worker of the least
struct that is: its owner is the main VM or an earlier one, hence gone, and by `IInv` nobody goes
before its workers are joined and released.

`FInv` says of every open mailbox that, sender by sender, it holds the messages posted and not yet
taken (`HoldsRest`) with rising numbers (`Rising`), and that nobody has written to that of
a struct still to be handed out. `FifoOnce` is the part of it about programs that
run. `RInv` adds to it that the number under which a message names its sender is in its reader's
registry and means that sender alone (`Addressed`); that it stays so while the reader's program
runs rests on `Numbers`, and on a retired entry keeping its place.

### `Tasks`

The first half of `TasksProofs` is about stacks and control, with or without `dip`:

* `Types`, and `Shapes`: in every stack the frames lie one upon the other, each with its handlers
  between its base and the next frame's, in rising order. So whatever handler an error finds,
  cutting back to it leaves frames and handlers that fit;
* `Control`: only the current task runs; its count of executes is one more than its frames called by a
  native, and the temp roots are as many; a task that is ready or waiting has frames and none of
  these; a finished or new one is as the loop takes it to be;
* `Listed`: what an open list names is allocated.

`SuspendsAlone` and `RefusedOnlyInCallbacks` follow from `Control`: that errors unwound through any
number of nested executes leave the count exact is the lemmas on `Callbacks` of cut stacks.

The second half is about where a variable's value is. `MInv` adds

* `Tracked`: the open upvalues of a context are open over slots of its own stack that say so, and
  every captured slot has its upvalue in the list, and holds what was last assigned;
* `Variables`: an allocated upvalue is closed with what was last assigned, or in its task's open list;
* `Finished`: a finished task's list is empty;
* `NothingUsableFreed` itself.

`UpvaluesHaveASlot` and `SharersAgree` follow. For the collector, `ReachableClosed` and
`ReachableLeast` say that what is marked is closed under reference, and is the least such set that
holds the roots; a collection keeps `Usable` within it because the roots of the VM and of every
other task hold what `Usable` starts from, where an open upvalue's value is reached as that of
its slot. A collection also keeps the open lists, for they are roots.

`Dippers = {}`, that no async task calls `dip`, is needed: run `tasks_dip` shows `UpvaluesHaveASlot`
violated without it (section 3). `Finished` is the part of `MInv` that then fails.

### `Imports`

`LoadingIsTheBodies` is not inductive: an error puts back what each body it leaves remembers, so
what they remember must be known. `Chain` says that the loading stack has a place for each body among the
frames, counted by `Rank`, with its module, and that each body but the entry remembers the module
one place below its own. `ChainBegins`, `ChainCalls` and `ChainCut` are the three ways in which
frames change; the module an error goes back to is what the lowest body it leaves remembers.
`Fresh` says that nothing is on the loading stack twice, or in the cache; it is kept because
`do_import` asks both before it runs a body. Nothing is assumed of how paths are resolved.

### `EventLoop`

Every safety property of the loop's passing runs is proved. `LoopInv` is inductive and says
what each place in `wake_waiters` may rely on:

* `TypeOK`;
* `Phases`: only the current task runs, and only in its turn; while the loop looks around no task
  is ready; from its decision on, through every way to block, what each waiting task waits for
  is pending: the environment changes deadlines, sockets, the inbox and workers, never an otw,
  so what the passes found stays true until the next pass; and from the decision to give up on, nobody waits for
  anything but a task, or mail that nobody is left to send (`NothingComing`), for no worker comes to life again;
* `MailHeard`: what the inbox holds when the mail pass has come to a task that asks for mail, and found none for it,
  is what was posted since (`box = missed`);
* `Results`: a task's result is unmade before the task is, unsettled until it ends unless
  the loop gave it up, and rejected if it failed;
* `LeavesNothing` itself, which the step that ends the loop establishes.

`Kinds` and `Answers` are the lemmas on which otws a pass can settle; `TypeStep`,
`PhasesStep`, `ResultsStep` and `LeavesStep` go through the actions, `LoopStep` puts them together.
`NeverBlocksBusy` follows from `Phases`. `StrandsTheStuck` needs `Phases` and `MailHeard`: that the task another one waits
for waits itself is because its result is pending (`Results`) and nobody is ready; that an empty
inbox was seen, because `settle_mailboxes` answers every task that asks while there is a message. `AnswersStand` and `NoMailIsLost`
are action properties, proved from `LoopInv` by `SettledStep` and `MailStep`: no action
assigns a settled otw, but for a fresh one under a name nobody waits for, and the mail pass pops only for an otw it then answers.

### `GroupChat`

`ImplementsOrderedMap` states that the hash map with its index is the ordered map of `OrderedMap`: every
`get`, `put`, `remove`, `merge` and `clear` answers and leaves behind what a list searched from the front
would. What makes that true is `ChatInv`:

* no key is live twice;
* from `IndexMin` entries on there is an index that has an empty place, holds each string key's position
  once and no other, and in which the probe for each string key comes to its entry before it comes to an
  empty place.

An empty place is there because the load stays below 1 (`HasEmpty` counts), so every probe ends
(`ProbeStops`), at the key's entry if it has one, at an empty place if not (`FindFinds`). Inserting a key
at the empty place its probe ends in (`PlaceOnto`) takes nobody's place, so the other probes stop where
they did (`InsertedSound`); for all entries in turn this makes a rebuilt index sound (`IndexOfIs`), of a
size that `CapacityForIs` shows to be large enough: the doubling ends because a power of two outruns the count.
`PutGood`, `WithoutGood` and `PutAllIs` keep `ChatInv` through the operations, and `PutLive`, `WithoutLive`
and `PutAllIs` show what they do to the live prefix. The recursive functions are
shown to exist before they are unfolded (`DoublesExists`, `BuildsExists`, `PutsExists`,
`MapPutsExists`), by taking the least number for which there is none (`UpTo`).

`ClearFrom < IndexMin` is needed: `clear` keeps the index (`groupchat.c:260`), and if the map had one, a later
lookup goes through positions of entries that are gone (section 3). A program meets this when it clears a
groupchat of `IndexMin` entries or more.

### `Portable`

`ValuesCrossWhole` says that a value crosses exactly when it is a finite tree of portable types, shared parts
allowed, and that the receiver's then looks the same all the way down. The one step takes the whole copy,
so the work is in what the recursive functions compute:

* `CopiesExist`, `ValuesExist` and `LikesExist`: each exists, level by level, by the least number for which
  it would not (`AllNaturals`), and may then be unfolded once;
* `AllCopied`: with n containers not on the trail, a copy is refused or a tree of at most n levels, which
  `portable_to_value` leaves as it is and which looks like the value. For a groupchat `EntriesIs` is
  needed: setting the entries one by one gives them back, because no key comes twice and a container never equals another;
* `CopiedIsPortable`: what is not refused is in every set that `Builds`;
* `PortableIsCopied`: what is portable is not refused. The trail could refuse it only by meeting one of its
  containers again, and `PortablesEnd` shows that none leads back to itself, since the portable
  values without those that do still form a set that `Builds`.

### `LongJumps`

`EveryJumpLands` is again about one step, and the work is in the totals it is computed from:

* `SumsIs`: the running totals exist and unfold (`SummingExists`), so an instruction starts where the one
  before it ends (`OffsetsIs`), and the growth before it is that of the jumps before it (`PrefixIs`);
* `ShiftIs`: `relax_shift`, which takes the last jump starting at least three bytes before a place, moves every
  instruction by just the growth of the jumps before it, because a jump is three bytes and nothing starts within it;
* `MarkingEnds`: each round but the last marks one more jump, so within as many rounds as the function has
  instructions one marks nothing, and then every jump that is still short fits (`UnmarkedFit`);
* `RelaxedIs` and `StartsAre`: pieces are emitted, and really start, where `Shift` said they would. This needs
  each piece to be as long as `relax_size_of` says, which for a widened for-each jump it is not;
* `JumpLands` and `HandlersLand`: from there a short jump, a wide one and one over a trampoline reach the
  target; a handler does because nothing grew between it and its `TRY_PUSH`.

The largest short offset is 5 at least: a short jump has to hop over a `JUMP_LONG`.

### `Stash`

`StashesKeepTheirPromises` states `KeepsItsPromises` for stashes of any length and capacity, any elements
and answers of functions, and any order of them. Its hypothesis `Careful` leaves out what section 3
lists as broken (the `Liberties` of `MCLibrary`): functions that change the stash under `sort`, `sort_by`,
`vibe_check` or `group_by`, and those that fail or drop their arguments under `sort`; functions of
`glow_up`, `squish`, `any` and `all` may change it, and all of those under which nothing is broken may
fail. Methods of one step are a lemma each (`YoinkAtKeeps`, `UniqueKeeps`, `ShuffleItKeeps`, ...). The
others need `StashInv`, whose parts are:

* `Typed`: the array holds values up to the count and nothing behind it, and so what it holds
  is never `Nothing`, nor is an argument of a call;
* `VisitInv`: `i` is the number of calls made; where the function may not change the stash it is what it was;
  and the locals of the method show what the calls answered (`Shown`: `out` is the answers, the elements that
  passed, the pairs, or the groups; `acc` chains the answers; none has settled `any` or `all`);
* `SortInv`: while `sort` runs, the array holds the first `i` elements in some order `q` of theirs with a gap
  behind the first `j + 1`, and the rest untouched (`Placed`): nothing is lost however the comparisons
  go. `Ways` are the orders that all comparisons so far agree with: that of `default_less`, or one for each
  ranking of the elements. In each of them `q` is sorted and stable, and the element taken out is less than
  all behind the gap (`Apart`): so where it stays is its place. A further call of the comparator leaves fewer
  rankings, and says of each that is left whether the element moves on (`Told`);
* `Visited` and `Promised`, the property in the form that a step preserves.

That an insertion keeps an order sorted and stable is one lemma for both sorts (`InsertedSorts`), about
`Orderly` relations: "less" is transitive, excludes its converse, and so on through "not". `default_less`
gives one (`ComparisonIs`); the truth that `sort_by` compares boolskis by does so only if all keys
are boolskis or none is (`KeyComparisonIs`). The property asks for the order of `sort_by` only then:
with the numbas 1 and 2 and `bet` as keys, neither numba is less than `bet` nor `bet` less than one of them, and
the elements may stay unsorted.

### `Mailbox`

In `HandoverProofs`, `MailboxImplementsFifo` states `Spec => Fifo!Spec` under the mapping `queue <- InOrder`. The
invariant `Ring` says that the array is a function from `0 .. Capacity - 1`, `head` lies in it,
and `count` exceeds neither it nor `Cap`. A push that
grows appends to the same queue because `Grown` is `InOrder` copied out to 0, one that does not
because the place behind the last lies in nobody's way (modular arithmetic on `At`, in lemmas
of its own); a pop takes `InOrder`'s head.

### `AtomicFile`

In `HandoverProofs` too. `FileInv` says that published files (the first one, and those that were moved into place) are
whole in memory and on the disk and are never written again (`PublishedWhole`), that a writer's
temporary name leads to its own file or nowhere, and what of it is whole when (`TempsAreOwn`), and
that the target, for everybody and on the disk, is a published file (`TargetPublished`): so a crash
can bring back only whole files under its name. `AnsweredWritesLast` adds `DiskIsNoOlder`: the
disk's version is no older than any that was answered by a writer that synced the directory; while the power is
on, `MovedIn` (what was moved into place is among the versions) is enough for the others. That every writer has a temporary name of its
own is how `Temp` models the eight random bytes in the code's name; TLC finds a half-read file
when they share one (a mutant).

### Only model-checked

Every safety property of the runs of `Interns`, `EventLoop` and `Tasks`, and those of `Imports`,
`AtomicFile`, `Mailbox`, `GroupChat`, `Stash`, `Portable` and `LongJumps`, is proved. The others of `MCLibrary` are only checked: `Sketchy`,
`Expressions` and `Bundler` are recursive on the structure of their inputs, with `RECURSIVE`
operators, for which the prover has no backend, and `Bignum` uses `Bitwise`. Liveness under fairness and `ENABLED` are out of reach too.

## 5. Not modelled, and why

* Lexer, parser, the formatter and the command line of the toolchain; templates, slices, groupchat
  literals and the declaration of squads in the compiler;
  number formatting; strings, blobs, json and the other library modules: sequential
  code over data and text, with golden and fuzz tests in the repository.
* Bytecode files (`chunk.c`): parsing and writing of one format, without state.
* Sessions (`sus.c`): one VM after another on one thread, each a program of its own.
* The status table (`status.c`): a few rows under a lock, dumped without it by a signal handler on purpose.
* Platform, network and crypto: the operating system's behaviour appears only as the
  environment of `EventLoop` and `AtomicFile`; the rest is wrappers and third-party cryptography.
* The compile cache, captured output and `everybody` of `interns.c`.
* Generated tables: data.

Outside the models' grain: a thread is preempted only at the steps named above; memory is
sequentially consistent (the unlocked reads of a worker's fields follow its join); `malloc`
does not fail.

The share of all lines that the models stand for is small because most lines are data or wrappers:
the embedded compiler (`toolchain_blob.c`, 17,000 lines of bytes), the tables of `unicode_tbl.c`,
and `platform.c` with three operating systems' versions of every call.

## 6. What is left to do

1. `Sessions`: errors and exits across child VMs, with the REPL's unrooted answer (`loop.c:517`).
2. Proofs: what `dip` leaves true of `Tasks`; the liveness of `EventLoop` and `Interns` stays with TLC.
3. Bytecode files: what is written is what is read, with the limits of each field.

## 7. Running

    tlc -config MCInterns.cfg MCInterns
    tlc -config MCEventLoop.cfg EventLoop
    tlc -config MCTasks.cfg MCTasks
    tlc -config MCLibrary.cfg MCLibrary
    tlapm InternsProofs.tla            # and the other *Proofs modules

and so for every `.cfg`, whose module is the one its name begins with (`MCEventLoop*.cfg`:
`EventLoop`; `MCPipes.cfg`: `MCLibrary`). The largest runs take two to three minutes on two cores.
