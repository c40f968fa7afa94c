------------------------------ MODULE EventLoop ------------------------------
(***************************************************************************)
(* The event loop of one VM (native/loop.c) and the tasks it schedules     *)
(* (vm.c's async calls and OP_AWAIT, otw.c).                               *)
(*                                                                         *)
(* Tasks run one at a time, each until it awaits an unsettled otw or ends. *)
(* When none can run, the loop looks at everything the waiting tasks wait  *)
(* for, one kind at a time; workers, peers, the clock and the terminal go  *)
(* on meanwhile. Then it blocks, or tells the tasks nobody can help.       *)
(***************************************************************************)
EXTENDS Integers, FiniteSets

CONSTANTS
  T,           \* bound: the async tasks of a behaviour
  Timers,      \* otws of clock.chill
  Sockets,     \* otws of internet.hold_up, one per connection
  Mails,       \* otws of interns.check_dms
  Deadlines,   \* the sockets' and mails' otws that were given a timeout
  Interrupts,  \* otws of computer.until_ctrl_c
  Jobs,        \* otws of interns.hire
  Dippers,     \* the tasks whose code calls dip
  MaxMail,     \* bound: messages waiting in this VM's inbox
  InWorker     \* whether this VM is an intern's (its boss may dm it)

Entry == 0                 \* task zero, the program's top level
Async == 1 .. T            \* the tasks of async_ngl calls, in the order of the calls
Tasks == {Entry} \cup Async
Sources == Timers \cup Sockets \cup Mails \cup Interrupts \cup Jobs
Otws == Sources \cup Async \* a task's result is named by the task
Timed == Timers \cup Deadlines
None == -1

ASSUME EventLoopAssumption ==
  /\ T \in Nat /\ MaxMail \in Nat /\ InWorker \in BOOLEAN
  /\ Deadlines \subseteq Sockets \cup Mails /\ Dippers \subseteq Tasks
  /\ Sources \cap (Tasks \cup {None}) = {}
  /\ Jobs \cap (Timers \cup Sockets \cup Mails \cup Interrupts) = {}
  /\ Mails \cap (Timers \cup Sockets \cup Interrupts) = {}

VARIABLES
  at,        \* the step of loop_run and wake_waiters this thread is in
  cur,       \* vm->currentTask
  state,     \* each task's state
  on,        \* the otw of the await_fr a task suspended in, until it is past it
  otw,       \* each otw's state; "unmade" before the call that makes it
  awaited,   \* the results some await_fr has been executed on
  now,       \* the deadlines that had passed when wake_waiters read the clock
  due,       \* the deadlines that have passed
  readable,  \* the sockets with something to read
  job,       \* each worker: not hired, working, or finished (Intern.done)
  box,       \* messages in this VM's inbox
  scan,      \* the task settle_mailboxes looks at next
  latch,     \* platform_interrupt_seen()
  moved,     \* wake_waiters' flag
  verdict,   \* what loop_run returns
  failed,    \* history: the tasks an error escaped from
  missed     \* history: messages posted since settle_mailboxes looked for one

world == <<due, readable, job, box, latch>>
vars == <<at, cur, state, on, otw, awaited, now, scan, moved, verdict, failed, missed, world>>

\* "late" is the answer of a wait whose deadline passed first; a rejection is
\* with an error, with dip's sentinel or with the loop's own LeftOnRead.
Rejected == {"rejected", "exit", "stranded"}
Settled == {"fulfilled", "late"} \cup Rejected

Init ==
  /\ at = "run" /\ cur = Entry
  /\ state = [t \in Tasks |-> IF t = Entry THEN "running" ELSE "none"]
  /\ on = [t \in Tasks |-> None]
  /\ otw = [o \in Otws |-> "unmade"]
  /\ awaited = {} /\ failed = {}
  /\ now = {} /\ due = {} /\ readable = {} /\ latch = FALSE
  /\ job = [j \in Jobs |-> "unhired"]
  /\ box = 0 /\ missed = 0 /\ scan = 0 /\ moved = FALSE
  /\ verdict = "running"

InState(s) == {t \in Tasks : state[t] = s}

\* What the waiting tasks wait for and has no answer yet.
Wanted == {o \in Otws : otw[o] = "pending" /\ \E t \in InState("waiting") : on[t] = o}

\* A mutant of Answer: a second answer replaces the first.
AnswerAgain(os, s) == [o \in Otws |-> IF o \in os THEN s ELSE otw[o]]

\* otw_fulfill and otw_reject leave a settled otw alone.
Answer(os, s) ==
  [o \in Otws |-> IF o \in os /\ otw[o] = "pending" THEN s ELSE otw[o]]

-----------------------------------------------------------------------------
(* loop_run.                                                               *)

\* A mutant of CanRun: waiting tasks are looked at before ready ones run.
CanRunUnlessWaiting == IF InState("waiting") = {} THEN InState("ready") ELSE {}

\* pick_ready looks for these.
CanRun == InState("ready")

\* The first ready task, in creation order, gets a turn.
Turn ==
  /\ at = "pick"
  /\ \E t \in CanRun :
       /\ \A u \in CanRun : t <= u
       /\ state' = [state EXCEPT ![t] = "running"]
       /\ cur' = t
  /\ at' = "run"
  /\ UNCHANGED <<on, otw, awaited, now, scan, moved, verdict, failed, missed, world>>

\* No task can run: wake_waiters reads the clock and begins.
LookAround ==
  /\ at = "pick" /\ CanRun = {} /\ InState("waiting") # {}
  /\ at' = "timers"
  /\ now' = due
  /\ moved' = FALSE
  /\ UNCHANGED <<cur, state, on, otw, awaited, scan, verdict, failed, missed, world>>

\* A mutant of Dropped: an error is only reported if somebody asked for it.
DroppedAwaited == {t \in Async : otw[t] \in Rejected /\ t \in awaited}

\* describe_dropped_rejection: the rejections nobody awaited.
Dropped == {t \in Async : otw[t] \in Rejected /\ t \notin awaited}

\* No task can run and none is waiting: the program is over.
Leave ==
  /\ at = "pick" /\ CanRun = {} /\ InState("waiting") = {}
  /\ at' = "ended"
  /\ verdict' = IF Dropped = {} THEN verdict ELSE "failed"
  /\ awaited' = awaited \cup Dropped
  /\ UNCHANGED <<cur, state, on, otw, now, scan, moved, failed, missed, world>>

-----------------------------------------------------------------------------
(* A task's turn. A task that was woken first executes again the await_fr  *)
(* it suspended in.                                                        *)

Running == at = "run"
PastAwait == Running /\ on[cur] = None

\* OP_AWAIT on an unsettled otw: the task suspends and the loop moves on.
Suspend(o) ==
  /\ Running /\ on[cur] \in {None, o} /\ otw[o] = "pending"
  /\ state' = [state EXCEPT ![cur] = "waiting"]
  /\ on' = [on EXCEPT ![cur] = o]
  /\ awaited' = awaited \cup ({o} \cap Async)
  /\ at' = "pick"
  /\ UNCHANGED <<cur, otw, now, scan, moved, verdict, failed, missed, world>>

\* OP_AWAIT, or wait_up, on a settled otw: the task has its value, or raises
\* its error. No handler sees dip's sentinel.
Proceed(o) ==
  /\ Running /\ on[cur] \in {None, o} /\ otw[o] \in Settled
  /\ on' = [on EXCEPT ![cur] = None]
  /\ awaited' = awaited \cup ({o} \cap Async)
  /\ at' = IF otw[o] = "exit" THEN "exit" ELSE at
  /\ UNCHANGED <<cur, state, otw, now, scan, moved, verdict, failed, missed, world>>

\* Below a native callback OP_AWAIT may not suspend, and wait_up never blocks on
\* a task's result: CantWaitRightNow, of a result that now counts as awaited.
Refuse(o) ==
  /\ PastAwait /\ o \in Async /\ otw[o] = "pending"
  /\ awaited' = awaited \cup {o}
  /\ UNCHANGED <<at, cur, state, on, otw, now, scan, moved, verdict, failed, missed, world>>

\* start_async_call: a new task, ready, and its otw.
Spawn(t) ==
  /\ PastAwait
  /\ state[t] = "none" /\ \A u \in Async : u < t => state[u] # "none"
  /\ state' = [state EXCEPT ![t] = "ready"]
  /\ otw' = [otw EXCEPT ![t] = "pending"]
  /\ UNCHANGED <<at, cur, on, awaited, now, scan, moved, verdict, failed, missed, world>>

\* An otw's name stands for a fresh one when no task waits on the old one.
Unused(o) == \A t \in Tasks : on[t] # o

\* chill, hold_up and until_ctrl_c: a new otw, which the loop will settle. (The
\* program has read what the socket had to say before it holds it up again.)
Start(o) ==
  /\ PastAwait /\ Unused(o)
  /\ o \in Timers \cup Sockets \cup (IF InWorker THEN {} ELSE Interrupts)
  /\ otw' = [otw EXCEPT ![o] = "pending"]
  /\ due' = due \ {o}
  /\ readable' = readable \ {o}
  /\ UNCHANGED <<at, cur, state, on, awaited, now, scan, moved, verdict, failed, missed,
                 job, box, latch>>

\* Mutants of HasMail, off by one.
HasMailOrNot == box >= 0
HasMailToSpare == box > 1

\* mailbox_pop finds a message.
HasMail == box > 0

\* interns_mail_possible: the boss, or an intern that has not finished.
MailPossible == InWorker \/ \E j \in Jobs : job[j] = "working"

\* check_dms: a new otw, settled at once if there is mail.
CheckDms(o) ==
  /\ PastAwait /\ Unused(o) /\ o \in Mails
  /\ otw' = [otw EXCEPT ![o] = IF HasMail THEN "fulfilled" ELSE "pending"]
  /\ box' = IF HasMail THEN box - 1 ELSE box
  /\ due' = due \ {o}
  /\ UNCHANGED <<at, cur, state, on, awaited, now, scan, moved, verdict, failed, missed,
                 readable, job, latch>>

\* hire (module Interns has its other half).
Hire(j) ==
  /\ PastAwait /\ job[j] = "unhired"
  /\ job' = [job EXCEPT ![j] = "working"]
  /\ otw' = [otw EXCEPT ![j] = "pending"]
  /\ UNCHANGED <<at, cur, state, on, awaited, now, scan, moved, verdict, failed, missed,
                 due, readable, box, latch>>

\* wait_up: this thread, and so every task, blocks until the otw can be settled
\* (loop_settle_blocking).
WaitUp(o) ==
  /\ PastAwait /\ otw[o] = "pending"
  /\ \/ /\ o \in Jobs /\ job[o] = "finished"
        /\ \E s \in {"fulfilled", "rejected"} : otw' = Answer({o}, s)
     \/ /\ o \in (Timers \cap due) \cup (Sockets \cap readable)
              \cup (IF latch THEN Interrupts ELSE {})
        /\ otw' = Answer({o}, "fulfilled")
     \/ /\ o \in (Sockets \cap due) \ readable
        /\ otw' = Answer({o}, "late")
  /\ UNCHANGED <<at, cur, state, on, awaited, now, scan, moved, verdict, failed, missed, world>>

\* wait_up on check_dms: the next message, ghost when it is overdue, or
\* LeftOnRead when nobody can send any.
WaitUpMail(o) ==
  /\ PastAwait /\ o \in Mails /\ otw[o] = "pending"
  /\ \/ /\ HasMail
        /\ otw' = Answer({o}, "fulfilled") /\ box' = box - 1
     \/ /\ ~HasMail /\ UNCHANGED box
        /\ otw' = Answer({o}, IF o \in due THEN "late" ELSE "rejected")
        /\ o \in due \/ ~MailPossible
  /\ UNCHANGED <<at, cur, state, on, awaited, now, scan, moved, verdict, failed, missed,
                 due, readable, job, latch>>

\* dip: the sentinel is raised.
Dip ==
  /\ PastAwait /\ cur \in Dippers
  /\ at' = "exit"
  /\ UNCHANGED <<cur, state, on, otw, awaited, now, scan, moved, verdict, failed, missed, world>>

\* How a task's turn may end for good: its body returns, an error or dip's
\* sentinel escapes it.
Endings == IF at = "exit" THEN {"exit"}
           ELSE IF PastAwait THEN {"fulfilled", "rejected"} ELSE {}

\* finish_task: an async task's end settles its otw; an error goes with it.
EndTask(t) ==
  /\ t = cur /\ t # Entry
  /\ \E end \in Endings :
       /\ otw' = Answer({t}, end)
       /\ failed' = IF end \in Rejected THEN failed \cup {t} ELSE failed
  /\ state' = [state EXCEPT ![t] = "done"]
  /\ at' = "pick"
  /\ UNCHANGED <<cur, on, awaited, now, scan, moved, verdict, missed, world>>

\* Task zero's end: an error of the program stops everything, otherwise the
\* loop goes on until every task is done.
EndEntry ==
  /\ cur = Entry
  /\ \E end \in Endings :
       /\ failed' = IF end \in Rejected THEN failed \cup {Entry} ELSE failed
       /\ verdict' = IF end \in Rejected THEN "failed" ELSE "ok"
       /\ at' = IF end \in Rejected THEN "ended" ELSE "pick"
  /\ state' = [state EXCEPT ![Entry] = "done"]
  /\ UNCHANGED <<cur, on, otw, awaited, now, scan, moved, missed, world>>

-----------------------------------------------------------------------------
(* wake_waiters, pass by pass.                                             *)

\* fire_due_timers.
TimerPass ==
  /\ at = "timers"
  /\ LET fired == Wanted \cap Timers \cap now IN
     /\ otw' = Answer(fired, "fulfilled")
     /\ moved' = (fired # {})
  /\ at' = "sockets"
  /\ UNCHANGED <<cur, state, on, awaited, now, scan, verdict, failed, missed, world>>

\* settle_ready_sockets: what can be read now, else what is overdue.
SocketPass ==
  /\ at = "sockets"
  /\ LET ready == Wanted \cap Sockets \cap readable
         late == (Wanted \cap Sockets \cap now) \ ready
     IN  /\ otw' = [o \in Otws |-> IF o \in ready THEN "fulfilled"
                                   ELSE IF o \in late THEN "late" ELSE otw[o]]
         /\ moved' = (moved \/ ready \cup late # {})
  /\ at' = "mail"
  /\ scan' = Entry
  /\ UNCHANGED <<cur, state, on, awaited, now, verdict, failed, missed, world>>

\* A mutant of AsksForMail: an otw that was settled a moment ago takes another.
AsksForMailAgain(t) == state[t] = "waiting" /\ on[t] \in Mails

\* settle_mailboxes takes a message for these tasks.
AsksForMail(t) == state[t] = "waiting" /\ on[t] \in Mails /\ otw[on[t]] = "pending"

\* settle_mailboxes, one task: the next message, or ghost if it is overdue.
MailPass ==
  /\ at = "mail"
  /\ LET o == on[scan]
         popped == AsksForMail(scan) /\ HasMail
         late == AsksForMail(scan) /\ ~HasMail /\ o \in now
     IN  /\ box' = IF popped THEN box - 1 ELSE box
         /\ otw' = IF popped THEN Answer({o}, "fulfilled")
                   ELSE IF late THEN Answer({o}, "late") ELSE otw
         /\ moved' = (moved \/ popped \/ late)
  /\ missed' = IF AsksForMail(scan) THEN 0 ELSE missed
  /\ IF scan < T THEN scan' = scan + 1 /\ at' = at ELSE scan' = Entry /\ at' = "interrupts"
  /\ UNCHANGED <<cur, state, on, awaited, now, verdict, failed, due, readable, job, latch>>

\* settle_interrupts.
InterruptPass ==
  /\ at = "interrupts"
  /\ LET told == IF latch THEN Wanted \cap Interrupts ELSE {} IN
     /\ otw' = Answer(told, "fulfilled")
     /\ moved' = (moved \/ told # {})
  /\ at' = "collect"
  /\ UNCHANGED <<cur, state, on, awaited, now, scan, verdict, failed, missed, world>>

\* A mutant of Finished: workers are looked at when nothing else has moved.
FinishedIfQuiet ==
  IF moved THEN {} ELSE {j \in Wanted \cap Jobs : job[j] = "finished"}

\* interns_ready holds for these.
Finished == {j \in Wanted \cap Jobs : job[j] = "finished"}

\* interns_ready and interns_collect: finished workers are joined and their
\* otws settled with what they handed back.
CollectPass ==
  /\ at = "collect"
  /\ \E good \in SUBSET Finished :
       otw' = [o \in Otws |-> IF o \in good THEN "fulfilled"
                              ELSE IF o \in Finished THEN "rejected" ELSE otw[o]]
  /\ at' = "ready"
  /\ UNCHANGED <<cur, state, on, awaited, now, scan, moved, verdict, failed, missed, world>>

\* A mutant of Moves: a task moved by this pass alone does not count.
MovesEarlier(ready) == moved

\* Whether the loop goes back to run tasks.
Moves(ready) == moved \/ ready # {}

\* Tasks whose otw is settled, by a pass or by another task, can run again.
ReadyPass ==
  /\ at = "ready"
  /\ LET ready == {t \in InState("waiting") : otw[on[t]] # "pending"} IN
     /\ state' = [t \in Tasks |-> IF t \in ready THEN "ready" ELSE state[t]]
     /\ at' = IF Moves(ready) THEN "pick" ELSE "decide"
  /\ now' = {} /\ moved' = FALSE      \* locals, not looked at again
  /\ missed' = IF at' = "decide" THEN missed ELSE 0
  /\ UNCHANGED <<cur, on, otw, awaited, scan, verdict, failed, world>>

\* Workers and mail are waited for on g_wake.
ThreadsToHear == Wanted \cap Jobs # {} \/ (Wanted \cap Mails # {} /\ MailPossible)

\* A mutant of DeadlineAhead: only a timer has one.
TimerAhead == Wanted \cap Timers # {}

\* next_deadline_ms.
DeadlineAhead == Wanted \cap Timed # {}

\* What to block in; with nothing still coming, the waiters are stranded.
Decide ==
  /\ at = "decide"
  /\ at' = IF Wanted \cap Sockets # {} THEN "poll"
           ELSE IF ThreadsToHear THEN "park"
           ELSE IF Wanted \cap Interrupts # {} \/ DeadlineAhead THEN "nap"
           ELSE "strand"
  /\ missed' = IF at' = "strand" THEN missed ELSE 0
  /\ UNCHANGED <<cur, state, on, otw, awaited, now, scan, moved, verdict, failed, world>>

\* A poll ends with its timeout, a nap with its time; a wait on g_wake also
\* with a broadcast, or for no reason.
Unblock ==
  /\ at \in {"poll", "nap", "asleep"}
  /\ at' = "pick"
  /\ UNCHANGED <<cur, state, on, otw, awaited, now, scan, moved, verdict, failed, missed, world>>

\* interns_wait_any, under g_lock: an intern that has finished and was not
\* collected ends the wait before it begins.
Park ==
  /\ at = "park"
  /\ at' = IF \E j \in Jobs : job[j] = "finished" /\ otw[j] = "pending"
           THEN "pick" ELSE "asleep"
  /\ UNCHANGED <<cur, state, on, otw, awaited, now, scan, moved, verdict, failed, missed, world>>

\* strand_waiters: every waiting task is given LeftOnRead.
Strand ==
  /\ at = "strand"
  /\ otw' = Answer({on[t] : t \in InState("waiting")}, "stranded")
  /\ state' = [t \in Tasks |-> IF state[t] = "waiting" THEN "ready" ELSE state[t]]
  /\ at' = "pick"
  /\ missed' = 0
  /\ UNCHANGED <<cur, on, awaited, now, scan, moved, verdict, failed, world>>

-----------------------------------------------------------------------------
(* Everything that is not this thread, until the program is over.          *)

\* g_wake is broadcast: the loop's wait on it ends.
Broadcast == at' = IF at = "asleep" THEN "pick" ELSE at

DeadlinePasses(o) ==
  /\ at # "ended" /\ o \in Timed \ due /\ otw[o] = "pending"
  /\ due' = due \cup {o}
  /\ UNCHANGED <<at, cur, state, on, otw, awaited, now, scan, moved, verdict, failed, missed,
                 readable, job, box, latch>>

SocketReadable(o) ==
  /\ at # "ended" /\ o \in Sockets \ readable /\ otw[o] = "pending"
  /\ readable' = readable \cup {o}
  /\ UNCHANGED <<at, cur, state, on, otw, awaited, now, scan, moved, verdict, failed, missed,
                 due, job, box, latch>>

\* A worker of this VM, or its boss, posts to it.
Dm ==
  /\ at # "ended" /\ MailPossible /\ box < MaxMail
  /\ box' = box + 1
  /\ missed' = IF at \in {"mail", "interrupts", "collect", "ready", "decide"} THEN missed + 1 ELSE missed
  /\ Broadcast
  /\ UNCHANGED <<cur, state, on, otw, awaited, now, scan, moved, verdict, failed,
                 due, readable, job, latch>>

WorkerFinishes(j) ==
  /\ at # "ended" /\ job[j] = "working"
  /\ job' = [job EXCEPT ![j] = "finished"]
  /\ Broadcast
  /\ UNCHANGED <<cur, state, on, otw, awaited, now, scan, moved, verdict, failed, missed,
                 due, readable, box, latch>>

\* Ctrl-C, once something asked to be told (platform_on_interrupt).
CtrlC ==
  /\ at # "ended" /\ ~latch /\ \E o \in Interrupts : otw[o] # "unmade"
  /\ latch' = TRUE
  /\ UNCHANGED <<at, cur, state, on, otw, awaited, now, scan, moved, verdict, failed, missed,
                 due, readable, job, box>>

-----------------------------------------------------------------------------
EndsTurn ==
  \/ \E o \in Otws : Suspend(o)
  \/ EndEntry
  \/ \E t \in Async : EndTask(t)

Program ==
  \/ EndsTurn \/ Dip
  \/ \E o \in Otws : Proceed(o)
  \/ \E o \in Sources : Start(o) \/ CheckDms(o) \/ WaitUp(o) \/ WaitUpMail(o)
  \/ \E t \in Async : Spawn(t) \/ Refuse(t)
  \/ \E j \in Jobs : Hire(j)

Loop ==
  \/ Turn \/ LookAround \/ Leave
  \/ TimerPass \/ SocketPass \/ MailPass \/ InterruptPass \/ CollectPass \/ ReadyPass
  \/ Decide \/ Unblock \/ Park \/ Strand

Environment ==
  \/ \E o \in Sources : DeadlinePasses(o) \/ SocketReadable(o)
  \/ Dm \/ CtrlC
  \/ \E j \in Jobs : WorkerFinishes(j)

Over == at = "ended" /\ UNCHANGED vars

Next == Program \/ Loop \/ Environment \/ Over

Spec == Init /\ [][Next]_vars

\* A resumed task executes its await_fr again.
AwaitAgain == \E o \in Otws : on[cur] = o /\ Proceed(o)

\* The thread is scheduled, and no task runs for ever without awaiting.
FairSpec == Spec /\ WF_vars(Loop \/ AwaitAgain) /\ SF_vars(EndsTurn)

-----------------------------------------------------------------------------
(* Properties.                                                             *)

TypeOK ==
  /\ at \in {"pick", "run", "exit", "timers", "sockets", "mail", "interrupts", "collect", "ready",
             "decide", "poll", "park", "asleep", "nap", "strand", "ended"}
  /\ cur \in Tasks
  /\ state \in [Tasks -> {"none", "ready", "running", "waiting", "done"}]
  /\ on \in [Tasks -> Otws \cup {None}]
  /\ otw \in [Otws -> {"unmade", "pending"} \cup Settled]
  /\ awaited \subseteq Async /\ failed \subseteq Tasks
  /\ now \subseteq Timed /\ due \subseteq Timed /\ readable \subseteq Sockets
  /\ job \in [Jobs -> {"unhired", "working", "finished"}]
  /\ box \in 0 .. MaxMail /\ missed \in Nat /\ scan \in Tasks
  /\ latch \in BOOLEAN /\ moved \in BOOLEAN
  /\ verdict \in {"running", "ok", "failed"}

\* The loop never blocks while a task could go on: none is ready, and no
\* waiting task's otw has been settled, by a pass or by another task.
BlocksOnlyWhenIdle ==
  at \in {"poll", "park", "asleep", "nap", "strand"} =>
    /\ InState("ready") = {}
    /\ \A t \in InState("waiting") : otw[on[t]] = "pending"

\* An otw is settled once: whatever settled it (a pass, a collect, wait_up, a task's end, the loop's
\* LeftOnRead), no later answer takes its place. Only a call that makes a new otw starts over.
SettledOnce ==
  [][\A o \in Otws : otw[o] \in Settled =>
       otw'[o] = otw[o] \/ (o \in Sources \ Jobs /\ PastAwait /\ Unused(o))]_vars

\* A message leaves the inbox only as the answer of an otw that had none.
NoMailLost ==
  [][box' < box =>
       \E o \in Mails : otw'[o] = "fulfilled" /\ (otw[o] = "pending" \/ PastAwait)]_vars

\* LeftOnRead is given only to tasks nothing can reach: each waits for the result of a task that is as
\* stuck, or without a deadline for mail, with every sender gone and an inbox that settle_mailboxes
\* found empty. Not promised, as it is not so: that the inbox is empty still. A worker that posts after
\* that look and finishes before interns_mail_possible is asked has its message missed (loop.c:251
\* and 300), and the reader is told that nothing can arrive (docs/LANGUAGE.md:478).
StrandsOnlyTheStuck ==
  at = "strand" =>
    \A t \in InState("waiting") :
      \/ on[t] \in Async /\ state[on[t]] = "waiting"
      \/ /\ on[t] \in Mails \ Deadlines
         /\ ~InWorker /\ \A j \in Jobs : job[j] # "working"
         /\ box = missed

\* The program ends with its own error, or when every task it started is done;
\* it ends well only if each rejection had been awaited by somebody.
LeavesNothing ==
  at = "ended" =>
    \/ Entry \in failed
    \/ /\ \A t \in Tasks : state[t] \in {"none", "done"}
       /\ verdict = "ok" => failed \subseteq awaited

\* What waits for an event that has happened is resumed.
Happened(o) ==
  \/ o \in due \/ o \in readable
  \/ o \in Jobs /\ job[o] = "finished"
  \/ o \in Interrupts /\ latch
  \/ otw[o] \in Settled

Resumes ==
  \A t \in Tasks, o \in Otws :
    state[t] = "waiting" /\ on[t] = o /\ Happened(o) ~>
      (cur = t /\ Running) \/ at = "ended"

\* Every task that can run gets a turn, whatever the others do.
NoStarvation ==
  \A t \in Tasks : state[t] = "ready" ~> (cur = t /\ Running) \/ at = "ended"

\* The loop does not sleep on g_wake while mail it waits for is in its inbox.
HearsItsMail == at = "asleep" => ~(box > 0 /\ Wanted \cap Mails # {})
=============================================================================
