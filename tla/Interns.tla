------------------------------- MODULE Interns -------------------------------
(***************************************************************************)
(* Workers on OS threads (native/interns.c): a VM hires interns, each a    *)
(* thread that runs a whole program in a VM of its own; VMs exchange only  *)
(* copied messages through mailboxes, and a VM joins every intern it hired *)
(* before it dies.                                                         *)
(*                                                                         *)
(* A step is one critical section of g_lock, one critical section of a     *)
(* mailbox's own lock, or one stretch of unlocked code that touches shared *)
(* memory; other threads run between any two steps.                        *)
(***************************************************************************)
EXTENDS Integers, Sequences

CONSTANTS
  N,            \* bound: the Intern structs a behaviour may hire
  Vals,         \* what a worker may deliver
  Ghost,        \* the language's null: the result of a worker that delivered nothing
  MAILBOX_CAP,  \* messages an inbox holds before dm refuses (1000000 in the code)
  MaxDms,       \* bound: messages each VM posts to each other one
  PatientVMs    \* the VMs whose programs call check_dms with no deadline

Workers == 1 .. N        \* Intern structs, in the order they are hired, each with its VM
Main == 0                \* the top-level VM (runner.c)
VMs == Workers \cup {Main}
None == -1               \* the null pointer, for a VM or an Intern

ASSUME InternsAssumption ==
  /\ N \in Nat
  /\ MAILBOX_CAP \in Nat \ {0}
  /\ MaxDms \in [VMs \X VMs -> Nat]

VARIABLES
  pc,        \* where each VM's thread is
  handle,    \* the worker whose otw a VM is settling (wait_up)
  target,    \* the Intern struct it found for that otw, or is joining at teardown
  registry,  \* g_interns: the Intern structs that exist
  intern,    \* the fields of each Intern
  otw,       \* the ObjOtw that hire returned, on the owner's heap
  inbox,     \* the VMs whose vm->inbox is not NULL
  open,      \* the mailboxes that are allocated
  box,       \* their messages, oldest first
  timed,     \* the VMs blocked in a check_dms that has a deadline
  waiters,   \* the VMs asleep on g_wake
  posted,    \* history: messages accepted, by sender and receiver
  taken,     \* history: messages popped, by sender and receiver
  outcome    \* history: how each worker's program ended

mailVars == <<inbox, open, box, timed, posted, taken>>
vars == <<pc, handle, target, registry, intern, otw, mailVars, waiters, outcome>>

\* Where a VM's program has not ended, and where the VM is being destroyed.
ProgramPCs == {"run", "join", "settle", "release",
               "mailpoll", "mailcheck", "mailsleep", "mailasleep"}
TeardownPCs == {"teardown", "tjoin", "vmdown", "announce"}

\* A VM's thread has started and its VM is not yet destroyed.
Alive(v) == pc[v] \in ProgramPCs \cup TeardownPCs

\* calloc'd: no owner, id 0, every flag false.
BlankIntern == [owner |-> None, id |-> 0, spawned |-> FALSE, joined |-> FALSE,
                retired |-> FALSE, done |-> FALSE, failed |-> FALSE,
                result |-> Ghost]

Unsettled == [state |-> "none", value |-> Ghost]

Init ==
  /\ pc = [v \in VMs |-> IF v = Main THEN "run" ELSE "none"]
  /\ handle = [v \in VMs |-> None]
  /\ target = [v \in VMs |-> None]
  /\ registry = {}
  /\ intern = [i \in Workers |-> BlankIntern]
  /\ otw = [i \in Workers |-> Unsettled]
  /\ inbox = {Main}             \* the program has done `gimme interns`
  /\ open = {Main}
  /\ box = [v \in VMs |-> <<>>]
  /\ timed = {}
  /\ waiters = {}
  /\ posted = [p \in VMs \X VMs |-> 0]
  /\ taken = [p \in VMs \X VMs |-> 0]
  /\ outcome = [i \in Workers |-> Unsettled]

Goto(v, from, to) ==
  /\ pc[v] = from
  /\ pc' = [pc EXCEPT ![v] = to]

-----------------------------------------------------------------------------
(* The registry.                                                           *)

Owned(v) == {i \in registry : intern[i].owner = v}

\* intern_at: the entries of this VM with this number, retired ones included.
InternAt(v, k) == {i \in Owned(v) : intern[i].id = k}

\* A mutant of IsNextId: the numbers of collected interns are given out again.
IsNextFreeId(v, k) ==
  LET live == {i \in Owned(v) : ~intern[i].retired}
  IN  /\ \A i \in live : intern[i].id < k
      /\ k = 1 \/ \E i \in live : intern[i].id = k - 1

\* next_id_for: one more than the highest number among this VM's entries.
IsNextId(v, k) ==
  /\ \A i \in Owned(v) : intern[i].id < k
  /\ k = 1 \/ \E i \in Owned(v) : intern[i].id = k - 1

\* calloc: the next struct of the behaviour.
IsFresh(i) ==
  /\ intern[i].owner = None
  /\ \A j \in Workers : j < i => intern[j].owner # None

\* m_hire, when the thread starts. The struct is filled in, entered in the
\* registry and its thread started under one hold of g_lock; intern_body points
\* the worker's VM at the struct's mailbox before its program begins.
Hire(v, i) ==
  /\ pc[v] = "run" /\ IsFresh(i)
  /\ \E k \in Workers :
       /\ IsNextId(v, k)
       /\ intern' = [intern EXCEPT ![i] = [BlankIntern EXCEPT
                       !.owner = v, !.id = k, !.spawned = TRUE]]
  /\ registry' = registry \cup {i}
  /\ otw' = [otw EXCEPT ![i].state = "pending"]
  /\ open' = open \cup {i}
  /\ inbox' = inbox \cup {i}
  /\ pc' = [pc EXCEPT ![i] = "run"]
  /\ UNCHANGED <<handle, target, box, timed, waiters, posted, taken, outcome>>

\* m_hire, when platform_thread_start fails: the entry stays, retired, with
\* everything it owned released, and the caller gets an error and no otw.
HireFails(v, i) ==
  /\ pc[v] = "run" /\ IsFresh(i)
  /\ \E k \in Workers :
       /\ IsNextId(v, k)
       /\ intern' = [intern EXCEPT ![i] = [BlankIntern EXCEPT
                       !.owner = v, !.id = k, !.retired = TRUE]]
  /\ registry' = registry \cup {i}
  /\ UNCHANGED <<pc, handle, target, otw, mailVars, waiters, outcome>>

\* m_deliver: the last delivery wins.
Deliver(i, x) ==
  /\ pc[i] = "run"
  /\ intern' = [intern EXCEPT ![i].result = x]
  /\ UNCHANGED <<pc, handle, target, registry, otw, mailVars, waiters, outcome>>

-----------------------------------------------------------------------------
(* wait_up on an intern: settle_and_read, loop_settle_blocking and         *)
(* interns_collect, on the owner's thread.                                 *)

\* The lookup, under g_lock. The struct is used after the lock is released.
WaitUp(v, h) ==
  /\ otw[h].state = "pending" /\ intern[h].owner = v
  /\ \E i \in InternAt(v, intern[h].id) :
       /\ ~intern[i].retired
       /\ target' = [target EXCEPT ![v] = i]
       /\ Goto(v, "run", IF intern[i].joined THEN "settle" ELSE "join")
  /\ handle' = [handle EXCEPT ![v] = h]
  /\ UNCHANGED <<registry, intern, otw, mailVars, waiters, outcome>>

\* platform_thread_join, with no lock held; joined is the owner's to write.
JoinThread(v) ==
  /\ pc[target[v]] = "exited"
  /\ intern' = [intern EXCEPT ![target[v]].joined = TRUE]
  /\ UNCHANGED <<handle, registry, otw, mailVars, waiters, outcome>>

CollectJoin(v) ==
  /\ Goto(v, "join", "settle")
  /\ JoinThread(v)
  /\ UNCHANGED target

\* A mutant of Settlement: whatever was delivered before the error.
SettlementByResult(in) == [state |-> "fulfilled", value |-> in.result]

\* How an otw is settled for a finished worker: rejected with the error that
\* escaped it, or else fulfilled with what it delivered.
Settlement(in) == IF in.failed THEN [state |-> "rejected", value |-> Ghost]
                  ELSE [state |-> "fulfilled", value |-> in.result]

\* The owner reads the finished worker's fields and settles its own otw.
Settle(v) ==
  /\ Goto(v, "settle", "release")
  /\ otw' = [otw EXCEPT ![handle[v]] = Settlement(intern[target[v]])]
  /\ UNCHANGED <<handle, target, registry, intern, mailVars, waiters, outcome>>

\* intern_release under g_lock: the mailbox goes, with anything left in it.
Release(v) ==
  /\ Goto(v, "release", "run")
  /\ intern' = [intern EXCEPT ![target[v]].retired = TRUE,
                              ![target[v]].failed = FALSE,
                              ![target[v]].result = Ghost]
  /\ open' = open \ {target[v]}
  /\ box' = [box EXCEPT ![target[v]] = <<>>]
  /\ handle' = [handle EXCEPT ![v] = None]
  /\ target' = [target EXCEPT ![v] = None]
  /\ UNCHANGED <<registry, otw, inbox, timed, waiters, posted, taken, outcome>>

-----------------------------------------------------------------------------
(* Messages.                                                               *)

\* A mutant of HasRoom, off by one.
HasRoomInclusive(r) == Len(box[r]) <= MAILBOX_CAP

\* mailbox_push's check.
HasRoom(r) == Len(box[r]) < MAILBOX_CAP

\* m_dm's push and broadcast, under g_lock: mailbox_push appends at the tail
\* of the ring, and every sleeper on g_wake is woken.
Post(s, r, fromId) ==
  /\ pc[s] = "run"
  /\ posted[<<s, r>>] < MaxDms[<<s, r>>]
  /\ HasRoom(r)
  /\ posted' = [posted EXCEPT ![<<s, r>>] = @ + 1]
  /\ box' = [box EXCEPT ![r] =
               Append(@, [from |-> fromId, by |-> s, n |-> posted[<<s, r>>] + 1])]
  /\ waiters' = {}
  /\ UNCHANGED <<pc, handle, target, registry, intern, otw, inbox, open, timed,
                 taken, outcome>>

\* m_dm to an intern, named by its handle or by the `from` of a message. The
\* refusals (not yours, finished, full) change nothing.
DmIntern(v, k) ==
  \E i \in InternAt(v, k) :
    /\ ~intern[i].done /\ ~intern[i].retired
    /\ Post(v, i, 0)

\* A mutant of ReplyId: a number that is unique in the process.
ReplyIdInProcess(i) == i

\* The sender a boss sees: the worker's number among the boss's interns.
ReplyId(i) == intern[i].id

\* m_dm to "boss".
DmBoss(i) ==
  /\ intern[i].owner \in inbox
  /\ Post(i, intern[i].owner, ReplyId(i))

\* A mutant of Pop: the newest message first.
PopNewest(v) ==
  /\ box[v] # <<>>
  /\ box' = [box EXCEPT ![v] = SubSeq(@, 1, Len(@) - 1)]
  /\ taken' = [taken EXCEPT ![<<box[v][Len(box[v])].by, v>>] = @ + 1]

\* mailbox_pop, under the mailbox's lock only, by the inbox's own VM.
Pop(v) ==
  /\ box[v] # <<>>
  /\ box' = [box EXCEPT ![v] = Tail(@)]
  /\ taken' = [taken EXCEPT ![<<Head(box[v]).by, v>>] = @ + 1]

\* check_dms with something waiting: the otw is settled before it is returned.
CheckDms(v) ==
  /\ pc[v] = "run" /\ v \in inbox
  /\ Pop(v)
  /\ UNCHANGED <<pc, handle, target, registry, intern, otw, inbox, open, timed,
                 waiters, posted, outcome>>

\* wait_up(check_dms(ms?)) with nothing waiting: loop_settle_blocking's
\* mailbox branch begins.
WaitForDms(v, deadline) ==
  /\ v \in inbox /\ box[v] = <<>>
  /\ deadline \/ v \in PatientVMs
  /\ Goto(v, "run", "mailpoll")
  /\ timed' = IF deadline THEN timed \cup {v} ELSE timed
  /\ UNCHANGED <<handle, target, registry, intern, otw, inbox, open, box,
                 waiters, posted, taken, outcome>>

\* interns_settle_mailbox pops a message; the wait is over.
MailArrives(v) ==
  /\ Goto(v, "mailpoll", "run")
  /\ Pop(v)
  /\ timed' = timed \ {v}
  /\ UNCHANGED <<handle, target, registry, intern, otw, inbox, open, waiters,
                 posted, outcome>>

\* The inbox was empty and the deadline has passed: the otw is ghost.
MailTimesOut(v) ==
  /\ box[v] = <<>> /\ v \in timed
  /\ Goto(v, "mailpoll", "run")
  /\ timed' = timed \ {v}
  /\ UNCHANGED <<handle, target, registry, intern, otw, inbox, open, box,
                 waiters, posted, taken, outcome>>

\* The inbox was empty and there is time left, or no deadline.
MailNotYet(v) ==
  /\ box[v] = <<>>
  /\ Goto(v, "mailpoll", "mailcheck")
  /\ UNCHANGED <<handle, target, registry, intern, otw, mailVars, waiters, outcome>>

\* A mutant of MailPossible: an intern that has finished still counts.
MailPossibleUncollected(v) == v # Main \/ \E i \in Owned(v) : ~intern[i].retired

\* interns_mail_possible: always, in a worker; else while an intern of this VM
\* has neither finished nor been collected.
MailPossible(v) ==
  v # Main \/ \E i \in Owned(v) : ~intern[i].retired /\ ~intern[i].done

\* Mail may still come: go to sleep on it.
MailKeepWaiting(v) ==
  /\ MailPossible(v)
  /\ Goto(v, "mailcheck", "mailsleep")
  /\ UNCHANGED <<handle, target, registry, intern, otw, mailVars, waiters, outcome>>

\* Nobody is left to send any: the otw is rejected, LeftOnRead.
MailLeftOnRead(v) ==
  /\ ~MailPossible(v)
  /\ Goto(v, "mailcheck", "run")
  /\ timed' = timed \ {v}
  /\ UNCHANGED <<handle, target, registry, intern, otw, inbox, open, box,
                 waiters, posted, taken, outcome>>

\* A mutant of MailSleep: the count is not looked at again.
MailSleepUnchecked(v) ==
  /\ Goto(v, "mailsleep", "mailasleep")
  /\ waiters' = waiters \cup {v}
  /\ UNCHANGED <<handle, target, registry, intern, otw, mailVars, outcome>>

\* interns_wait_for_mail, under g_lock: the count is checked, and the wait is
\* entered with the lock given up in the same step.
MailSleep(v) ==
  /\ Goto(v, "mailsleep", IF box[v] = <<>> THEN "mailasleep" ELSE "mailpoll")
  /\ waiters' = IF box[v] = <<>> THEN waiters \cup {v} ELSE waiters
  /\ UNCHANGED <<handle, target, registry, intern, otw, mailVars, outcome>>

\* The wait ends: a broadcast, the timeout or a spurious wake-up.
MailWake(v) ==
  /\ Goto(v, "mailasleep", "mailpoll")
  /\ waiters' = waiters \ {v}
  /\ UNCHANGED <<handle, target, registry, intern, otw, mailVars, outcome>>

-----------------------------------------------------------------------------
(* The end of a program and the teardown of its VM.                        *)

\* The program of v ends. A worker's ends cleanly (dip included) or with the
\* error that escaped it, which is written to the struct before the VM goes.
Finish(v, failed) ==
  /\ Goto(v, "run", "teardown")
  /\ IF v = Main THEN UNCHANGED <<intern, outcome>>
     ELSE /\ intern' = [intern EXCEPT ![v].failed = failed]
          /\ outcome' = [outcome EXCEPT ![v] =
               IF failed THEN [state |-> "rejected", value |-> Ghost]
               ELSE [state |-> "fulfilled", value |-> intern[v].result]]
  /\ UNCHANGED <<handle, target, registry, otw, mailVars, waiters>>

\* Mutants of Unjoined: threads already joined too; only those that have
\* finished; those that never started too.
UnjoinedOrNot(v) == {i \in Owned(v) : intern[i].spawned}
UnjoinedFinished(v) == {i \in Owned(v) : intern[i].done /\ ~intern[i].joined}
UnjoinedOrUnspawned(v) == {i \in Owned(v) : ~intern[i].joined}

\* The threads interns_join_owned_by has still to join.
Unjoined(v) == {i \in Owned(v) : intern[i].spawned /\ ~intern[i].joined}

\* It picks the first of them in the registry, under g_lock, and joins it with
\* the lock released.
TeardownPick(v) ==
  /\ Goto(v, "teardown", "tjoin")
  /\ \E i \in Unjoined(v) :
       /\ \A j \in Unjoined(v) : i <= j
       /\ target' = [target EXCEPT ![v] = i]
  /\ UNCHANGED <<handle, registry, intern, otw, mailVars, waiters, outcome>>

TeardownJoin(v) ==
  /\ Goto(v, "tjoin", "teardown")
  /\ JoinThread(v)
  /\ target' = [target EXCEPT ![v] = None]

\* A mutant of Forgotten: the entries of collected interns stay.
ForgottenUnlessRetired(v) == {i \in Owned(v) : ~intern[i].retired}

\* What a VM's teardown removes from the registry: all it ever hired.
Forgotten(v) == Owned(v)

\* None is left: under g_lock, those structs are released and removed.
Forget(v) ==
  /\ Unjoined(v) = {}
  /\ Goto(v, "teardown", "vmdown")
  /\ registry' = registry \ Forgotten(v)
  /\ open' = open \ Forgotten(v)
  /\ box' = [w \in VMs |-> IF w \in Forgotten(v) THEN <<>> ELSE box[w]]
  /\ UNCHANGED <<handle, target, intern, otw, inbox, timed, waiters, posted,
                 taken, outcome>>

\* A mutant of OwnsInbox: every VM frees the inbox it reads.
OwnsAnyInbox(v) == TRUE

\* A worker's inbox is its Intern's, which outlives its VM.
OwnsInbox(v) == v = Main

\* interns_vm_teardown.
VmTeardown(v) ==
  /\ Goto(v, "vmdown", IF v = Main THEN "dead" ELSE "announce")
  /\ inbox' = inbox \ {v}
  /\ open' = IF OwnsInbox(v) THEN open \ {v} ELSE open
  /\ box' = IF OwnsInbox(v) THEN [box EXCEPT ![v] = <<>>] ELSE box
  /\ UNCHANGED <<handle, target, registry, intern, otw, timed, waiters, posted,
                 taken, outcome>>

\* The last thing a worker does: done, and a broadcast, under g_lock.
Announce(i) ==
  /\ Goto(i, "announce", "exited")
  /\ intern' = [intern EXCEPT ![i].done = TRUE]
  /\ waiters' = {}
  /\ UNCHANGED <<handle, target, registry, otw, mailVars, outcome>>

\* interns_shutdown, at process exit: a thread still unjoined is joined, then
\* what is left is freed.
Shutdown ==
  /\ \A i \in registry : intern[i].spawned /\ ~intern[i].joined => pc[i] = "exited"
  /\ Goto(Main, "dead", "gone")
  /\ registry' = {}
  /\ open' = open \ registry
  /\ UNCHANGED <<handle, target, intern, otw, inbox, box, timed, waiters, posted,
                 taken, outcome>>

\* The process has exited.
Terminated == pc[Main] = "gone" /\ UNCHANGED vars

-----------------------------------------------------------------------------

\* The steps of a VM's program: what it chooses to do next.
Program(v) ==
  \/ \E i \in Workers : Hire(v, i) \/ HireFails(v, i) \/ WaitUp(v, i)
  \/ \E k \in Workers : DmIntern(v, k)
  \/ CheckDms(v)
  \/ \E deadline \in BOOLEAN : WaitForDms(v, deadline)

\* The steps of the runtime on a VM's thread, once it is committed to them.
Runtime(v) ==
  \/ CollectJoin(v) \/ Settle(v) \/ Release(v)
  \/ MailArrives(v) \/ MailTimesOut(v) \/ MailNotYet(v)
  \/ MailKeepWaiting(v) \/ MailLeftOnRead(v) \/ MailSleep(v) \/ MailWake(v)
  \/ TeardownPick(v) \/ TeardownJoin(v) \/ Forget(v) \/ VmTeardown(v)

End(v) == \E failed \in BOOLEAN : Finish(v, failed)

Next ==
  \/ \E v \in VMs : Program(v) \/ Runtime(v) \/ End(v)
  \/ \E i \in Workers : DmBoss(i) \/ Announce(i) \/ \E x \in Vals : Deliver(i, x)
  \/ Shutdown
  \/ Terminated

Spec == Init /\ [][Next]_vars

\* Threads are scheduled, deadlines pass, and every program ends: whatever it
\* starts may be followed by something else, but not for ever.
Fairness ==
  /\ \A v \in VMs : WF_vars(Runtime(v)) /\ SF_vars(MailTimesOut(v)) /\ SF_vars(End(v))
  /\ \A i \in Workers : WF_vars(Announce(i))
  /\ WF_vars(Shutdown)

FairSpec == Spec /\ Fairness

-----------------------------------------------------------------------------
(* Properties.                                                             *)

Dm == [from : {0} \cup Workers, by : VMs, n : Nat \ {0}]

Intern == [owner : VMs \cup {None}, id : {0} \cup Workers,
           spawned : BOOLEAN, joined : BOOLEAN, retired : BOOLEAN,
           done : BOOLEAN, failed : BOOLEAN, result : Vals \cup {Ghost}]

Outcome == [state : {"none", "pending", "fulfilled", "rejected"},
            value : Vals \cup {Ghost}]

\* The type invariant. An inbox never holds more than MAILBOX_CAP messages.
TypeOK ==
  /\ pc \in [VMs -> ProgramPCs \cup TeardownPCs \cup {"none", "exited", "dead", "gone"}]
  /\ handle \in [VMs -> Workers \cup {None}]
  /\ target \in [VMs -> Workers \cup {None}]
  /\ registry \subseteq Workers
  /\ intern \in [Workers -> Intern]
  /\ otw \in [Workers -> Outcome]
  /\ inbox \subseteq VMs
  /\ open \subseteq VMs
  /\ box \in [VMs -> Seq(Dm)]
  /\ \A v \in VMs : Len(box[v]) <= MAILBOX_CAP
  /\ timed \subseteq VMs
  /\ waiters \subseteq VMs
  /\ posted \in [VMs \X VMs -> Nat]
  /\ taken \in [VMs \X VMs -> Nat]
  /\ outcome \in [Workers -> Outcome]

\* A thread is joined once, by the VM that hired it: whichever of wait_up and
\* teardown a VM is in, the thread it is about to join was started and nobody
\* has joined it (platform.h: joining one thread twice is undefined).
JoinedOnce ==
  \A v \in VMs : pc[v] \in {"join", "tjoin"} =>
    LET i == target[v] IN
    /\ i \in registry
    /\ intern[i].owner = v /\ intern[i].spawned /\ ~intern[i].joined
    /\ \A w \in VMs : pc[w] \in {"join", "tjoin"} /\ target[w] = i => w = v

\* While a worker's thread runs, the Intern it writes to is in the registry
\* and not released, and its owner has not come to the step that frees it: no
\* worker outlives the VM that hired it.
NoOrphans ==
  \A i \in Workers : Alive(i) =>
    /\ i \in registry /\ ~intern[i].retired
    /\ pc[intern[i].owner] \in ProgramPCs \cup {"teardown", "tjoin"}

\* No mailbox is used after it is freed: a VM's own inbox is allocated while
\* it may pop from it, the one a dm to "boss" writes to while any worker can
\* write to it, and an intern's for as long as dm would still accept a message.
MailboxesSafe ==
  /\ inbox \subseteq open
  /\ \A i \in Workers : Alive(i) => intern[i].owner \in inbox
  /\ \A i \in registry : ~intern[i].done /\ ~intern[i].retired => i \in open

\* A settled otw holds how its own worker's program ended: the error that
\* escaped it, or the last thing it delivered.
HandsBack ==
  \A i \in Workers : otw[i].state \in {"fulfilled", "rejected"} => otw[i] = outcome[i]

\* An unsettled handle of a program still running can be waited on: it names
\* one entry of the registry, its own, and that entry has not been collected.
\* (interns_collect's branches for an intern that is gone are unreachable.)
PendingHasIntern ==
  \A i \in Workers : otw[i].state = "pending" /\ pc[intern[i].owner] = "run" =>
    /\ InternAt(intern[i].owner, intern[i].id) = {i}
    /\ ~intern[i].retired

\* Every message accepted for a mailbox is handed to its reader once, and those
\* of one sender in the order they were posted: what waits is exactly what was
\* posted and not yet taken.
FifoOnce ==
  \A r \in open, s \in VMs :
    /\ \A j, k \in DOMAIN box[r] :
         j < k /\ box[r][j].by = box[r][k].by => box[r][j].n < box[r][k].n
    /\ \A k \in DOMAIN box[r] : box[r][k].by = s =>
         box[r][k].n \in taken[<<s, r>>] + 1 .. posted[<<s, r>>]
    /\ \A n \in taken[<<s, r>>] + 1 .. posted[<<s, r>>] :
         \E k \in DOMAIN box[r] : box[r][k].by = s /\ box[r][k].n = n

\* The `from` of a waiting message is an address that reaches its sender: 0
\* ("boss") for the reader's owner, and otherwise a number that, among the
\* reader's own interns, names the sender alone.
ReplyAddress ==
  \A r \in VMs : pc[r] \in ProgramPCs => \A k \in DOMAIN box[r] :
    LET m == box[r][k] IN
    IF m.from = 0 THEN r # Main /\ m.by = intern[r].owner
                  ELSE InternAt(r, m.from) = {m.by}

\* interns_wait_for_mail: nobody sleeps on g_wake while mail is in its inbox.
NoMissedMail == \A v \in waiters : box[v] = <<>>

\* When the top-level VM is gone, every thread has exited and every Intern and
\* mailbox has been freed: interns_shutdown's sweep finds nothing to join.
NothingLeft ==
  pc[Main] = "dead" => /\ registry = {} /\ open = {}
                       /\ \A i \in Workers : ~Alive(i)

\* wait_up(check_dms(...)) returns: a message, the deadline, or LeftOnRead once
\* nobody is left to send any.
MailAnswered == \A v \in VMs : pc[v] = "mailpoll" ~> pc[v] = "run"

\* If programs end, the process does: no join waits for ever.
ProcessExits == <>(pc[Main] = "gone")

\* LeftOnRead is the answer only when there is nothing to read.
LeftOnReadIsHonest ==
  [][\A v \in VMs : pc[v] = "mailcheck" /\ pc'[v] = "run" => box[v] = <<>>]_vars
=============================================================================
