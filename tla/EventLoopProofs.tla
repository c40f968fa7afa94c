--------------------------- MODULE EventLoopProofs ---------------------------
(***************************************************************************)
(* Proofs about EventLoop, for any number of tasks, otws and messages.      *)
(***************************************************************************)
EXTENDS EventLoop, TLAPS

Blocking == {"poll", "park", "asleep", "nap", "strand"}
Looking == {"timers", "sockets", "mail", "interrupts", "collect", "ready", "decide"} \cup Blocking

\* What is left when the loop gives up: nobody waits for an event that can still come.
NothingComing ==
  at = "strand" =>
    \A t \in Tasks : state[t] = "waiting" =>
      on[t] \in Async \/ (on[t] \in Mails \ Deadlines /\ ~MailPossible)

\* Only the current task runs, and only in its turn; the loop looks around when no task is ready, and
\* from its decision on every waiting task waits for something unsettled.
Phases ==
  /\ \A t \in Tasks : state[t] = "running" <=> (at \in {"run", "exit"} /\ t = cur)
  /\ \A t \in Tasks : state[t] = "waiting" => on[t] \in Otws
  /\ at \in Looking => \A t \in Tasks : state[t] # "ready"
  /\ at \in Blocking \cup {"decide"} => \A t \in Tasks : state[t] = "waiting" => otw[on[t]] = "pending"
  /\ NothingComing

\* settle_mailboxes' looks: when nothing has moved, every task it has asked for found the inbox empty, and
\* what the inbox holds was posted since.
Looks == {"mail", "interrupts", "collect", "ready", "decide", "strand"}

MailHeard ==
  /\ missed \in 0 .. box /\ (at \notin Looks => missed = 0)
  /\ (at \in {"mail", "interrupts", "collect", "ready"} /\ ~moved) \/ at \in {"decide", "strand"} =>
       \A t \in Tasks : AsksForMail(t) /\ (at = "mail" => t < scan) => box = missed

\* A task's result is unsettled until the task ends, unless the loop gave it up; then it tells how.
Results ==
  /\ \A t \in Async : state[t] = "none" => otw[t] = "unmade"
  /\ \A t \in Async : state[t] \in {"ready", "running", "waiting"} => otw[t] \in {"pending", "stranded"}
  /\ \A t \in Async : state[t] = "done" => otw[t] \in Settled
  /\ \A t \in Async : t \in failed => otw[t] \in Rejected
  /\ \A j \in Jobs : job[j] = "unhired" => otw[j] = "unmade"
  /\ Entry \in failed => at = "ended"

\* The inductive invariant.
LoopInv == TypeOK /\ Phases /\ Results /\ MailHeard /\ LeavesNothing

-----------------------------------------------------------------------------
(* Names *)

LEMMA Kinds ==
  /\ Entry \in Tasks /\ Entry \notin Async /\ Entry \notin Otws /\ Async \subseteq Tasks /\ Async \subseteq Otws
  /\ Tasks = {Entry} \cup Async /\ Tasks \subseteq Int /\ None \notin Otws /\ None \notin Tasks
  /\ Sources \subseteq Otws /\ Sources \cap Async = {}
  /\ Timers \subseteq Sources /\ Sockets \subseteq Sources /\ Mails \subseteq Sources
  /\ Interrupts \subseteq Sources /\ Jobs \subseteq Sources /\ Deadlines \subseteq Sources
  /\ Otws = Sources \cup Async
  /\ Jobs \cap (Timers \cup Sockets \cup Mails \cup Interrupts) = {}
  BY EventLoopAssumption DEF Entry, Async, Tasks, Sources, Otws, None

\* Answers are otw states, and only what was pending changes.
LEMMA Answers ==
  ASSUME TypeOK, NEW os, NEW s \in Settled
  PROVE  /\ Answer(os, s) \in [Otws -> {"unmade", "pending"} \cup Settled]
         /\ \A o \in Otws : Answer(os, s)[o] = IF o \in os /\ otw[o] = "pending" THEN s ELSE otw[o]
  BY DEF TypeOK, Answer

LEMMA InitLoop ==
  ASSUME Init
  PROVE  LoopInv
<1>1. TypeOK
  <2>1. state \in [Tasks -> {"none", "ready", "running", "waiting", "done"}]
    BY DEF Init
  <2>2. on \in [Tasks -> Otws \cup {None}]
    BY DEF Init
  <2>3. otw \in [Otws -> {"unmade", "pending"} \cup Settled]
    BY DEF Init
  <2>4. job \in [Jobs -> {"unhired", "working", "finished"}]
    BY DEF Init
  <2>5. box \in 0 .. MaxMail /\ missed \in Nat /\ scan \in Tasks /\ cur \in Tasks
    BY EventLoopAssumption, Kinds DEF Init, Entry
  <2>6. /\ at = "run" /\ awaited = {} /\ failed = {} /\ now = {} /\ due = {} /\ readable = {}
        /\ latch = FALSE /\ moved = FALSE /\ verdict = "running"
    BY DEF Init
  <2> QED  BY <2>1, <2>2, <2>3, <2>4, <2>5, <2>6 DEF TypeOK
<1>2. Phases
  BY Kinds DEF Init, Phases, Looking, Blocking, NothingComing
<1>3. Results
  BY Kinds DEF Init, Results
<1>4. LeavesNothing
  BY DEF Init, LeavesNothing
<1>5. MailHeard
  BY DEF Init, MailHeard, Looks
<1> QED  BY <1>1, <1>2, <1>3, <1>4, <1>5 DEF LoopInv

\* A step of any kind is one of these.
LEMMA LoopSteps ==
  ASSUME Next
  PROVE  \/ \E o \in Otws : Suspend(o) \/ Proceed(o)
         \/ \E t \in Async : EndTask(t) \/ Spawn(t) \/ Refuse(t)
         \/ \E o \in Sources : Start(o) \/ CheckDms(o) \/ WaitUp(o) \/ WaitUpMail(o)
         \/ \E j \in Jobs : Hire(j)
         \/ EndEntry \/ Dip
         \/ Turn \/ LookAround \/ Leave
         \/ TimerPass \/ SocketPass \/ MailPass \/ InterruptPass \/ CollectPass \/ ReadyPass
         \/ Decide \/ Unblock \/ Park \/ Strand
         \/ \E o \in Sources : DeadlinePasses(o) \/ SocketReadable(o)
         \/ Dm \/ CtrlC \/ \E j \in Jobs : WorkerFinishes(j)
         \/ UNCHANGED vars
  BY DEF Next, Program, Loop, Environment, EndsTurn, Over

-----------------------------------------------------------------------------
(* Types *)

LEMMA TypeStep ==
  ASSUME TypeOK, Next
  PROVE  TypeOK'
<1> USE Kinds, EventLoopAssumption DEF TypeOK, world
<1>1. CASE \E o \in Otws : Suspend(o)
  BY <1>1 DEF Suspend
<1>2. CASE \E o \in Otws : Proceed(o)
  BY <1>2 DEF Proceed
<1>3. CASE \E t \in Async : EndTask(t)
  BY <1>3, Answers DEF EndTask, Endings, Settled, Rejected
<1>4. CASE \E t \in Async : Spawn(t)
  BY <1>4 DEF Spawn
<1>5. CASE \E t \in Async : Refuse(t)
  BY <1>5 DEF Refuse
<1>6. CASE \E o \in Sources : Start(o)
  BY <1>6 DEF Start, Timed
<1>7. CASE \E o \in Sources : CheckDms(o)
  BY <1>7 DEF CheckDms, HasMail, Settled, Rejected
<1>8. CASE \E o \in Sources : WaitUp(o)
  BY <1>8, Answers DEF WaitUp, Settled, Rejected
<1>9. CASE \E o \in Sources : WaitUpMail(o)
  BY <1>9, Answers DEF WaitUpMail, HasMail, Settled, Rejected
<1>10. CASE \E j \in Jobs : Hire(j)
  BY <1>10 DEF Hire
<1>11. CASE EndEntry
  BY <1>11 DEF EndEntry
<1>12. CASE Dip
  BY <1>12 DEF Dip
<1>13. CASE Turn
  BY <1>13 DEF Turn, CanRun, InState
<1>14. CASE LookAround
  BY <1>14 DEF LookAround
<1>15. CASE Leave
  BY <1>15 DEF Leave, Dropped
<1>16. CASE TimerPass
  BY <1>16, Answers DEF TimerPass, Settled, Rejected
<1>17. CASE SocketPass
  BY <1>17 DEF SocketPass, Wanted, Settled, Rejected
<1>18. CASE MailPass
  BY <1>18, Answers DEF MailPass, HasMail, Entry, Tasks, Async, Settled, Rejected
<1>19. CASE InterruptPass
  BY <1>19, Answers DEF InterruptPass, Settled, Rejected
<1>20. CASE CollectPass
  BY <1>20 DEF CollectPass, Settled, Rejected
<1>21. CASE ReadyPass
  BY <1>21 DEF ReadyPass, Moves
<1>22. CASE Decide
  BY <1>22 DEF Decide
<1>23. CASE Unblock
  BY <1>23 DEF Unblock
<1>24. CASE Park
  BY <1>24 DEF Park
<1>25. CASE Strand
  BY <1>25, Answers DEF Strand, Settled, Rejected
<1>26. CASE \E o \in Sources : DeadlinePasses(o)
  BY <1>26 DEF DeadlinePasses
<1>27. CASE \E o \in Sources : SocketReadable(o)
  BY <1>27 DEF SocketReadable
<1>28. CASE Dm
  BY <1>28 DEF Dm, Broadcast
<1>29. CASE CtrlC
  BY <1>29 DEF CtrlC
<1>30. CASE \E j \in Jobs : WorkerFinishes(j)
  BY <1>30 DEF WorkerFinishes, Broadcast
<1>31. CASE UNCHANGED vars
  BY <1>31 DEF vars
<1> HIDE DEF TypeOK
<1> QED  BY LoopSteps, <1>1, <1>2, <1>3, <1>4, <1>5, <1>6, <1>7, <1>8, <1>9, <1>10, <1>11,
            <1>12, <1>13, <1>14, <1>15, <1>16, <1>17, <1>18, <1>19, <1>20, <1>21, <1>22, <1>23,
            <1>24, <1>25, <1>26, <1>27, <1>28, <1>29, <1>30, <1>31

LEMMA ResultsStep ==
  ASSUME LoopInv, Next
  PROVE  Results'
<1> USE Kinds DEF LoopInv, TypeOK, Results, Phases, world, Running, PastAwait
<1>1. CASE \E o \in Otws : Suspend(o)
  BY <1>1 DEF Suspend
<1>2. CASE \E o \in Otws : Proceed(o)
  BY <1>2 DEF Proceed
<1>3. CASE \E t \in Async : EndTask(t)
  BY <1>3, Answers DEF EndTask, Endings, Settled, Rejected
<1>4. CASE \E t \in Async : Spawn(t)
  <2>1. PICK t \in Async : Spawn(t)
    BY <1>4
  <2>2. state[t] = "none" /\ UNCHANGED <<at, failed, job>>
    BY <2>1 DEF Spawn
  <2>3. \A u \in Tasks : state'[u] = IF u = t THEN "ready" ELSE state[u]
    BY <2>1 DEF Spawn
  <2>4. \A o \in Otws : otw'[o] = IF o = t THEN "pending" ELSE otw[o]
    BY <2>1 DEF Spawn
  <2>5. t \notin failed
    BY <2>2 DEF Rejected
  <2> QED  BY <2>2, <2>3, <2>4, <2>5
<1>5. CASE \E t \in Async : Refuse(t)
  BY <1>5 DEF Refuse
<1>6. CASE \E o \in Sources : Start(o)
  <2>1. PICK o \in Sources : Start(o)
    BY <1>6
  <2>2. o \notin Async /\ o \notin Jobs /\ UNCHANGED <<at, state, failed, job>>
    BY <2>1 DEF Start
  <2>3. \A x \in Otws : x # o => otw'[x] = otw[x]
    BY <2>1 DEF Start
  <2> QED  BY <2>2, <2>3
<1>7. CASE \E o \in Sources : CheckDms(o)
  <2>1. PICK o \in Sources : CheckDms(o)
    BY <1>7
  <2>2. o \notin Async /\ o \notin Jobs /\ UNCHANGED <<at, state, failed, job>>
    BY <2>1 DEF CheckDms
  <2>3. \A x \in Otws : x # o => otw'[x] = otw[x]
    BY <2>1 DEF CheckDms
  <2> QED  BY <2>2, <2>3
<1>8. CASE \E o \in Sources : WaitUp(o)
  BY <1>8, Answers DEF WaitUp, Settled, Rejected
<1>9. CASE \E o \in Sources : WaitUpMail(o)
  BY <1>9, Answers DEF WaitUpMail, Settled, Rejected
<1>10. CASE \E j \in Jobs : Hire(j)
  BY <1>10 DEF Hire
<1>11. CASE EndEntry
  BY <1>11 DEF EndEntry, Endings
<1>12. CASE Dip
  BY <1>12 DEF Dip
<1>13. CASE Turn
  BY <1>13 DEF Turn, CanRun, InState
<1>14. CASE LookAround
  BY <1>14 DEF LookAround, CanRun, InState
<1>15. CASE Leave
  BY <1>15 DEF Leave, Dropped, CanRun, InState
<1>16. CASE TimerPass
  BY <1>16, Answers DEF TimerPass, Settled, Rejected
<1>17. CASE SocketPass
  BY <1>17 DEF SocketPass, Wanted, Settled, Rejected
<1>18. CASE MailPass
  <2>1. UNCHANGED <<state, failed, job>>
    BY <1>18 DEF MailPass
  <2>2. AsksForMail(scan) => on[scan] \in Mails
    BY DEF AsksForMail
  <2>3. at' # "ended" /\ at # "ended"
    BY <1>18 DEF MailPass
  <2>4. \A x \in Otws : x \notin Mails => otw'[x] = otw[x]
    BY <1>18, <2>2, Answers DEF MailPass, Settled
  <2> QED  BY <2>1, <2>3, <2>4
<1>19. CASE InterruptPass
  BY <1>19, Answers DEF InterruptPass, Settled, Rejected
<1>20. CASE CollectPass
  BY <1>20 DEF CollectPass, Finished, Wanted, Settled, Rejected
<1>21. CASE ReadyPass
  BY <1>21 DEF ReadyPass, Moves, InState
<1>22. CASE Decide
  BY <1>22 DEF Decide
<1>23. CASE Unblock
  BY <1>23 DEF Unblock
<1>24. CASE Park
  BY <1>24 DEF Park
<1>25. CASE Strand
  BY <1>25, Answers DEF Strand, InState, Settled, Rejected
<1>26. CASE \E o \in Sources : DeadlinePasses(o)
  BY <1>26 DEF DeadlinePasses
<1>27. CASE \E o \in Sources : SocketReadable(o)
  BY <1>27 DEF SocketReadable
<1>28. CASE Dm
  BY <1>28 DEF Dm, Broadcast
<1>29. CASE CtrlC
  BY <1>29 DEF CtrlC
<1>30. CASE \E j \in Jobs : WorkerFinishes(j)
  BY <1>30 DEF WorkerFinishes, Broadcast
<1>31. CASE UNCHANGED vars
  BY <1>31 DEF vars
<1> QED  BY ONLY LoopSteps, Next, <1>1, <1>2, <1>3, <1>4, <1>5, <1>6, <1>7, <1>8, <1>9, <1>10,
            <1>11, <1>12, <1>13, <1>14, <1>15, <1>16, <1>17, <1>18, <1>19, <1>20, <1>21, <1>22,
            <1>23, <1>24, <1>25, <1>26, <1>27, <1>28, <1>29, <1>30, <1>31

LEMMA LeavesStep ==
  ASSUME LoopInv, Next
  PROVE  LeavesNothing'
<1> USE Kinds DEF LoopInv, TypeOK, Results, Phases, LeavesNothing, world, Running, PastAwait
<1>1. CASE \E o \in Otws : Suspend(o)
  BY <1>1 DEF Suspend
<1>2. CASE \E o \in Otws : Proceed(o)
  BY <1>2 DEF Proceed
<1>3. CASE \E t \in Async : EndTask(t)
  BY <1>3, Answers DEF EndTask, Endings
<1>4. CASE \E t \in Async : Spawn(t)
  BY <1>4 DEF Spawn
<1>5. CASE \E t \in Async : Refuse(t)
  BY <1>5 DEF Refuse
<1>6. CASE \E o \in Sources : Start(o)
  BY <1>6 DEF Start
<1>7. CASE \E o \in Sources : CheckDms(o)
  BY <1>7 DEF CheckDms
<1>8. CASE \E o \in Sources : WaitUp(o)
  BY <1>8, Answers DEF WaitUp
<1>9. CASE \E o \in Sources : WaitUpMail(o)
  BY <1>9, Answers DEF WaitUpMail
<1>10. CASE \E j \in Jobs : Hire(j)
  BY <1>10 DEF Hire
<1>11. CASE EndEntry
  BY <1>11 DEF EndEntry, Endings
<1>12. CASE Dip
  BY <1>12 DEF Dip
<1>13. CASE Turn
  BY <1>13 DEF Turn, CanRun, InState
<1>14. CASE LookAround
  BY <1>14 DEF LookAround, CanRun, InState
<1>15. CASE Leave
  BY <1>15 DEF Leave, Dropped, CanRun, InState
<1>16. CASE TimerPass
  BY <1>16, Answers DEF TimerPass
<1>17. CASE SocketPass
  BY <1>17 DEF SocketPass, Wanted
<1>18. CASE MailPass
  BY <1>18, Answers DEF MailPass
<1>19. CASE InterruptPass
  BY <1>19, Answers DEF InterruptPass
<1>20. CASE CollectPass
  BY <1>20 DEF CollectPass, Finished, Wanted
<1>21. CASE ReadyPass
  BY <1>21 DEF ReadyPass, Moves, InState
<1>22. CASE Decide
  BY <1>22 DEF Decide
<1>23. CASE Unblock
  BY <1>23 DEF Unblock
<1>24. CASE Park
  BY <1>24 DEF Park
<1>25. CASE Strand
  BY <1>25, Answers DEF Strand, InState
<1>26. CASE \E o \in Sources : DeadlinePasses(o)
  BY <1>26 DEF DeadlinePasses
<1>27. CASE \E o \in Sources : SocketReadable(o)
  BY <1>27 DEF SocketReadable
<1>28. CASE Dm
  BY <1>28 DEF Dm, Broadcast
<1>29. CASE CtrlC
  BY <1>29 DEF CtrlC
<1>30. CASE \E j \in Jobs : WorkerFinishes(j)
  BY <1>30 DEF WorkerFinishes, Broadcast
<1>31. CASE UNCHANGED vars
  BY <1>31 DEF vars
<1> QED  BY ONLY LoopSteps, Next, <1>1, <1>2, <1>3, <1>4, <1>5, <1>6, <1>7, <1>8, <1>9, <1>10,
            <1>11, <1>12, <1>13, <1>14, <1>15, <1>16, <1>17, <1>18, <1>19, <1>20, <1>21, <1>22,
            <1>23, <1>24, <1>25, <1>26, <1>27, <1>28, <1>29, <1>30, <1>31

LEMMA PhasesStep ==
  ASSUME LoopInv, Next
  PROVE  Phases'
<1> USE Kinds DEF LoopInv, TypeOK, Phases, Looking, Blocking, NothingComing, world, Running, PastAwait
<1>0. ASSUME UNCHANGED <<cur, state, on, otw>>, at' = at \/ (at = "asleep" /\ at' = "pick"),
             MailPossible' => MailPossible
      PROVE  Phases'
  BY <1>0
<1>1. CASE \E o \in Otws : Suspend(o)
  BY <1>1 DEF Suspend
<1>2. CASE \E o \in Otws : Proceed(o)
  BY <1>2 DEF Proceed
<1>3. CASE \E t \in Async : EndTask(t)
  BY <1>3, Answers DEF EndTask, Endings, Settled, Rejected
<1>4. CASE \E t \in Async : Spawn(t)
  BY <1>4 DEF Spawn
<1>5. CASE \E t \in Async : Refuse(t)
  BY <1>5 DEF Refuse
<1>6. CASE \E o \in Sources : Start(o)
  BY <1>6 DEF Start
<1>7. CASE \E o \in Sources : CheckDms(o)
  BY <1>7 DEF CheckDms
<1>8. CASE \E o \in Sources : WaitUp(o)
  BY <1>8, Answers DEF WaitUp, Settled, Rejected
<1>9. CASE \E o \in Sources : WaitUpMail(o)
  BY <1>9, Answers DEF WaitUpMail, Settled, Rejected
<1>10. CASE \E j \in Jobs : Hire(j)
  BY <1>10 DEF Hire
<1>11. CASE EndEntry
  BY <1>11 DEF EndEntry, Endings
<1>12. CASE Dip
  BY <1>12 DEF Dip
<1>13. CASE Turn
  BY <1>13 DEF Turn, CanRun, InState
<1>14. CASE LookAround
  BY <1>14 DEF LookAround, CanRun, InState
<1>15. CASE Leave
  BY <1>15 DEF Leave, Dropped, CanRun, InState
<1>16. CASE TimerPass
  BY <1>16, Answers DEF TimerPass, Settled, Rejected
<1>17. CASE SocketPass
  BY <1>17 DEF SocketPass, Wanted
<1>18. CASE MailPass
  BY <1>18, Answers DEF MailPass, Settled, Rejected
<1>19. CASE InterruptPass
  BY <1>19, Answers DEF InterruptPass, Settled, Rejected
<1>20. CASE CollectPass
  BY <1>20 DEF CollectPass, Finished, Wanted
<1>21. CASE ReadyPass
  BY <1>21 DEF ReadyPass, Moves, InState
<1>22. CASE Decide
  <2>1. UNCHANGED <<cur, state, on, otw>> /\ at = "decide" /\ at' \in {"poll", "park", "nap", "strand"}
        /\ (MailPossible' <=> MailPossible)
    BY <1>22 DEF Decide, MailPossible
  <2>2. ASSUME at' = "strand", NEW t \in Tasks, state[t] = "waiting"
        PROVE  on[t] \in Async \/ (on[t] \in Mails \ Deadlines /\ ~MailPossible)
    <3>1. on[t] \in Wanted
      BY <2>1, <2>2 DEF Wanted, InState
    <3>2. on[t] \notin Sockets /\ on[t] \notin Jobs /\ on[t] \notin Interrupts
      BY <1>22, <2>2, <3>1 DEF Decide, ThreadsToHear
    <3>3. on[t] \notin Timers /\ on[t] \notin Deadlines
      BY <1>22, <2>2, <3>1 DEF Decide, DeadlineAhead, Timed
    <3>4. on[t] \in Mails => ~MailPossible
      BY <1>22, <2>2, <3>1 DEF Decide, ThreadsToHear
    <3> QED  BY <2>1, <2>2, <3>2, <3>3, <3>4 DEF Sources
  <2> QED  BY <2>1, <2>2
<1>23. CASE Unblock
  BY <1>23 DEF Unblock
<1>24. CASE Park
  BY <1>24 DEF Park
<1>25. CASE Strand
  BY <1>25, Answers DEF Strand, InState, Settled, Rejected
<1>26. CASE \E o \in Sources : DeadlinePasses(o)
  BY <1>26, <1>0 DEF DeadlinePasses, MailPossible
<1>27. CASE \E o \in Sources : SocketReadable(o)
  BY <1>27, <1>0 DEF SocketReadable, MailPossible
<1>28. CASE Dm
  BY <1>28, <1>0 DEF Dm, Broadcast, MailPossible
<1>29. CASE CtrlC
  BY <1>29, <1>0 DEF CtrlC, MailPossible
<1>30. CASE \E j \in Jobs : WorkerFinishes(j)
  BY <1>30, <1>0 DEF WorkerFinishes, Broadcast, MailPossible
<1>31. CASE UNCHANGED vars
  BY <1>31, <1>0 DEF vars, MailPossible
<1> QED  BY ONLY LoopSteps, Next, <1>1, <1>2, <1>3, <1>4, <1>5, <1>6, <1>7, <1>8, <1>9, <1>10,
            <1>11, <1>12, <1>13, <1>14, <1>15, <1>16, <1>17, <1>18, <1>19, <1>20, <1>21, <1>22,
            <1>23, <1>24, <1>25, <1>26, <1>27, <1>28, <1>29, <1>30, <1>31

\* With no task's turn in between: otws only get answers, and what is in the inbox stays.
LEMMA StillHeard ==
  ASSUME LoopInv, UNCHANGED <<state, on, box, missed>>, at \in Looks, at' \in Looks,
         \A o \in Otws : otw'[o] = "pending" => otw[o] = "pending",
         \/ at' = at /\ scan' = scan /\ moved' = moved
         \/ at = "interrupts" /\ at' = "collect" /\ (moved => moved')
         \/ at = "collect" /\ at' = "ready" /\ moved' = moved
         \/ at = "ready" /\ at' = "decide" /\ ~moved
         \/ at = "decide" /\ at' = "strand"
  PROVE  MailHeard'
<1>1. \A t \in Tasks : AsksForMail(t)' => AsksForMail(t)
  BY Kinds DEF AsksForMail, Sources, Otws
<1>2. at' = "mail" => at = "mail" /\ scan' = scan
  OBVIOUS
<1>3. ((at' \in {"mail", "interrupts", "collect", "ready"} /\ ~moved') \/ at' \in {"decide", "strand"})
        => ((at \in {"mail", "interrupts", "collect", "ready"} /\ ~moved) \/ at \in {"decide", "strand"})
  BY DEF LoopInv, TypeOK
<1>4. (at = "mail") => (at' = "mail")
  OBVIOUS
<1> QED  BY <1>1, <1>2, <1>3, <1>4 DEF LoopInv, MailHeard, Looks

LEMMA HeardStep ==
  ASSUME LoopInv, Next
  PROVE  MailHeard'
<1> USE EventLoopAssumption DEF world, Looks
<1>0. ASSUME missed' = 0, box' \in Nat, at' \notin Looks
      PROVE  MailHeard'
  BY <1>0 DEF MailHeard
<1>z2. missed \in 0 .. box /\ box \in Nat /\ (at \notin Looks => missed = 0) /\ missed \in Nat
  BY DEF LoopInv, MailHeard, TypeOK
<1>z3. TypeOK'
  BY TypeStep DEF LoopInv
<1>z4. box' \in Nat
  BY <1>z3 DEF TypeOK
<1>1. CASE \E o \in Otws : Suspend(o)
  BY <1>1, <1>0, <1>z2, <1>z4 DEF Suspend, PastAwait, Running, Endings
<1>2. CASE \E o \in Otws : Proceed(o)
  BY <1>2, <1>0, <1>z2, <1>z4 DEF Proceed, PastAwait, Running, Endings
<1>3. CASE \E t \in Async : EndTask(t)
  BY <1>3, <1>0, <1>z2, <1>z4 DEF EndTask, PastAwait, Running, Endings
<1>4. CASE \E t \in Async : Spawn(t)
  BY <1>4, <1>0, <1>z2, <1>z4 DEF Spawn, PastAwait, Running, Endings
<1>5. CASE \E t \in Async : Refuse(t)
  BY <1>5, <1>0, <1>z2, <1>z4 DEF Refuse, PastAwait, Running, Endings
<1>6. CASE \E o \in Sources : Start(o)
  BY <1>6, <1>0, <1>z2, <1>z4 DEF Start, PastAwait, Running, Endings
<1>7. CASE \E o \in Sources : CheckDms(o)
  BY <1>7, <1>0, <1>z2, <1>z4 DEF CheckDms, PastAwait, Running, Endings
<1>8. CASE \E o \in Sources : WaitUp(o)
  BY <1>8, <1>0, <1>z2, <1>z4 DEF WaitUp, PastAwait, Running, Endings
<1>9. CASE \E o \in Sources : WaitUpMail(o)
  BY <1>9, <1>0, <1>z2, <1>z4 DEF WaitUpMail, PastAwait, Running, Endings
<1>10. CASE \E j \in Jobs : Hire(j)
  BY <1>10, <1>0, <1>z2, <1>z4 DEF Hire, PastAwait, Running, Endings
<1>11. CASE EndEntry
  BY <1>11, <1>0, <1>z2, <1>z4 DEF EndEntry, PastAwait, Running, Endings
<1>12. CASE Dip
  BY <1>12, <1>0, <1>z2, <1>z4 DEF Dip, PastAwait, Running, Endings
<1>13. CASE Turn
  BY <1>13, <1>0, <1>z2, <1>z4 DEF Turn
<1>14. CASE LookAround
  BY <1>14, <1>0, <1>z2, <1>z4 DEF LookAround
<1>15. CASE Leave
  BY <1>15, <1>0, <1>z2, <1>z4 DEF Leave
<1>16. CASE TimerPass
  BY <1>16, <1>0, <1>z2, <1>z4 DEF TimerPass
<1>17. CASE SocketPass
  <2>1. missed' = 0 /\ at' = "mail" /\ scan' = Entry /\ box' = box
    BY <1>17, <1>z2 DEF SocketPass
  <2>2. \A t \in Tasks : ~(t < Entry)
    BY DEF Tasks, Async, Entry
  <2> QED  BY <2>1, <2>2, <1>z2 DEF MailHeard
<1>18. CASE MailPass
  <2>1. /\ at = "mail" /\ at' \in {"mail", "interrupts"} /\ UNCHANGED <<state, on>>
        /\ scan \in Tasks /\ (at' = "mail" => scan' = scan + 1) /\ (at' = "interrupts" => ~(scan < T))
    BY <1>18 DEF MailPass, LoopInv, TypeOK
  <2>2. missed' = IF AsksForMail(scan) THEN 0 ELSE missed
    BY <1>18 DEF MailPass
  <2>3. box' = IF AsksForMail(scan) /\ HasMail THEN box - 1 ELSE box
    BY <1>18 DEF MailPass
  <2>4. missed' \in 0 .. box'
    BY <2>2, <2>3, <1>z2 DEF HasMail
  <2>5. CASE moved'
    BY <2>1, <2>4, <2>5 DEF MailHeard
  <2>6. CASE ~moved'
    <3>1. ~moved /\ ~(AsksForMail(scan) /\ HasMail)
      BY <1>18, <2>6 DEF MailPass
    <3>2. otw' = otw /\ box' = box
      BY <1>18, <2>6 DEF MailPass
    <3>3. \A t \in Tasks : AsksForMail(t)' <=> AsksForMail(t)
      BY <2>1, <3>2 DEF AsksForMail
    <3>4. \A t \in Tasks : AsksForMail(t) /\ t < scan => box = missed
      BY <2>1, <3>1 DEF LoopInv, MailHeard
    <3>5. AsksForMail(scan) => box' = missed'
      BY <2>2, <3>1, <3>2, <1>z2 DEF HasMail
    <3>6. \A t \in Tasks : AsksForMail(t) /\ t < scan => box' = missed'
      BY <2>2, <3>2, <3>4, <3>5
    <3>7. \A t \in Tasks : (at' = "mail" => t < scan') => t < scan \/ t = scan
      BY <2>1 DEF Tasks, Async, Entry
    <3> QED  BY <2>1, <2>4, <3>3, <3>5, <3>6, <3>7 DEF MailHeard
  <2> QED  BY <2>5, <2>6
<1>19. CASE InterruptPass
  <2>1. \A o \in Otws : otw'[o] = "pending" => otw[o] = "pending"
    BY <1>19, Answers DEF InterruptPass, LoopInv, Settled, Rejected
  <2>2. UNCHANGED <<state, on, box, missed>>
    BY <1>19 DEF InterruptPass
  <2> QED  BY <1>19, <2>1, <2>2, StillHeard DEF InterruptPass
<1>20. CASE CollectPass
  <2>1. \A o \in Otws : otw'[o] = "pending" => otw[o] = "pending"
    BY <1>20, Answers DEF CollectPass, LoopInv, Settled, Rejected
  <2>2. UNCHANGED <<state, on, box, missed>>
    BY <1>20 DEF CollectPass
  <2> QED  BY <1>20, <2>1, <2>2, StillHeard DEF CollectPass
<1>21. CASE ReadyPass
  <2>1. CASE at' = "pick"
    BY <1>21, <2>1, <1>0, <1>z4 DEF ReadyPass
  <2>2. CASE at' # "pick"
    <3> DEFINE R == {t \in InState("waiting") : otw[on[t]] # "pending"}
    <3>1. /\ at = "ready" /\ at' = "decide" /\ UNCHANGED <<on, otw, box, missed>> /\ ~moved /\ R = {}
          /\ state' = [t \in Tasks |-> IF t \in R THEN "ready" ELSE state[t]]
      BY <1>21, <2>2 DEF ReadyPass, Moves
    <3>2. state' = state
      BY <3>1 DEF LoopInv, TypeOK
    <3> QED  BY <3>1, <3>2, StillHeard
  <2> QED  BY <2>1, <2>2
<1>22. CASE Decide
  <2>1. CASE at' = "strand"
    BY <1>22, <2>1, StillHeard DEF Decide
  <2>2. CASE at' # "strand"
    BY <1>22, <2>2, <1>0, <1>z4 DEF Decide
  <2> QED  BY <2>1, <2>2
<1>23. CASE Unblock
  BY <1>23, <1>0, <1>z2, <1>z4 DEF Unblock
<1>24. CASE Park
  BY <1>24, <1>0, <1>z2, <1>z4 DEF Park
<1>25. CASE Strand
  BY <1>25, <1>0, <1>z2, <1>z4 DEF Strand
<1>26. CASE \E o \in Sources : DeadlinePasses(o)
  <2>1. UNCHANGED <<state, on, otw, box, missed, scan, moved>> /\ (at' = at \/ (at \notin Looks /\ at' \notin Looks))
    BY <1>26 DEF DeadlinePasses
  <2>2. CASE at \notin Looks
    BY <1>0, <1>z2, <1>z4, <2>1, <2>2
  <2>3. CASE at \in Looks
    BY <2>1, <2>3, StillHeard
  <2> QED  BY <2>2, <2>3
<1>27. CASE \E o \in Sources : SocketReadable(o)
  <2>1. UNCHANGED <<state, on, otw, box, missed, scan, moved>> /\ (at' = at \/ (at \notin Looks /\ at' \notin Looks))
    BY <1>27 DEF SocketReadable
  <2>2. CASE at \notin Looks
    BY <1>0, <1>z2, <1>z4, <2>1, <2>2
  <2>3. CASE at \in Looks
    BY <2>1, <2>3, StillHeard
  <2> QED  BY <2>2, <2>3
<1>28. CASE Dm
  <2>1. /\ UNCHANGED <<state, on, otw, scan, moved>> /\ box' = box + 1 /\ MailPossible
        /\ missed' = IF at \in {"mail", "interrupts", "collect", "ready", "decide"} THEN missed + 1 ELSE missed
        /\ (at' = at \/ (at \notin Looks /\ at' \notin Looks))
    BY <1>28 DEF Dm, Broadcast
  <2>2. \A t \in Tasks : AsksForMail(t)' <=> AsksForMail(t)
    BY <2>1 DEF AsksForMail
  <2>3. CASE at \notin Looks
    BY <1>0, <1>z2, <1>z4, <2>1, <2>3
  <2>4. CASE at \in Looks /\ at # "strand"
    <3>1. at' = at /\ missed' = missed + 1 /\ box' = box + 1 /\ missed' \in 0 .. box'
      BY <1>z2, <2>1, <2>4
    <3> QED  BY <1>z2, <2>1, <2>2, <2>4, <3>1 DEF LoopInv, MailHeard
  <2>5. CASE at = "strand"
    <3>1. \A t \in Tasks : ~AsksForMail(t)
      BY <2>1, <2>5, Kinds DEF LoopInv, Phases, NothingComing, AsksForMail
    <3> QED  BY <1>z2, <2>1, <2>2, <2>5, <3>1 DEF MailHeard
  <2> QED  BY <2>3, <2>4, <2>5
<1>29. CASE CtrlC
  <2>1. UNCHANGED <<state, on, otw, box, missed, scan, moved>> /\ (at' = at \/ (at \notin Looks /\ at' \notin Looks))
    BY <1>29 DEF CtrlC
  <2>2. CASE at \notin Looks
    BY <1>0, <1>z2, <1>z4, <2>1, <2>2
  <2>3. CASE at \in Looks
    BY <2>1, <2>3, StillHeard
  <2> QED  BY <2>2, <2>3
<1>30. CASE \E j \in Jobs : WorkerFinishes(j)
  <2>1. UNCHANGED <<state, on, otw, box, missed, scan, moved>> /\ (at' = at \/ (at \notin Looks /\ at' \notin Looks))
    BY <1>30 DEF WorkerFinishes, Broadcast
  <2>2. CASE at \notin Looks
    BY <1>0, <1>z2, <1>z4, <2>1, <2>2
  <2>3. CASE at \in Looks
    BY <2>1, <2>3, StillHeard
  <2> QED  BY <2>2, <2>3
<1>31. CASE UNCHANGED vars
  <2>1. UNCHANGED <<state, on, otw, box, missed, scan, moved>> /\ (at' = at \/ (at \notin Looks /\ at' \notin Looks))
    BY <1>31 DEF vars
  <2>2. CASE at \notin Looks
    BY <1>0, <1>z2, <1>z4, <2>1, <2>2
  <2>3. CASE at \in Looks
    BY <2>1, <2>3, StillHeard
  <2> QED  BY <2>2, <2>3
<1> QED  BY ONLY LoopSteps, Next, <1>1, <1>2, <1>3, <1>4, <1>5, <1>6, <1>7, <1>8, <1>9, <1>10, <1>11, <1>12, <1>13, <1>14, <1>15, <1>16, <1>17, <1>18, <1>19, <1>20, <1>21, <1>22, <1>23, <1>24, <1>25, <1>26, <1>27, <1>28, <1>29, <1>30, <1>31

LEMMA LoopStep ==
  ASSUME LoopInv, [Next]_vars
  PROVE  LoopInv'
<1>1. CASE Next
  BY <1>1, TypeStep, PhasesStep, ResultsStep, HeardStep, LeavesStep DEF LoopInv
<1>2. CASE UNCHANGED vars
  <2>1. MailHeard'
    BY <1>2 DEF LoopInv, MailHeard, AsksForMail, vars, world
  <2>2. TypeOK' /\ Results' /\ LeavesNothing'
    BY <1>2 DEF LoopInv, TypeOK, Results, LeavesNothing, vars, world
  <2>3. Phases'
    BY <1>2 DEF LoopInv, Phases, Looking, Blocking, NothingComing, MailPossible, vars, world
  <2> QED  BY <2>1, <2>2, <2>3 DEF LoopInv
<1> QED  BY <1>1, <1>2

LEMMA LoopInvHolds == Spec => []LoopInv
  BY InitLoop, LoopStep, PTL DEF Spec

-----------------------------------------------------------------------------
(* What holds of every run of a program.                                   *)

\* loop_run and the calls it serves keep their variables in their types.
THEOREM LoopTypes == Spec => []TypeOK
<1>1. LoopInv => TypeOK
  BY DEF LoopInv
<1> QED  BY <1>1, LoopInvHolds, PTL

\* loop_run blocks, or strands, only when wake_waiters has left no task that could go on: whatever the
\* workers, the peers and the clock do between its passes.
THEOREM NeverBlocksBusy == Spec => []BlocksOnlyWhenIdle
<1>1. LoopInv => BlocksOnlyWhenIdle
  BY DEF LoopInv, Phases, Looking, Blocking, BlocksOnlyWhenIdle, InState
<1> QED  BY <1>1, LoopInvHolds, PTL

\* strand_waiters gives LeftOnRead only to tasks that wait for one another, or for mail when every sender is
\* gone and the inbox was found empty; whatever was posted meanwhile.
THEOREM StrandsTheStuck == Spec => []StrandsOnlyTheStuck
<1>1. LoopInv => StrandsOnlyTheStuck
  <2> SUFFICES ASSUME LoopInv, at = "strand", NEW t \in InState("waiting")
               PROVE  \/ on[t] \in Async /\ state[on[t]] = "waiting"
                      \/ /\ on[t] \in Mails \ Deadlines
                         /\ ~InWorker /\ \A j \in Jobs : job[j] # "working"
                         /\ box = missed
    BY DEF StrandsOnlyTheStuck
  <2>1. t \in Tasks /\ state[t] = "waiting" /\ otw[on[t]] = "pending"
    BY DEF InState, LoopInv, Phases, Blocking
  <2>2. CASE on[t] \in Async
    <3>1. state[on[t]] \in {"none", "ready", "running", "waiting", "done"} /\ on[t] \in Tasks
      BY <2>2, Kinds DEF LoopInv, TypeOK
    <3>2. state[on[t]] \notin {"none", "done"}
      BY <2>1, <2>2 DEF LoopInv, Results, Settled, Rejected
    <3>3. state[on[t]] \notin {"ready", "running"}
      BY <3>1 DEF LoopInv, Phases, Looking, Blocking
    <3> QED  BY <2>2, <3>1, <3>2, <3>3
  <2>3. CASE on[t] \notin Async
    <3>1. on[t] \in Mails \ Deadlines /\ ~MailPossible
      BY <2>1, <2>3 DEF LoopInv, Phases, NothingComing
    <3>2. AsksForMail(t)
      BY <2>1, <3>1 DEF AsksForMail
    <3>3. box = missed
      BY <2>1, <3>2 DEF LoopInv, MailHeard
    <3> QED  BY <3>1, <3>3 DEF MailPossible
  <2> QED  BY <2>2, <2>3
<1> QED  BY <1>1, LoopInvHolds, PTL

\* A program that ends without an error of its own has run every task to its end, and one that ends
\* well has had every rejection awaited (describe_dropped_rejection).
THEOREM NothingLeftBehind == Spec => []LeavesNothing
<1>1. LoopInv => LeavesNothing
  BY DEF LoopInv
<1> QED  BY <1>1, LoopInvHolds, PTL

LEMMA SettledStep ==
  ASSUME LoopInv, Next
  PROVE  \A o \in Otws : otw[o] \in Settled =>
           otw'[o] = otw[o] \/ (o \in Sources \ Jobs /\ PastAwait /\ Unused(o))
<1> USE Kinds DEF LoopInv, TypeOK, Phases, Results, world, Running, PastAwait
<1>1. CASE \E o \in Otws : Suspend(o)
  BY <1>1 DEF Suspend
<1>2. CASE \E o \in Otws : Proceed(o)
  BY <1>2 DEF Proceed
<1>3. CASE \E t \in Async : EndTask(t)
  BY <1>3, Answers DEF EndTask, Endings, Settled, Rejected
<1>4. CASE \E t \in Async : Spawn(t)
  BY <1>4 DEF Spawn, Settled, Rejected
<1>5. CASE \E t \in Async : Refuse(t)
  BY <1>5 DEF Refuse
<1>6. CASE \E o \in Sources : Start(o)
  BY <1>6 DEF Start
<1>7. CASE \E o \in Sources : CheckDms(o)
  BY <1>7 DEF CheckDms
<1>8. CASE \E o \in Sources : WaitUp(o)
  <2>1. PICK o \in Sources : WaitUp(o)
    BY <1>8
  <2>2. PICK a \in Settled : otw' = Answer({o}, a)
    BY <2>1 DEF WaitUp, Settled, Rejected
  <2> QED  BY <2>2, Answers DEF Settled, Rejected
<1>9. CASE \E o \in Sources : WaitUpMail(o)
  <2>1. PICK o \in Sources : WaitUpMail(o)
    BY <1>9
  <2>2. PICK a \in Settled : otw' = Answer({o}, a)
    BY <2>1 DEF WaitUpMail, Settled, Rejected
  <2> QED  BY <2>2, Answers DEF Settled, Rejected
<1>10. CASE \E j \in Jobs : Hire(j)
  BY <1>10 DEF Hire, Settled, Rejected
<1>11. CASE EndEntry
  BY <1>11 DEF EndEntry, Endings
<1>12. CASE Dip
  BY <1>12 DEF Dip
<1>13. CASE Turn
  BY <1>13 DEF Turn, CanRun, InState
<1>14. CASE LookAround
  BY <1>14 DEF LookAround, CanRun, InState
<1>15. CASE Leave
  BY <1>15 DEF Leave, Dropped, CanRun, InState
<1>16. CASE TimerPass
  BY <1>16, Answers DEF TimerPass, Settled, Rejected
<1>17. CASE SocketPass
  BY <1>17 DEF SocketPass, Wanted, Settled, Rejected
<1>18. CASE MailPass
  BY <1>18, Answers DEF MailPass, Settled, Rejected
<1>19. CASE InterruptPass
  BY <1>19, Answers DEF InterruptPass, Settled, Rejected
<1>20. CASE CollectPass
  BY <1>20 DEF CollectPass, Finished, Wanted, Settled, Rejected
<1>21. CASE ReadyPass
  BY <1>21 DEF ReadyPass, Moves, InState
<1>22. CASE Decide
  BY <1>22 DEF Decide, ThreadsToHear, DeadlineAhead, Wanted, Timed, InState
<1>23. CASE Unblock
  BY <1>23 DEF Unblock
<1>24. CASE Park
  BY <1>24 DEF Park
<1>25. CASE Strand
  BY <1>25, Answers DEF Strand, InState, Settled, Rejected
<1>26. CASE \E o \in Sources : DeadlinePasses(o)
  BY <1>26 DEF DeadlinePasses
<1>27. CASE \E o \in Sources : SocketReadable(o)
  BY <1>27 DEF SocketReadable
<1>28. CASE Dm
  BY <1>28 DEF Dm, Broadcast
<1>29. CASE CtrlC
  BY <1>29 DEF CtrlC
<1>30. CASE \E j \in Jobs : WorkerFinishes(j)
  BY <1>30 DEF WorkerFinishes, Broadcast
<1>31. CASE UNCHANGED vars
  BY <1>31 DEF vars
<1> QED  BY ONLY LoopSteps, Next, <1>1, <1>2, <1>3, <1>4, <1>5, <1>6, <1>7, <1>8, <1>9, <1>10, <1>11, <1>12, <1>13, <1>14, <1>15, <1>16, <1>17, <1>18, <1>19, <1>20, <1>21, <1>22, <1>23, <1>24, <1>25, <1>26, <1>27, <1>28, <1>29, <1>30, <1>31

LEMMA MailStep ==
  ASSUME LoopInv, Next
  PROVE  box' < box => \E o \in Mails : otw'[o] = "fulfilled" /\ (otw[o] = "pending" \/ PastAwait)
<1> USE Kinds, EventLoopAssumption DEF LoopInv, TypeOK, world
<1>1. CASE \E o \in Otws : Suspend(o)
  BY <1>1 DEF Suspend
<1>2. CASE \E o \in Otws : Proceed(o)
  BY <1>2 DEF Proceed
<1>3. CASE \E t \in Async : EndTask(t)
  BY <1>3, Answers DEF EndTask, Endings, Settled, Rejected
<1>4. CASE \E t \in Async : Spawn(t)
  BY <1>4 DEF Spawn, Settled, Rejected
<1>5. CASE \E t \in Async : Refuse(t)
  BY <1>5 DEF Refuse
<1>6. CASE \E o \in Sources : Start(o)
  BY <1>6 DEF Start, Settled, Rejected
<1>7. CASE \E o \in Sources : CheckDms(o)
  BY <1>7 DEF CheckDms, Settled, Rejected
<1>8. CASE \E o \in Sources : WaitUp(o)
  BY <1>8, Answers DEF WaitUp, Settled, Rejected
<1>9. CASE \E o \in Sources : WaitUpMail(o)
  BY <1>9, Answers DEF WaitUpMail, Settled, Rejected
<1>10. CASE \E j \in Jobs : Hire(j)
  BY <1>10 DEF Hire, Settled, Rejected
<1>11. CASE EndEntry
  BY <1>11 DEF EndEntry, Endings
<1>12. CASE Dip
  BY <1>12 DEF Dip
<1>13. CASE Turn
  BY <1>13 DEF Turn, CanRun, InState
<1>14. CASE LookAround
  BY <1>14 DEF LookAround, CanRun, InState
<1>15. CASE Leave
  BY <1>15 DEF Leave, Dropped, CanRun, InState
<1>16. CASE TimerPass
  BY <1>16, Answers DEF TimerPass, Settled, Rejected
<1>17. CASE SocketPass
  BY <1>17 DEF SocketPass, Wanted, Settled, Rejected
<1>18. CASE MailPass
  <2> SUFFICES ASSUME box' < box
               PROVE  \E o \in Mails : otw'[o] = "fulfilled" /\ otw[o] = "pending"
    OBVIOUS
  <2>1. AsksForMail(scan) /\ otw' = Answer({on[scan]}, "fulfilled")
    BY <1>18 DEF MailPass
  <2>2. on[scan] \in Mails /\ on[scan] \in Otws /\ otw[on[scan]] = "pending"
    BY <2>1 DEF AsksForMail
  <2>3. "fulfilled" \in Settled /\ TypeOK
    BY DEF Settled
  <2>4. otw'[on[scan]] = "fulfilled"
    BY ONLY <2>1, <2>2, <2>3, Answers
  <2> QED  BY ONLY <2>2, <2>4
<1>19. CASE InterruptPass
  BY <1>19, Answers DEF InterruptPass, Settled, Rejected
<1>20. CASE CollectPass
  BY <1>20 DEF CollectPass, Finished, Wanted, Settled, Rejected
<1>21. CASE ReadyPass
  BY <1>21 DEF ReadyPass, Moves, InState
<1>22. CASE Decide
  BY <1>22 DEF Decide, ThreadsToHear, DeadlineAhead, Wanted, Timed, InState
<1>23. CASE Unblock
  BY <1>23 DEF Unblock
<1>24. CASE Park
  BY <1>24 DEF Park
<1>25. CASE Strand
  BY <1>25, Answers DEF Strand, InState, Settled, Rejected
<1>26. CASE \E o \in Sources : DeadlinePasses(o)
  BY <1>26 DEF DeadlinePasses
<1>27. CASE \E o \in Sources : SocketReadable(o)
  BY <1>27 DEF SocketReadable
<1>28. CASE Dm
  BY <1>28 DEF Dm, Broadcast
<1>29. CASE CtrlC
  BY <1>29 DEF CtrlC
<1>30. CASE \E j \in Jobs : WorkerFinishes(j)
  BY <1>30 DEF WorkerFinishes, Broadcast
<1>31. CASE UNCHANGED vars
  BY <1>31 DEF vars
<1> QED  BY ONLY LoopSteps, Next, <1>1, <1>2, <1>3, <1>4, <1>5, <1>6, <1>7, <1>8, <1>9, <1>10, <1>11, <1>12, <1>13, <1>14, <1>15, <1>16, <1>17, <1>18, <1>19, <1>20, <1>21, <1>22, <1>23, <1>24, <1>25, <1>26, <1>27, <1>28, <1>29, <1>30, <1>31

\* otw_fulfill and otw_reject: an otw's first answer stays its answer, and only a call makes an otw anew.
THEOREM AnswersStand == Spec => SettledOnce
<1>1. LoopInv /\ [Next]_vars =>
        [\A o \in Otws : otw[o] \in Settled =>
           otw'[o] = otw[o] \/ (o \in Sources \ Jobs /\ PastAwait /\ Unused(o))]_vars
  BY SettledStep
<1> QED  BY <1>1, LoopInvHolds, PTL DEF Spec, SettledOnce

\* settle_mailboxes, check_dms and wait_up: no message is taken for an otw that had its answer.
THEOREM NoMailIsLost == Spec => NoMailLost
<1>1. LoopInv /\ [Next]_vars =>
        [box' < box =>
           \E o \in Mails : otw'[o] = "fulfilled" /\ (otw[o] = "pending" \/ PastAwait)]_vars
  <2>1. CASE Next
    BY Zenon, <2>1, MailStep
  <2>2. CASE UNCHANGED vars
    BY <2>2
  <2> QED  BY <2>1, <2>2
<1> QED  BY <1>1, LoopInvHolds, PTL DEF Spec, NoMailLost
=============================================================================
