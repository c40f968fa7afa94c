---------------------------- MODULE InternsProofs ----------------------------
(***************************************************************************)
(* Proofs about Interns, for any number of workers, messages and results.  *)
(***************************************************************************)
EXTENDS Interns, TLAPS, WellFoundedInduction

\* What the provers need to know of the names of VMs.
LEMMA Names ==
  /\ Main \in VMs /\ Main \notin Workers
  /\ None \notin VMs /\ None \notin Workers
  /\ Workers \subseteq VMs
  /\ VMs = Workers \cup {Main}
  BY InternsAssumption DEF Main, VMs, Workers, None

\* A step of any kind is one of these.
LEMMA Steps ==
  ASSUME Next
  PROVE  \/ \E v \in VMs, i \in Workers : Hire(v, i) \/ HireFails(v, i) \/ WaitUp(v, i)
         \/ \E v \in VMs, k \in Workers : DmIntern(v, k)
         \/ \E v \in VMs : CheckDms(v) \/ MailArrives(v)
         \/ \E v \in VMs, d \in BOOLEAN : WaitForDms(v, d) \/ Finish(v, d)
         \/ \E v \in VMs : CollectJoin(v) \/ Settle(v) \/ Release(v)
         \/ \E v \in VMs : MailTimesOut(v) \/ MailNotYet(v) \/ MailKeepWaiting(v)
                           \/ MailLeftOnRead(v) \/ MailSleep(v) \/ MailWake(v)
         \/ \E v \in VMs : TeardownPick(v) \/ TeardownJoin(v) \/ Forget(v) \/ VmTeardown(v)
         \/ \E i \in Workers : DmBoss(i) \/ Announce(i) \/ \E x \in Vals : Deliver(i, x)
         \/ Shutdown
         \/ UNCHANGED vars
  BY DEF Next, Program, Runtime, End, Terminated

\* Changing one field of an Intern, as the code does, keeps the type.
LEMMA FieldTypes ==
  ASSUME NEW in \in Intern, NEW b \in BOOLEAN, NEW x \in Vals \cup {Ghost}
  PROVE  /\ [in EXCEPT !.joined = b] \in Intern
         /\ [in EXCEPT !.done = b] \in Intern
         /\ [in EXCEPT !.failed = b] \in Intern
         /\ [in EXCEPT !.result = x] \in Intern
         /\ [[[in EXCEPT !.retired = TRUE] EXCEPT !.failed = FALSE] EXCEPT !.result = Ghost] \in Intern
  BY DEF Intern

\* The structs m_hire makes.
LEMMA BlankTypes ==
  ASSUME NEW v \in VMs, NEW k \in Workers
  PROVE  /\ [BlankIntern EXCEPT !.owner = v, !.id = k, !.spawned = TRUE] \in Intern
         /\ [BlankIntern EXCEPT !.owner = v, !.id = k, !.retired = TRUE] \in Intern
  BY DEF Intern, BlankIntern

\* What m_deliver and intern_body make of an outcome is one.
LEMMA OutcomeTypes ==
  ASSUME NEW o \in Outcome, NEW x \in Vals \cup {Ghost}
  PROVE  /\ [o EXCEPT !.state = "pending"] \in Outcome
         /\ [state |-> "rejected", value |-> Ghost] \in Outcome
         /\ [state |-> "fulfilled", value |-> x] \in Outcome
  BY DEF Outcome

-----------------------------------------------------------------------------
(* The inductive invariant. A VM owns interns from its first hire to the   *)
(* step of its teardown that removes them from the registry; in between,   *)
(* everything the runtime knows of an intern is consistent with where its  *)
(* thread is.                                                              *)

\* v's program or the join loop of its teardown is running.
Serving(v) == pc[v] \in ProgramPCs \cup {"teardown", "tjoin"}

\* Only workers are hired and exit, and only the main VM ends the process.
Places ==
  /\ pc[Main] \notin {"none", "announce", "exited"}
  /\ \A i \in Workers : pc[i] \notin {"dead", "gone"}

\* A struct that was not hired yet is blank, and nothing knows of it.
Unhired ==
  \A i \in Workers : intern[i].owner = None =>
    intern[i] = BlankIntern /\ pc[i] = "none" /\ i \notin registry

\* An entry of the registry belongs to a VM that is still there to join it; a
\* hire that failed is retired and has no thread.
Registered ==
  \A i \in registry :
    /\ intern[i].owner \in VMs /\ Serving(intern[i].owner)
    /\ intern[i].spawned <=> pc[i] # "none"
    /\ ~intern[i].spawned => intern[i].retired
    /\ intern[i].spawned /\ intern[i].retired => intern[i].joined

\* A running thread has its entry, and nobody has joined it or collected it.
Running ==
  \A i \in Workers : Alive(i) =>
    /\ i \in registry /\ intern[i].spawned
    /\ ~intern[i].joined /\ ~intern[i].retired

\* done is the last thing a thread writes, and it is joined only after that.
Exited ==
  \A i \in Workers : /\ intern[i].done <=> pc[i] = "exited"
                     /\ intern[i].joined => pc[i] = "exited"

\* A VM joins, settles and releases a struct of its own whose thread was
\* started: not joined yet, if it is about to join it, and not collected, if
\* it is in wait_up.
Aims ==
  \A v \in VMs :
    /\ pc[v] \in {"join", "settle", "release", "tjoin"} =>
         target[v] \in Owned(v) /\ intern[target[v]].spawned
    /\ pc[v] \in {"join", "tjoin"} => ~intern[target[v]].joined
    /\ pc[v] \in {"settle", "release"} => intern[target[v]].joined
    /\ pc[v] \in {"join", "settle", "release"} => ~intern[target[v]].retired

\* Which inboxes and mailboxes exist.
Boxes ==
  /\ \A v \in VMs : v \in inbox <=> Serving(v) \/ pc[v] = "vmdown"
  /\ Main \in open <=> Main \in inbox
  /\ \A i \in Workers : i \in open <=> i \in registry /\ ~intern[i].retired

IInv ==
  /\ TypeOK
  /\ Places
  /\ Unhired
  /\ Registered
  /\ Running
  /\ Exited
  /\ Aims
  /\ Boxes

\* The variables keep their types.
LEMMA TypeStep ==
  ASSUME TypeOK, Aims, [Next]_vars
  PROVE  TypeOK'
<1>0. /\ intern \in [Workers -> Intern]
      /\ otw \in [Workers -> Outcome] /\ outcome \in [Workers -> Outcome]
      /\ target \in [VMs -> Workers \cup {None}] /\ handle \in [VMs -> Workers \cup {None}]
  BY DEF TypeOK
<1>a. ASSUME NEW v \in VMs, pc[v] \in {"join", "settle", "release", "tjoin"}
      PROVE  target[v] \in Workers
  BY <1>a DEF Aims, Owned, TypeOK
<1> USE Names DEF ProgramPCs, TeardownPCs
<1> USE DEF Goto, mailVars
<1>1. ASSUME NEW v \in VMs, NEW i \in Workers, Hire(v, i) PROVE TypeOK'
  <2>1. intern' \in [Workers -> Intern]
    <3>1. PICK k \in Workers : intern' = [intern EXCEPT ![i] = [BlankIntern EXCEPT
                     !.owner = v, !.id = k, !.spawned = TRUE]]
      BY <1>1 DEF Hire
    <3>2. QED
      BY <1>0, <3>1, BlankTypes
  <2>2. otw' \in [Workers -> Outcome]
    BY <1>0, <1>1, OutcomeTypes DEF Hire
  <2>3. QED
    BY <1>1, <2>1, <2>2 DEF Hire, TypeOK
<1>2. ASSUME NEW v \in VMs, NEW i \in Workers, HireFails(v, i) PROVE TypeOK'
  <2>1. intern' \in [Workers -> Intern]
    <3>1. PICK k \in Workers : intern' = [intern EXCEPT ![i] = [BlankIntern EXCEPT
                     !.owner = v, !.id = k, !.retired = TRUE]]
      BY <1>2 DEF HireFails
    <3>2. QED
      BY <1>0, <3>1, BlankTypes
  <2>2. QED
    BY <1>2, <2>1 DEF HireFails, TypeOK
<1>3. ASSUME NEW v \in VMs, NEW i \in Workers, WaitUp(v, i) PROVE TypeOK'
  BY <1>3 DEF WaitUp, InternAt, Owned, TypeOK
<1>4. ASSUME NEW s \in VMs, NEW r \in VMs, NEW f \in {0} \cup Workers, Post(s, r, f)
      PROVE TypeOK'
  <2> DEFINE m == [from |-> f, by |-> s, n |-> posted[<<s, r>>] + 1]
  <2>1. m \in Dm /\ posted' \in [VMs \X VMs -> Nat]
    BY <1>4 DEF Post, Dm, TypeOK
  <2>2. box' = [box EXCEPT ![r] = Append(box[r], m)] /\ Len(box[r]) < MAILBOX_CAP
    BY <1>4 DEF Post, HasRoom
  <2>3. box' \in [VMs -> Seq(Dm)] /\ \A v \in VMs : Len(box'[v]) <= MAILBOX_CAP
    <3> HIDE DEF m
    <3>1. Append(box[r], m) \in Seq(Dm) /\ Len(Append(box[r], m)) = Len(box[r]) + 1
      BY <2>1 DEF TypeOK
    <3>2. QED
      BY <2>2, <3>1, InternsAssumption DEF TypeOK
  <2>4. QED
    BY <1>4, <2>1, <2>3 DEF Post, TypeOK
<1>5. ASSUME NEW v \in VMs, Pop(v)
      PROVE  /\ box' \in [VMs -> Seq(Dm)] /\ \A w \in VMs : Len(box'[w]) <= MAILBOX_CAP
             /\ taken' \in [VMs \X VMs -> Nat]
  <2>1. Tail(box[v]) \in Seq(Dm) /\ Len(Tail(box[v])) = Len(box[v]) - 1
        /\ Len(box[v]) \in Nat /\ Head(box[v]) \in Dm
    BY <1>5 DEF Pop, TypeOK
  <2>2. Head(box[v]).by \in VMs
    BY <2>1 DEF Dm
  <2>3. QED
    BY <1>5, <2>1, <2>2, InternsAssumption DEF Pop, TypeOK
<1>6. ASSUME NEW v \in VMs, CheckDms(v) \/ MailArrives(v) PROVE TypeOK'
  <2>1. /\ box' \in [VMs -> Seq(Dm)] /\ \A w \in VMs : Len(box'[w]) <= MAILBOX_CAP
        /\ taken' \in [VMs \X VMs -> Nat]
    BY <1>5, <1>6 DEF CheckDms, MailArrives
  <2>2. CASE CheckDms(v)
    BY <2>1, <2>2 DEF CheckDms, TypeOK
  <2>3. CASE MailArrives(v)
    BY <2>1, <2>3 DEF MailArrives, TypeOK
  <2>4. QED
    BY <1>6, <2>2, <2>3
<1>7. ASSUME NEW v \in VMs, NEW d \in BOOLEAN, WaitForDms(v, d) PROVE TypeOK'
  BY <1>7 DEF WaitForDms, TypeOK
<1>8. ASSUME NEW v \in VMs, NEW d \in BOOLEAN, Finish(v, d) PROVE TypeOK'
  <2>1. v # Main => v \in Workers
    OBVIOUS
  <2>2. CASE v = Main
    BY <1>8, <2>2 DEF Finish, TypeOK
  <2>3. CASE v # Main
    <3>1. intern' \in [Workers -> Intern]
      <4>1. intern' = [intern EXCEPT ![v] = [intern[v] EXCEPT !.failed = d]]
        BY <1>8, <2>3 DEF Finish
      <4>2. QED
        BY <1>0, <2>1, <2>3, <4>1, FieldTypes
    <3>2. intern[v].result \in Vals \cup {Ghost}
      BY <1>0, <2>1, <2>3 DEF Intern
    <3>3. outcome' \in [Workers -> Outcome]
      <4>1. \/ outcome' = [outcome EXCEPT ![v] = [state |-> "rejected", value |-> Ghost]]
            \/ outcome' = [outcome EXCEPT ![v] = [state |-> "fulfilled", value |-> intern[v].result]]
        BY <1>8, <2>3 DEF Finish
      <4>2. \A x \in Vals \cup {Ghost} : /\ [state |-> "rejected", value |-> Ghost] \in Outcome
                                        /\ [state |-> "fulfilled", value |-> x] \in Outcome
        BY DEF Outcome
      <4>3. QED
        BY <1>0, <2>1, <2>3, <3>2, <4>1, <4>2
    <3>4. QED
      BY <1>8, <3>1, <3>3 DEF Finish, TypeOK
  <2>4. QED
    BY <2>2, <2>3
<1>9. ASSUME NEW v \in VMs, CollectJoin(v) \/ TeardownJoin(v) PROVE TypeOK'
  <2>1. intern' \in [Workers -> Intern]
    <3>1. intern' = [intern EXCEPT ![target[v]] = [intern[target[v]] EXCEPT !.joined = TRUE]]
      BY <1>9 DEF CollectJoin, TeardownJoin, JoinThread
    <3>2. target[v] \in Workers
      BY <1>9, <1>a DEF CollectJoin, TeardownJoin
    <3>3. QED
      BY <1>0, <3>1, <3>2, FieldTypes
  <2>2. CASE CollectJoin(v)
    BY <2>1, <2>2 DEF CollectJoin, JoinThread, TypeOK
  <2>3. CASE TeardownJoin(v)
    BY <2>1, <2>3 DEF TeardownJoin, JoinThread, TypeOK
  <2>4. QED
    BY <1>9, <2>2, <2>3
<1>10. ASSUME NEW v \in VMs, Settle(v) PROVE TypeOK'
  <2>1. target[v] \in Workers => Settlement(intern[target[v]]) \in Outcome
    BY <1>0 DEF Settlement, Intern, Outcome
  <2>2. otw' \in [Workers -> Outcome]
    BY <1>0, <1>10, <1>a, <2>1 DEF Settle
  <2>3. QED
    BY <1>10, <2>2 DEF Settle, TypeOK
<1>11. ASSUME NEW v \in VMs, Release(v) PROVE TypeOK'
  <2>1. intern' \in [Workers -> Intern]
    BY <1>0, <1>11, FieldTypes DEF Release
  <2>2. QED
    BY <1>11, <2>1, InternsAssumption DEF Release, TypeOK
<1>12. ASSUME NEW v \in VMs, MailTimesOut(v) \/ MailNotYet(v) \/ MailKeepWaiting(v)
                             \/ MailLeftOnRead(v) \/ MailSleep(v) \/ MailWake(v)
       PROVE TypeOK'
  BY <1>12 DEF MailTimesOut, MailNotYet, MailKeepWaiting, MailLeftOnRead, MailSleep, MailWake, TypeOK
<1>13. ASSUME NEW v \in VMs, TeardownPick(v) PROVE TypeOK'
  BY <1>13 DEF TeardownPick, Unjoined, Owned, TypeOK
<1>14. ASSUME NEW v \in VMs, Forget(v) \/ VmTeardown(v) PROVE TypeOK'
  <2>1. /\ box' \in [VMs -> Seq(Dm)] /\ \A w \in VMs : Len(box'[w]) <= MAILBOX_CAP
        /\ open' \subseteq VMs
    <3>1. \A w \in VMs : box'[w] \in {box[w], <<>>} /\ open' \subseteq open
      BY <1>14 DEF Forget, VmTeardown, TypeOK
    <3>2. box' = [w \in VMs |-> box'[w]]
      BY <1>14 DEF Forget, VmTeardown, TypeOK
    <3>3. <<>> \in Seq(Dm) /\ Len(<<>>) = 0 /\ 0 <= MAILBOX_CAP
      BY InternsAssumption
    <3>4. \A w \in VMs : box'[w] \in Seq(Dm) /\ Len(box'[w]) <= MAILBOX_CAP
      BY <3>1, <3>3 DEF TypeOK
    <3>5. box' \in [VMs -> Seq(Dm)]
      BY <3>2, <3>4, Zenon
    <3>6. QED
      BY <3>1, <3>4, <3>5 DEF TypeOK
  <2>2. CASE Forget(v)
    BY <2>1, <2>2 DEF Forget, TypeOK
  <2>3. CASE VmTeardown(v)
    BY <2>1, <2>3 DEF VmTeardown, TypeOK
  <2>4. QED
    BY <1>14, <2>2, <2>3
<1>15. ASSUME NEW i \in Workers, Announce(i) PROVE TypeOK'
  <2>1. intern' \in [Workers -> Intern]
    BY <1>0, <1>15, FieldTypes DEF Announce
  <2>2. QED
    BY <1>15, <2>1 DEF Announce, TypeOK
<1>16. ASSUME NEW i \in Workers, NEW x \in Vals, Deliver(i, x) PROVE TypeOK'
  <2>1. intern' \in [Workers -> Intern]
    BY <1>0, <1>16, FieldTypes DEF Deliver
  <2>2. QED
    BY <1>16, <2>1 DEF Deliver, TypeOK
<1>17. ASSUME Shutdown PROVE TypeOK'
  BY <1>17 DEF Shutdown, TypeOK
<1>18. ASSUME UNCHANGED vars PROVE TypeOK'
  BY <1>18 DEF vars, TypeOK
<1>19. ASSUME NEW v \in VMs, NEW k \in Workers, DmIntern(v, k) PROVE TypeOK'
  <2>1. PICK i \in InternAt(v, k) : Post(v, i, 0)
    BY <1>19 DEF DmIntern
  <2>2. i \in VMs
    BY DEF InternAt, Owned, TypeOK
  <2>3. QED
    BY <1>4, <2>1, <2>2
<1>20. ASSUME NEW i \in Workers, DmBoss(i) PROVE TypeOK'
  BY <1>0, <1>4, <1>20 DEF DmBoss, ReplyId, Intern, TypeOK
<1>21. CASE Next
  BY <1>21, Steps, <1>1, <1>2, <1>3, <1>6, <1>7, <1>8, <1>9, <1>10, <1>11, <1>12,
     <1>13, <1>14, <1>15, <1>16, <1>17, <1>18, <1>19, <1>20
<1>22. QED
  BY <1>18, <1>21

\* The rest of the invariant.
LEMMA InvStep ==
  ASSUME IInv, [Next]_vars
  PROVE  IInv'
<1>0. TypeOK /\ TypeOK'
  BY TypeStep DEF IInv
<1> DEFINE Inv == Places /\ Unhired /\ Registered /\ Running /\ Exited /\ Aims /\ Boxes
<1>a. Inv
  BY DEF IInv
<1> SUFFICES Inv'
  BY <1>0 DEF IInv
<1> DEFINE PCs == ProgramPCs \cup TeardownPCs \cup {"none", "exited", "dead", "gone"}
<1>t. /\ pc \in [VMs -> PCs]
      /\ intern \in [Workers -> Intern] /\ registry \subseteq Workers
      /\ target \in [VMs -> Workers \cup {None}]
      /\ inbox \subseteq VMs /\ open \subseteq VMs
  BY <1>0 DEF TypeOK
<1> USE <1>a, <1>t, Names DEF Places, Unhired, Registered, Running, Exited, Aims, Boxes,
      Serving, Alive, Owned, ProgramPCs, TeardownPCs, Goto, mailVars
<1>1. ASSUME NEW v \in VMs, NEW i \in Workers, Hire(v, i)
       PROVE  Inv'
  <2>1. PICK k \in Workers : intern' = [intern EXCEPT ![i] = [BlankIntern EXCEPT
                     !.owner = v, !.id = k, !.spawned = TRUE]]
    BY <1>1 DEF Hire
  <2>2. /\ intern'[i].owner = v /\ intern'[i].spawned
        /\ ~intern'[i].joined /\ ~intern'[i].retired /\ ~intern'[i].done
        /\ \A j \in Workers : j # i => intern'[j] = intern[j]
    BY <2>1 DEF BlankIntern
  <2>3. i \notin registry /\ pc[i] = "none" /\ pc[v] = "run" /\ v # i
    BY <1>1 DEF Hire, IsFresh
  <2>4. /\ registry' = registry \cup {i} /\ open' = open \cup {i}
        /\ inbox' = inbox \cup {i} /\ pc' = [pc EXCEPT ![i] = "run"] /\ target' = target
    BY <1>1 DEF Hire
  <2>5. QED
    BY <2>2, <2>3, <2>4
<1>2. ASSUME NEW v \in VMs, NEW i \in Workers, HireFails(v, i)
       PROVE  Inv'
  <2>1. PICK k \in Workers : intern' = [intern EXCEPT ![i] = [BlankIntern EXCEPT
                     !.owner = v, !.id = k, !.retired = TRUE]]
    BY <1>2 DEF HireFails
  <2>2. /\ intern'[i].owner = v /\ ~intern'[i].spawned
        /\ ~intern'[i].joined /\ intern'[i].retired /\ ~intern'[i].done
        /\ \A j \in Workers : j # i => intern'[j] = intern[j]
    BY <2>1 DEF BlankIntern
  <2>3. i \notin registry /\ pc[i] = "none" /\ pc[v] = "run" /\ v # i
    BY <1>2 DEF HireFails, IsFresh
  <2>4. registry' = registry \cup {i} /\ UNCHANGED <<open, inbox, pc, target>>
    BY <1>2 DEF HireFails
  <2>5. i \notin open
    BY <2>3
  <2>6. QED
    BY <2>2, <2>3, <2>4, <2>5
<1>3. ASSUME NEW v \in VMs, NEW i \in Workers, WaitUp(v, i)
       PROVE  Inv'
  BY <1>3 DEF WaitUp, InternAt
<1>4. ASSUME NEW s \in VMs, NEW r \in VMs, NEW f \in {0} \cup Workers, Post(s, r, f)
       PROVE  Inv'
  BY <1>4 DEF Post
<1>5. ASSUME NEW v \in VMs, CheckDms(v) \/ MailArrives(v)
       PROVE  Inv'
  BY <1>5 DEF CheckDms, MailArrives
<1>6. ASSUME NEW v \in VMs, NEW d \in BOOLEAN, WaitForDms(v, d)
       PROVE  Inv'
  BY <1>6 DEF WaitForDms
<1>7. ASSUME NEW v \in VMs, NEW d \in BOOLEAN, Finish(v, d)
       PROVE  Inv'
  <2>1. /\ pc[v] = "run" /\ pc' = [pc EXCEPT ![v] = "teardown"]
        /\ UNCHANGED <<target, registry, inbox, open>>
    BY <1>7 DEF Finish
  <2>2. CASE v = Main
    BY <1>7, <2>1, <2>2 DEF Finish
  <2>3. CASE v # Main
    <3>1. v \in Workers /\ intern' = [intern EXCEPT ![v] = [intern[v] EXCEPT !.failed = d]]
      BY <1>7, <2>3 DEF Finish
    <3>2. \A j \in Workers :
            /\ intern'[j].owner = intern[j].owner /\ intern'[j].spawned = intern[j].spawned
            /\ intern'[j].joined = intern[j].joined /\ intern'[j].retired = intern[j].retired
            /\ intern'[j].done = intern[j].done
      BY <3>1 DEF Intern
    <3>3. intern[v].owner # None
      BY <2>1, <3>1
    <3>4. \A j \in Workers : intern'[j].owner = None => intern'[j] = intern[j]
      BY <3>1, <3>2, <3>3
    <3>5. QED
      BY <2>1, <3>2, <3>4
  <2>4. QED
    BY <2>2, <2>3
<1>8. ASSUME NEW v \in VMs, CollectJoin(v)
       PROVE  Inv'
  BY <1>8 DEF CollectJoin, JoinThread
<1>9. ASSUME NEW v \in VMs, TeardownJoin(v)
       PROVE  Inv'
  BY <1>9 DEF TeardownJoin, JoinThread
<1>10. ASSUME NEW v \in VMs, Settle(v)
       PROVE  Inv'
  <2>1. pc[v] = "settle" /\ pc' = [pc EXCEPT ![v] = "release"]
        /\ UNCHANGED <<target, registry, intern, inbox, open>>
    BY <1>10 DEF Settle
  <2>2. QED
    BY <2>1
<1>11. ASSUME NEW v \in VMs, Release(v)
       PROVE  Inv'
  <2> DEFINE t == target[v]
  <2>1. /\ pc[v] = "release" /\ pc' = [pc EXCEPT ![v] = "run"]
        /\ target' = [target EXCEPT ![v] = None] /\ open' = open \ {t}
        /\ UNCHANGED <<registry, inbox>>
    BY <1>11 DEF Release
  <2>2. /\ t \in registry /\ intern[t].owner = v /\ intern[t].spawned
        /\ intern[t].joined /\ ~intern[t].retired
    BY <2>1
  <2>3. /\ intern'[t].owner = v /\ intern'[t].spawned /\ intern'[t].joined
        /\ intern'[t].retired /\ intern'[t].done = intern[t].done
        /\ \A j \in Workers : j # t => intern'[j] = intern[j]
    BY <1>11, <2>2 DEF Release, Intern
  <2> HIDE DEF t
  <2>4. \A w \in VMs : w # v /\ pc[w] \in {"join", "settle", "release", "tjoin"} => target[w] # t
    BY <2>2
  <2>5. QED
    BY <2>1, <2>2, <2>3, <2>4
<1>12. ASSUME NEW v \in VMs, MailTimesOut(v) \/ MailNotYet(v) \/ MailKeepWaiting(v)
                             \/ MailLeftOnRead(v) \/ MailSleep(v) \/ MailWake(v)
       PROVE  Inv'
  BY <1>12 DEF MailTimesOut, MailNotYet, MailKeepWaiting, MailLeftOnRead, MailSleep, MailWake
<1>13. ASSUME NEW v \in VMs, TeardownPick(v)
       PROVE  Inv'
  BY <1>13 DEF TeardownPick, Unjoined
<1>14. ASSUME NEW v \in VMs, Forget(v)
       PROVE  Inv'
  BY <1>14 DEF Forget, Forgotten, Unjoined
<1>15. ASSUME NEW v \in VMs, VmTeardown(v)
       PROVE  Inv'
  BY <1>15 DEF VmTeardown, OwnsInbox
<1>16. ASSUME NEW i \in Workers, Announce(i)
       PROVE  Inv'
  BY <1>16 DEF Announce
<1>17. ASSUME NEW i \in Workers, NEW x \in Vals, Deliver(i, x)
       PROVE  Inv'
  BY <1>17 DEF Deliver
<1>18. ASSUME Shutdown
       PROVE  Inv'
  BY <1>18 DEF Shutdown
<1>19. ASSUME UNCHANGED vars
       PROVE  Inv'
  BY <1>19 DEF vars
<1>20. CASE Next
  <2>1. ASSUME NEW v \in VMs, NEW k \in Workers, DmIntern(v, k) PROVE Inv'
    BY <1>4, <2>1 DEF DmIntern, InternAt
  <2>2. ASSUME NEW i \in Workers, DmBoss(i) PROVE Inv'
    <3>1. intern[i].owner \in VMs
      BY <2>2 DEF DmBoss
    <3>2. ReplyId(i) \in {0} \cup Workers
      BY <1>t DEF ReplyId, Intern
    <3>3. Post(i, intern[i].owner, ReplyId(i))
      BY <2>2 DEF DmBoss
    <3> HIDE DEF Inv
    <3>4. QED
      BY <1>4, <3>1, <3>2, <3>3, Zenon
  <2> HIDE DEF Inv
  <2>3. QED
    BY <1>20, Steps, <1>1, <1>2, <1>3, <1>5, <1>6, <1>7, <1>8, <1>9, <1>10, <1>11, <1>12,
       <1>13, <1>14, <1>15, <1>16, <1>17, <1>18, <1>19, <2>1, <2>2
<1>21. QED
  BY <1>19, <1>20

\* What the proofs below start from.
THEOREM Inductive == Spec => []IInv
<1>1. Init => IInv
  <2> SUFFICES ASSUME Init PROVE IInv
    OBVIOUS
  <2> USE Names, InternsAssumption
  <2>1. TypeOK
    BY DEF Init, BlankIntern, Unsettled, Dm, Intern, Outcome, TypeOK, ProgramPCs, TeardownPCs
  <2>2. Places /\ Unhired /\ Registered /\ Running /\ Exited /\ Aims /\ Boxes
    BY DEF Init, BlankIntern, Places, Unhired, Registered, Running, Exited, Aims, Boxes,
       Serving, Alive, ProgramPCs, TeardownPCs
  <2>3. QED
    BY <2>1, <2>2 DEF IInv
<1>2. IInv /\ [Next]_vars => IInv'
  BY InvStep
<1>3. QED
  BY <1>1, <1>2, PTL DEF Spec

\* Interns!TypeOK: the variables keep their types, and no inbox outgrows
\* MAILBOX_CAP (mailbox_push).
THEOREM TypeCorrect == Spec => []TypeOK
<1>1. IInv => TypeOK
  BY DEF IInv
<1>2. QED
  BY <1>1, Inductive, PTL

\* Interns!JoinedOnce: a thread is joined by the VM that hired it, once, in
\* wait_up (interns_collect) or in teardown (interns_join_owned_by).
THEOREM ThreadsJoinedOnce == Spec => []JoinedOnce
<1>1. IInv => JoinedOnce
  BY Names DEF IInv, TypeOK, Aims, Owned, JoinedOnce
<1>2. QED
  BY <1>1, Inductive, PTL

\* Interns!NoOrphans: while a worker runs, its owner is there to join it, and
\* the struct it writes to has not been released.
THEOREM OwnersOutliveWorkers == Spec => []NoOrphans
<1>1. IInv => NoOrphans
  BY Names DEF IInv, Running, Registered, Serving, NoOrphans
<1>2. QED
  BY <1>1, Inductive, PTL

\* Interns!MailboxesSafe: nobody can read or write a mailbox that is freed.
THEOREM MailboxesOutliveUse == Spec => []MailboxesSafe
<1>1. IInv => MailboxesSafe
  <2> SUFFICES ASSUME IInv PROVE MailboxesSafe
    OBVIOUS
  <2> USE Names DEF IInv, TypeOK, Running, Registered, Boxes, Serving, Alive, TeardownPCs
  <2>1. inbox \subseteq open
    <3>1. SUFFICES ASSUME NEW v \in inbox, v # Main PROVE v \in open
      OBVIOUS
    <3>2. v \in Workers /\ Alive(v)
      BY <3>1
    <3>3. QED
      BY <3>2
  <2>2. \A i \in Workers : Alive(i) => intern[i].owner \in inbox
    OBVIOUS
  <2>3. \A i \in registry : ~intern[i].done /\ ~intern[i].retired => i \in open
    OBVIOUS
  <2>4. QED
    BY <2>1, <2>2, <2>3 DEF MailboxesSafe
<1>2. QED
  BY <1>1, Inductive, PTL

-----------------------------------------------------------------------------
(* What wait_up hands back. The handle of an intern leads wait_up to that  *)
(* intern's own entry, and what it finds there is how the program ended.   *)

\* A VM's interns have different numbers.
Numbers ==
  \A i, j \in registry :
    intern[i].owner = intern[j].owner /\ intern[i].id = intern[j].id => i = j

\* wait_up works on the entry its handle was made for.
Handles ==
  \A v \in VMs : pc[v] \in {"join", "settle", "release"} => handle[v] = target[v]

\* While its owner is there, an unsettled handle has its entry, uncollected.
Pending ==
  \A i \in Workers : otw[i].state = "pending" =>
    /\ intern[i].owner \in VMs /\ pc[intern[i].owner] # "none"
    /\ Serving(intern[i].owner) => i \in registry /\ ~intern[i].retired

\* The handle is settled before the entry is released.
Settled ==
  \A v \in VMs : pc[v] = "release" => otw[target[v]].state # "pending"

\* An entry keeps how its program ended until it is released.
Ended ==
  \A i \in Workers : pc[i] \in TeardownPCs \cup {"exited"} /\ ~intern[i].retired =>
    outcome[i] = Settlement(intern[i])

\* A settled handle says how its program ended, which nothing changes later.
Answered ==
  \A i \in Workers : otw[i].state \in {"fulfilled", "rejected"} =>
    pc[i] = "exited" /\ otw[i] = outcome[i]

AInv == Numbers /\ Handles /\ Pending /\ Settled /\ Ended /\ Answered

\* Each step of a VM's thread keeps AInv: m_hire gives unused numbers out,
\* interns_collect retires what it settles, intern_body ends a program once.
LEMMA AnswerStep ==
  ASSUME IInv, IInv', AInv, [Next]_vars
  PROVE  AInv'
<1> DEFINE PCs == ProgramPCs \cup TeardownPCs \cup {"none", "exited", "dead", "gone"}
<1>t. /\ pc \in [VMs -> PCs]
      /\ intern \in [Workers -> Intern] /\ registry \subseteq Workers
      /\ target \in [VMs -> Workers \cup {None}] /\ handle \in [VMs -> Workers \cup {None}]
      /\ otw \in [Workers -> Outcome] /\ outcome \in [Workers -> Outcome]
  BY DEF IInv, TypeOK
<1>a. Places /\ Unhired /\ Registered /\ Running /\ Exited /\ Aims
  BY DEF IInv
<1>b. Registered' /\ Aims'
  BY DEF IInv
<1>o. \A v \in VMs : pc[v] \in {"join", "settle", "release", "tjoin"} =>
        target[v] \in registry /\ intern[target[v]].owner = v
  BY <1>a DEF Aims, Owned
<1> USE <1>t, Names DEF AInv, Numbers, Handles, Pending, Settled, Ended, Answered,
      Serving, ProgramPCs, TeardownPCs, Goto, mailVars
<1>1. ASSUME NEW v \in VMs, NEW i \in Workers, Hire(v, i) PROVE AInv'
  <2>1. PICK k \in Workers :
          /\ \A j \in registry : intern[j].owner = v => intern[j].id < k
          /\ intern' = [intern EXCEPT ![i] = [BlankIntern EXCEPT
                     !.owner = v, !.id = k, !.spawned = TRUE]]
    BY <1>1 DEF Hire, IsNextId, Owned
  <2>2. /\ intern'[i].owner = v /\ intern'[i].id = k /\ ~intern'[i].retired
        /\ \A j \in Workers : j # i => intern'[j] = intern[j]
    BY <2>1 DEF BlankIntern
  <2>3. /\ i \notin registry /\ pc[i] = "none" /\ pc[v] = "run" /\ v # i
        /\ intern[i].owner = None
    BY <1>1, <1>a DEF Hire, IsFresh, Unhired
  <2>4. /\ registry' = registry \cup {i} /\ pc' = [pc EXCEPT ![i] = "run"]
        /\ otw' = [otw EXCEPT ![i] = [otw[i] EXCEPT !.state = "pending"]]
        /\ UNCHANGED <<handle, target, outcome>>
    BY <1>1 DEF Hire
  <2>5. \A j \in Workers : otw'[j].state = IF j = i THEN "pending" ELSE otw[j].state
    BY <2>4 DEF Outcome
  <2>6. Numbers'
    <3>1. \A j \in registry : intern[j].id \in {0} \cup Workers
      BY DEF Intern
    <3>2. \A j \in registry : intern[j].owner = v => intern[j].id # k
      BY <2>1, <3>1, InternsAssumption DEF Workers
    <3>3. QED
      BY <2>2, <2>4, <3>2
  <2>7. Pending'
    BY <2>2, <2>3, <2>4, <2>5
  <2>8. Handles' /\ Settled'
    BY <1>o, <2>3, <2>4, <2>5
  <2>9. Ended' /\ Answered'
    BY <2>2, <2>3, <2>4, <2>5
  <2>10. QED
    BY <2>6, <2>7, <2>8, <2>9
<1>2. ASSUME NEW v \in VMs, NEW i \in Workers, HireFails(v, i) PROVE AInv'
  <2>1. PICK k \in Workers :
          /\ \A j \in registry : intern[j].owner = v => intern[j].id < k
          /\ intern' = [intern EXCEPT ![i] = [BlankIntern EXCEPT
                     !.owner = v, !.id = k, !.retired = TRUE]]
    BY <1>2 DEF HireFails, IsNextId, Owned
  <2>2. /\ intern'[i].owner = v /\ intern'[i].id = k /\ intern'[i].retired
        /\ \A j \in Workers : j # i => intern'[j] = intern[j]
    BY <2>1 DEF BlankIntern
  <2>3. i \notin registry /\ pc[i] = "none" /\ intern[i].owner = None
    BY <1>2, <1>a DEF HireFails, IsFresh, Unhired
  <2>4. registry' = registry \cup {i} /\ UNCHANGED <<pc, handle, target, otw, outcome>>
    BY <1>2 DEF HireFails
  <2>5. Numbers'
    <3>1. \A j \in registry : intern[j].id \in {0} \cup Workers
      BY DEF Intern
    <3>2. \A j \in registry : intern[j].owner = v => intern[j].id # k
      BY <2>1, <3>1, InternsAssumption DEF Workers
    <3>3. QED
      BY <2>2, <2>4, <3>2
  <2>6. Pending' /\ Handles' /\ Settled' /\ Ended' /\ Answered'
    BY <2>2, <2>3, <2>4
  <2>7. QED
    BY <2>5, <2>6
<1>3. ASSUME NEW v \in VMs, NEW h \in Workers, WaitUp(v, h) PROVE AInv'
  <2>1. PICK i \in InternAt(v, intern[h].id) : target' = [target EXCEPT ![v] = i]
    BY <1>3 DEF WaitUp
  <2>2. h \in registry /\ i \in registry /\ i = h
    BY <1>3, <2>1 DEF WaitUp, InternAt, Owned
  <2>3. /\ pc[v] = "run" /\ pc' = [pc EXCEPT ![v] = pc'[v]] /\ pc'[v] \in {"settle", "join"}
        /\ handle' = [handle EXCEPT ![v] = h]
        /\ UNCHANGED <<registry, intern, otw, outcome>>
    BY <1>3 DEF WaitUp
  <2>4. QED
    BY <2>1, <2>2, <2>3
<1>4. ASSUME NEW s \in VMs, NEW r \in VMs, NEW f \in {0} \cup Workers, Post(s, r, f)
      PROVE AInv'
  BY <1>4 DEF Post
<1>5. ASSUME NEW v \in VMs, CheckDms(v) \/ MailArrives(v) PROVE AInv'
  BY <1>5 DEF CheckDms, MailArrives
<1>6. ASSUME NEW v \in VMs, NEW d \in BOOLEAN, WaitForDms(v, d) PROVE AInv'
  BY <1>6 DEF WaitForDms
<1>7. ASSUME NEW v \in VMs, NEW d \in BOOLEAN, Finish(v, d) PROVE AInv'
  <2>1. /\ pc[v] = "run" /\ pc' = [pc EXCEPT ![v] = "teardown"]
        /\ UNCHANGED <<handle, target, registry, otw>>
    BY <1>7 DEF Finish
  <2>2. CASE v = Main
    BY <1>7, <2>1, <2>2 DEF Finish
  <2>3. CASE v # Main
    <3>1. /\ v \in Workers /\ intern' = [intern EXCEPT ![v] = [intern[v] EXCEPT !.failed = d]]
          /\ outcome' = [outcome EXCEPT ![v] = Settlement([intern[v] EXCEPT !.failed = d])]
      BY <1>7, <2>3 DEF Finish, Settlement, Intern
    <3>2. \A j \in Workers :
            /\ intern'[j].owner = intern[j].owner /\ intern'[j].id = intern[j].id
            /\ intern'[j].retired = intern[j].retired
            /\ j # v => intern'[j] = intern[j] /\ outcome'[j] = outcome[j]
      BY <3>1 DEF Intern
    <3>3. outcome'[v] = Settlement(intern'[v])
      BY <3>1
    <3>4. QED
      BY <2>1, <3>2, <3>3, <3>1
  <2>4. QED
    BY <2>2, <2>3
<1>8. ASSUME NEW v \in VMs, CollectJoin(v) \/ TeardownJoin(v) PROVE AInv'
  <2>1. /\ pc[v] \in {"join", "tjoin"} /\ target[v] \in Workers
        /\ intern' = [intern EXCEPT ![target[v]] = [intern[target[v]] EXCEPT !.joined = TRUE]]
        /\ UNCHANGED <<handle, registry, otw, outcome>>
    BY <1>8, <1>o DEF CollectJoin, TeardownJoin, JoinThread
  <2>2. \A j \in Workers :
          /\ intern'[j].owner = intern[j].owner /\ intern'[j].id = intern[j].id
          /\ intern'[j].retired = intern[j].retired
          /\ Settlement(intern'[j]) = Settlement(intern[j])
    BY <2>1 DEF Intern, Settlement
  <2>3. \/ pc' = [pc EXCEPT ![v] = "settle"] /\ pc[v] = "join" /\ target' = target
        \/ pc' = [pc EXCEPT ![v] = "teardown"] /\ pc[v] = "tjoin"
           /\ target' = [target EXCEPT ![v] = None]
    BY <1>8 DEF CollectJoin, TeardownJoin
  <2>4. \A i \in Workers :
          pc'[i] \in TeardownPCs \cup {"exited"} <=> pc[i] \in TeardownPCs \cup {"exited"}
    BY <2>3
  <2>5. Ended'
    BY <2>1, <2>2, <2>4
  <2>6. Numbers' /\ Handles' /\ Pending' /\ Settled' /\ Answered'
    BY <2>1, <2>2, <2>3
  <2>7. QED
    BY <2>5, <2>6
<1>9. ASSUME NEW v \in VMs, Settle(v) PROVE AInv'
  <2> DEFINE t == target[v]
  <2>1. /\ pc[v] = "settle" /\ pc' = [pc EXCEPT ![v] = "release"] /\ handle[v] = t
        /\ otw' = [otw EXCEPT ![t] = Settlement(intern[t])]
        /\ UNCHANGED <<handle, target, registry, intern, outcome>>
    BY <1>9 DEF Settle
  <2>2. t \in Workers /\ intern[t].joined /\ ~intern[t].retired /\ pc[t] = "exited"
    BY <2>1, <1>a, <1>o DEF Aims, Exited
  <2>3. /\ outcome[t] = Settlement(intern[t])
        /\ Settlement(intern[t]).state \in {"fulfilled", "rejected"}
    BY <2>2 DEF Settlement
  <2> HIDE DEF t
  <2>4. Numbers' /\ Handles' /\ Ended'
    BY <2>1, <2>2
  <2>5. Pending' /\ Settled' /\ Answered'
    BY <2>1, <2>2, <2>3 DEF t
  <2>6. QED
    BY <2>4, <2>5
<1>10. ASSUME NEW v \in VMs, Release(v) PROVE AInv'
  <2> DEFINE t == target[v]
  <2>1. /\ pc[v] = "release" /\ pc' = [pc EXCEPT ![v] = "run"]
        /\ target' = [target EXCEPT ![v] = None] /\ handle' = [handle EXCEPT ![v] = None]
        /\ UNCHANGED <<registry, otw, outcome>>
    BY <1>10 DEF Release
  <2>2. t \in Workers /\ t \in registry /\ intern[t].owner = v /\ otw[t].state # "pending"
    BY <2>1, <1>o
  <2>3. /\ intern'[t].owner = v /\ intern'[t].id = intern[t].id /\ intern'[t].retired
        /\ \A j \in Workers : j # t => intern'[j] = intern[j]
    BY <1>10, <2>2 DEF Release, Intern
  <2> HIDE DEF t
  <2>4. QED
    BY <2>1, <2>2, <2>3
<1>11. ASSUME NEW v \in VMs, MailTimesOut(v) \/ MailNotYet(v) \/ MailKeepWaiting(v)
                             \/ MailLeftOnRead(v) \/ MailSleep(v) \/ MailWake(v)
       PROVE AInv'
  BY <1>11 DEF MailTimesOut, MailNotYet, MailKeepWaiting, MailLeftOnRead, MailSleep, MailWake
<1>12. ASSUME NEW v \in VMs, TeardownPick(v) PROVE AInv'
  <2>1. /\ pc[v] = "teardown" /\ pc' = [pc EXCEPT ![v] = "tjoin"]
        /\ \A w \in VMs : w # v => target'[w] = target[w]
        /\ UNCHANGED <<handle, registry, intern, otw, outcome>>
    BY <1>12 DEF TeardownPick
  <2>2. QED
    BY <2>1
<1>13. ASSUME NEW v \in VMs, Forget(v) PROVE AInv'
  <2>1. /\ pc[v] = "teardown" /\ pc' = [pc EXCEPT ![v] = "vmdown"]
        /\ registry' = registry \ Owned(v)
        /\ UNCHANGED <<handle, target, intern, otw, outcome>>
    BY <1>13 DEF Forget, Forgotten
  <2>2. QED
    BY <2>1 DEF Owned
<1>14. ASSUME NEW v \in VMs, VmTeardown(v) PROVE AInv'
  BY <1>14 DEF VmTeardown
<1>15. ASSUME NEW i \in Workers, Announce(i) PROVE AInv'
  <2>1. /\ pc[i] = "announce" /\ pc' = [pc EXCEPT ![i] = "exited"]
        /\ intern' = [intern EXCEPT ![i] = [intern[i] EXCEPT !.done = TRUE]]
        /\ UNCHANGED <<handle, target, registry, otw, outcome>>
    BY <1>15 DEF Announce
  <2>2. \A j \in Workers :
          /\ intern'[j].owner = intern[j].owner /\ intern'[j].id = intern[j].id
          /\ intern'[j].retired = intern[j].retired
          /\ Settlement(intern'[j]) = Settlement(intern[j])
    BY <2>1 DEF Intern, Settlement
  <2>3. Ended'
    BY <2>1, <2>2
  <2>4. Numbers' /\ Handles' /\ Pending' /\ Settled' /\ Answered'
    BY <2>1, <2>2
  <2>5. QED
    BY <2>3, <2>4
<1>16. ASSUME NEW i \in Workers, NEW x \in Vals, Deliver(i, x) PROVE AInv'
  <2>1. /\ pc[i] = "run"
        /\ intern' = [intern EXCEPT ![i] = [intern[i] EXCEPT !.result = x]]
        /\ UNCHANGED <<pc, handle, target, registry, otw, outcome>>
    BY <1>16 DEF Deliver
  <2>2. \A j \in Workers :
          /\ intern'[j].owner = intern[j].owner /\ intern'[j].id = intern[j].id
          /\ intern'[j].retired = intern[j].retired
          /\ j # i => intern'[j] = intern[j]
    BY <2>1 DEF Intern
  <2>3. QED
    BY <2>1, <2>2
<1>17. ASSUME Shutdown PROVE AInv'
  <2>1. pc[Main] = "dead" /\ pc' = [pc EXCEPT ![Main] = "gone"] /\ registry' = {}
        /\ UNCHANGED <<handle, target, intern, otw, outcome>>
    BY <1>17 DEF Shutdown
  <2>2. \A v \in VMs : ~Serving(v)'
    <3>1. IInv'
      OBVIOUS
    <3>2. QED
      BY <2>1, <3>1 DEF IInv, Running, Alive
  <2>3. QED
    BY <2>1, <2>2
<1>18. ASSUME UNCHANGED vars PROVE AInv'
  BY <1>18 DEF vars
<1>19. CASE Next
  <2>1. ASSUME NEW v \in VMs, NEW k \in Workers, DmIntern(v, k) PROVE AInv'
    BY <1>4, <2>1 DEF DmIntern, InternAt, Owned
  <2>2. ASSUME NEW i \in Workers, DmBoss(i) PROVE AInv'
    <3>1. intern[i].owner \in VMs
      BY <2>2 DEF DmBoss, IInv, TypeOK
    <3>2. ReplyId(i) \in {0} \cup Workers
      BY DEF ReplyId, Intern
    <3>3. Post(i, intern[i].owner, ReplyId(i))
      BY <2>2 DEF DmBoss
    <3> HIDE DEF AInv
    <3>4. QED
      BY <1>4, <3>1, <3>2, <3>3, Zenon
  <2> HIDE DEF AInv
  <2>3. QED
    BY <1>19, Steps, <1>1, <1>2, <1>3, <1>5, <1>6, <1>7, <1>8, <1>9, <1>10, <1>11, <1>12,
       <1>13, <1>14, <1>15, <1>16, <1>17, <1>18, <2>1, <2>2
<1>20. QED
  BY <1>18, <1>19

\* Numbers, handles and outcomes fit together in every reachable state: what
\* interns_collect relies on when it looks an otw's worker up and reads from it.
THEOREM Answers == Spec => []AInv
<1>1. Init => AInv
  BY Names, InternsAssumption
  DEF Init, AInv, Numbers, Handles, Pending, Settled, Ended, Answered, Unsettled, TeardownPCs
<1>2. IInv /\ IInv' /\ AInv /\ [Next]_vars => AInv'
  BY AnswerStep
<1>3. QED
  BY <1>1, <1>2, Inductive, PTL DEF Spec

\* Interns!HandsBack: wait_up gives the error that escaped the worker's own
\* program, or what that program delivered last (settle_and_read).
THEOREM WaitUpHandsBack == Spec => []HandsBack
<1>1. AInv => HandsBack
  BY DEF AInv, Answered, HandsBack
<1>2. QED
  BY <1>1, Answers, PTL

\* Interns!PendingHasIntern: the handle of an intern that was not waited for
\* finds its entry, and no other one, however many were hired and collected.
THEOREM HandlesFindTheirIntern == Spec => []PendingHasIntern
<1>1. IInv /\ AInv => PendingHasIntern
  BY Names DEF IInv, TypeOK, AInv, Numbers, Pending, Serving, ProgramPCs, PendingHasIntern,
     InternAt, Owned
<1>2. QED
  BY <1>1, Inductive, Answers, PTL

\* Interns!NoMissedMail: a VM asleep in interns_wait_for_mail has no mail.
THEOREM MailWakesItsReader == Spec => []NoMissedMail
<1>1. Init => NoMissedMail
  BY DEF Init, NoMissedMail
<1>2. IInv /\ NoMissedMail /\ [Next]_vars => NoMissedMail'
  <2> SUFFICES ASSUME IInv, NoMissedMail, Next PROVE NoMissedMail'
    BY DEF vars, mailVars, NoMissedMail
  <2> USE DEF NoMissedMail, mailVars
  <2>t. waiters \subseteq VMs /\ box \in [VMs -> Seq(Dm)]
    BY DEF IInv, TypeOK
  <2>1. ASSUME NEW v \in VMs, NEW i \in Workers, Hire(v, i) \/ HireFails(v, i) \/ WaitUp(v, i)
        PROVE NoMissedMail'
    BY <2>1 DEF Hire, HireFails, WaitUp
  <2>2. ASSUME NEW s, NEW r, NEW f, Post(s, r, f) PROVE NoMissedMail'
    BY <2>2 DEF Post
  <2>3. ASSUME NEW v \in VMs, CheckDms(v) \/ MailArrives(v) PROVE NoMissedMail'
    BY <2>t, <2>3 DEF CheckDms, MailArrives, Pop
  <2>4. ASSUME NEW v \in VMs, NEW d \in BOOLEAN, WaitForDms(v, d) \/ Finish(v, d)
        PROVE NoMissedMail'
    BY <2>4 DEF WaitForDms, Finish
  <2>5. ASSUME NEW v \in VMs, CollectJoin(v) \/ Settle(v) \/ Release(v) PROVE NoMissedMail'
    BY <2>t, <2>5 DEF CollectJoin, JoinThread, Settle, Release
  <2>6. ASSUME NEW v \in VMs, MailTimesOut(v) \/ MailNotYet(v) \/ MailKeepWaiting(v)
                              \/ MailLeftOnRead(v) \/ MailSleep(v) \/ MailWake(v)
        PROVE NoMissedMail'
    BY <2>6 DEF MailTimesOut, MailNotYet, MailKeepWaiting, MailLeftOnRead, MailSleep, MailWake
  <2>7. ASSUME NEW v \in VMs, TeardownPick(v) \/ TeardownJoin(v) \/ Forget(v) \/ VmTeardown(v)
        PROVE NoMissedMail'
    BY <2>t, <2>7 DEF TeardownPick, TeardownJoin, JoinThread, Forget, VmTeardown
  <2>8. ASSUME NEW i \in Workers, Announce(i) PROVE NoMissedMail'
    BY <2>8 DEF Announce
  <2>9. ASSUME NEW i \in Workers, NEW x \in Vals, Deliver(i, x) PROVE NoMissedMail'
    BY <2>9 DEF Deliver
  <2>10. ASSUME Shutdown \/ UNCHANGED vars PROVE NoMissedMail'
    BY <2>10 DEF Shutdown, vars
  <2>11. ASSUME NEW v, NEW k, DmIntern(v, k) \/ DmBoss(k) PROVE NoMissedMail'
    BY <2>2, <2>11 DEF DmIntern, DmBoss
  <2> HIDE DEF NoMissedMail
  <2>12. QED
    BY Steps, <2>1, <2>3, <2>4, <2>5, <2>6, <2>7, <2>8, <2>9, <2>10, <2>11
<1>3. QED
  BY <1>1, <1>2, Inductive, PTL DEF Spec

-----------------------------------------------------------------------------
(* The end of the process. A worker is hired after the VM that hired it,   *)
(* so the first entry of a registry that is not empty belongs to the main  *)
(* VM: when that VM is dead there is no entry left.                        *)

\* A set of numbers that is not empty has a least one.
LEMMA FirstHired ==
  ASSUME NEW T \in SUBSET Nat, T # {}
  PROVE  \E i \in T : \A j \in T : i <= j
<1>1. PICK i \in T : \A j \in T : ~ (<<j, i>> \in OpToRel(<, Nat))
  BY NatLessThanWellFounded, WFMin, Zenon
<1>2. \A j \in T : ~ (j < i)
  BY <1>1, Zenon DEF OpToRel
<1>3. QED
  BY <1>2

\* Structs are handed out in order, and a worker's comes after its owner's.
Generations ==
  /\ \A i, j \in Workers : i < j /\ intern[j].owner # None => intern[i].owner # None
  /\ \A i \in Workers : intern[i].owner \in Workers => intern[i].owner < i

\* The number and the owner of a struct are written by m_hire only.
LEMMA OwnersStay ==
  ASSUME IInv, [Next]_vars, NEW i \in Workers
  PROVE  \/ UNCHANGED <<intern[i].owner, intern[i].id>>
         \/ \E v \in VMs : Hire(v, i) \/ HireFails(v, i)
<1>t. /\ intern \in [Workers -> Intern] /\ registry \subseteq Workers
      /\ target \in [VMs -> Workers \cup {None}] /\ pc \in [VMs -> ProgramPCs \cup TeardownPCs \cup {"none", "exited", "dead", "gone"}]
  BY DEF IInv, TypeOK
<1> DEFINE Stays == UNCHANGED <<intern[i].owner, intern[i].id>>
<1> USE <1>t, Names DEF Goto, mailVars
<1>1. ASSUME NEW v \in VMs, NEW j \in Workers, Hire(v, j) \/ HireFails(v, j), i # j
      PROVE  Stays
  BY <1>1 DEF Hire, HireFails
<1>2. ASSUME NEW v \in VMs, NEW j \in Workers, WaitUp(v, j) PROVE Stays
  BY <1>2 DEF WaitUp
<1>3. ASSUME NEW s, NEW r, NEW f, Post(s, r, f) PROVE Stays
  BY <1>3 DEF Post
<1>4. ASSUME NEW v \in VMs, CheckDms(v) \/ MailArrives(v) PROVE Stays
  BY <1>4 DEF CheckDms, MailArrives
<1>5. ASSUME NEW v \in VMs, NEW d \in BOOLEAN, WaitForDms(v, d) PROVE Stays
  BY <1>5 DEF WaitForDms
<1>6. ASSUME NEW v \in VMs, NEW d \in BOOLEAN, Finish(v, d) PROVE Stays
  <2>1. CASE v = Main
    BY <1>6, <2>1 DEF Finish
  <2>2. CASE v # Main
    <3>1. v \in Workers /\ intern' = [intern EXCEPT ![v] = [intern[v] EXCEPT !.failed = d]]
      BY <1>6, <2>2 DEF Finish
    <3>2. QED
      BY <3>1 DEF Intern
  <2>3. QED
    BY <2>1, <2>2
<1>7. ASSUME NEW v \in VMs, CollectJoin(v) \/ TeardownJoin(v) PROVE Stays
  <2>1. intern' = [intern EXCEPT ![target[v]] = [intern[target[v]] EXCEPT !.joined = TRUE]]
    BY <1>7 DEF CollectJoin, TeardownJoin, JoinThread
  <2>2. QED
    BY <2>1 DEF Intern
<1>8. ASSUME NEW v \in VMs, Settle(v) \/ TeardownPick(v) \/ Forget(v) \/ VmTeardown(v) PROVE Stays
  BY <1>8 DEF Settle, TeardownPick, Forget, VmTeardown
<1>9. ASSUME NEW v \in VMs, Release(v) PROVE Stays
  BY <1>9 DEF Release, Intern
<1>10. ASSUME NEW v \in VMs, MailTimesOut(v) \/ MailNotYet(v) \/ MailKeepWaiting(v)
                             \/ MailLeftOnRead(v) \/ MailSleep(v) \/ MailWake(v)
       PROVE Stays
  BY <1>10 DEF MailTimesOut, MailNotYet, MailKeepWaiting, MailLeftOnRead, MailSleep, MailWake
<1>11. ASSUME NEW j \in Workers, NEW x \in Vals, Deliver(j, x) PROVE Stays
  <2>1. intern' = [intern EXCEPT ![j] = [intern[j] EXCEPT !.result = x]]
    BY <1>11 DEF Deliver
  <2>2. QED
    BY <2>1 DEF Intern
<1>12. ASSUME NEW j \in Workers, Announce(j) PROVE Stays
  <2>1. intern' = [intern EXCEPT ![j] = [intern[j] EXCEPT !.done = TRUE]]
    BY <1>12 DEF Announce
  <2>2. QED
    BY <2>1 DEF Intern
<1>13. ASSUME Shutdown \/ UNCHANGED vars PROVE Stays
  BY <1>13 DEF Shutdown, vars
<1>14. ASSUME NEW v, NEW k, DmIntern(v, k) \/ DmBoss(k) PROVE Stays
  BY <1>3, <1>14 DEF DmIntern, DmBoss
<1> HIDE DEF Stays
<1>15. CASE Next
  <2>1. CASE \E v \in VMs, j \in Workers : Hire(v, j) \/ HireFails(v, j)
    BY <1>1, <2>1 DEF Stays
  <2>2. CASE ~ \E v \in VMs, j \in Workers : Hire(v, j) \/ HireFails(v, j)
    <3>1. Stays
      BY <1>15, <2>2, Steps, <1>2, <1>4, <1>5, <1>6, <1>7, <1>8, <1>9, <1>10, <1>11, <1>12,
         <1>13, <1>14
    <3>2. QED
      BY <3>1 DEF Stays
  <2>3. QED
    BY <2>1, <2>2
<1>16. QED
  BY <1>13, <1>15 DEF Stays

\* A struct that a VM starts is the first that nobody has.
LEMMA HiredNext ==
  ASSUME IInv, NEW v \in VMs, NEW i \in Workers, Hire(v, i) \/ HireFails(v, i)
  PROVE  /\ pc[v] = "run" /\ v # i /\ intern'[i].owner = v
         /\ intern[i].owner = None /\ intern'[i].id \in Workers
         /\ intern' = [intern EXCEPT ![i] = intern'[i]]
         /\ \A j \in Workers : j < i => intern[j].owner # None
         /\ v \in Workers => intern[v].owner # None
<1>1. PICK k \in Workers :
        \/ intern' = [intern EXCEPT ![i] = [BlankIntern EXCEPT !.owner = v, !.id = k, !.spawned = TRUE]]
        \/ intern' = [intern EXCEPT ![i] = [BlankIntern EXCEPT !.owner = v, !.id = k, !.retired = TRUE]]
  BY DEF Hire, HireFails
<1>2. intern \in [Workers -> Intern]
  BY DEF IInv, TypeOK
<1>3. /\ intern'[i].owner = v /\ intern'[i].id = k
      /\ intern' = [intern EXCEPT ![i] = intern'[i]]
  BY <1>1, <1>2 DEF BlankIntern
<1>4. pc[v] = "run" /\ IsFresh(i)
  BY DEF Hire, HireFails
<1>5. QED
  BY <1>3, <1>4, Names DEF IsFresh, IInv, Unhired

\* m_hire starts the next struct, for a VM that has one already or the main VM.
LEMMA GenerationStep ==
  ASSUME IInv, Generations, [Next]_vars
  PROVE  Generations'
<1>1. CASE \E v \in VMs, i \in Workers : Hire(v, i) \/ HireFails(v, i)
  <2>1. PICK v \in VMs, i \in Workers : Hire(v, i) \/ HireFails(v, i)
    BY <1>1
  <2>2. /\ v # i /\ intern'[i].owner = v /\ intern[i].owner = None
        /\ intern' = [intern EXCEPT ![i] = intern'[i]]
        /\ \A j \in Workers : j < i => intern[j].owner # None
        /\ v \in Workers => intern[v].owner # None
    BY <2>1, HiredNext
  <2>3. intern \in [Workers -> Intern]
    BY DEF IInv, TypeOK
  <2>4. \A j \in Workers : j # i => intern'[j] = intern[j]
    BY <2>2, <2>3
  <2>5. v \in Workers => v < i
    BY <2>2, InternsAssumption DEF Generations, Workers
  <2>6. QED
    BY <2>2, <2>4, <2>5, Names DEF Generations
<1>2. CASE ~ \E v \in VMs, i \in Workers : Hire(v, i) \/ HireFails(v, i)
  <2>1. \A i \in Workers : intern'[i].owner = intern[i].owner
    BY <1>2, OwnersStay
  <2>2. QED
    BY <2>1 DEF Generations
<1>3. QED
  BY <1>1, <1>2

\* Every VM descends from the main one.
THEOREM Descent == Spec => []Generations
<1>1. Init => Generations
  BY Names DEF Init, BlankIntern, Generations
<1>2. IInv /\ Generations /\ [Next]_vars => Generations'
  BY GenerationStep
<1>3. QED
  BY <1>1, <1>2, Inductive, PTL DEF Spec

\* Interns!NothingLeft: when the main VM is gone (interns_vm_teardown), every
\* thread has exited and every struct and mailbox was freed: interns_shutdown
\* finds nothing to join.
THEOREM TeardownLeavesNothing == Spec => []NothingLeft
<1>1. IInv /\ Generations => NothingLeft
  <2> SUFFICES ASSUME IInv, Generations, pc[Main] = "dead"
               PROVE  registry = {} /\ open = {} /\ \A i \in Workers : ~Alive(i)
    BY DEF NothingLeft
  <2>1. ~Serving(Main) /\ registry \subseteq Workers
    BY DEF IInv, TypeOK, Serving, ProgramPCs
  <2>2. ASSUME NEW i \in registry PROVE \E j \in registry : j < i
    <3>1. intern[i].owner \in VMs /\ Serving(intern[i].owner) /\ intern[i].owner # Main
      BY <2>1 DEF IInv, Registered
    <3>2. intern[i].owner \in Workers /\ Alive(intern[i].owner)
      BY <3>1, Names DEF Serving, Alive, TeardownPCs
    <3>3. intern[i].owner \in registry
      BY <3>2 DEF IInv, Running
    <3>4. intern[i].owner < i
      BY <2>1, <3>2 DEF Generations
    <3>5. QED
      BY <3>3, <3>4
  <2>3. registry = {}
    <3>1. registry \in SUBSET Nat
      BY <2>1 DEF Workers
    <3>2. SUFFICES ASSUME registry # {} PROVE FALSE
      OBVIOUS
    <3>3. PICK i \in registry : \A j \in registry : i <= j
      BY <3>1, <3>2, FirstHired
    <3>4. QED
      BY <2>2, <3>1, <3>3
  <2>4. Main \notin inbox
    BY <2>1, Names DEF IInv, Boxes
  <2>5. QED
    BY <2>3, <2>4, Names DEF IInv, TypeOK, Boxes, Running
<1>2. QED
  BY <1>1, Inductive, Descent, PTL

-----------------------------------------------------------------------------
(* What mailboxes hold. Everything a sender posted that was not popped is  *)
(* there, in the order it was posted.                                      *)

\* The messages of one sender rise.
Rising(b) ==
  \A j, k \in DOMAIN b : j < k /\ b[j].by = b[k].by => b[j].n < b[k].n

\* b holds what s posted, p messages, less the t that were taken.
HoldsRest(b, s, t, p) ==
  /\ t <= p
  /\ \A k \in DOMAIN b : b[k].by = s => b[k].n \in t + 1 .. p
  /\ \A n \in t + 1 .. p : \E k \in DOMAIN b : b[k].by = s /\ b[k].n = n

\* A sequence after a push.
LEMMA Pushed ==
  ASSUME NEW b \in Seq(Dm), NEW d \in Dm
  PROVE  \E b2 \in Seq(Dm) :
           /\ b2 = Append(b, d) /\ Len(b) \in Nat
           /\ DOMAIN b = 1 .. Len(b) /\ DOMAIN b2 = 1 .. (Len(b) + 1)
           /\ b2[Len(b) + 1] = d /\ \A k \in 1 .. Len(b) : b2[k] = b[k]
<1>1. Append(b, d) \in Seq(Dm)
  OBVIOUS
<1>2. /\ Len(b) \in Nat /\ DOMAIN b = 1 .. Len(b) /\ DOMAIN Append(b, d) = 1 .. (Len(b) + 1)
      /\ Append(b, d)[Len(b) + 1] = d /\ \A k \in 1 .. Len(b) : Append(b, d)[k] = b[k]
  OBVIOUS
<1>3. QED
  BY <1>1, <1>2

\* A sequence after a pop.
LEMMA Popped ==
  ASSUME NEW b \in Seq(Dm), b # <<>>
  PROVE  \E b2 \in Seq(Dm) :
           /\ b2 = Tail(b) /\ Len(b) \in Nat \ {0} /\ Head(b) = b[1]
           /\ DOMAIN b = 1 .. Len(b) /\ DOMAIN b2 = 1 .. (Len(b) - 1)
           /\ \A k \in 1 .. (Len(b) - 1) : b2[k] = b[k + 1]
<1>1. Tail(b) \in Seq(Dm)
  OBVIOUS
<1>2. /\ Len(b) \in Nat \ {0} /\ Head(b) = b[1]
      /\ DOMAIN b = 1 .. Len(b) /\ DOMAIN Tail(b) = 1 .. (Len(b) - 1)
      /\ \A k \in 1 .. (Len(b) - 1) : Tail(b)[k] = b[k + 1]
  OBVIOUS
<1>3. QED
  BY <1>1, <1>2

\* The sender's next message goes behind the others.
LEMMA PushKeeps ==
  ASSUME NEW b \in Seq(Dm), NEW d \in Dm, NEW s \in VMs, NEW t \in Nat, NEW p \in Nat,
         d.by = s, d.n = p + 1, Rising(b), HoldsRest(b, s, t, p)
  PROVE  /\ Rising(Append(b, d)) /\ HoldsRest(Append(b, d), s, t, p + 1)
         /\ \A w \in VMs, u, q \in Nat :
              w # s /\ HoldsRest(b, w, u, q) => HoldsRest(Append(b, d), w, u, q)
<1>1. PICK c \in Seq(Dm) :
           /\ c = Append(b, d) /\ Len(b) \in Nat
           /\ DOMAIN b = 1 .. Len(b) /\ DOMAIN c = 1 .. (Len(b) + 1)
           /\ c[Len(b) + 1] = d /\ \A k \in 1 .. Len(b) : c[k] = b[k]
  BY Pushed
<1>2. PICK m \in Nat : /\ DOMAIN b = 1 .. m /\ DOMAIN c = 1 .. (m + 1)
                       /\ c[m + 1] = d /\ \A k \in 1 .. m : c[k] = b[k]
  BY <1>1
<1>3. \A k \in 1 .. m : b[k].n \in Nat
  <2>1. \A k \in DOMAIN b : b[k] \in Dm
    OBVIOUS
  <2>2. \A x \in Dm : x.n \in Nat
    BY DEF Dm
  <2>3. QED
    BY <1>2, <2>1, <2>2, Zenon
<1>r. /\ t <= p
      /\ \A k \in 1 .. m : b[k].by = s => b[k].n \in t + 1 .. p
      /\ \A n \in t + 1 .. p : \E k \in 1 .. m : b[k].by = s /\ b[k].n = n
      /\ \A j, k \in 1 .. m : j < k /\ b[j].by = b[k].by => b[j].n < b[k].n
  BY <1>2, Zenon DEF HoldsRest, Rising
<1>4. Rising(c)
  <2>1. \A j, k \in 1 .. m : j < k /\ b[j].by = b[k].by => b[j].n < b[k].n
    BY <1>r
  <2>2. \A j \in 1 .. m : b[j].by = s => b[j].n < p + 1
    BY <1>3, <1>r
  <2>3. SUFFICES ASSUME NEW j \in 1 .. (m + 1), NEW k \in 1 .. (m + 1), j < k, c[j].by = c[k].by
                 PROVE  c[j].n < c[k].n
    BY <1>2, Zenon DEF Rising
  <2>4. CASE k = m + 1
    BY <1>2, <2>2, <2>3, <2>4
  <2>5. CASE k # m + 1
    BY <1>2, <2>1, <2>3, <2>5
  <2>6. QED
    BY <2>4, <2>5
<1>5. HoldsRest(c, s, t, p + 1)
  <2>1. t <= p + 1
    BY <1>r
  <2>2. ASSUME NEW k \in 1 .. (m + 1), c[k].by = s PROVE c[k].n \in t + 1 .. p + 1
    BY <1>2, <1>r, <2>2
  <2>3. ASSUME NEW n \in t + 1 .. p + 1 PROVE \E k \in 1 .. (m + 1) : c[k].by = s /\ c[k].n = n
    <3>1. CASE n = p + 1
      BY <1>2, <3>1
    <3>2. CASE n # p + 1
      <4>1. PICK k \in 1 .. m : b[k].by = s /\ b[k].n = n
        BY <1>r, <3>2
      <4>2. QED
        BY <1>2, <4>1
    <3>3. QED
      BY <3>1, <3>2
  <2>4. QED
    BY <1>2, <2>1, <2>2, <2>3, Zenon DEF HoldsRest
<1>6. ASSUME NEW w \in VMs, NEW u \in Nat, NEW q \in Nat, w # s, HoldsRest(b, w, u, q)
      PROVE  HoldsRest(c, w, u, q)
  <2>r. /\ \A k \in 1 .. m : b[k].by = w => b[k].n \in u + 1 .. q
        /\ \A n \in u + 1 .. q : \E k \in 1 .. m : b[k].by = w /\ b[k].n = n
        /\ u <= q
    BY <1>2, <1>6, Zenon DEF HoldsRest
  <2>1. ASSUME NEW k \in 1 .. (m + 1), c[k].by = w PROVE c[k].n \in u + 1 .. q
    BY <1>2, <1>6, <2>1, <2>r
  <2>2. ASSUME NEW n \in u + 1 .. q PROVE \E k \in 1 .. (m + 1) : c[k].by = w /\ c[k].n = n
    <3>1. PICK k \in 1 .. m : b[k].by = w /\ b[k].n = n
      BY <2>r
    <3>2. QED
      BY <1>2, <3>1
  <2>3. QED
    BY <1>2, <2>r, <2>1, <2>2, Zenon DEF HoldsRest
<1>7. QED
  BY <1>1, <1>4, <1>5, <1>6

\* The first message is the next one of its sender.
LEMMA PopKeeps ==
  ASSUME NEW b \in Seq(Dm), b # <<>>, NEW s \in VMs, NEW t \in Nat, NEW p \in Nat,
         Head(b).by = s, Rising(b), HoldsRest(b, s, t, p)
  PROVE  /\ Rising(Tail(b)) /\ HoldsRest(Tail(b), s, t + 1, p)
         /\ \A w \in VMs, u, q \in Nat :
              w # s /\ HoldsRest(b, w, u, q) => HoldsRest(Tail(b), w, u, q)
<1>1. PICK c \in Seq(Dm) :
           /\ c = Tail(b) /\ Len(b) \in Nat \ {0} /\ Head(b) = b[1]
           /\ DOMAIN b = 1 .. Len(b) /\ DOMAIN c = 1 .. (Len(b) - 1)
           /\ \A k \in 1 .. (Len(b) - 1) : c[k] = b[k + 1]
  BY Popped
<1>2. PICK m \in Nat \ {0} : /\ DOMAIN b = 1 .. m /\ DOMAIN c = 1 .. (m - 1)
                             /\ b[1].by = s /\ \A k \in 1 .. (m - 1) : c[k] = b[k + 1]
  BY <1>1
<1>3. \A k \in 1 .. m : b[k].n \in Nat
  <2>1. \A k \in DOMAIN b : b[k] \in Dm
    OBVIOUS
  <2>2. \A x \in Dm : x.n \in Nat
    BY DEF Dm
  <2>3. QED
    BY <1>2, <2>1, <2>2, Zenon
<1>r. /\ t <= p
      /\ \A k \in 1 .. m : b[k].by = s => b[k].n \in t + 1 .. p
      /\ \A n \in t + 1 .. p : \E k \in 1 .. m : b[k].by = s /\ b[k].n = n
      /\ \A j, k \in 1 .. m : j < k /\ b[j].by = b[k].by => b[j].n < b[k].n
  BY <1>2, Zenon DEF HoldsRest, Rising
<1>4. \A j, k \in 1 .. m : j < k /\ b[j].by = b[k].by => b[j].n < b[k].n
  BY <1>r
<1>5. Rising(c)
  <2>1. SUFFICES ASSUME NEW j \in 1 .. (m - 1), NEW k \in 1 .. (m - 1), j < k, c[j].by = c[k].by
                 PROVE  c[j].n < c[k].n
    BY <1>2, Zenon DEF Rising
  <2>2. j + 1 \in 1 .. m /\ k + 1 \in 1 .. m /\ j + 1 < k + 1 /\ c[j] = b[j + 1] /\ c[k] = b[k + 1]
    BY <1>2, <2>1
  <2>3. QED
    BY <1>4, <2>1, <2>2
<1>6. b[1].n = t + 1 /\ t + 1 <= p
  <2>1. b[1].n \in t + 1 .. p
    BY <1>2, <1>r
  <2>a. t + 1 \in t + 1 .. p
    BY <2>1
  <2>2. PICK k \in 1 .. m : b[k].by = s /\ b[k].n = t + 1
    BY <1>r, <2>a, Zenon
  <2>3. ASSUME k # 1 PROVE b[1].n < b[k].n
    <3>1. 1 \in 1 .. m /\ 1 < k
      BY <2>3
    <3>2. b[1].by = b[k].by
      BY <1>2, <2>2
    <3>3. QED
      BY <1>4, <3>1, <3>2
  <2>4. k = 1
    BY <1>3, <2>1, <2>2, <2>3
  <2>5. QED
    BY <2>1, <2>2, <2>4
<1>7. HoldsRest(c, s, t + 1, p)
  <2>1. ASSUME NEW k \in 1 .. (m - 1), c[k].by = s PROVE c[k].n \in (t + 1) + 1 .. p
    <3>1. k + 1 \in 1 .. m /\ 1 < k + 1 /\ c[k] = b[k + 1]
      BY <1>2
    <3>2. b[1].n < b[k + 1].n
      BY <1>2, <1>4, <2>1, <3>1
    <3>3. b[k + 1].n \in t + 1 .. p
      BY <1>r, <2>1, <3>1
    <3>4. QED
      BY <1>6, <3>1, <3>2, <3>3
  <2>2. ASSUME NEW n \in (t + 1) + 1 .. p PROVE \E k \in 1 .. (m - 1) : c[k].by = s /\ c[k].n = n
    <3>a. n \in t + 1 .. p
      OBVIOUS
    <3>1. PICK k \in 1 .. m : b[k].by = s /\ b[k].n = n
      BY <1>r, <3>a, Zenon
    <3>2. k # 1
      BY <1>6, <3>1
    <3>3. k - 1 \in 1 .. (m - 1) /\ c[k - 1] = b[k]
      BY <1>2, <3>2
    <3>4. QED
      BY <3>1, <3>3
  <2>3. QED
    BY <1>2, <1>6, <2>1, <2>2, Zenon DEF HoldsRest
<1>8. ASSUME NEW w \in VMs, NEW u \in Nat, NEW q \in Nat, w # s, HoldsRest(b, w, u, q)
      PROVE  HoldsRest(c, w, u, q)
  <2>r. /\ \A k \in 1 .. m : b[k].by = w => b[k].n \in u + 1 .. q
        /\ \A n \in u + 1 .. q : \E k \in 1 .. m : b[k].by = w /\ b[k].n = n
        /\ u <= q
    BY <1>2, <1>8, Zenon DEF HoldsRest
  <2>1. ASSUME NEW k \in 1 .. (m - 1), c[k].by = w PROVE c[k].n \in u + 1 .. q
    <3>1. k + 1 \in 1 .. m /\ c[k] = b[k + 1]
      BY <1>2
    <3>2. QED
      BY <2>r, <2>1, <3>1
  <2>2. ASSUME NEW n \in u + 1 .. q PROVE \E k \in 1 .. (m - 1) : c[k].by = w /\ c[k].n = n
    <3>1. PICK k \in 1 .. m : b[k].by = w /\ b[k].n = n
      BY <2>r
    <3>2. k # 1
      BY <1>2, <1>8, <3>1
    <3>3. k - 1 \in 1 .. (m - 1) /\ c[k - 1] = b[k]
      BY <1>2, <3>2
    <3>4. QED
      BY <3>1, <3>3
  <2>3. QED
    BY <1>2, <2>r, <2>1, <2>2, Zenon DEF HoldsRest
<1>9. QED
  BY <1>1, <1>5, <1>7, <1>8

\* Nobody has written to the mailbox of a struct that was not hired yet.
Untouched(r) ==
  box[r] = <<>> /\ \A s \in VMs : posted[<<s, r>>] = 0 /\ taken[<<s, r>>] = 0

\* One mailbox's part of FifoOnce.
InOrder(r) ==
  Rising(box[r]) /\ \A s \in VMs : HoldsRest(box[r], s, taken[<<s, r>>], posted[<<s, r>>])

FInv ==
  /\ \A r \in open : InOrder(r)
  /\ \A r \in Workers : intern[r].owner = None => Untouched(r)

\* A mailbox that nobody writes to or reads stays as it is.
LEMMA QuietMailbox ==
  ASSUME NEW r, UNCHANGED <<box[r], posted, taken>>
  PROVE  (InOrder(r) => InOrder(r)') /\ (Untouched(r) => Untouched(r)')
  BY DEF InOrder, Untouched

\* The mailbox of a new intern is in order.
LEMMA NewMailbox ==
  ASSUME NEW r, Untouched(r)
  PROVE  InOrder(r)
<1>1. box[r] = <<>>
  BY DEF Untouched
<1>2. \A s \in VMs : posted[<<s, r>>] = 0 /\ taken[<<s, r>>] = 0
  BY DEF Untouched
<1>3. Rising(<<>>) /\ \A s \in VMs : HoldsRest(<<>>, s, 0, 0)
  BY DEF Rising, HoldsRest
<1>4. QED
  BY <1>1, <1>2, <1>3 DEF InOrder

\* What a step that leaves other mailboxes alone has to keep.
LEMMA OneMailbox ==
  ASSUME FInv, IInv, NEW v \in VMs, InOrder(v) => InOrder(v)',
         v \in Workers => intern[v].owner # None,
         open' \subseteq open,
         \A i \in Workers : intern'[i].owner = intern[i].owner,
         \A r \in VMs : r # v => /\ box'[r] = box[r]
                                 /\ \A s \in VMs : /\ posted'[<<s, r>>] = posted[<<s, r>>]
                                                   /\ taken'[<<s, r>>] = taken[<<s, r>>]
  PROVE  FInv'
<1>1. ASSUME NEW r \in VMs, r # v
      PROVE  (InOrder(r) => InOrder(r)') /\ (Untouched(r) => Untouched(r)')
  BY <1>1 DEF InOrder, Untouched
<1>2. open \subseteq VMs
  BY DEF IInv, TypeOK
<1>3. QED
  BY <1>1, <1>2, Names DEF FInv

\* m_dm's push puts the sender's next number behind all it has posted.
LEMMA PostInOrder ==
  ASSUME IInv, FInv, NEW s \in VMs, NEW r \in VMs, NEW f \in {0} \cup Workers, Post(s, r, f),
         r \in Workers => intern[r].owner # None
  PROVE  FInv'
<1> DEFINE m == [from |-> f, by |-> s, n |-> posted[<<s, r>>] + 1]
<1>t. /\ box \in [VMs -> Seq(Dm)] /\ posted \in [VMs \X VMs -> Nat] /\ taken \in [VMs \X VMs -> Nat]
  BY DEF IInv, TypeOK
<1>1. /\ box' = [box EXCEPT ![r] = Append(box[r], m)] /\ taken' = taken
      /\ posted' = [posted EXCEPT ![<<s, r>>] = posted[<<s, r>>] + 1]
      /\ UNCHANGED <<open, intern>>
  BY DEF Post
<1>2. m \in Dm /\ m.by = s /\ m.n = posted[<<s, r>>] + 1 /\ posted[<<s, r>>] \in Nat
  BY <1>t DEF Dm
<1> HIDE DEF m
<1>3. /\ box'[r] = Append(box[r], m) /\ posted'[<<s, r>>] = posted[<<s, r>>] + 1
      /\ \A w \in VMs : w # s => posted'[<<w, r>>] = posted[<<w, r>>]
      /\ \A x \in VMs : x # r => /\ box'[x] = box[x]
                                 /\ \A w \in VMs : posted'[<<w, x>>] = posted[<<w, x>>]
  BY <1>t, <1>1
<1>4. ASSUME InOrder(r) PROVE InOrder(r)'
  <2>1. /\ Rising(box[r]) /\ HoldsRest(box[r], s, taken[<<s, r>>], posted[<<s, r>>])
        /\ \A w \in VMs : HoldsRest(box[r], w, taken[<<w, r>>], posted[<<w, r>>])
        /\ box[r] \in Seq(Dm) /\ taken[<<s, r>>] \in Nat
        /\ \A w \in VMs : taken[<<w, r>>] \in Nat /\ posted[<<w, r>>] \in Nat
    BY <1>t, <1>4 DEF InOrder
  <2>2. /\ Rising(Append(box[r], m))
        /\ HoldsRest(Append(box[r], m), s, taken[<<s, r>>], posted[<<s, r>>] + 1)
        /\ \A w \in VMs, u, q \in Nat :
             w # s /\ HoldsRest(box[r], w, u, q) => HoldsRest(Append(box[r], m), w, u, q)
    BY <1>2, <2>1, PushKeeps
  <2>3. QED
    BY <1>1, <1>3, <2>1, <2>2, Zenon DEF InOrder
<1>5. QED
  BY <1>1, <1>3, <1>4, OneMailbox

\* mailbox_pop takes the next message of its sender.
LEMMA PopInOrder ==
  ASSUME IInv, FInv, NEW v \in VMs, Pop(v), v \in open, UNCHANGED <<intern, open, posted>>
  PROVE  FInv'
<1>t. /\ box \in [VMs -> Seq(Dm)] /\ posted \in [VMs \X VMs -> Nat] /\ taken \in [VMs \X VMs -> Nat]
  BY DEF IInv, TypeOK
<1>1. PICK s \in VMs : s = Head(box[v]).by
  <2>1. Head(box[v]) \in Dm
    BY <1>t DEF Pop
  <2>2. QED
    BY <2>1 DEF Dm
<1>2. /\ box[v] # <<>> /\ box' = [box EXCEPT ![v] = Tail(box[v])]
      /\ taken' = [taken EXCEPT ![<<s, v>>] = taken[<<s, v>>] + 1]
  BY <1>1 DEF Pop
<1>3. /\ box'[v] = Tail(box[v]) /\ taken'[<<s, v>>] = taken[<<s, v>>] + 1
      /\ \A w \in VMs : w # s => taken'[<<w, v>>] = taken[<<w, v>>]
      /\ \A x \in VMs : x # v => /\ box'[x] = box[x]
                                 /\ \A w \in VMs : taken'[<<w, x>>] = taken[<<w, x>>]
  BY <1>t, <1>2
<1>4. ASSUME InOrder(v) PROVE InOrder(v)'
  <2>1. /\ Rising(box[v]) /\ HoldsRest(box[v], s, taken[<<s, v>>], posted[<<s, v>>])
        /\ \A w \in VMs : HoldsRest(box[v], w, taken[<<w, v>>], posted[<<w, v>>])
        /\ box[v] \in Seq(Dm) /\ taken[<<s, v>>] \in Nat /\ posted[<<s, v>>] \in Nat
        /\ \A w \in VMs : taken[<<w, v>>] \in Nat /\ posted[<<w, v>>] \in Nat
    BY <1>t, <1>4 DEF InOrder
  <2>2. /\ Rising(Tail(box[v]))
        /\ HoldsRest(Tail(box[v]), s, taken[<<s, v>>] + 1, posted[<<s, v>>])
        /\ \A w \in VMs, u, q \in Nat :
             w # s /\ HoldsRest(box[v], w, u, q) => HoldsRest(Tail(box[v]), w, u, q)
    BY <1>1, <1>2, <2>1, PopKeeps
  <2>3. QED
    BY <1>3, <2>1, <2>2, Zenon DEF InOrder
<1>5. v \in Workers => intern[v].owner # None
  BY Names DEF IInv, Unhired, Boxes
<1>6. QED
  BY <1>3, <1>4, <1>5, OneMailbox

\* A message goes to an intern from the VM that hired it, or from an intern to
\* that VM, which has a number for it.
Sends(s, r, f) ==
  /\ Post(s, r, f)
  /\ \/ r \in registry /\ intern[r].owner = s /\ f = 0
     \/ s \in Workers /\ r = intern[s].owner /\ r \in inbox /\ f = intern[s].id

\* Every mailbox is left alone or freed.
QuietMail ==
  /\ open' \subseteq open /\ UNCHANGED <<posted, taken>>
  /\ \A r \in VMs : box'[r] = box[r] \/ (r \notin open' /\ box'[r] = <<>>)

\* What a step does to the mailboxes.
LEMMA MailSteps ==
  ASSUME IInv, [Next]_vars
  PROVE  \/ \E v \in VMs, i \in Workers : Hire(v, i) \/ HireFails(v, i)
         \/ \E s \in VMs, r \in VMs, f \in {0} \cup Workers : Sends(s, r, f)
         \/ \E v \in inbox : Pop(v) /\ UNCHANGED <<intern, open, posted>>
         \/ QuietMail
<1>t. /\ intern \in [Workers -> Intern] /\ registry \subseteq Workers /\ open \subseteq VMs
      /\ pc \in [VMs -> ProgramPCs \cup TeardownPCs \cup {"none", "exited", "dead", "gone"}]
      /\ inbox \subseteq VMs /\ box \in [VMs -> Seq(Dm)]
  BY DEF IInv, TypeOK
<1>p. ASSUME NEW v \in VMs, NEW k \in Workers, DmIntern(v, k)
      PROVE  \E s \in VMs, r \in VMs, f \in {0} \cup Workers : Sends(s, r, f)
  <2>1. PICK i \in registry : intern[i].owner = v /\ Post(v, i, 0)
    BY <1>p DEF DmIntern, InternAt, Owned
  <2>2. i \in VMs
    BY <1>t, Names
  <2>3. Sends(v, i, 0)
    BY <2>1 DEF Sends
  <2>4. QED
    BY <2>2, <2>3
<1>b. ASSUME NEW k \in Workers, DmBoss(k)
      PROVE  \E s \in VMs, r \in VMs, f \in {0} \cup Workers : Sends(s, r, f)
  <2>1. /\ intern[k].id \in {0} \cup Workers /\ intern[k].owner \in VMs /\ k \in VMs
        /\ Sends(k, intern[k].owner, intern[k].id)
    BY <1>t, <1>b, Names DEF DmBoss, ReplyId, Intern, Sends
  <2>2. QED
    BY <2>1
<1>r. ASSUME NEW v \in VMs, CheckDms(v) \/ MailArrives(v)
      PROVE  \E w \in inbox : Pop(w) /\ UNCHANGED <<intern, open, posted>>
  BY <1>r DEF CheckDms, MailArrives, Goto, IInv, Boxes, Serving, ProgramPCs
<1> USE <1>t, Names DEF mailVars, QuietMail
<1>1. ASSUME NEW v \in VMs, NEW i \in Workers, WaitUp(v, i) PROVE QuietMail
  BY <1>1 DEF WaitUp
<1>2. ASSUME NEW v \in VMs, NEW d \in BOOLEAN, WaitForDms(v, d) \/ Finish(v, d) PROVE QuietMail
  BY <1>2 DEF WaitForDms, Finish
<1>3. ASSUME NEW v \in VMs, CollectJoin(v) \/ Settle(v) PROVE QuietMail
  BY <1>3 DEF CollectJoin, JoinThread, Settle
<1>4. ASSUME NEW v \in VMs, Release(v) PROVE QuietMail
  BY <1>4 DEF Release
<1>5. ASSUME NEW v \in VMs, MailTimesOut(v) \/ MailNotYet(v) \/ MailKeepWaiting(v)
                             \/ MailLeftOnRead(v) \/ MailSleep(v) \/ MailWake(v)
      PROVE QuietMail
  BY <1>5 DEF MailTimesOut, MailNotYet, MailKeepWaiting, MailLeftOnRead, MailSleep, MailWake
<1>6. ASSUME NEW v \in VMs, TeardownPick(v) \/ TeardownJoin(v) PROVE QuietMail
  BY <1>6 DEF TeardownPick, TeardownJoin, JoinThread
<1>7. ASSUME NEW v \in VMs, Forget(v) PROVE QuietMail
  BY <1>7 DEF Forget, Forgotten, Owned
<1>8. ASSUME NEW v \in VMs, VmTeardown(v) PROVE QuietMail
  BY <1>8 DEF VmTeardown
<1>9. ASSUME NEW i \in Workers, Announce(i) PROVE QuietMail
  BY <1>9 DEF Announce
<1>10. ASSUME NEW i \in Workers, NEW x \in Vals, Deliver(i, x) PROVE QuietMail
  BY <1>10 DEF Deliver
<1>11. ASSUME Shutdown PROVE QuietMail
  BY <1>11 DEF Shutdown
<1>12. ASSUME UNCHANGED vars PROVE QuietMail
  BY <1>12 DEF vars
<1> HIDE DEF QuietMail
<1>13. QED
  BY Steps, <1>p, <1>b, <1>r, <1>1, <1>2, <1>3, <1>4, <1>5, <1>6, <1>7, <1>8, <1>9, <1>10,
     <1>11, <1>12

\* A step keeps every mailbox in order.
LEMMA OrderStep ==
  ASSUME IInv, FInv, [Next]_vars
  PROVE  FInv'
<1>t. /\ box \in [VMs -> Seq(Dm)] /\ posted \in [VMs \X VMs -> Nat] /\ taken \in [VMs \X VMs -> Nat]
      /\ intern \in [Workers -> Intern] /\ registry \subseteq Workers /\ open \subseteq VMs
      /\ pc \in [VMs -> ProgramPCs \cup TeardownPCs \cup {"none", "exited", "dead", "gone"}]
  BY DEF IInv, TypeOK
<1>o. inbox \subseteq open
  <2>1. SUFFICES ASSUME NEW v \in inbox, v # Main PROVE v \in open
    BY DEF IInv, Boxes
  <2>2. v \in Workers /\ Alive(v)
    BY <2>1, Names DEF IInv, TypeOK, Boxes, Serving, Alive, TeardownPCs
  <2>3. QED
    BY <2>2 DEF IInv, Running, Boxes
\* Steps that leave every mailbox alone, or free some of them.
<1>q. ASSUME ~ \E v \in VMs, i \in Workers : Hire(v, i) \/ HireFails(v, i), QuietMail
      PROVE  FInv'
  <2>1. \A i \in Workers : intern'[i].owner = intern[i].owner
    BY <1>q, OwnersStay
  <2>2. ASSUME NEW r \in open' PROVE InOrder(r)'
    <3>1. r \in open /\ box'[r] = box[r]
      BY <1>q, <1>t DEF QuietMail
    <3>2. InOrder(r)
      BY <3>1 DEF FInv
    <3>3. QED
      BY <1>q, <3>1, <3>2, QuietMailbox DEF QuietMail
  <2>3. ASSUME NEW r \in Workers, intern'[r].owner = None PROVE Untouched(r)'
    <3>1. Untouched(r) /\ r \in VMs
      BY <2>1, <2>3, Names DEF FInv
    <3>2. box'[r] = box[r] \/ box'[r] = <<>>
      BY <1>q, <3>1 DEF QuietMail
    <3>3. QED
      BY <1>q, <3>1, <3>2 DEF QuietMail, Untouched
  <2>4. QED
    BY <2>2, <2>3 DEF FInv
<1>h. ASSUME NEW v \in VMs, NEW i \in Workers, Hire(v, i) \/ HireFails(v, i) PROVE FInv'
  <2>1. /\ intern' = [intern EXCEPT ![i] = intern'[i]] /\ intern[i].owner = None
        /\ intern'[i].owner = v
    BY <1>h, HiredNext
  <2>2. Untouched(i)
    BY <2>1 DEF FInv
  <2>3. UNCHANGED <<box, posted, taken>> /\ open' \subseteq open \cup {i}
    BY <1>h DEF Hire, HireFails, mailVars
  <2>4. ASSUME NEW r \in open' PROVE InOrder(r)'
    <3>1. InOrder(r)
      BY <2>2, <2>3, NewMailbox DEF FInv
    <3>2. QED
      BY <2>3, <3>1, QuietMailbox
  <2>5. ASSUME NEW r \in Workers, intern'[r].owner = None PROVE Untouched(r)'
    <3>1. Untouched(r)
      BY <1>t, <2>1, <2>5, Names DEF FInv
    <3>2. QED
      BY <2>3, <3>1, QuietMailbox
  <2>6. QED
    BY <2>4, <2>5 DEF FInv
<1>p. ASSUME NEW s \in VMs, NEW r \in VMs, NEW f \in {0} \cup Workers, Sends(s, r, f)
      PROVE  FInv'
  <2>1. r \in Workers => intern[r].owner # None
    BY <1>t, <1>p, Names DEF Sends, IInv, Unhired, Boxes, Serving, ProgramPCs
  <2>2. QED
    BY <1>p, <2>1, PostInOrder DEF Sends
<1>r. ASSUME NEW v \in inbox, Pop(v), UNCHANGED <<intern, open, posted>> PROVE FInv'
  BY <1>o, <1>t, <1>r, PopInOrder
<1>1. CASE \E v \in VMs, i \in Workers : Hire(v, i) \/ HireFails(v, i)
  BY <1>h, <1>1
<1>2. CASE ~ \E v \in VMs, i \in Workers : Hire(v, i) \/ HireFails(v, i)
  BY <1>2, <1>p, <1>q, <1>r, MailSteps
<1>3. QED
  BY <1>1, <1>2

\* Every mailbox is in order, those of the structs to come too.
THEOREM Mailboxes == Spec => []FInv
<1>1. Init => FInv
  <2> SUFFICES ASSUME Init PROVE FInv
    OBVIOUS
  <2>1. \A r \in VMs : Untouched(r)
    BY DEF Init, Untouched
  <2>2. open \subseteq VMs
    BY Names DEF Init
  <2>3. QED
    BY <2>1, <2>2, NewMailbox, Names DEF FInv
<1>2. IInv /\ FInv /\ [Next]_vars => FInv'
  BY OrderStep
<1>3. QED
  BY <1>1, <1>2, Inductive, PTL DEF Spec

\* Interns!FifoOnce: what a mailbox holds is what was posted to it and not
\* popped, each sender's in the order m_dm posted it (mailbox_push, mailbox_pop).
THEOREM DeliveredOnceInOrder == Spec => []FifoOnce
<1>1. FInv => FifoOnce
  BY DEF FInv, InOrder, Rising, HoldsRest, FifoOnce
<1>2. QED
  BY <1>1, Mailboxes, PTL

-----------------------------------------------------------------------------
(* The addresses of messages. While a VM's program runs, its interns keep  *)
(* their entries and their numbers, so a number that reached it in a       *)
(* message still names the sender.                                         *)

\* A running program's interns stay; only m_hire starts a program.
LEMMA OwnedStay ==
  ASSUME IInv, IInv', [Next]_vars, NEW r \in VMs, pc'[r] \in ProgramPCs,
         ~ \E v \in VMs, i \in Workers : Hire(v, i) \/ HireFails(v, i)
  PROVE  pc[r] \in ProgramPCs /\ Owned(r)' = Owned(r)
<1>t. /\ intern \in [Workers -> Intern] /\ registry \subseteq Workers
      /\ pc \in [VMs -> ProgramPCs \cup TeardownPCs \cup {"none", "exited", "dead", "gone"}]
  BY DEF IInv, TypeOK
<1>0. \A i \in Workers : intern'[i].owner = intern[i].owner
  BY OwnersStay
<1> DEFINE Same == pc[r] \in ProgramPCs /\ registry' = registry
<1> USE <1>t, Names DEF Goto, ProgramPCs, TeardownPCs, mailVars
<1>1. ASSUME NEW v \in VMs, NEW i \in Workers, WaitUp(v, i) PROVE Same
  BY <1>1 DEF WaitUp
<1>2. ASSUME NEW s, NEW q, NEW f, Post(s, q, f) PROVE Same
  BY <1>2 DEF Post
<1>3. ASSUME NEW v \in VMs, CheckDms(v) \/ MailArrives(v) PROVE Same
  BY <1>3 DEF CheckDms, MailArrives
<1>4. ASSUME NEW v \in VMs, NEW d \in BOOLEAN, WaitForDms(v, d) \/ Finish(v, d) PROVE Same
  BY <1>4 DEF WaitForDms, Finish
<1>5. ASSUME NEW v \in VMs, CollectJoin(v) \/ Settle(v) \/ Release(v) PROVE Same
  BY <1>5 DEF CollectJoin, JoinThread, Settle, Release
<1>6. ASSUME NEW v \in VMs, MailTimesOut(v) \/ MailNotYet(v) \/ MailKeepWaiting(v)
                             \/ MailLeftOnRead(v) \/ MailSleep(v) \/ MailWake(v)
      PROVE Same
  BY <1>6 DEF MailTimesOut, MailNotYet, MailKeepWaiting, MailLeftOnRead, MailSleep, MailWake
<1>7. ASSUME NEW v \in VMs, TeardownPick(v) \/ TeardownJoin(v) \/ VmTeardown(v) PROVE Same
  BY <1>7 DEF TeardownPick, TeardownJoin, JoinThread, VmTeardown
<1>8. ASSUME NEW i \in Workers, Announce(i) PROVE Same
  BY <1>8 DEF Announce
<1>9. ASSUME NEW i \in Workers, NEW x \in Vals, Deliver(i, x) PROVE Same
  BY <1>9 DEF Deliver
<1>10. ASSUME UNCHANGED vars PROVE Same
  BY <1>10 DEF vars
<1>11. ASSUME NEW v, NEW k, DmIntern(v, k) \/ DmBoss(k) PROVE Same
  BY <1>2, <1>11 DEF DmIntern, DmBoss
<1>12. ASSUME NEW v \in VMs, Forget(v) PROVE pc[r] \in ProgramPCs /\ Owned(r)' = Owned(r)
  <2>1. r # v /\ pc[r] \in ProgramPCs /\ registry' = registry \ {i \in registry : intern[i].owner = v}
    BY <1>12 DEF Forget, Forgotten, Owned
  <2>2. QED
    BY <1>0, <2>1 DEF Owned
<1>13. ASSUME Shutdown PROVE FALSE
  <2>1. registry' = {} /\ pc[Main] = "dead" /\ pc'[Main] = "gone"
    BY <1>13 DEF Shutdown
  <2>2. r \in Workers
    BY <2>1
  <2>3. IInv'
    OBVIOUS
  <2>4. r \in registry'
    BY <2>2, <2>3 DEF IInv, Running, Alive
  <2>5. QED
    BY <2>1, <2>4
<1> HIDE DEF Same
<1>14. Same \/ (pc[r] \in ProgramPCs /\ Owned(r)' = Owned(r))
  BY Steps, <1>1, <1>3, <1>4, <1>5, <1>6, <1>7, <1>8, <1>9, <1>10, <1>11, <1>12, <1>13
<1>15. Same => Owned(r)' = Owned(r)
  BY <1>0 DEF Same, Owned
<1>16. QED
  BY <1>14, <1>15 DEF Same

\* The `from` of m reaches its sender.
Addressed(r, m) ==
  /\ m.from = 0 => r # Main /\ m.by = intern[r].owner
  /\ m.from # 0 => InternAt(r, m.from) = {m.by}

RInv ==
  /\ \A i \in Workers : intern[i].owner # None => intern[i].id \in Workers
  /\ \A r \in VMs : pc[r] \in ProgramPCs => \A k \in DOMAIN box[r] : Addressed(r, box[r][k])

\* An address stays good.
LEMMA AddressStays ==
  ASSUME IInv, IInv', [Next]_vars, NEW r \in VMs, pc'[r] \in ProgramPCs,
         ~ \E v \in VMs, i \in Workers : Hire(v, i) \/ HireFails(v, i),
         NEW m \in Dm, Addressed(r, m)
  PROVE  Addressed(r, m)'
<1>1. Owned(r)' = Owned(r) /\ registry \subseteq Workers
  BY OwnedStay DEF IInv, TypeOK
<1>2. \A i \in Workers : UNCHANGED <<intern[i].owner, intern[i].id>>
  BY OwnersStay
<1>3. InternAt(r, m.from)' = InternAt(r, m.from)
  BY <1>1, <1>2 DEF InternAt, Owned
<1>4. QED
  BY <1>2, <1>3, Names DEF Addressed

\* What m_hire does to the addresses: the new number is not in use.
LEMMA HireKeepsAddresses ==
  ASSUME IInv, FInv, RInv, NEW v \in VMs, NEW i \in Workers, Hire(v, i) \/ HireFails(v, i)
  PROVE  RInv'
<1>t. /\ intern \in [Workers -> Intern] /\ registry \subseteq Workers /\ box \in [VMs -> Seq(Dm)]
      /\ pc \in [VMs -> ProgramPCs \cup TeardownPCs \cup {"none", "exited", "dead", "gone"}]
  BY DEF IInv, TypeOK
<1>1. /\ intern' = [intern EXCEPT ![i] = intern'[i]] /\ intern[i].owner = None
      /\ intern'[i].owner = v /\ v # i /\ intern'[i].id \in Workers
  BY HiredNext
<1>2. registry' = registry \cup {i} /\ box' = box
      /\ \A w \in VMs : w # i => pc'[w] = pc[w]
  BY <1>t, Names DEF Hire, HireFails, mailVars
<1>3. \A j \in registry : intern[j].owner = v => intern[j].id < intern'[i].id
  <2>1. PICK k \in Workers :
        /\ \A j \in registry : intern[j].owner = v => intern[j].id < k
        /\ \/ intern' = [intern EXCEPT ![i] = [BlankIntern EXCEPT !.owner = v, !.id = k, !.spawned = TRUE]]
           \/ intern' = [intern EXCEPT ![i] = [BlankIntern EXCEPT !.owner = v, !.id = k, !.retired = TRUE]]
    BY DEF Hire, HireFails, IsNextId, Owned
  <2>2. intern'[i].id = k
    BY <1>t, <2>1 DEF BlankIntern
  <2>3. QED
    BY <2>1, <2>2
<1>4. \A j \in Workers : j # i => intern'[j] = intern[j]
  BY <1>1, <1>t
<1>5. i \notin registry
  BY <1>1 DEF IInv, Unhired
<1>6. \A j \in Workers : intern'[j].owner # None => intern'[j].id \in Workers
  BY <1>1, <1>2, <1>4, <1>t DEF RInv
<1>7. ASSUME NEW r \in VMs, pc'[r] \in ProgramPCs, NEW k \in DOMAIN box'[r]
      PROVE  \E m \in Dm : m = box'[r][k] /\ Addressed(r, m)'
  <2>1. r # i
    <3>1. Untouched(i)
      BY <1>1 DEF FInv
    <3>2. box[i] = <<>>
      BY <3>1 DEF Untouched
    <3>3. QED
      BY <1>2, <1>7, <3>2
  <2>2. PICK m \in Dm : m = box[r][k] /\ Addressed(r, m)
    BY <1>2, <1>7, <1>t, <2>1 DEF RInv
  <2>3. m.from # 0 => InternAt(r, m.from)' = InternAt(r, m.from)
    <3>1. SUFFICES ASSUME m.from # 0 PROVE InternAt(r, m.from)' = InternAt(r, m.from)
      OBVIOUS
    <3>2. CASE r # v
      BY <1>1, <1>2, <1>4, <1>5, <1>t, <3>2 DEF InternAt, Owned
    <3>3. CASE r = v
      <4>1. m.by \in InternAt(v, m.from)
        BY <2>2, <3>1, <3>3 DEF Addressed
      <4>2. m.by \in registry /\ intern[m.by].owner = v /\ intern[m.by].id = m.from
        BY <4>1 DEF InternAt, Owned
      <4>3. m.from \in Nat /\ intern'[i].id \in Nat /\ m.from < intern'[i].id
        BY <1>1, <1>3, <3>1, <4>2 DEF Dm, Workers
      <4>4. intern'[i].id # m.from
        BY <4>3
      <4>5. QED
        BY <1>1, <1>2, <1>4, <1>5, <1>t, <3>3, <4>4 DEF InternAt, Owned
    <3>4. QED
      BY <3>2, <3>3
  <2>4. r # Main => intern'[r].owner = intern[r].owner
    BY <1>4, <2>1, Names
  <2>5. Addressed(r, m)'
    BY <2>2, <2>3, <2>4 DEF Addressed
  <2>6. QED
    BY <1>2, <2>2, <2>5
<1>8. QED
  BY <1>6, <1>7 DEF RInv, Addressed, InternAt, Owned

\* A step keeps the addresses good, and m_dm writes a good one.
LEMMA AddressStep ==
  ASSUME IInv, IInv', FInv, AInv, RInv, [Next]_vars
  PROVE  RInv'
<1>t. /\ intern \in [Workers -> Intern] /\ registry \subseteq Workers /\ box \in [VMs -> Seq(Dm)]
      /\ inbox \subseteq VMs /\ posted \in [VMs \X VMs -> Nat]
  BY DEF IInv, TypeOK
<1>1. CASE \E v \in VMs, i \in Workers : Hire(v, i) \/ HireFails(v, i)
  BY <1>1, HireKeepsAddresses
<1>2. CASE ~ \E v \in VMs, i \in Workers : Hire(v, i) \/ HireFails(v, i)
  <2>1. \A i \in Workers : intern'[i].owner # None => intern'[i].id \in Workers
    BY <1>2, OwnersStay DEF RInv
  <2>2. ASSUME NEW r \in VMs, pc'[r] \in ProgramPCs, NEW k \in DOMAIN box'[r]
        PROVE  \E m \in Dm : m = box'[r][k] /\ Addressed(r, m)
    <3>1. pc[r] \in ProgramPCs
      BY <1>2, <2>2, OwnedStay
    <3>2. \A j \in DOMAIN box[r] : box[r][j] \in Dm /\ Addressed(r, box[r][j])
      BY <1>t, <3>1 DEF RInv
    <3>3. CASE QuietMail
      BY <2>2, <3>2, <3>3 DEF QuietMail
    <3>4. CASE \E v \in inbox : Pop(v) /\ UNCHANGED <<intern, open, posted>>
      <4>1. PICK v \in VMs : box[v] # <<>> /\ box' = [box EXCEPT ![v] = Tail(box[v])]
        BY <1>t, <3>4 DEF Pop
      <4>2. CASE r # v
        BY <1>t, <2>2, <3>2, <4>1, <4>2
      <4>3. CASE r = v
        <5>1. box[r] \in Seq(Dm) /\ box[r] # <<>> /\ box'[r] = Tail(box[r])
          BY <1>t, <4>1, <4>3
        <5>2. k + 1 \in DOMAIN box[r] /\ box'[r][k] = box[r][k + 1]
          BY <2>2, <5>1
        <5>3. QED
          BY <3>2, <5>2
      <4>4. QED
        BY <4>2, <4>3
    <3>5. ASSUME NEW s \in VMs, NEW q \in VMs, NEW f \in {0} \cup Workers, Sends(s, q, f)
          PROVE  \E m \in Dm : m = box'[r][k] /\ Addressed(r, m)
      <4> DEFINE d == [from |-> f, by |-> s, n |-> posted[<<s, q>>] + 1]
      <4>1. box' = [box EXCEPT ![q] = Append(box[q], d)]
        BY <3>5 DEF Sends, Post
      <4>2. d \in Dm /\ d.from = f /\ d.by = s
        <5>1. posted[<<s, q>>] + 1 \in Nat \ {0}
          BY <1>t
        <5>2. QED
          BY <5>1 DEF Dm
      <4> HIDE DEF d
      <4>3. CASE r # q
        BY <1>t, <2>2, <3>2, <4>1, <4>3
      <4>4. CASE r = q
        <5>1. box[r] \in Seq(Dm) /\ box'[r] = Append(box[r], d)
          BY <1>t, <4>1, <4>4
        <5>2. \/ k \in DOMAIN box[r] /\ box'[r][k] = box[r][k]
              \/ box'[r][k] = d
          BY <2>2, <4>2, <5>1
        <5>3. Addressed(r, d)
          <6>1. CASE q \in registry /\ intern[q].owner = s /\ f = 0
            BY <1>t, <4>2, <4>4, <6>1, Names DEF Addressed
          <6>2. CASE s \in Workers /\ r = intern[s].owner /\ f = intern[s].id
            <7>1. s \in registry
              BY <3>5, <6>2 DEF Sends, Post, IInv, Running, Alive, ProgramPCs
            <7>2. \A j \in registry : intern[j].owner = r /\ intern[j].id = f => j = s
              BY <6>2, <7>1 DEF AInv, Numbers
            <7>3. InternAt(r, f) = {s}
              BY <6>2, <7>1, <7>2 DEF InternAt, Owned
            <7>4. f # 0
              BY <6>2, <7>1, Names DEF RInv, Workers, IInv, Registered
            <7>5. QED
              BY <4>2, <7>3, <7>4 DEF Addressed
          <6>3. QED
            BY <3>5, <4>4, <6>1, <6>2 DEF Sends
        <5>4. QED
          BY <3>2, <4>2, <5>2, <5>3
      <4>5. QED
        BY <4>3, <4>4
    <3>6. QED
      BY <1>2, <3>3, <3>4, <3>5, MailSteps
  <2>3. ASSUME NEW r \in VMs, pc'[r] \in ProgramPCs, NEW k \in DOMAIN box'[r]
        PROVE  \E m \in Dm : m = box'[r][k] /\ Addressed(r, m)'
    <3>1. PICK m \in Dm : m = box'[r][k] /\ Addressed(r, m)
      BY <2>2, <2>3
    <3>2. Addressed(r, m)'
      BY <1>2, <2>3, <3>1, AddressStays
    <3>3. QED
      BY <3>1, <3>2
  <2>4. QED
    BY <2>1, <2>3 DEF RInv, Addressed, InternAt, Owned
<1>3. QED
  BY <1>1, <1>2

\* Interns!ReplyAddress: the `from` that check_dms hands out reaches the one
\* who sent the message, for as long as the program that got it runs (m_dm).
THEOREM RepliesReachTheSender == Spec => []ReplyAddress
<1>1. Init => RInv
  BY DEF Init, RInv, BlankIntern
<1>2. IInv /\ IInv' /\ FInv /\ AInv /\ RInv /\ [Next]_vars => RInv'
  BY AddressStep
<1>3. RInv => ReplyAddress
  BY DEF RInv, Addressed, ReplyAddress
<1>4. QED
  BY <1>1, <1>2, <1>3, Inductive, Answers, Mailboxes, PTL DEF Spec
=============================================================================
