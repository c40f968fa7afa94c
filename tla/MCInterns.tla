------------------------------ MODULE MCInterns ------------------------------
(***************************************************************************)
(* Interns with two workers, either of which may be hired by the main      *)
(* program or by the other worker.                                         *)
(***************************************************************************)
EXTENDS Interns

\* The first worker posts twice to the main program, so that messages of one
\* sender queue up; other pairs once, where an address lets them.
MCMaxDms == [p \in VMs \X VMs |->
               IF p = <<1, Main>> THEN 2
               ELSE IF p \in {<<Main, 1>>, <<2, Main>>, <<2, 1>>} THEN 1 ELSE 0]

\* For the liveness run: one message, from the first worker to the main program.
MCOneDm == [p \in VMs \X VMs |-> IF p = <<1, Main>> THEN 1 ELSE 0]
=============================================================================
