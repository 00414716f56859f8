---------------------------- MODULE JobDelivery ----------------------------
(***************************************************************************)
(* What RabbitJobQueue promises the code around it, without queues,        *)
(* copies, headers or connections: a job that publish() answered True for  *)
(* stays pending until its handler has answered True for it or it lies in  *)
(* the dead queue.  Delivery is at least once: a job may be completed more *)
(* than once, and may be accepted although publish() answered False.       *)
(***************************************************************************)
CONSTANT Jobs        \* the payloads that can be published

VARIABLES
    promised,        \* jobs for which publish() returned True
    pending,         \* jobs the broker still owes a verdict
    completed,       \* jobs whose handler returned True at least once
    buried           \* jobs that reached the dead queue

vars == <<promised, pending, completed, buried>>

Settled == completed \cup buried

TypeOK ==
    /\ promised \subseteq Jobs
    /\ pending \subseteq Jobs
    /\ completed \subseteq Jobs
    /\ buried \subseteq Jobs

Init ==
    /\ promised = {}
    /\ pending = {}
    /\ completed = {}
    /\ buried = {}

\* The broker stores the job and publish() answers True.
Promise(j) ==
    /\ pending' = pending \cup {j}
    /\ promised' = promised \cup {j}
    /\ UNCHANGED <<completed, buried>>

\* The broker stores the job but its publisher does not learn of it.
Accept(j) ==
    /\ pending' = pending \cup {j}
    /\ UNCHANGED <<promised, completed, buried>>

\* A handler that was given the pending job answers True.
Complete(j) ==
    /\ j \in pending
    /\ completed' = completed \cup {j}
    /\ UNCHANGED <<promised, pending, buried>>

\* The pending job is put into the dead queue.
Bury(j) ==
    /\ j \in pending
    /\ buried' = buried \cup {j}
    /\ UNCHANGED <<promised, pending, completed>>

\* The broker forgets a job, which it may do only once the job has a verdict.
Forget(j) ==
    /\ j \in pending \cap Settled
    /\ pending' = pending \ {j}
    /\ UNCHANGED <<promised, completed, buried>>

Next == \E j \in Jobs : Promise(j) \/ Accept(j) \/ Complete(j) \/ Bury(j) \/ Forget(j)

Spec ==
    /\ Init
    /\ [][Next]_vars
    /\ \A j \in Jobs : WF_vars((Complete(j) \/ Bury(j)) /\ j \notin Settled)

----------------------------------------------------------------------------
\* A promised job is never lost: it is still pending, was completed, or lies
\* in the dead queue.
NothingLost == promised \subseteq pending \cup Settled
=============================================================================
