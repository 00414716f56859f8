----------------------------- MODULE PollerLock -----------------------------
(***************************************************************************)
(* The row "poller:{brand_id}" of table locks, which keeps the pollers of  *)
(* a brand apart: LocksRepository and the way Poller.run() uses it.  A     *)
(* poller that finds the lock busy goes through the same cleanup as one    *)
(* that has worked, release included.                                      *)
(*                                                                         *)
(* Times are counted down: left is what remains of the row's "until", so   *)
(* that no clock has to be bounded.  Nothing bounds a cycle, and nothing   *)
(* renews the row while it runs.  Pids are those of any processes: two     *)
(* pollers in containers of their own may well have the same.              *)
(***************************************************************************)
EXTENDS Integers, FiniteSets

CONSTANTS
    Pollers,       \* pollers of the brand that may run at once
    Pids,          \* os.getpid(), which names the holder
    NoPid,
    TTL            \* ttl_seconds

ASSUME PollerLockAssumption ==
    /\ NoPid \notin Pids
    /\ TTL \in Nat \ {0}

VARIABLES
    holder,    \* locks.holder, NoPid for no row
    left,      \* seconds to locks.until, 0 once it has passed
    pid,       \* of a poller
    pc,        \* where it is in run()
    age,       \* seconds that its cycle has taken, counted up to TTL
    robbed     \* pollers whose row a namesake has deleted while their cycle ran

vars == <<holder, left, pid, pc, age, robbed>>

TypeOK ==
    /\ holder \in Pids \cup {NoPid}
    /\ left \in 0..TTL
    /\ pid \in [Pollers -> Pids]
    /\ pc \in [Pollers -> {"sleeping", "polling", "cleanup"}]
    /\ age \in [Pollers -> 0..TTL]
    /\ robbed \subseteq Pollers

Init ==
    /\ holder = NoPid
    /\ left = 0
    /\ pid \in [Pollers -> Pids]
    /\ pc = [p \in Pollers |-> "sleeping"]
    /\ age = [p \in Pollers |-> 0]
    /\ robbed = {}

\* A second passes.
Tick ==
    /\ left' = IF left = 0 THEN 0 ELSE left - 1
    /\ age' = [p \in Pollers |-> IF pc[p] = "polling" /\ age[p] < TTL THEN age[p] + 1 ELSE age[p]]
    /\ UNCHANGED <<holder, pid, pc, robbed>>

\* The where clause of acquire_lock: until <= now.  (Before it: with the last
\* second of the lock given away, and as an insert that never takes over.)
ExpiredEarly == left <= 1
NeverExpired == FALSE
Expired == left = 0
Available == holder = NoPid \/ Expired

\* ttl_seconds, two polling intervals.
LeaseTooLong == TTL + 1
Lease == TTL

\* acquire_lock inserts the row or takes over an expired one: the cycle runs.
Acquire(p) ==
    /\ pc[p] = "sleeping"
    /\ Available
    /\ holder' = pid[p]
    /\ left' = Lease
    /\ pc' = [pc EXCEPT ![p] = "polling"]
    /\ age' = [age EXCEPT ![p] = 0]
    /\ UNCHANGED <<pid, robbed>>

\* AcquireLockError: no cycle, but the cleanup of the iteration.
Busy(p) ==
    /\ pc[p] = "sleeping"
    /\ ~Available
    /\ pc' = [pc EXCEPT ![p] = "cleanup"]
    /\ UNCHANGED <<holder, left, pid, age, robbed>>

\* The cycle commits or raises.
EndCycle(p) ==
    /\ pc[p] = "polling"
    /\ pc' = [pc EXCEPT ![p] = "cleanup"]
    /\ age' = [age EXCEPT ![p] = 0]
    /\ robbed' = robbed \ {p}
    /\ UNCHANGED <<holder, left, pid>>

\* release_lock deletes the row of this name and holder, whoever has that name.
Deletes(p) == holder = pid[p]
Namesakes(p) == {q \in Pollers : pc[q] = "polling" /\ pid[q] = pid[p]}
Release(p) ==
    /\ pc[p] = "cleanup"
    /\ IF Deletes(p)
       THEN holder' = NoPid /\ left' = 0 /\ robbed' = robbed \cup Namesakes(p)
       ELSE UNCHANGED <<holder, left, robbed>>
    /\ pc' = [pc EXCEPT ![p] = "sleeping"]
    /\ UNCHANGED <<pid, age>>

\* _cleanup_iteration logs a failed release and goes on.
ReleaseFails(p) ==
    /\ pc[p] = "cleanup"
    /\ pc' = [pc EXCEPT ![p] = "sleeping"]
    /\ UNCHANGED <<holder, left, pid, age, robbed>>

\* The process dies; a new one starts, under any pid.
Restart(p) ==
    /\ \E n \in Pids : pid' = [pid EXCEPT ![p] = n]
    /\ pc' = [pc EXCEPT ![p] = "sleeping"]
    /\ age' = [age EXCEPT ![p] = 0]
    /\ robbed' = robbed \ {p}
    /\ UNCHANGED <<holder, left>>

Iterate(p) == Acquire(p) \/ Busy(p)
CleanUp(p) == Release(p) \/ ReleaseFails(p)

Next == Tick \/ \E p \in Pollers : Iterate(p) \/ EndCycle(p) \/ CleanUp(p) \/ Restart(p)

Spec == Init /\ [][Next]_vars

\* Time passes, a sleep ends and the cleanup does.  Nothing says that a cycle ends.
FairSpec ==
    /\ Spec
    /\ WF_vars(Tick)
    /\ \A p \in Pollers : WF_vars(Iterate(p)) /\ WF_vars(CleanUp(p))

----------------------------------------------------------------------------
\* The row does not protect a cycle that has taken longer than ttl_seconds, nor one
\* whose row a poller of the same pid has deleted.
Unprotected(p) == age[p] = TTL \/ p \in robbed
Protected(p) == pc[p] = "polling" /\ ~Unprotected(p)

\* README.md: "Distributed locking for polling."  Whatever pollers crash at, whoever
\* cleans up and after whichever takeover, two of them run a cycle at once only
\* while one has outlived its lease or has been robbed of its row by a namesake.
MutualExclusion ==
    \A p, q \in Pollers :
        pc[p] = "polling" /\ pc[q] = "polling" /\ p # q => Unprotected(p) \/ Unprotected(q)

\* Until then the row names the poller, and has not expired.
PollingHoldsLock ==
    \A p \in Pollers : Protected(p) => holder = pid[p] /\ left > 0

\* The same without the two exceptions, which the code does not keep.
OneCycleAtATime ==
    \A p, q \in Pollers : pc[p] = "polling" /\ pc[q] = "polling" => p = q

\* A lock that a dead poller left behind is overcome: the brand is polled again
\* and again.
PollingGoesOn == []<>(\E p \in Pollers : pc[p] = "polling")
=============================================================================
