-------------------------- MODULE PollerLockProofs --------------------------
(***************************************************************************)
(* Two pollers of a brand work at once only while one of them has outlived *)
(* its lease or lost its row to a namesake: for any number of pollers, any *)
(* pids and cycles of any length.                                          *)
(***************************************************************************)
EXTENDS PollerLock, TLAPS

\* The initial states are well typed.
LEMMA InitTypes == Init => TypeOK
  BY PollerLockAssumption DEF Init, TypeOK

\* Every step keeps the types.
LEMMA NextTypes ==
  ASSUME TypeOK, [Next]_vars
  PROVE  TypeOK'
<1> USE PollerLockAssumption
<1>1. CASE Tick
  <2>1. left' \in 0..TTL
    BY <1>1 DEF Tick, TypeOK
  <2>2. ASSUME NEW p \in Pollers
        PROVE  (IF pc[p] = "polling" /\ age[p] < TTL THEN age[p] + 1 ELSE age[p]) \in 0..TTL
    BY DEF TypeOK
  <2>3. age' \in [Pollers -> 0..TTL]
    BY <1>1, <2>2 DEF Tick
  <2> QED
    BY <1>1, <2>1, <2>3 DEF Tick, TypeOK
<1>2. ASSUME NEW p \in Pollers, Acquire(p)
      PROVE  TypeOK'
  BY <1>2 DEF Acquire, Lease, TypeOK
<1>3. ASSUME NEW p \in Pollers, Busy(p) \/ EndCycle(p) \/ ReleaseFails(p)
      PROVE  TypeOK'
  BY <1>3 DEF Busy, EndCycle, ReleaseFails, TypeOK
<1>4. ASSUME NEW p \in Pollers, Release(p)
      PROVE  TypeOK'
  <2>1. holder' \in Pids \cup {NoPid} /\ left' \in 0..TTL
    BY <1>4 DEF Release, TypeOK
  <2>2. robbed' \subseteq Pollers
    BY <1>4 DEF Release, Namesakes, TypeOK
  <2> QED
    BY <1>4, <2>1, <2>2 DEF Release, TypeOK
<1>5. ASSUME NEW p \in Pollers, Restart(p)
      PROVE  TypeOK'
  BY <1>5 DEF Restart, TypeOK
<1>6. CASE UNCHANGED vars
  BY <1>6 DEF vars, TypeOK
<1> QED
  BY <1>1, <1>2, <1>3, <1>4, <1>5, <1>6 DEF Next, Iterate, CleanUp

\* The row, the pids and the cycles are well typed: the lease never exceeds
\* ttl_seconds.
THEOREM LockTypes == Spec => []TypeOK
<1>1. TypeOK /\ [Next]_vars => TypeOK'
  BY NextTypes
<1> QED
  BY <1>1, InitTypes, PTL DEF Spec

-----------------------------------------------------------------------------
\* A protected cycle has used up exactly what its lease has lost: that is why
\* nobody can take the row over before the cycle has taken ttl_seconds.
LeaseMatchesAge ==
    \A p \in Pollers : Protected(p) => holder = pid[p] /\ left + age[p] = TTL

Inv == TypeOK /\ LeaseMatchesAge /\ MutualExclusion

\* The lease of a protected cycle has not run out.
LEMMA ProtectedHolds ==
  ASSUME TypeOK, LeaseMatchesAge, NEW p \in Pollers, Protected(p)
  PROVE  holder = pid[p] /\ holder # NoPid /\ left > 0
<1>1. holder = pid[p] /\ left + age[p] = TTL
  BY DEF LeaseMatchesAge
<1>2. age[p] \in 0..TTL /\ age[p] # TTL /\ left \in 0..TTL /\ pid[p] \in Pids
  BY DEF TypeOK, Protected, Unprotected
<1> QED
  BY <1>1, <1>2, PollerLockAssumption

\* Time passes: what a cycle ages by, the row loses.
LEMMA TickInv ==
  ASSUME Inv, Tick
  PROVE  LeaseMatchesAge' /\ MutualExclusion'
<1> USE PollerLockAssumption DEF Inv
<1>1. ASSUME NEW p \in Pollers, Protected(p)'
      PROVE  Protected(p) /\ age'[p] = age[p] + 1
  <2>1. pc[p] = "polling" /\ p \notin robbed /\ age'[p] # TTL
    BY <1>1 DEF Tick, Protected, Unprotected
  <2>2. age[p] \in 0..TTL /\ age'[p] = (IF age[p] < TTL THEN age[p] + 1 ELSE age[p])
    BY <2>1 DEF Tick, TypeOK
  <2> QED
    BY <2>1, <2>2 DEF Protected, Unprotected
<1>2. LeaseMatchesAge'
  <2> SUFFICES ASSUME NEW p \in Pollers, Protected(p)'
               PROVE  holder' = pid'[p] /\ left' + age'[p] = TTL
    BY DEF LeaseMatchesAge
  <2>1. Protected(p) /\ age'[p] = age[p] + 1
    BY <1>1
  <2>2. holder = pid[p] /\ left > 0 /\ left + age[p] = TTL
    BY <2>1, ProtectedHolds DEF LeaseMatchesAge
  <2>3. left \in Nat /\ age[p] \in Nat
    BY DEF TypeOK
  <2> QED
    BY <2>1, <2>2, <2>3 DEF Tick
<1>3. MutualExclusion'
  <2> SUFFICES ASSUME NEW p \in Pollers, NEW q \in Pollers,
                      pc'[p] = "polling", pc'[q] = "polling", p # q
               PROVE  Unprotected(p)' \/ Unprotected(q)'
    BY DEF MutualExclusion
  <2>1. pc[p] = "polling" /\ pc[q] = "polling" /\ pc' = pc
    BY DEF Tick
  <2>2. ~Protected(p) \/ ~Protected(q)
    BY <2>1 DEF MutualExclusion, Protected
  <2>3. ~Protected(p)' \/ ~Protected(q)'
    BY <1>1, <2>2
  <2> QED
    BY <2>1, <2>3 DEF Protected
<1> QED
  BY <1>2, <1>3

\* A row that can be taken protects nobody.
LEMMA AcquireInv ==
  ASSUME Inv, NEW p \in Pollers, Acquire(p)
  PROVE  LeaseMatchesAge' /\ MutualExclusion'
<1> USE PollerLockAssumption DEF Inv
<1>1. ASSUME NEW q \in Pollers PROVE ~Protected(q)
  BY ProtectedHolds DEF Acquire, Available, Expired
<1>2. ASSUME NEW q \in Pollers, q # p PROVE ~Protected(q)'
  BY <1>1, <1>2 DEF Acquire, Protected, Unprotected, TypeOK
<1>3. holder' = pid'[p] /\ left' + age'[p] = TTL
  BY DEF Acquire, Lease, TypeOK
<1>4. LeaseMatchesAge'
  BY <1>2, <1>3 DEF LeaseMatchesAge
<1>5. MutualExclusion'
  BY <1>2 DEF MutualExclusion, Protected
<1> QED
  BY <1>4, <1>5

\* Who deletes the row of a namesake has robbed it.
LEMMA ReleaseInv ==
  ASSUME Inv, NEW p \in Pollers, Release(p)
  PROVE  LeaseMatchesAge' /\ MutualExclusion'
<1> USE PollerLockAssumption DEF Inv
<1>1. ASSUME NEW q \in Pollers, Protected(q)'
      PROVE  Protected(q) /\ ~Deletes(p)
  <2>1. Protected(q)
    BY <1>1 DEF Release, Protected, Unprotected, TypeOK
  <2>2. holder = pid[q]
    BY <2>1 DEF LeaseMatchesAge
  <2>3. ~Deletes(p)
    BY <1>1, <2>1, <2>2 DEF Release, Deletes, Namesakes, Protected, Unprotected
  <2> QED
    BY <2>1, <2>3
<1>2. LeaseMatchesAge'
  BY <1>1 DEF LeaseMatchesAge, Release
<1>3. MutualExclusion'
  BY <1>1 DEF MutualExclusion, Protected, Release, TypeOK
<1> QED
  BY <1>2, <1>3

\* The steps of one poller that leave the row alone.
LEMMA LocalInv ==
  ASSUME Inv, NEW p \in Pollers,
         Busy(p) \/ EndCycle(p) \/ ReleaseFails(p) \/ Restart(p)
  PROVE  LeaseMatchesAge' /\ MutualExclusion'
<1> USE PollerLockAssumption DEF Inv
<1>1. UNCHANGED <<holder, left>>
  BY DEF Busy, EndCycle, ReleaseFails, Restart
<1>2. ASSUME NEW q \in Pollers, pc'[q] = "polling"
      PROVE  /\ q # p /\ pc[q] = "polling" /\ pid'[q] = pid[q] /\ age'[q] = age[q]
             /\ (q \in robbed' <=> q \in robbed)
  BY <1>2 DEF Busy, EndCycle, ReleaseFails, Restart, TypeOK
<1>3. LeaseMatchesAge'
  BY <1>1, <1>2 DEF LeaseMatchesAge, Protected, Unprotected
<1>4. MutualExclusion'
  BY <1>2 DEF MutualExclusion, Unprotected
<1> QED
  BY <1>3, <1>4

\* Every step keeps the invariant.
LEMMA NextInv ==
  ASSUME Inv, [Next]_vars
  PROVE  Inv'
<1>1. TypeOK'
  BY NextTypes DEF Inv
<1>2. CASE Tick
  BY <1>1, <1>2, TickInv DEF Inv
<1>3. CASE \E p \in Pollers : Acquire(p)
  BY <1>1, <1>3, AcquireInv DEF Inv
<1>4. CASE \E p \in Pollers : Release(p)
  BY <1>1, <1>4, ReleaseInv DEF Inv
<1>5. CASE \E p \in Pollers : Busy(p) \/ EndCycle(p) \/ ReleaseFails(p) \/ Restart(p)
  BY <1>1, <1>5, LocalInv DEF Inv
<1>6. CASE UNCHANGED vars
  BY <1>1, <1>6 DEF vars, Inv, LeaseMatchesAge, MutualExclusion, Protected, Unprotected
<1> QED
  BY <1>2, <1>3, <1>4, <1>5, <1>6 DEF Next, Iterate, CleanUp

\* The inductive invariant: the lease against the age of the cycle it protects.
THEOREM LockInvariant == Spec => []Inv
<1>1. Init => Inv
  BY InitTypes DEF Init, Inv, LeaseMatchesAge, MutualExclusion, Protected
<1>2. Inv /\ [Next]_vars => Inv'
  BY NextInv
<1> QED
  BY <1>1, <1>2, PTL DEF Spec

\* locks: whatever crashes, takeovers and releases there are, two pollers of a brand
\* run a cycle at once only while one of them has outlived ttl_seconds or has been
\* robbed of its row by a namesake.
THEOREM PollersExclude == Spec => []MutualExclusion
<1>1. Inv => MutualExclusion
  BY DEF Inv
<1> QED
  BY <1>1, LockInvariant, PTL

\* locks: until then the row names the poller that works, and has not expired.
THEOREM WorkersHoldTheLock == Spec => []PollingHoldsLock
<1>1. Inv => PollingHoldsLock
  BY ProtectedHolds DEF Inv, PollingHoldsLock
<1> QED
  BY <1>1, LockInvariant, PTL

=============================================================================
