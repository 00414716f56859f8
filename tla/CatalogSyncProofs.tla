-------------------------- MODULE CatalogSyncProofs --------------------------
(***************************************************************************)
(* For any runs, users, marketplaces, reports and faults: one sync at a    *)
(* time, the lease of the brand lock, what a completed run has stored, and *)
(* what no merge takes back.                                               *)
(***************************************************************************)
EXTENDS CatalogSync, TLAPS

\* A report that is about to be stored is one that Amazon has made.
Fetched ==
    /\ amazon > 0
    /\ \A r \in Runs, m \in Markets : step[<<r, m>>] = "storing" => report[<<r, m>>] > 0

\* A run of the web admin that has not ended has its user, and the service's run,
\* which has none, releases nothing.
Owned ==
    \A r \in Runs : pc[r] \in Active =>
        IF r = Boot THEN pc[r] # "releasing" ELSE user[r] \in Users

Shape == TypeOK /\ Fetched
Types == Shape /\ Owned

LEMMA InitTypes == Init => Types
<1> SUFFICES ASSUME Init PROVE Types
  OBVIOUS
<1>1. lock \in Locks /\ shown \in WebRuns \cup {NoRun} /\ outlasted \subseteq Users
  BY DEF Init, Locks
<1>2. 0 \in 0..TTL /\ amazon \in Versions /\ 0 \in Versions /\ faults \in 0..MaxFaults
  BY CatalogSyncAssumption DEF Init, Versions
<1>3. /\ pc \in [Runs -> RunSteps]
      /\ user \in [Runs -> Users \cup {NoUser}]
      /\ left \in [Runs -> 0..TTL]
      /\ result \in [Runs -> {"none", "running", "completed", "failed"}]
      /\ rowLock \in [Markets -> Runs \cup {NoRun}]
  BY <1>2 DEF Init, RunSteps
<1>4. step \in [Runs \X Markets -> TaskSteps] /\ report \in [Runs \X Markets -> Versions]
  BY <1>2 DEF Init, TaskSteps
<1>5. table \in [Markets -> [Skus -> Listings \cup {NoRow}]] /\ merged \in [Markets -> Versions]
  BY <1>2 DEF Init
<1>6. Fetched
  BY DEF Init, Fetched
<1>7. Owned
  BY DEF Init, Owned, Active
<1> QED
  BY <1>1, <1>2, <1>3, <1>4, <1>5, <1>6, <1>7 DEF Types, Shape, TypeOK

LEMMA ForgetTypes ==
  ASSUME Types, NEW R, Forget(R)
  PROVE  /\ user' \in [Runs -> Users \cup {NoUser}]
         /\ result' \in [Runs -> {"none", "running", "completed", "failed"}]
         /\ step' \in [Runs \X Markets -> TaskSteps]
         /\ report' \in [Runs \X Markets -> Versions]
         /\ \A r \in Runs, m \in Markets : step'[<<r, m>>] = "storing" => report'[<<r, m>>] > 0
<1>1. 0 \in Versions
  BY CatalogSyncAssumption DEF Versions
<1>2. /\ user' \in [Runs -> Users \cup {NoUser}]
      /\ result' \in [Runs -> {"none", "running", "completed", "failed"}]
  BY DEF Forget, Types, Shape, TypeOK
<1>3. \A r \in Runs, m \in Markets :
        /\ step'[<<r, m>>] = IF r \in R THEN "none" ELSE step[<<r, m>>]
        /\ report'[<<r, m>>] = IF r \in R THEN 0 ELSE report[<<r, m>>]
  BY DEF Forget, Types, Shape, TypeOK
<1>4. step' \in [Runs \X Markets -> TaskSteps] /\ report' \in [Runs \X Markets -> Versions]
  BY <1>1 DEF Forget, Types, Shape, TypeOK, TaskSteps
<1> QED
  BY <1>2, <1>3, <1>4 DEF Types, Shape, Fetched

LEMMA BeginTypes ==
  ASSUME Types, NEW r \in Runs, NEW markets \in SUBSET Markets, Begin(r, markets), report' = report
  PROVE  /\ pc' \in [Runs -> RunSteps]
         /\ step' \in [Runs \X Markets -> TaskSteps]
         /\ \A q \in Runs, m \in Markets : step'[<<q, m>>] = "storing" => report'[<<q, m>>] > 0
<1>1. pc' \in [Runs -> RunSteps] /\ step' \in [Runs \X Markets -> TaskSteps]
  BY DEF Begin, Types, Shape, TypeOK, RunSteps, TaskSteps
<1>2. \A q \in Runs, m \in Markets :
        step'[<<q, m>>] = IF q = r /\ m \in markets THEN "waiting" ELSE step[<<q, m>>]
  BY DEF Begin, Types, Shape, TypeOK
<1> QED
  BY <1>1, <1>2 DEF Types, Shape, Fetched

\* What upsert_many makes of a listing.
LEMMA UpsertedTypes ==
  ASSUME Types, NEW m \in Markets, NEW v \in 1..MaxVersion
  PROVE  Upserted(m, v) \in [Skus -> Listings \cup {NoRow}]
<1> SUFFICES ASSUME NEW k \in Skus, Reports[v][k] # NoRow
             PROVE  Upserted(m, v)[k] \in Listings
  BY DEF Upserted
<1> DEFINE said == Reports[v][k]
           texts == IF table[m][k] = NoRow THEN said ELSE Merge(said, table[m][k].texts)
<1>1. said \in Texts
  BY CatalogSyncAssumption
<1>2. table[m][k] # NoRow => table[m][k].texts \in Texts
  BY DEF Types, Shape, TypeOK, Listings
<1>3. \A t \in Texts : Merge(said, t) \in Texts
  BY <1>1 DEF Merge, Keep, Texts
<1>4. texts \in Texts
  BY <1>1, <1>2, <1>3
<1>5. SearchText(said, texts) \in Texts
  BY <1>1, <1>4 DEF SearchText
<1>6. Upserted(m, v)[k] = [texts |-> texts, search |-> SearchText(said, texts)]
  BY DEF Upserted
<1> QED
  BY <1>4, <1>5, <1>6 DEF Listings

LEMMA StoreTypes ==
  ASSUME Types, NEW r \in Runs, NEW m \in Markets, step[<<r, m>>] = "storing", StoreCommits(r, m)
  PROVE  /\ table' \in [Markets -> [Skus -> Listings \cup {NoRow}]]
         /\ merged' \in [Markets -> Versions]
         /\ amazon' = amazon
<1>1. report[<<r, m>>] \in 1..MaxVersion
  BY CatalogSyncAssumption DEF Types, Shape, TypeOK, Fetched, Versions
<1>2. Upserted(m, report[<<r, m>>]) \in [Skus -> Listings \cup {NoRow}]
  BY <1>1, UpsertedTypes
<1> QED
  BY <1>1, <1>2 DEF StoreCommits, Types, Shape, TypeOK, Versions

LEMMA AbortTypes ==
  ASSUME Types, NEW r \in Runs, NEW m \in Markets, Abort(r, m), report' = report
  PROVE  /\ step' \in [Runs \X Markets -> TaskSteps]
         /\ rowLock' \in [Markets -> Runs \cup {NoRun}]
         /\ table' \in [Markets -> [Skus -> Listings \cup {NoRow}]]
         /\ merged' \in [Markets -> Versions]
         /\ amazon' = amazon
         /\ \A q \in Runs, n \in Markets : step'[<<q, n>>] = "storing" => report'[<<q, n>>] > 0
<1>1. step' \in [Runs \X Markets -> TaskSteps] /\ rowLock' \in [Markets -> Runs \cup {NoRun}]
  BY DEF Abort, Types, Shape, TypeOK, TaskSteps, Over
<1>2. \A q \in Runs, n \in Markets : step'[<<q, n>>] = "storing" => step[<<q, n>>] = "storing"
  BY DEF Abort, Types, Shape, TypeOK
<1>3. CASE step[<<r, m>>] = "storing" /\ StoreCommits(r, m)
  BY <1>1, <1>2, <1>3, StoreTypes DEF Types, Shape, Fetched
<1>4. CASE UNCHANGED catalog
  BY <1>1, <1>2, <1>4 DEF catalog, Types, Shape, TypeOK, Fetched
<1> QED
  BY <1>3, <1>4 DEF Abort

LEMMA MarketTypes ==
  ASSUME Types, NEW r \in Runs, NEW m \in Markets, Market(r, m)
  PROVE  Shape'
<1>1. CASE AcquireMarket(r, m)
  <2>1. /\ step' \in [Runs \X Markets -> TaskSteps] /\ rowLock' \in [Markets -> Runs \cup {NoRun}]
        /\ \A q \in Runs, n \in Markets : step'[<<q, n>>] = "storing" => step[<<q, n>>] = "storing"
    BY <1>1 DEF AcquireMarket, Types, Shape, TypeOK, TaskSteps
  <2> QED
    BY <1>1, <2>1 DEF AcquireMarket, Types, Shape, TypeOK, Fetched, manager, catalog
<1>2. CASE FetchReport(r, m)
  <2>1. /\ step' \in [Runs \X Markets -> TaskSteps] /\ report' \in [Runs \X Markets -> Versions]
        /\ \A q \in Runs, n \in Markets : step'[<<q, n>>] = "storing" => report'[<<q, n>>] > 0
    BY <1>2 DEF FetchReport, Types, Shape, TypeOK, Fetched, TaskSteps
  <2> QED
    BY <1>2, <2>1 DEF FetchReport, Types, Shape, TypeOK, Fetched, manager, catalog
<1>3. CASE NoReport(r, m)
  <2>1. /\ step' \in [Runs \X Markets -> TaskSteps] /\ rowLock' \in [Markets -> Runs \cup {NoRun}]
        /\ \A q \in Runs, n \in Markets : step'[<<q, n>>] = "storing" => step[<<q, n>>] = "storing"
    BY <1>3 DEF NoReport, Types, Shape, TypeOK, TaskSteps, Over
  <2>2. faults' \in 0..MaxFaults
    BY <1>3, CatalogSyncAssumption DEF NoReport, Faulty, Types, Shape, TypeOK
  <2> QED
    BY <1>3, <2>1, <2>2 DEF NoReport, Types, Shape, TypeOK, Fetched, manager, catalog
<1>4. CASE Store(r, m)
  <2>1. /\ step' \in [Runs \X Markets -> TaskSteps] /\ rowLock' \in [Markets -> Runs \cup {NoRun}]
        /\ \A q \in Runs, n \in Markets : step'[<<q, n>>] = "storing" => step[<<q, n>>] = "storing"
    BY <1>4 DEF Store, Types, Shape, TypeOK, TaskSteps, Over
  <2>2. /\ table' \in [Markets -> [Skus -> Listings \cup {NoRow}]]
        /\ merged' \in [Markets -> Versions] /\ amazon' = amazon
    BY <1>4, StoreTypes DEF Store
  <2> QED
    BY <1>4, <2>1, <2>2 DEF Store, Types, Shape, TypeOK, Fetched, manager
<1>5. CASE MarketRaises(r, m)
  <2>1. pc' \in [Runs -> RunSteps] /\ faults' \in 0..MaxFaults
    BY <1>5, CatalogSyncAssumption DEF MarketRaises, Faulty, Types, Shape, TypeOK, RunSteps
  <2> QED
    BY <1>5, <2>1, AbortTypes DEF MarketRaises, Types, Shape, TypeOK, Fetched, manager
<1>6. CASE MarketCancelled(r, m)
  BY <1>6, AbortTypes DEF MarketCancelled, Types, Shape, TypeOK, Fetched, manager
<1> QED
  BY <1>1, <1>2, <1>3, <1>4, <1>5, <1>6 DEF Market

LEMMA AdvanceTypes ==
  ASSUME Types, NEW r \in Runs, Advance(r)
  PROVE  Shape'
<1>1. CASE Finish(r)
  <2>1. pc' \in [Runs -> RunSteps]
    BY <1>1 DEF Finish, Types, Shape, TypeOK, RunSteps
  <2>2. CASE r = Boot
    BY <1>1, <2>1, <2>2, ForgetTypes DEF Finish, Types, Shape, TypeOK, Fetched, catalog
  <2>3. CASE r # Boot
    <3>1. result' \in [Runs -> {"none", "running", "completed", "failed"}]
      BY <1>1, <2>3 DEF Finish, FinalResult, Types, Shape, TypeOK
    <3> QED
      BY <1>1, <2>1, <2>3, <3>1 DEF Finish, Types, Shape, TypeOK, Fetched, catalog, tasks
  <2> QED
    BY <2>2, <2>3
<1>2. CASE Fail(r)
  <2>1. pc' \in [Runs -> RunSteps]
    BY <1>2 DEF Fail, Types, Shape, TypeOK, RunSteps
  <2>2. CASE r = Boot
    BY <1>2, <2>1, <2>2, ForgetTypes DEF Fail, Types, Shape, TypeOK, Fetched, catalog
  <2>3. CASE r # Boot
    <3>1. result' \in [Runs -> {"none", "running", "completed", "failed"}]
      BY <1>2, <2>3 DEF Fail, Types, Shape, TypeOK
    <3>2. step' \in [Runs \X Markets -> TaskSteps]
      BY <1>2, <2>3 DEF Fail, Types, Shape, TypeOK, TaskSteps, Over
    <3>3. \A q \in Runs, m \in Markets : step'[<<q, m>>] = "storing" => step[<<q, m>>] = "storing"
      BY <1>2, <2>3 DEF Fail, Types, Shape, TypeOK
    <3> QED
      BY <1>2, <2>1, <2>3, <3>1, <3>2, <3>3 DEF Fail, Types, Shape, TypeOK, Fetched, catalog
  <2> QED
    BY <2>2, <2>3
<1>3. CASE Release(r)
  <2>1. pc' \in [Runs -> RunSteps] /\ left' \in [Runs -> 0..TTL]
    BY <1>3, CatalogSyncAssumption DEF Release, Types, Shape, TypeOK, RunSteps
  <2>2. lock' \in Locks /\ faults' \in 0..MaxFaults
    BY <1>3, CatalogSyncAssumption DEF Release, Released, Faulty, Types, Shape, TypeOK, Locks
  <2>3. PICK R : Forget(R)
    BY <1>3 DEF Release
  <2>4. outlasted' \subseteq Users
    BY <1>3 DEF Release, Types, Shape, TypeOK, Owned, Active
  <2> QED
    BY <1>3, <2>1, <2>2, <2>3, <2>4, ForgetTypes DEF Release, Types, Shape, TypeOK, Fetched, catalog
<1> QED
  BY <1>1, <1>2, <1>3 DEF Advance

LEMMA Forgetting ==
  ASSUME Types, NEW R, Forget(R)
  PROVE  /\ \A r \in Runs : /\ user'[r] = (IF r \in R THEN NoUser ELSE user[r])
                            /\ result'[r] = (IF r \in R THEN "none" ELSE result[r])
         /\ \A r \in Runs, m \in Markets :
                /\ step'[<<r, m>>] = (IF r \in R THEN "none" ELSE step[<<r, m>>])
                /\ report'[<<r, m>>] = (IF r \in R THEN 0 ELSE report[<<r, m>>])
  BY DEF Forget, Types, Shape, TypeOK

LEMMA OthersTypes ==
  ASSUME Types, Tick \/ AmazonChanges \/ StartService \/ ViewPage \/ Crash \/ UNCHANGED vars
  PROVE  Shape'
<1>1. CASE Tick
  <2>1. lock' \in Locks
    <3>1. CASE lock = NoLock
      BY <1>1, <3>1 DEF Tick, Locks, NoLock
    <3>2. CASE lock \in [holder : Users, left : 0..TTL]
      <4>1. (IF lock.left > 0 THEN lock.left - 1 ELSE 0) \in 0..TTL
        BY <3>2, CatalogSyncAssumption
      <4> QED
        BY <1>1, <3>2, <4>1 DEF Tick, Locks
    <3> QED
      BY <3>1, <3>2 DEF Types, Shape, TypeOK, Locks
  <2>2. left' \in [Runs -> 0..TTL]
    BY <1>1, CatalogSyncAssumption DEF Tick, Types, Shape, TypeOK
  <2> QED
    BY <1>1, <2>1, <2>2 DEF Tick, Types, Shape, TypeOK, Fetched, manager, tasks, catalog
<1>2. CASE AmazonChanges
  BY <1>2, CatalogSyncAssumption
     DEF AmazonChanges, Types, Shape, TypeOK, Fetched, manager, tasks, Versions
<1>3. CASE StartService
  BY <1>3, BeginTypes DEF StartService, Types, Shape, TypeOK, Fetched, catalog, Runs
<1>4. CASE ViewPage
  <2>1. PICK R : Forget(R)
    BY <1>4 DEF ViewPage
  <2> QED
    BY <1>4, <2>1, ForgetTypes DEF ViewPage, Types, Shape, TypeOK, Fetched, catalog
<1>5. CASE Crash
  <2>1. pc' \in [Runs -> RunSteps] /\ left' \in [Runs -> 0..TTL]
    BY <1>5, CatalogSyncAssumption DEF Crash, Types, Shape, TypeOK, RunSteps
  <2>2. rowLock' \in [Markets -> Runs \cup {NoRun}] /\ faults' \in 0..MaxFaults
    BY <1>5, CatalogSyncAssumption DEF Crash, Faulty, Types, Shape, TypeOK
  <2>3. Forget(WebRuns)
    BY <1>5 DEF Crash
  <2> QED
    BY <1>5, <2>1, <2>2, <2>3, ForgetTypes DEF Crash, Types, Shape, TypeOK, Fetched, catalog
<1>6. CASE UNCHANGED vars
  BY <1>6 DEF vars, Types, Shape, TypeOK, Fetched
<1> QED
  BY <1>1, <1>2, <1>3, <1>4, <1>5, <1>6

LEMMA StartTypes ==
  ASSUME Types, NEW r \in WebRuns, NEW u \in Users, NEW markets \in Scopes, Start(r, u, markets)
  PROVE  Shape'
<1>1. markets \in SUBSET Markets /\ r \in Runs
  BY DEF Scopes, Runs
<1>2. lock' \in Locks
  BY CatalogSyncAssumption DEF Start, Leased, Locks
<1>3. /\ left' \in [Runs -> 0..TTL]
      /\ user' \in [Runs -> Users \cup {NoUser}]
      /\ result' \in [Runs -> {"none", "running", "completed", "failed"}]
  BY <1>1, CatalogSyncAssumption DEF Start, Types, Shape, TypeOK
<1> QED
  BY <1>1, <1>2, <1>3, BeginTypes DEF Start, Types, Shape, TypeOK, Fetched, catalog

LEMMA OwnedStep ==
  ASSUME Types, [Next]_vars
  PROVE  Owned'
<1>0. Boot \in Runs /\ Boot \notin WebRuns /\ WebRuns \subseteq Runs
  BY CatalogSyncAssumption DEF Runs
<1>1. CASE Tick \/ AmazonChanges \/ UNCHANGED vars
  BY <1>1 DEF Tick, AmazonChanges, vars, manager, Types, Owned
<1>2. CASE StartService
  BY <1>0, <1>2 DEF StartService, Begin, Types, Shape, TypeOK, Owned
<1>3. CASE ViewPage
  <2>1. Forget(IF pc[shown] = "done" THEN {shown} ELSE {}) /\ pc' = pc
    BY <1>3 DEF ViewPage
  <2> QED
    BY <2>1, Forgetting DEF Types, Owned, Active
<1>4. CASE Crash
  <2>1. Forget(WebRuns)
    BY <1>4 DEF Crash
  <2>2. \A r \in Runs : pc'[r] = (IF r \in WebRuns /\ pc[r] \in Active THEN "dead" ELSE pc[r])
    BY <1>4 DEF Crash, Types, Shape, TypeOK
  <2> QED
    BY <1>0, <2>1, <2>2, Forgetting DEF Types, Owned, Active, Runs
<1>5. ASSUME NEW r \in WebRuns, NEW u \in Users, NEW markets \in Scopes, Start(r, u, markets)
      PROVE  Owned'
  BY <1>0, <1>5 DEF Start, Begin, Types, Shape, TypeOK, Owned
<1>6. ASSUME NEW r \in Runs, NEW m \in Markets, Market(r, m)
      PROVE  Owned'
  <2>1. user' = user
    BY <1>6 DEF Market, AcquireMarket, FetchReport, NoReport, Store, MarketRaises,
                MarketCancelled, manager
  <2>2. \A q \in Runs : pc'[q] = pc[q] \/ (pc[q] = "running" /\ pc'[q] = "failing")
    BY <1>6 DEF Market, AcquireMarket, FetchReport, NoReport, Store, MarketRaises,
                MarketCancelled, Types, Shape, TypeOK
  <2> QED
    BY <2>1, <2>2 DEF Types, Owned, Active
<1>7. ASSUME NEW r \in Runs, Finish(r) \/ Fail(r)
      PROVE  Owned'
  <2>1. CASE r = Boot
    <3>1. Forget({Boot}) /\ \A q \in Runs : pc'[q] = pc[q] \/ (q = Boot /\ pc'[q] \in {"done", "dead"})
      BY <1>7, <2>1 DEF Finish, Fail, Types, Shape, TypeOK
    <3> QED
      BY <3>1, Forgetting DEF Types, Owned, Active
  <2>2. CASE r # Boot
    BY <1>7, <2>2 DEF Finish, Fail, Types, Shape, TypeOK, Owned, Active
  <2> QED
    BY <2>1, <2>2
<1>8. ASSUME NEW r \in Runs, Release(r)
      PROVE  Owned'
  <2>1. Forget(IF shown = r THEN {} ELSE {r})
    BY <1>8 DEF Release
  <2>2. \A q \in Runs : pc'[q] = (IF q = r THEN "done" ELSE pc[q])
    BY <1>8 DEF Release, Types, Shape, TypeOK
  <2> QED
    BY <2>1, <2>2, Forgetting DEF Types, Owned, Active
<1> QED
  BY <1>1, <1>2, <1>3, <1>4, <1>5, <1>6, <1>7, <1>8 DEF Next, Advance

LEMMA NextTypes ==
  ASSUME Types, [Next]_vars
  PROVE  Types'
<1>1. Shape'
  BY OthersTypes, StartTypes, AdvanceTypes, MarketTypes DEF Next
<1> QED
  BY <1>1, OwnedStep DEF Types

LEMMA TypesHold == Spec => []Types
<1>1. Types /\ [Next]_vars => Types'
  BY NextTypes
<1> QED
  BY <1>1, InitTypes, PTL DEF Spec

\* Locks, runs, their tasks and the listings are well typed.
THEOREM TypeCorrect == Spec => []TypeOK
<1>1. Types => TypeOK
  BY DEF Types, Shape
<1> QED
  BY <1>1, TypesHold, PTL

-----------------------------------------------------------------------------
\* The run that syncs is the one that the manager shows.
One == \A r \in WebRuns : Syncing(r) => shown = r /\ result[r] = "running"

LEMMA OneStep ==
  ASSUME Types, One, [Next]_vars
  PROVE  One'
<1>0. Boot \in Runs /\ Boot \notin WebRuns /\ WebRuns \subseteq Runs
  BY CatalogSyncAssumption DEF Runs
<1>1. CASE Tick \/ AmazonChanges \/ UNCHANGED vars
  BY <1>1 DEF Tick, AmazonChanges, vars, manager, One, Syncing
<1>2. CASE StartService
  BY <1>0, <1>2 DEF StartService, Begin, Types, Shape, TypeOK, One, Syncing
<1>3. CASE ViewPage
  BY <1>3 DEF ViewPage, Finished, One, Syncing
<1>4. CASE Crash
  <2>1. \A r \in WebRuns : ~Syncing(r)'
    BY <1>0, <1>4 DEF Crash, Types, Shape, TypeOK, Syncing, Active
  <2> QED
    BY <2>1 DEF One
<1>5. ASSUME NEW r \in WebRuns, NEW u \in Users, NEW markets \in Scopes, Start(r, u, markets)
      PROVE  One'
  <2>1. \A q \in WebRuns : ~Syncing(q)
    BY <1>0, <1>5, CatalogSyncAssumption DEF Start, IsRunning, One, Syncing, Types, Shape, TypeOK
  <2>2. \A q \in WebRuns : q # r => pc'[q] = pc[q]
    BY <1>0, <1>5 DEF Start, Begin, Types, Shape, TypeOK
  <2>3. shown' = r /\ result'[r] = "running"
    BY <1>0, <1>5 DEF Start, Types, Shape, TypeOK
  <2> QED
    BY <2>1, <2>2, <2>3 DEF One, Syncing
<1>6. ASSUME NEW r \in Runs, NEW m \in Markets, Market(r, m)
      PROVE  One'
  <2>1. UNCHANGED manager
    BY <1>6 DEF Market, AcquireMarket, FetchReport, NoReport, Store, MarketRaises, MarketCancelled
  <2>2. \A q \in Runs : pc'[q] = pc[q] \/ (pc[q] = "running" /\ pc'[q] = "failing")
    BY <1>6 DEF Market, AcquireMarket, FetchReport, NoReport, Store, MarketRaises,
                MarketCancelled, Types, Shape, TypeOK
  <2> QED
    BY <1>0, <2>1, <2>2 DEF One, Syncing, manager
<1>7. ASSUME NEW r \in Runs, Finish(r) \/ Fail(r)
      PROVE  One'
  <2>1. CASE r = Boot
    <3>1. Forget({Boot}) /\ shown' = shown /\ \A q \in WebRuns : pc'[q] = pc[q]
      BY <1>0, <1>7, <2>1 DEF Finish, Fail, Types, Shape, TypeOK
    <3> QED
      BY <1>0, <3>1, Forgetting DEF One, Syncing
  <2>2. CASE r # Boot
    <3>1. /\ shown' = shown
          /\ \A q \in WebRuns : q # r => pc'[q] = pc[q] /\ result'[q] = result[q]
          /\ pc'[r] = "releasing"
      BY <1>0, <1>7, <2>2 DEF Finish, Fail, Types, Shape, TypeOK
    <3> QED
      BY <3>1 DEF One, Syncing
  <2> QED
    BY <2>1, <2>2
<1>8. ASSUME NEW r \in Runs, Release(r)
      PROVE  One'
  <2>1. Forget(IF shown = r THEN {} ELSE {r}) /\ shown' = shown
    BY <1>8 DEF Release
  <2>2. \A q \in Runs : pc'[q] = (IF q = r THEN "done" ELSE pc[q])
    BY <1>8 DEF Release, Types, Shape, TypeOK
  <2> QED
    BY <1>0, <2>1, <2>2, Forgetting DEF One, Syncing
<1> QED
  BY <1>1, <1>2, <1>3, <1>4, <1>5, <1>6, <1>7, <1>8 DEF Next, Advance

\* Two runs of the web admin never sync a brand at once, however many there are,
\* whatever became of the brand lock.
THEOREM OneSync == Spec => []OneSyncPerBrand
<1>1. Init => One
  BY CatalogSyncAssumption DEF Init, One, Syncing, Runs
<1>2. Types /\ One /\ [Next]_vars => One'
  BY OneStep
<1>3. One => OneSyncPerBrand
  BY DEF One, OneSyncPerBrand
<1> QED
  BY <1>1, <1>2, <1>3, TypesHold, PTL DEF Spec

-----------------------------------------------------------------------------
\* A lease that runs is that of the brand lock, unless its user has outlasted another,
\* and no two leases run but for such a user.
Leases ==
    /\ \A r \in Runs : left[r] > 0 => r \in WebRuns /\ pc[r] \in Active
    /\ \A r \in WebRuns : left[r] > 0 /\ user[r] \notin outlasted =>
            lock.holder = user[r] /\ lock.left >= left[r]
    /\ \A r, q \in WebRuns : r # q /\ left[r] > 0 /\ left[q] > 0 =>
            user[r] \in outlasted \/ user[q] \in outlasted

\* A step that ends no run and starts none.
LEMMA LeasesUntouched ==
  ASSUME Leases, UNCHANGED <<lock, left, outlasted>>,
         \A r \in Runs : left[r] > 0 => user'[r] = user[r] /\ pc'[r] \in Active
  PROVE  Leases'
<1>1. WebRuns \subseteq Runs
  BY DEF Runs
<1> QED
  BY <1>1 DEF Leases

LEMMA LeasesStep ==
  ASSUME Types, Leases, [Next]_vars
  PROVE  Leases'
<1>0. /\ Boot \in Runs /\ Boot \notin WebRuns /\ WebRuns \subseteq Runs
      /\ \A r \in Runs : left[r] \in Nat
      /\ lock.left \in Nat
  BY CatalogSyncAssumption DEF Runs, Types, Shape, TypeOK, Locks, NoLock
<1>1. CASE AmazonChanges \/ UNCHANGED vars
  BY <1>1, LeasesUntouched DEF AmazonChanges, vars, manager, Leases
<1>2. CASE Tick
  <2>1. UNCHANGED <<user, pc, outlasted>>
    BY <1>2 DEF Tick, manager
  <2>2. \A r \in Runs : left'[r] = (IF left[r] > 0 THEN left[r] - 1 ELSE 0)
    BY <1>2 DEF Tick
  <2>3. /\ lock'.holder = lock.holder
        /\ lock'.left = (IF lock.left > 0 THEN lock.left - 1 ELSE 0)
    BY <1>2 DEF Tick, Types, Shape, TypeOK, Locks, NoLock
  <2> QED
    BY <1>0, <2>1, <2>2, <2>3 DEF Leases
<1>3. CASE StartService
  <2>1. \A r \in Runs : r # Boot => pc'[r] = pc[r]
    BY <1>3 DEF StartService, Begin, Types, Shape, TypeOK
  <2>2. UNCHANGED <<lock, left, outlasted, user>>
    BY <1>3 DEF StartService
  <2> QED
    BY <1>0, <2>1, <2>2, LeasesUntouched DEF Leases
<1>4. CASE ViewPage
  <2>1. Forget(IF pc[shown] = "done" THEN {shown} ELSE {}) /\ UNCHANGED <<pc, lock, left, outlasted>>
    BY <1>4 DEF ViewPage
  <2>2. \A r \in Runs : left[r] > 0 => pc[r] # "done"
    BY DEF Leases, Active
  <2>3. \A r \in Runs : left[r] > 0 => user'[r] = user[r] /\ pc'[r] \in Active
    BY <2>1, <2>2, Forgetting DEF Leases
  <2> QED
    BY <2>1, <2>3, LeasesUntouched
<1>5. CASE Crash
  <2>1. \A r \in Runs : left'[r] = (IF r \in WebRuns /\ pc[r] \in Active THEN 0 ELSE left[r])
    BY <1>5 DEF Crash
  <2>2. \A r \in Runs : ~(left'[r] > 0)
    BY <2>1 DEF Leases
  <2> QED
    BY <1>0, <2>2 DEF Leases
<1>6. ASSUME NEW r \in WebRuns, NEW u \in Users, NEW markets \in Scopes, Start(r, u, markets)
      PROVE  Leases'
  <2>1. \A q \in Runs : /\ left'[q] = (IF q = r THEN TTL ELSE left[q])
                        /\ user'[q] = (IF q = r THEN u ELSE user[q])
                        /\ pc'[q] = (IF q = r THEN "running" ELSE pc[q])
    BY <1>6 DEF Start, Begin, Types, Shape, TypeOK
  <2>2. lock.left = 0 /\ lock'.holder = u /\ lock'.left = TTL /\ outlasted' = outlasted
    BY <1>6 DEF Start, Available, Leased
  <2>3. \A q \in WebRuns : left[q] > 0 => user[q] \in outlasted
    BY <1>0, <2>2 DEF Leases
  <2> QED
    BY <1>0, <2>1, <2>2, <2>3, CatalogSyncAssumption DEF Leases, Active
<1>7. ASSUME NEW r \in Runs, NEW m \in Markets, Market(r, m)
      PROVE  Leases'
  <2>1. UNCHANGED <<lock, left, outlasted, user>>
    BY <1>7 DEF Market, AcquireMarket, FetchReport, NoReport, Store, MarketRaises,
                MarketCancelled, manager
  <2>2. \A q \in Runs : pc'[q] = pc[q] \/ pc'[q] = "failing"
    BY <1>7 DEF Market, AcquireMarket, FetchReport, NoReport, Store, MarketRaises,
                MarketCancelled, Types, Shape, TypeOK
  <2> QED
    BY <2>1, <2>2, LeasesUntouched DEF Leases, Active
<1>8. ASSUME NEW r \in Runs, Finish(r) \/ Fail(r)
      PROVE  Leases'
  <2>1. UNCHANGED <<lock, left, outlasted>>
    BY <1>8 DEF Finish, Fail
  <2>2. CASE r = Boot
    <3>1. Forget({Boot}) /\ \A q \in Runs : q # Boot => pc'[q] = pc[q]
      BY <1>8, <2>2 DEF Finish, Fail, Types, Shape, TypeOK
    <3> QED
      BY <1>0, <2>1, <3>1, Forgetting, LeasesUntouched DEF Leases
  <2>3. CASE r # Boot
    <3>1. user' = user /\ \A q \in Runs : pc'[q] = (IF q = r THEN "releasing" ELSE pc[q])
      BY <1>8, <2>3 DEF Finish, Fail, Types, Shape, TypeOK
    <3> QED
      BY <2>1, <3>1, LeasesUntouched DEF Leases, Active
  <2> QED
    BY <2>2, <2>3
<1>9. ASSUME NEW r \in Runs, Release(r)
      PROVE  Leases'
  <2>1. Forget(IF shown = r THEN {} ELSE {r})
    BY <1>9 DEF Release
  <2>2. \A q \in Runs : /\ pc'[q] = (IF q = r THEN "done" ELSE pc[q])
                        /\ left'[q] = (IF q = r THEN 0 ELSE left[q])
    BY <1>9 DEF Release, Types, Shape, TypeOK
  <2>3. /\ lock' = lock \/ (lock.holder = user[r] /\ lock' = NoLock)
        /\ outlasted \subseteq outlasted'
        /\ left[r] = 0 => user[r] \in outlasted'
    BY <1>9 DEF Release, Released
  <2>4. \A q \in Runs : left'[q] > 0 => q # r /\ user'[q] = user[q] /\ pc'[q] = pc[q]
    BY <2>1, <2>2, Forgetting
  <2>5. r \in WebRuns
    BY <1>9 DEF Release, Types, Owned, Active, Runs
  <2>6. ASSUME NEW q \in WebRuns, left'[q] > 0, user'[q] \notin outlasted'
        PROVE  lock'.holder = user'[q] /\ lock'.left >= left'[q]
    <3>1. q # r /\ left[q] > 0 /\ user[q] \notin outlasted /\ lock.holder = user[q]
          /\ lock.left >= left[q] /\ left'[q] = left[q] /\ user'[q] = user[q]
      BY <1>0, <2>2, <2>3, <2>4, <2>6 DEF Leases
    <3>2. user[q] # user[r]
      BY <1>0, <2>3, <2>5, <2>6, <3>1 DEF Leases
    <3> QED
      BY <2>3, <3>1, <3>2
  <2>7. \A q \in Runs : left'[q] > 0 => q \in WebRuns /\ pc'[q] \in Active
    BY <2>2, <2>4 DEF Leases
  <2>8. \A q, p \in WebRuns : q # p /\ left'[q] > 0 /\ left'[p] > 0 =>
            user'[q] \in outlasted' \/ user'[p] \in outlasted'
    BY <1>0, <2>2, <2>3, <2>4 DEF Leases
  <2> QED
    BY <2>6, <2>7, <2>8 DEF Leases
<1> QED
  BY <1>1, <1>2, <1>3, <1>4, <1>5, <1>6, <1>7, <1>8, <1>9 DEF Next, Advance

\* While a run syncs within its lease the brand lock is its user's, for any number of
\* runs and users, unless the user's name has released a later lease of his own.
THEOREM LeaseKept == Spec => []LeaseIsKept
<1>1. Init => Leases
  BY DEF Init, Leases, Runs
<1>2. Types /\ Leases /\ [Next]_vars => Leases'
  BY LeasesStep
<1>3. Leases => LeaseIsKept
  BY DEF Leases, LeaseIsKept
<1> QED
  BY <1>1, <1>2, <1>3, TypesHold, PTL DEF Spec

-----------------------------------------------------------------------------
\* The lock row of a marketplace spans the report and its merge, so what a task is to
\* store is no older than what is stored; what it has stored stays.
Rows ==
    /\ \A r \in Runs, m \in Markets : step[<<r, m>>] \in {"fetching", "storing"} => rowLock[m] = r
    /\ \A r \in Runs, m \in Markets : step[<<r, m>>] = "storing" => merged[m] <= report[<<r, m>>]
    /\ \A r \in Runs, m \in Markets :
            step[<<r, m>>] \in {"storing", "completed"} => 0 < report[<<r, m>>] /\ report[<<r, m>>] <= amazon
    /\ \A r \in Runs, m \in Markets : step[<<r, m>>] = "completed" => merged[m] >= report[<<r, m>>]
    /\ \A m \in Markets : merged[m] <= amazon

Merges(r, m) == step[<<r, m>>] = "storing" /\ StoreCommits(r, m)

\* A step of the task of a marketplace merges its report, or nothing.
LEMMA MarketMerges ==
  ASSUME NEW r \in Runs, NEW m \in Markets, Market(r, m)
  PROVE  UNCHANGED <<table, merged, amazon>> \/ (Merges(r, m) /\ amazon' = amazon)
  BY DEF Market, AcquireMarket, FetchReport, NoReport, Store, MarketRaises, MarketCancelled,
         Abort, Merges, StoreCommits, catalog

\* The tasks stay as they are, or their runs are forgotten.
LEMMA RowsUntouched ==
  ASSUME Types, Rows, amazon' >= amazon, amazon' \in Nat, UNCHANGED <<merged>>,
         \A r \in Runs, m \in Markets :
            step'[<<r, m>>] = "none" \/
            (step'[<<r, m>>] = step[<<r, m>>] /\ report'[<<r, m>>] = report[<<r, m>>]
             /\ (rowLock[m] = r => rowLock'[m] = r))
  PROVE  Rows'
<1>1. /\ amazon \in Nat /\ \A m \in Markets : merged[m] \in Nat
      /\ \A r \in Runs, m \in Markets : report[<<r, m>>] \in Nat
  BY DEF Types, Shape, TypeOK, Versions
<1> QED
  BY <1>1 DEF Rows

LEMMA RowsMarket ==
  ASSUME Types, Rows, NEW r \in Runs, NEW m \in Markets, Market(r, m)
  PROVE  Rows'
<1>0. /\ amazon \in Nat /\ \A n \in Markets : merged[n] \in Nat
      /\ \A q \in Runs, n \in Markets : report[<<q, n>>] \in Nat
  BY DEF Types, Shape, TypeOK, Versions
<1>6. NoRun \notin Runs
  BY CatalogSyncAssumption
<1>1. CASE AcquireMarket(r, m)
  <2>1. \A q \in Runs, n \in Markets :
          step'[<<q, n>>] = (IF q = r /\ n = m THEN "fetching" ELSE step[<<q, n>>])
    BY <1>1 DEF AcquireMarket, Types, Shape, TypeOK
  <2>2. rowLock[m] = NoRun /\ \A n \in Markets : rowLock'[n] = (IF n = m THEN r ELSE rowLock[n])
    BY <1>1 DEF AcquireMarket, RowFree, Types, Shape, TypeOK
  <2>3. UNCHANGED <<report, merged, amazon>>
    BY <1>1 DEF AcquireMarket, catalog
  <2> QED
    BY <1>6, <2>1, <2>2, <2>3 DEF Rows
<1>2. CASE FetchReport(r, m)
  <2>1. \A q \in Runs, n \in Markets :
          /\ step'[<<q, n>>] = (IF q = r /\ n = m THEN "storing" ELSE step[<<q, n>>])
          /\ report'[<<q, n>>] = (IF q = r /\ n = m THEN amazon ELSE report[<<q, n>>])
    BY <1>2 DEF FetchReport, Types, Shape, TypeOK
  <2>2. UNCHANGED <<rowLock, merged, amazon>> /\ step[<<r, m>>] = "fetching" /\ 0 < amazon
    BY <1>2 DEF FetchReport, catalog, Types, Shape, Fetched
  <2> QED
    BY <1>0, <2>1, <2>2 DEF Rows
<1>3. CASE NoReport(r, m)
  <2>1. \A q \in Runs, n \in Markets :
          step'[<<q, n>>] = (IF q = r /\ n = m THEN "failed" ELSE step[<<q, n>>])
    BY <1>3 DEF NoReport, Types, Shape, TypeOK
  <2>2. step[<<r, m>>] = "fetching" /\ \A n \in Markets : n # m => rowLock'[n] = rowLock[n]
    BY <1>3 DEF NoReport, Types, Shape, TypeOK
  <2>3. UNCHANGED <<report, merged, amazon>>
    BY <1>3 DEF NoReport, catalog
  <2> QED
    BY <2>1, <2>2, <2>3 DEF Rows
<1>4. CASE Store(r, m)
  <2>1. \A q \in Runs, n \in Markets :
          step'[<<q, n>>] = (IF q = r /\ n = m THEN "completed" ELSE step[<<q, n>>])
    BY <1>4 DEF Store, Types, Shape, TypeOK
  <2>2. step[<<r, m>>] = "storing" /\ \A n \in Markets : n # m => rowLock'[n] = rowLock[n]
    BY <1>4 DEF Store, Types, Shape, TypeOK
  <2>3. /\ UNCHANGED <<report, amazon>>
        /\ \A n \in Markets : merged'[n] = (IF n = m THEN report[<<r, m>>] ELSE merged[n])
    BY <1>4 DEF Store, StoreCommits, Types, Shape, TypeOK
  <2>4. \A q \in Runs : q # r => step[<<q, m>>] \notin {"fetching", "storing"}
    BY <2>2 DEF Rows
  <2>5. merged[m] <= report[<<r, m>>] /\ 0 < report[<<r, m>>] /\ report[<<r, m>>] <= amazon
    BY <2>2 DEF Rows
  <2> QED
    BY <1>0, <2>1, <2>2, <2>3, <2>4, <2>5 DEF Rows
<1>5. CASE MarketRaises(r, m) \/ MarketCancelled(r, m)
  <2>1. \A q \in Runs, n \in Markets :
          step'[<<q, n>>] = (IF q = r /\ n = m THEN "cancelled" ELSE step[<<q, n>>])
    BY <1>5 DEF MarketRaises, MarketCancelled, Abort, Types, Shape, TypeOK
  <2>2. \A q \in Runs, n \in Markets : (q # r \/ n # m) /\ rowLock[n] = q => rowLock'[n] = q
    BY <1>5 DEF MarketRaises, MarketCancelled, Abort, Types, Shape, TypeOK
  <2>3. UNCHANGED <<report, amazon>>
    BY <1>5 DEF MarketRaises, MarketCancelled, Abort, StoreCommits, catalog
  <2>4. CASE merged' = merged
    BY <1>0, <2>1, <2>2, <2>3, <2>4 DEF Rows
  <2>5. CASE step[<<r, m>>] = "storing" /\ StoreCommits(r, m)
    <3>1. \A n \in Markets : merged'[n] = (IF n = m THEN report[<<r, m>>] ELSE merged[n])
      BY <2>5 DEF StoreCommits, Types, Shape, TypeOK
    <3>2. \A q \in Runs : q # r => step[<<q, m>>] \notin {"fetching", "storing"}
      BY <2>5 DEF Rows
    <3>3. merged[m] <= report[<<r, m>>] /\ 0 < report[<<r, m>>] /\ report[<<r, m>>] <= amazon
      BY <2>5 DEF Rows
    <3> QED
      BY <1>0, <2>1, <2>2, <2>3, <3>1, <3>2, <3>3 DEF Rows
  <2> QED
    BY <1>5, <2>4, <2>5 DEF MarketRaises, MarketCancelled, Abort, catalog
<1> QED
  BY <1>1, <1>2, <1>3, <1>4, <1>5 DEF Market

LEMMA RowsStep ==
  ASSUME Types, Rows, [Next]_vars
  PROVE  Rows'
<1>0. amazon \in Nat
  BY DEF Types, Shape, TypeOK, Versions
<1>1. CASE Tick \/ AmazonChanges \/ UNCHANGED vars
  BY <1>0, <1>1, RowsUntouched DEF Tick, AmazonChanges, vars, tasks, catalog
<1>2. CASE StartService
  <2>1. \A r \in Runs, m \in Markets :
          step'[<<r, m>>] = (IF r = Boot /\ m \in Markets THEN "waiting" ELSE step[<<r, m>>])
    BY <1>2 DEF StartService, Begin, Types, Shape, TypeOK
  <2>2. UNCHANGED <<report, rowLock, merged, amazon>>
    BY <1>2 DEF StartService, catalog
  <2> QED
    BY <2>1, <2>2 DEF Rows
<1>3. CASE ViewPage
  <2>1. PICK R : Forget(R)
    BY <1>3 DEF ViewPage
  <2>2. UNCHANGED <<rowLock, merged, amazon>>
    BY <1>3 DEF ViewPage, catalog
  <2> QED
    BY <1>0, <2>1, <2>2, Forgetting, RowsUntouched
<1>4. CASE Crash
  <2>1. Forget(WebRuns) /\ UNCHANGED <<merged, amazon>>
    BY <1>4 DEF Crash, catalog
  <2>2. \A r \in Runs, m \in Markets : r \notin WebRuns /\ rowLock[m] = r => rowLock'[m] = r
    BY <1>4 DEF Crash
  <2> QED
    BY <1>0, <2>1, <2>2, Forgetting, RowsUntouched
<1>5. ASSUME NEW r \in WebRuns, NEW u \in Users, NEW markets \in Scopes, Start(r, u, markets)
      PROVE  Rows'
  <2>1. \A q \in Runs, m \in Markets :
          step'[<<q, m>>] = (IF q = r /\ m \in markets THEN "waiting" ELSE step[<<q, m>>])
    BY <1>5 DEF Start, Begin, Types, Shape, TypeOK
  <2>2. UNCHANGED <<report, rowLock, merged, amazon>>
    BY <1>5 DEF Start, catalog
  <2> QED
    BY <2>1, <2>2 DEF Rows
<1>6. ASSUME NEW r \in Runs, Finish(r) \/ Fail(r)
      PROVE  Rows'
  <2>1. UNCHANGED <<rowLock, merged, amazon>>
    BY <1>6 DEF Finish, Fail, catalog
  <2>2. CASE r = Boot
    BY <1>0, <1>6, <2>1, <2>2, Forgetting, RowsUntouched DEF Finish, Fail
  <2>3. CASE r # Boot
    <3>1. /\ report' = report
          /\ \A q \in Runs, m \in Markets :
                step'[<<q, m>>] \in {step[<<q, m>>], "failed"}
      BY <1>6, <2>3 DEF Finish, Fail, tasks, Types, Shape, TypeOK
    <3> QED
      BY <2>1, <3>1 DEF Rows
  <2> QED
    BY <2>2, <2>3
<1>7. ASSUME NEW r \in Runs, Release(r)
      PROVE  Rows'
  <2>1. PICK R : Forget(R)
    BY <1>7 DEF Release
  <2>2. UNCHANGED <<rowLock, merged, amazon>>
    BY <1>7 DEF Release, catalog
  <2> QED
    BY <1>0, <2>1, <2>2, Forgetting, RowsUntouched
<1> QED
  BY <1>1, <1>2, <1>3, <1>4, <1>5, <1>6, <1>7, RowsMarket DEF Next, Advance

LEMMA RowsHold == Spec => [](Types /\ Rows)
<1>1. Init => Rows
  <2> SUFFICES ASSUME Init PROVE Rows
    OBVIOUS
  <2>1. \A r \in Runs, m \in Markets : step[<<r, m>>] = "none"
    BY DEF Init
  <2>2. amazon = 1 /\ \A m \in Markets : merged[m] = 0
    BY DEF Init
  <2> QED
    BY <2>1, <2>2 DEF Rows
<1>2. Types /\ Rows /\ [Next]_vars => Rows'
  BY RowsStep
<1> QED
  BY <1>1, <1>2, TypesHold, PTL DEF Spec

\* No sync puts an older report over a newer one, and no report blanks a text.
THEOREM NothingTakenBack == Spec => NothingIsTakenBack
<1> DEFINE Kept == \A m \in Markets :
                     /\ merged'[m] >= merged[m]
                     /\ \A k \in Skus : TextsSurvive(table[m][k], table'[m][k])
<1>1. ASSUME Types, Rows, [Next]_vars
      PROVE  Kept
  <2>0. \A m \in Markets : merged[m] \in Nat
    BY <1>1 DEF Types, Shape, TypeOK, Versions
  <2>1. CASE UNCHANGED <<table, merged>>
    BY <2>0, <2>1 DEF TextsSurvive
  <2>2. ASSUME NEW r \in Runs, NEW m \in Markets, Merges(r, m)
        PROVE  Kept
    <3> DEFINE v == report[<<r, m>>]
    <3>1. v \in 1..MaxVersion /\ merged[m] <= v
      BY <1>1, <2>2, CatalogSyncAssumption
         DEF Merges, Rows, Types, Shape, TypeOK, Fetched, Versions
    <3>2. \A n \in Markets : /\ merged'[n] = (IF n = m THEN v ELSE merged[n])
                             /\ table'[n] = (IF n = m THEN Upserted(m, v) ELSE table[n])
      BY <1>1, <2>2 DEF Merges, StoreCommits, Types, Shape, TypeOK
    <3> HIDE DEF v
    <3>3. ASSUME NEW k \in Skus
          PROVE  TextsSurvive(table[m][k], Upserted(m, v)[k])
      <4>1. CASE Reports[v][k] = NoRow \/ table[m][k] = NoRow
        BY <4>1 DEF Upserted, TextsSurvive
      <4>2. CASE Reports[v][k] # NoRow /\ table[m][k] # NoRow
        <5>1. Upserted(m, v)[k].texts = Merge(Reports[v][k], table[m][k].texts)
          BY <4>2 DEF Upserted
        <5> QED
          BY <5>1 DEF Merge, Keep, TextsSurvive
      <4> QED
        BY <4>1, <4>2
    <3> QED
      BY <2>0, <3>1, <3>2, <3>3 DEF TextsSurvive
  <2>3. CASE Tick \/ AmazonChanges \/ StartService \/ ViewPage \/ Crash \/ UNCHANGED vars
    BY <2>1, <2>3 DEF Tick, AmazonChanges, StartService, ViewPage, Crash, vars, catalog
  <2>4. ASSUME NEW r \in WebRuns, NEW u \in Users, NEW markets \in Scopes, Start(r, u, markets)
        PROVE  Kept
    BY <2>1, <2>4 DEF Start, catalog
  <2>5. ASSUME NEW r \in Runs, Advance(r)
        PROVE  Kept
    BY <2>1, <2>5 DEF Advance, Finish, Fail, Release, catalog
  <2> HIDE DEF Kept
  <2>6. ASSUME NEW r \in Runs, NEW m \in Markets, Market(r, m)
        PROVE  Kept
    BY <2>1, <2>2, <2>6, MarketMerges
  <2> QED
    BY <1>1, <2>3, <2>4, <2>5, <2>6 DEF Next
<1>2. Types /\ Rows /\ [Next]_vars => [Kept]_vars
  BY <1>1
<1> QED
  BY <1>2, RowsHold, PTL DEF Spec, NothingIsTakenBack

-----------------------------------------------------------------------------
\* Only a run that raised has a cancelled task, and what a completed run was to do is
\* what it has done.
Ends ==
    /\ \A r \in Runs : pc[r] = "unused" => \A m \in Markets : step[<<r, m>>] = "none"
    /\ \A r \in Runs : pc[r] = "running" => \A m \in Markets : step[<<r, m>>] # "cancelled"
    /\ \A r \in Runs : result[r] = "completed" =>
            /\ pc[r] \in {"releasing", "done"}
            /\ \A m \in Markets : step[<<r, m>>] \in {"none", "completed"}

LEMMA EndsForget ==
  ASSUME Types, Ends, NEW R, Forget(R),
         \A r \in Runs : r \notin R => pc'[r] = pc[r],
         \A r \in R : pc'[r] # "unused" \/ pc[r] = "unused"
  PROVE  Ends'
  BY Forgetting DEF Ends

LEMMA EndsStep ==
  ASSUME Types, Ends, [Next]_vars
  PROVE  Ends'
<1>0. Boot \in Runs /\ Boot \notin WebRuns /\ WebRuns \subseteq Runs
  BY CatalogSyncAssumption DEF Runs
<1>1. CASE Tick \/ AmazonChanges \/ UNCHANGED vars
  BY <1>1 DEF Tick, AmazonChanges, vars, manager, tasks, Ends
<1>2. ASSUME NEW r \in Runs, NEW markets \in SUBSET Markets, Begin(r, markets), pc[r] = "unused",
             \A q \in Runs : result'[q] = (IF q = r THEN result'[r] ELSE result[q]),
             result'[r] # "completed"
      PROVE  Ends'
  <2>1. \A q \in Runs, m \in Markets :
          step'[<<q, m>>] = (IF q = r /\ m \in markets THEN "waiting" ELSE step[<<q, m>>])
    BY <1>2 DEF Begin, Types, Shape, TypeOK
  <2>2. \A q \in Runs : pc'[q] = (IF q = r THEN "running" ELSE pc[q])
    BY <1>2 DEF Begin, Types, Shape, TypeOK
  <2> QED
    BY <1>2, <2>1, <2>2 DEF Ends
<1>3. CASE StartService
  BY <1>0, <1>2, <1>3 DEF StartService, Ends
<1>4. ASSUME NEW r \in WebRuns, NEW u \in Users, NEW markets \in Scopes, Start(r, u, markets)
      PROVE  Ends'
  <2>1. markets \in SUBSET Markets
    BY DEF Scopes
  <2>2. \A q \in Runs : result'[q] = (IF q = r THEN "running" ELSE result[q])
    BY <1>4 DEF Start, Types, Shape, TypeOK
  <2> QED
    BY <1>0, <1>2, <1>4, <2>1, <2>2 DEF Start
<1>5. CASE ViewPage
  <2>1. PICK R : Forget(R)
    BY <1>5 DEF ViewPage
  <2> QED
    BY <1>5, <2>1, EndsForget DEF ViewPage
<1>6. CASE Crash
  <2>1. Forget(WebRuns) /\ \A r \in Runs : pc'[r] \in {pc[r], "dead"} /\ (r \notin WebRuns => pc'[r] = pc[r])
    BY <1>6 DEF Crash, Types, Shape, TypeOK
  <2> QED
    BY <1>0, <2>1, EndsForget
<1>7. ASSUME NEW r \in Runs, NEW m \in Markets, Market(r, m)
      PROVE  Ends'
  <2>1. /\ result' = result /\ pc[r] \in {"running", "failing"}
        /\ \A q \in Runs : q # r => pc'[q] = pc[q]
        /\ pc'[r] \in {"running", "failing"}
        /\ pc'[r] = "running" => pc[r] = "running"
    BY <1>7 DEF Market, AcquireMarket, FetchReport, NoReport, Store, MarketRaises,
                MarketCancelled, manager, Types, Shape, TypeOK
  <2>2. \A q \in Runs, n \in Markets : q # r => step'[<<q, n>>] = step[<<q, n>>]
    BY <1>7 DEF Market, AcquireMarket, FetchReport, NoReport, Store, MarketRaises,
                MarketCancelled, Abort, Types, Shape, TypeOK
  <2>3. \A n \in Markets : pc'[r] = "running" =>
            step'[<<r, n>>] = step[<<r, n>>] \/ step'[<<r, n>>] # "cancelled"
    BY <1>7, <2>1 DEF Market, AcquireMarket, FetchReport, NoReport, Store, MarketRaises,
                MarketCancelled, Types, Shape, TypeOK
  <2> QED
    BY <2>1, <2>2, <2>3 DEF Ends
<1>8. ASSUME NEW r \in Runs, Finish(r)
      PROVE  Ends'
  <2>1. CASE r = Boot
    <3>1. Forget({Boot}) /\ \A q \in Runs : pc'[q] = (IF q = Boot THEN "done" ELSE pc[q])
      BY <1>8, <2>1 DEF Finish, Types, Shape, TypeOK
    <3> QED
      BY <1>0, <3>1, EndsForget
  <2>2. CASE r # Boot
    <3>1. /\ step' = step /\ pc[r] = "running"
          /\ \A q \in Runs : /\ pc'[q] = (IF q = r THEN "releasing" ELSE pc[q])
                             /\ result'[q] = (IF q = r THEN FinalResult(r) ELSE result[q])
      BY <1>8, <2>2 DEF Finish, tasks, Types, Shape, TypeOK
    <3>2. FinalResult(r) = "completed" =>
            \A m \in Markets : step[<<r, m>>] \in {"none", "completed"}
      BY <1>8, <3>1 DEF Finish, AllOver, Over, Scope, FinalResult, Ends
    <3> QED
      BY <3>1, <3>2 DEF Ends
  <2> QED
    BY <2>1, <2>2
<1>9. ASSUME NEW r \in Runs, Fail(r)
      PROVE  Ends'
  <2>1. CASE r = Boot
    <3>1. Forget({Boot}) /\ \A q \in Runs : pc'[q] = (IF q = Boot THEN "dead" ELSE pc[q])
      BY <1>9, <2>1 DEF Fail, Types, Shape, TypeOK
    <3> QED
      BY <1>0, <3>1, EndsForget
  <2>2. CASE r # Boot
    <3>1. \A q \in Runs : /\ pc'[q] = (IF q = r THEN "releasing" ELSE pc[q])
                          /\ result'[q] = (IF q = r THEN "failed" ELSE result[q])
      BY <1>9, <2>2 DEF Fail, Types, Shape, TypeOK
    <3>2. \A q \in Runs, m \in Markets : q # r => step'[<<q, m>>] = step[<<q, m>>]
      BY <1>9, <2>2 DEF Fail, Types, Shape, TypeOK
    <3> QED
      BY <3>1, <3>2 DEF Ends
  <2> QED
    BY <2>1, <2>2
<1>10. ASSUME NEW r \in Runs, Release(r)
       PROVE  Ends'
  <2>1. Forget(IF shown = r THEN {} ELSE {r}) /\ pc[r] = "releasing"
    BY <1>10 DEF Release
  <2>2. \A q \in Runs : pc'[q] = (IF q = r THEN "done" ELSE pc[q])
    BY <1>10 DEF Release, Types, Shape, TypeOK
  <2> QED
    BY <2>1, <2>2, Forgetting DEF Ends
<1> QED
  BY <1>1, <1>3, <1>4, <1>5, <1>6, <1>7, <1>8, <1>9, <1>10 DEF Next, Advance

\* What the page shows as completed is stored, for any number of runs and marketplaces
\* and any failures.
THEOREM CompletedIsStored == Spec => []CompletedMeansStored
<1>1. Init => Ends
  BY DEF Init, Ends
<1>2. Types /\ Ends /\ [Next]_vars => Ends'
  BY EndsStep
<1>3. Rows /\ Ends => CompletedMeansStored
  BY DEF Rows, Ends, CompletedMeansStored, Scope, Runs
<1> QED
  BY <1>1, <1>2, <1>3, RowsHold, PTL DEF Spec

-----------------------------------------------------------------------------
LEMMA SearchStep ==
  ASSUME Types, SearchLagsOnlyPartialReports, [Next]_vars
  PROVE  SearchLagsOnlyPartialReports'
<1>1. CASE UNCHANGED <<table, merged>>
  BY <1>1 DEF SearchLagsOnlyPartialReports
<1>2. ASSUME NEW r \in Runs, NEW m \in Markets, Merges(r, m)
      PROVE  SearchLagsOnlyPartialReports'
  <2> DEFINE v == report[<<r, m>>]
  <2>1. v \in 1..MaxVersion
    BY <1>2, CatalogSyncAssumption DEF Merges, Types, Shape, TypeOK, Fetched, Versions
  <2>2. \A n \in Markets : /\ merged'[n] = (IF n = m THEN v ELSE merged[n])
                           /\ table'[n] = (IF n = m THEN Upserted(m, v) ELSE table[n])
    BY <1>2 DEF Merges, StoreCommits, Types, Shape, TypeOK
  <2> HIDE DEF v
  <2>3. ASSUME NEW k \in Skus, Upserted(m, v)[k] # NoRow,
               (Reports[v][k].name = 0) = (Reports[v][k].desc = 0)
        PROVE  Upserted(m, v)[k].search = Upserted(m, v)[k].texts
    <3> DEFINE said == Reports[v][k]
               texts == IF table[m][k] = NoRow THEN said ELSE Merge(said, table[m][k].texts)
    <3>1. said # NoRow /\ Upserted(m, v)[k] = [texts |-> texts, search |-> SearchText(said, texts)]
      BY <2>3 DEF Upserted
    <3>2. said \in Texts
      BY <2>1, <3>1, CatalogSyncAssumption
    <3>3. CASE said.name = 0
      BY <2>3, <3>1, <3>3 DEF SearchText
    <3>4. CASE said.name # 0
      <4>1. said.desc # 0
        BY <2>3, <3>4
      <4>2. texts = said
        BY <3>2, <3>4, <4>1 DEF Merge, Keep, Texts
      <4> QED
        BY <3>1, <3>4, <4>1, <4>2 DEF SearchText
    <3> QED
      BY <3>3, <3>4
  <2> QED
    BY <2>2, <2>3 DEF SearchLagsOnlyPartialReports
<1>3. CASE Tick \/ AmazonChanges \/ StartService \/ ViewPage \/ Crash \/ UNCHANGED vars
  BY <1>1, <1>3 DEF Tick, AmazonChanges, StartService, ViewPage, Crash, vars, catalog
<1>4. ASSUME NEW r \in WebRuns, NEW u \in Users, NEW markets \in Scopes, Start(r, u, markets)
      PROVE  SearchLagsOnlyPartialReports'
  BY <1>1, <1>4 DEF Start, catalog
<1>5. ASSUME NEW r \in Runs, Advance(r)
      PROVE  SearchLagsOnlyPartialReports'
  BY <1>1, <1>5 DEF Advance, Finish, Fail, Release, catalog
<1>6. ASSUME NEW r \in Runs, NEW m \in Markets, Market(r, m)
      PROVE  SearchLagsOnlyPartialReports'
  BY <1>1, <1>2, <1>6, MarketMerges
<1> QED
  BY <1>3, <1>4, <1>5, <1>6 DEF Next

\* For any reports, the search looks at other texts than a listing's only after a report
\* that left one of them blank.
THEOREM SearchLags == Spec => []SearchLagsOnlyPartialReports
<1>1. Init => SearchLagsOnlyPartialReports
  BY DEF Init, SearchLagsOnlyPartialReports
<1>2. Types /\ SearchLagsOnlyPartialReports /\ [Next]_vars => SearchLagsOnlyPartialReports'
  BY SearchStep
<1> QED
  BY <1>1, <1>2, TypesHold, PTL DEF Spec
=============================================================================
