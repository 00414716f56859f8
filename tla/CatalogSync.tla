----------------------------- MODULE CatalogSync -----------------------------
(***************************************************************************)
(* Catalog synchronisation of one brand: runs that the web admin starts    *)
(* under the brand lock, the run that the service may do at its start      *)
(* without it, and their tasks, one per marketplace, each a transaction    *)
(* that takes the lock row of its marketplace, reads Amazon's report and   *)
(* merges it into merchant_listings.                                       *)
(*                                                                         *)
(* The lock row of a marketplace is deleted by the transaction that has    *)
(* inserted it: nobody ever sees it committed, whoever comes second waits  *)
(* for the first at the insert, and the outcome "skipped" does not occur.  *)
(* A lease is what is left of it.  A text is the version of the report it  *)
(* comes from, 0 if it is blank.                                           *)
(***************************************************************************)
EXTENDS Integers, FiniteSets

CONSTANTS
    MaxRuns,          \* bound: runs of CatalogSyncManager
    Boot,             \* the run of the service's start, started by init_ref_update
    Users,            \* superadmins
    Markets,          \* marketplaces of the EU
    Skus,
    Reports,          \* what a version of a report says of a listing: NoRow, or its texts
    NoRun, NoUser, NoRow,
    TTL,              \* CATALOG_SYNC_LOCK_TTL
    MaxVersion,       \* bound: versions of Amazon's catalog
    MaxFaults         \* bound: crashes, failed reports, statements and releases

WebRuns == 1..MaxRuns
Runs == WebRuns \cup {Boot}
Texts == [name : 0..MaxVersion, desc : 0..MaxVersion]

ASSUME CatalogSyncAssumption ==
    /\ MaxRuns \in Nat
    /\ Boot \notin WebRuns
    /\ NoRun \notin Runs
    /\ NoUser \notin Users
    /\ TTL \in Nat \ {0}
    /\ MaxVersion \in Nat \ {0}
    /\ MaxFaults \in Nat
    /\ NoRow \notin [texts : Texts, search : Texts]
    /\ Reports \in [1..MaxVersion -> [Skus -> {NoRow} \cup Texts]]

VARIABLES
    lock,         \* row "catalog_sync_brand:...": its holder and what is left of its lease
    shown,        \* CatalogSyncManager._states, NoRun for no entry
    pc,           \* where a run is
    user,         \* started_by
    left,         \* what is left of the lease that a run has taken
    result,       \* CatalogSyncRunState.status
    step,         \* where the task of a marketplace is, and MarketplaceProgress.status
    report,       \* the version of the report that it has read
    rowLock,      \* the run that holds the lock row of a marketplace
    amazon,       \* the version of Amazon's catalog
    table,        \* committed rows of merchant_listings of a marketplace
    merged,       \* the version of the report merged last
    outlasted,    \* users who had a run that ended after its lease
    faults

manager == <<shown, user, result>>
tasks == <<step, report>>
catalog == <<amazon, table, merged>>
vars == <<lock, shown, pc, user, left, result, step, report, rowLock, amazon,
          table, merged, outlasted, faults>>

NoLock == [holder |-> NoUser, left |-> 0]
Locks == [holder : Users, left : 0..TTL] \cup {NoLock}
Listings == [texts : Texts, search : Texts]
Versions == 0..MaxVersion
RunSteps == {"unused", "running", "failing", "releasing", "done", "dead"}
Over == {"completed", "failed", "cancelled"}
TaskSteps == {"none", "waiting", "fetching", "storing"} \cup Over

TypeOK ==
    /\ lock \in Locks
    /\ shown \in WebRuns \cup {NoRun}
    /\ pc \in [Runs -> RunSteps]
    /\ user \in [Runs -> Users \cup {NoUser}]
    /\ left \in [Runs -> 0..TTL]
    /\ result \in [Runs -> {"none", "running", "completed", "failed"}]
    /\ step \in [Runs \X Markets -> TaskSteps]
    /\ report \in [Runs \X Markets -> Versions]
    /\ rowLock \in [Markets -> Runs \cup {NoRun}]
    /\ amazon \in Versions
    /\ table \in [Markets -> [Skus -> Listings \cup {NoRow}]]
    /\ merged \in [Markets -> Versions]
    /\ outlasted \subseteq Users
    /\ faults \in 0..MaxFaults

Init ==
    /\ lock = NoLock
    /\ shown = NoRun
    /\ pc = [r \in Runs |-> "unused"]
    /\ user = [r \in Runs |-> NoUser]
    /\ left = [r \in Runs |-> 0]
    /\ result = [r \in Runs |-> "none"]
    /\ step = [k \in Runs \X Markets |-> "none"]
    /\ report = [k \in Runs \X Markets |-> 0]
    /\ rowLock = [m \in Markets |-> NoRun]
    /\ amazon = 1
    /\ table = [m \in Markets |-> [k \in Skus |-> NoRow]]
    /\ merged = [m \in Markets |-> 0]
    /\ outlasted = {}
    /\ faults = 0

Faulty == faults < MaxFaults /\ faults' = faults + 1

Tick ==
    /\ lock.left > 0 \/ \E r \in Runs : left[r] > 0
    /\ lock' = [lock EXCEPT !.left = IF @ > 0 THEN @ - 1 ELSE 0]
    /\ left' = [r \in Runs |-> IF left[r] > 0 THEN left[r] - 1 ELSE 0]
    /\ UNCHANGED <<manager, pc, tasks, rowLock, catalog, outlasted, faults>>

AmazonChanges ==
    /\ amazon < MaxVersion
    /\ amazon' = amazon + 1
    /\ UNCHANGED <<lock, manager, pc, left, tasks, rowLock, table, merged, outlasted, faults>>

----------------------------------------------------------------------------
\* CatalogSyncManager.start and its callers.

IsRunningNever == FALSE
IsRunning == shown # NoRun /\ result[shown] = "running"
Available == lock.left = 0
LeasedTooLong(u) == [holder |-> u, left |-> 2 * TTL]
Leased(u) == [holder |-> u, left |-> TTL]

\* The runs of R are garbage: nothing of the process refers to them.
Forget(R) ==
    /\ user' = [r \in Runs |-> IF r \in R THEN NoUser ELSE user[r]]
    /\ result' = [r \in Runs |-> IF r \in R THEN "none" ELSE result[r]]
    /\ step' = [k \in DOMAIN step |-> IF k[1] \in R THEN "none" ELSE step[k]]
    /\ report' = [k \in DOMAIN report |-> IF k[1] \in R THEN 0 ELSE report[k]]

\* The tasks of its marketplaces start in one round of the event loop: what is
\* "pending" when start() returns is "running" before anything else happens.
Begin(r, markets) ==
    /\ pc' = [pc EXCEPT ![r] = "running"]
    /\ step' = [k \in DOMAIN step |-> IF k[1] = r /\ k[2] \in markets THEN "waiting" ELSE step[k]]

\* start() holds its asyncio lock to the end.  It commits the brand lock, then makes
\* the state that is shown and the task: a crash in between is one right after.
Scopes == {Markets} \cup {{m} : m \in Markets}
Start(r, u, markets) ==
    /\ pc[r] = "unused"
    /\ \A q \in WebRuns : q < r => pc[q] # "unused"
    /\ ~IsRunning
    /\ Available
    /\ lock' = Leased(u)
    /\ left' = [left EXCEPT ![r] = TTL]
    /\ user' = [user EXCEPT ![r] = u]
    /\ Begin(r, markets)
    /\ shown' = r
    /\ result' = [result EXCEPT ![r] = "running"]
    /\ UNCHANGED <<report, rowLock, catalog, outlasted, faults>>

\* The service syncs a brand at its start, without the brand lock and the manager.
StartService ==
    /\ pc[Boot] = "unused"
    /\ Begin(Boot, Markets)
    /\ UNCHANGED <<lock, shown, user, left, result, report, rowLock, catalog, outlasted, faults>>

\* get_catalog shows a finished run and forgets it.
Finished == shown # NoRun /\ result[shown] # "running"
ViewPage ==
    /\ Finished
    /\ shown' = NoRun
    /\ Forget(IF pc[shown] = "done" THEN {shown} ELSE {})
    /\ UNCHANGED <<lock, pc, left, rowLock, catalog, outlasted, faults>>

----------------------------------------------------------------------------
\* _sync_single_marketplace in the task of a marketplace.

\* The insert of the lock row waits for a transaction that has inserted it.
RowFreeAlways(m) == TRUE
RowFree(m) == rowLock[m] = NoRun
AcquireMarket(r, m) ==
    /\ pc[r] = "running"
    /\ step[<<r, m>>] = "waiting"
    /\ RowFree(m)
    /\ rowLock' = [rowLock EXCEPT ![m] = r]
    /\ step' = [step EXCEPT ![<<r, m>>] = "fetching"]
    /\ UNCHANGED <<lock, manager, pc, left, report, catalog, outlasted, faults>>

\* The report arrives.  Without a listing, or if it cannot be had or validated,
\* the outcome is "failed", and the transaction ends.
FetchReport(r, m) ==
    /\ pc[r] = "running"
    /\ step[<<r, m>>] = "fetching"
    /\ \E k \in Skus : Reports[amazon][k] # NoRow
    /\ step' = [step EXCEPT ![<<r, m>>] = "storing"]
    /\ report' = [report EXCEPT ![<<r, m>>] = amazon]
    /\ UNCHANGED <<lock, manager, pc, left, rowLock, catalog, outlasted, faults>>

NoReport(r, m) ==
    /\ Faulty
    /\ pc[r] = "running"
    /\ step[<<r, m>>] = "fetching"
    /\ step' = [step EXCEPT ![<<r, m>>] = "failed"]
    /\ rowLock' = [rowLock EXCEPT ![m] = NoRun]
    /\ UNCHANGED <<lock, manager, pc, left, report, catalog, outlasted>>

\* _merge_text_field and _merge_optional_field; set_search_text has made the search
\* text of the report's texts alone, unless they are blank.
Keep(incoming, existing) == IF incoming # 0 THEN incoming ELSE existing
Merge(incoming, existing) ==
    [name |-> Keep(incoming.name, existing.name), desc |-> Keep(incoming.desc, existing.desc)]
SearchTextReported(incoming, texts) == incoming
SearchText(incoming, texts) ==
    IF incoming.name = 0 /\ incoming.desc = 0 THEN texts ELSE incoming

\* upsert_many: what the report does not list is deleted.
Upserted(m, v) ==
    [k \in Skus |->
        IF Reports[v][k] = NoRow THEN NoRow
        ELSE LET texts == IF table[m][k] = NoRow THEN Reports[v][k]
                          ELSE Merge(Reports[v][k], table[m][k].texts)
             IN  [texts |-> texts, search |-> SearchText(Reports[v][k], texts)]]

StoreCommits(r, m) ==
    /\ table' = [table EXCEPT ![m] = Upserted(m, report[<<r, m>>])]
    /\ merged' = [merged EXCEPT ![m] = report[<<r, m>>]]
    /\ UNCHANGED amazon

\* The transaction ends, and on_marketplace_complete tells the manager.
Store(r, m) ==
    /\ pc[r] = "running"
    /\ step[<<r, m>>] = "storing"
    /\ StoreCommits(r, m)
    /\ rowLock' = [rowLock EXCEPT ![m] = NoRun]
    /\ step' = [step EXCEPT ![<<r, m>>] = "completed"]
    /\ UNCHANGED <<lock, manager, pc, left, report, outlasted, faults>>

\* A statement or the commit fails: the release in the finally clause, or the end
\* of the transaction, raises, and the task group cancels the other tasks.  What
\* was being committed may have been, with nobody told.
Abort(r, m) ==
    /\ step' = [step EXCEPT ![<<r, m>>] = "cancelled"]
    /\ rowLock' = IF rowLock[m] = r THEN [rowLock EXCEPT ![m] = NoRun] ELSE rowLock
    /\ \/ step[<<r, m>>] = "storing" /\ StoreCommits(r, m)
       \/ UNCHANGED catalog

MarketRaises(r, m) ==
    /\ Faulty
    /\ pc[r] = "running"
    /\ step[<<r, m>>] \in {"waiting", "fetching", "storing"}
    /\ Abort(r, m)
    /\ pc' = [pc EXCEPT ![r] = "failing"]
    /\ UNCHANGED <<lock, manager, left, report, outlasted>>

MarketCancelled(r, m) ==
    /\ pc[r] = "failing"
    /\ step[<<r, m>>] \in {"waiting", "fetching", "storing"}
    /\ Abort(r, m)
    /\ UNCHANGED <<lock, manager, pc, left, report, outlasted, faults>>

----------------------------------------------------------------------------
\* The end of a run.

Scope(r) == {m \in Markets : step[<<r, m>>] # "none"}
AllOver(r) == \A m \in Scope(r) : step[<<r, m>>] \in Over

\* _finalize_state; the service's start looks at no outcome.
FinalResultNone(r) == "completed"
FinalResult(r) ==
    IF \E m \in Scope(r) : step[<<r, m>>] = "failed" THEN "failed" ELSE "completed"
Finish(r) ==
    /\ pc[r] = "running"
    /\ AllOver(r)
    /\ IF r = Boot
       THEN pc' = [pc EXCEPT ![r] = "done"] /\ Forget({r})
       ELSE /\ pc' = [pc EXCEPT ![r] = "releasing"]
            /\ result' = [result EXCEPT ![r] = FinalResult(r)]
            /\ UNCHANGED <<user, tasks>>
    /\ UNCHANGED <<lock, shown, left, rowLock, catalog, outlasted, faults>>

\* _fail_state; at the service's start the exception ends the process.
Fail(r) ==
    /\ pc[r] = "failing"
    /\ AllOver(r)
    /\ IF r = Boot
       THEN pc' = [pc EXCEPT ![r] = "dead"] /\ Forget({r})
       ELSE /\ pc' = [pc EXCEPT ![r] = "releasing"]
            /\ result' = [result EXCEPT ![r] = "failed"]
            /\ step' = [k \in DOMAIN step |->
                  IF k[1] = r /\ step[k] = "cancelled" THEN "failed" ELSE step[k]]
            /\ UNCHANGED <<user, report>>
    /\ UNCHANGED <<lock, shown, left, rowLock, catalog, outlasted, faults>>

\* _release_brand_lock deletes the row if the user's name is on it, or fails.
ReleasedAny(r) == NoLock
Released(r) == IF lock.holder = user[r] THEN NoLock ELSE lock
Release(r) ==
    /\ pc[r] = "releasing"
    /\ \/ lock' = Released(r) /\ UNCHANGED faults
       \/ UNCHANGED lock /\ Faulty
    /\ outlasted' = IF left[r] = 0 THEN outlasted \cup {user[r]} ELSE outlasted
    /\ left' = [left EXCEPT ![r] = 0]
    /\ pc' = [pc EXCEPT ![r] = "done"]
    /\ Forget(IF shown = r THEN {} ELSE {r})
    /\ UNCHANGED <<shown, rowLock, catalog>>

\* The web process dies: its transactions are rolled back and its memory is lost.
Active == {"running", "failing", "releasing"}
Crash ==
    LET lost == {r \in WebRuns : pc[r] \in Active} IN
    /\ lost # {}
    /\ Faulty
    /\ pc' = [r \in Runs |-> IF r \in lost THEN "dead" ELSE pc[r]]
    /\ left' = [r \in Runs |-> IF r \in lost THEN 0 ELSE left[r]]
    /\ shown' = NoRun
    /\ rowLock' = [m \in Markets |-> IF rowLock[m] \in lost THEN NoRun ELSE rowLock[m]]
    /\ Forget(WebRuns)
    /\ UNCHANGED <<lock, catalog, outlasted>>

Market(r, m) ==
    \/ AcquireMarket(r, m) \/ FetchReport(r, m) \/ NoReport(r, m) \/ Store(r, m)
    \/ MarketRaises(r, m) \/ MarketCancelled(r, m)
Advance(r) == Finish(r) \/ Fail(r) \/ Release(r)

Next ==
    \/ Tick \/ AmazonChanges \/ StartService \/ ViewPage \/ Crash
    \/ \E r \in WebRuns, u \in Users, markets \in Scopes : Start(r, u, markets)
    \/ \E r \in Runs : Advance(r)
    \/ \E r \in Runs, m \in Markets : Market(r, m)

Spec == Init /\ [][Next]_vars

----------------------------------------------------------------------------
Syncing(r) == pc[r] \in {"running", "failing"}

\* "Catalog sync is already running for this brand."  Two runs of the web admin
\* never sync a brand at once, whatever became of the brand lock: a lease that
\* has expired, or that another run of the same user has released.
OneSyncPerBrand == \A r, q \in WebRuns : Syncing(r) /\ Syncing(q) => r = q

\* While a run syncs within its lease the brand lock bears its user's name, unless
\* a run of the same user has outlasted its own lease and released this one's.
LeaseIsKept ==
    \A r \in WebRuns : Syncing(r) /\ left[r] > 0 /\ user[r] \notin outlasted => lock.holder = user[r]

\* The page never claims too much: a marketplace that a run shows as completed has
\* its report, or a later one, in the table; a run that is shown as completed has
\* that for all its marketplaces.
CompletedMeansStored ==
    \A r \in WebRuns :
        /\ \A m \in Markets :
            step[<<r, m>>] = "completed" => report[<<r, m>>] > 0 /\ merged[m] >= report[<<r, m>>]
        /\ result[r] = "completed" => \A m \in Scope(r) : step[<<r, m>>] = "completed"

\* A report that leaves a text blank, or fails, or is empty, erases no text of a
\* listing that stays listed.
TextsSurvive(old, new) ==
    old # NoRow /\ new # NoRow =>
        /\ old.texts.name # 0 => new.texts.name # 0
        /\ old.texts.desc # 0 => new.texts.desc # 0

\* No sync takes back what an earlier one has stored.  The lock row of the market-
\* place spans the report and its merge: of two runs that overlap (the service
\* starts while an admin syncs) the later never puts an older report over a newer
\* one, and no report blanks a text.
NothingIsTakenBack ==
    [][\A m \in Markets :
        /\ merged'[m] >= merged[m]
        /\ \A k \in Skus : TextsSurvive(table[m][k], table'[m][k])]_vars

\* What the search looks at differs from the texts of a listing only where the last
\* report left one of them blank and not the other.
SearchLagsOnlyPartialReports ==
    \A m \in Markets, k \in Skus :
        table[m][k] # NoRow =>
            LET said == Reports[merged[m]][k] IN
            (said.name = 0) = (said.desc = 0) => table[m][k].search = table[m][k].texts
=============================================================================
